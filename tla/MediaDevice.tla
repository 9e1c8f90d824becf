---------------------------- MODULE MediaDevice ----------------------------
(***************************************************************************)
(* The boot loader on the device, as far as the host can tell it apart: it *)
(* takes one request at a time (a 64 KiB chunk of a partition image, or a  *)
(* text command such as "download get_status"), works on it, and answers   *)
(* on the bulk IN endpoint with any number of busy messages and then one   *)
(* final message.  A message names the kind of request it answers, never   *)
(* the request.  All of it is external: what src/ shows of the device is   *)
(* how AmlWriteMedia and AmlUsbBulkCmd read these messages.                *)
(***************************************************************************)
EXTENDS Integers, Sequences

CONSTANT Chunks     \* the image has this many chunks of 64 KiB (the last may be shorter)

ASSUME ChunksAssumption == Chunks \in Nat \ {0}

Chunk == 0 .. Chunks - 1

\* What a place holds when it is not a chunk of the image.
Old == -1
Bad == -2

VARIABLES
    media,   \* the partition: at each place the chunk it holds, Old or Bad
    job,     \* the request the device works on, or NoJob
    pipe,    \* messages the host has not read yet
    keeps,   \* TRUE: the device finishes every request and answers it, however
             \* late; FALSE: a new command discards unfinished work and messages
    sent     \* requests the host has sent (history, tags messages)

devvars == <<media, job, pipe, keeps, sent>>

NoJob == [req |-> "none"]

Requests == [req : {"chunk", "get_status", "verify"}, at : Chunk, data : Chunk, id : Nat]

\* "Continue:32" and "Continue:34"; "OK!!" and "success"; anything else.
BusyText(r) == IF r = "chunk" THEN "Continue:32" ELSE "Continue:34"
GoodText(r) == IF r = "chunk" THEN "OK!!" ELSE "success"

Texts == {"Continue:32", "Continue:34", "OK!!", "success", "failed"}
Busy == {"Continue:32", "Continue:34"}

Message(text, id) == [text |-> text, of |-> id]

\* An earlier run that was interrupted may have left a message behind.  This is an
\* assumption: a host that gave up waiting twice leaves two, which are enough to
\* deceive the next run of an image of one chunk.
DevInit ==
    /\ media = [c \in Chunk |-> Old]
    /\ job = NoJob
    /\ keeps \in BOOLEAN
    /\ pipe \in {<<>>} \cup {<<Message(t, 0)>> : t \in Texts}
    /\ sent = 0

\* What working on job does to the partition: a good chunk is stored where its
\* command says, a bad one may have spoilt that place, a text command changes nothing.
MediaAfter(good) ==
    IF job.req # "chunk" THEN {media}
    ELSE IF good THEN {[media EXCEPT ![job.at] = job.data]}
    ELSE {media, [media EXCEPT ![job.at] = Bad]}

FinalMessage(good) == Message(IF good THEN GoodText(job.req) ELSE "failed", job.id)

\* The host reads at its own pace: one busy message at a time is waiting.
DevBusy ==
    /\ job # NoJob
    /\ pipe # <<>> => pipe[Len(pipe)].text \notin Busy
    /\ pipe' = Append(pipe, Message(BusyText(job.req), job.id))
    /\ UNCHANGED <<media, job, keeps, sent>>

DevAnswer(good) ==
    /\ job # NoJob
    /\ media' \in MediaAfter(good)
    /\ pipe' = Append(pipe, FinalMessage(good))
    /\ job' = NoJob
    /\ UNCHANGED <<keeps, sent>>

Device == DevBusy \/ \E good \in BOOLEAN : DevAnswer(good)

\* A command reaches the device while it may still be at work.
Interrupt ==
    \/ /\ job = NoJob
       /\ pipe' = IF keeps THEN pipe ELSE <<>>
       /\ UNCHANGED media
    \/ /\ job # NoJob /\ keeps
       /\ \E good \in BOOLEAN :
             media' \in MediaAfter(good) /\ pipe' = Append(pipe, FinalMessage(good))
    \/ /\ job # NoJob /\ ~keeps
       /\ media' \in MediaAfter(FALSE)
       /\ pipe' = <<>>

=============================================================================
