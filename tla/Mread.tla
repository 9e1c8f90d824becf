------------------------------- MODULE Mread -------------------------------
(***************************************************************************)
(* The commands mread and bulkcmd.  AmlUsbBulkCmd (UsbRomDrv.cpp) sends a  *)
(* text and polls for the reply; mread (update_sub_cmd_mread, update.cpp)  *)
(* has the device prepare an upload that way and then fetches it in chunks *)
(* of 64 KiB (ReadMediaFile, AmlReadMedia).  Replies and data come from    *)
(* the same bulk endpoint, and nothing in a packet says which it is.       *)
(* Lengths count packets of 512 bytes; a reply fills one packet or less.   *)
(***************************************************************************)
EXTENDS Integers, Sequences

CONSTANTS MaxSize,    \* the longest upload
          ChunkMax,   \* 0x10000 bytes: the longest chunk
          MaxPolls    \* polls that fit into the deadline of 20 minutes

ASSUME MreadAssumption ==
    MaxSize \in Nat \ {0} /\ ChunkMax \in Nat \ {0} /\ MaxPolls \in Nat \ {0}

Texts == {"Continue:34", "success", "failed"}

\* What a packet on the IN endpoint may be: a reply to a request of this run, or
\* of an earlier one, or the packet of the upload with that number.
Replies == [text : Texts, now : BOOLEAN, short : BOOLEAN]
Reply(t, n, s) == [text |-> t, now |-> n, short |-> s]
Data(k) == [data |-> k]
IsData(p) == DOMAIN p = {"data"}
IsShort(p) == ~IsData(p) /\ p.short

VARIABLES
    dev,      \* device: "idle", "command" (at work on a text) or "upload"
    next,     \* device: the packet of the upload it sends next
    pipe,     \* packets the host has not read yet
    keeps,    \* device: a new command does not discard the packets of an old one
    cmd,      \* "mread" or "bulkcmd"
    size,     \* what mread was asked for
    saving,   \* a file name was given
    remain,   \* size of ReadMediaFile: packets still to be read
    pc,       \* where the program is
    polls,    \* replies read so far
    bufferLen,   \* the chunk under way
    out,      \* the packets in the file
    ret,      \* what the command returned, 1 before
    unseen    \* history: mishaps the code has not looked at

devvars == <<dev, next, pipe, keeps>>
argvars == <<cmd, size, saving>>
vars == <<devvars, argvars, remain, pc, polls, bufferLen, out, ret, unseen>>

aml_min(m, n) == IF m < n THEN m ELSE n

\* An interrupted earlier run may have left a reply behind.
Init ==
    /\ dev = "idle" /\ next = 0 /\ keeps \in BOOLEAN
    /\ pipe \in {<<>>} \cup {<<r>> : r \in {x \in Replies : ~x.now}}
    /\ cmd \in {"mread", "bulkcmd"} /\ size \in 1 .. MaxSize /\ saving \in BOOLEAN
    /\ remain = 0 /\ pc = "start" /\ polls = 0 /\ bufferLen = 0
    /\ out = <<>> /\ ret = 1 /\ unseen = {}

Exit(code) ==
    /\ ret' = code
    /\ pc' = "exit"

-----------------------------------------------------------------------------
\* The device works on the text and answers it; a good answer to "upload" makes
\* it ready to send.
Answered(good, s) ==
    /\ pipe' = Append(pipe, Reply(IF good THEN "success" ELSE "failed", TRUE, s))
    /\ dev' = IF good /\ cmd = "mread" THEN "upload" ELSE "idle"

\* One busy reply at a time is waiting.
DevBusy(s) ==
    /\ dev = "command"
    /\ ~\E b \in BOOLEAN : pipe # <<>> /\ pipe[Len(pipe)] = Reply("Continue:34", TRUE, b)
    /\ pipe' = Append(pipe, Reply("Continue:34", TRUE, s))
    /\ UNCHANGED <<dev, next, keeps>>

DevAnswer(good, s) ==
    /\ dev = "command"
    /\ Answered(good, s)
    /\ UNCHANGED <<next, keeps>>

Device ==
    /\ \E s \in BOOLEAN : DevBusy(s) \/ \E good \in BOOLEAN : DevAnswer(good, s)
    /\ UNCHANGED <<argvars, remain, pc, polls, bufferLen, out, ret, unseen>>

\* A text command arrives.
AcceptText ==
    /\ dev' = "command" /\ next' = 0
    /\ pipe' = IF keeps THEN pipe ELSE <<>>
    /\ UNCHANGED keeps

\* The command that asks for n packets arrives: a device that is ready sends them,
\* or some of them; one still at work on the text answers that first.
AcceptRead(n) ==
    \/ /\ dev = "upload"
       /\ \E m \in 0 .. n :
             /\ pipe' = pipe \o [k \in 1 .. m |-> Data(next + k - 1)]
             /\ next' = next + m
       /\ UNCHANGED <<dev, keeps>>
    \/ /\ dev = "command"
       /\ \E good, s \in BOOLEAN : Answered(good, s)
       /\ UNCHANGED <<next, keeps>>
    \/ dev = "idle" /\ UNCHANGED devvars

-----------------------------------------------------------------------------
\* Too few arguments (964), or a size of 0 or another format than normal (977).
BadArgs ==
    /\ pc = "start" /\ cmd = "mread"
    /\ \E code \in {964, 977} : Exit(code)
    /\ UNCHANGED <<devvars, argvars, remain, polls, bufferLen, out, unseen>>

SendText ==
    /\ pc = "start"
    /\ AcceptText
    /\ polls' = 0
    /\ pc' = "poll"
    /\ UNCHANGED <<argvars, remain, bufferLen, out, ret, unseen>>

BulkCmdFailed == Exit(IF cmd = "mread" THEN 988 ELSE -1368)

SendTextFail ==
    /\ pc = "start"
    /\ AcceptText \/ UNCHANGED devvars
    /\ BulkCmdFailed
    /\ UNCHANGED <<argvars, remain, polls, bufferLen, out, unseen>>

\* One packet is read as a reply.
TakeReply ==
    /\ pc = "poll"
    /\ pipe # <<>>
    /\ pipe' = Tail(pipe)
    /\ UNCHANGED <<dev, next, keeps, argvars, bufferLen, out>>

PollBusyForever ==
    /\ TakeReply
    /\ ~IsData(Head(pipe)) /\ Head(pipe).text = "Continue:34"
    /\ UNCHANGED <<remain, pc, polls, ret, unseen>>

PollBusy ==
    /\ TakeReply
    /\ Head(pipe).text = "Continue:34"
    /\ polls' = polls + 1
    /\ polls' < MaxPolls
    /\ UNCHANGED <<remain, pc, ret, unseen>>

\* Another text, or still busy at the deadline.
PollRefused ==
    /\ TakeReply
    /\ Head(pipe).text # "success"
    /\ BulkCmdFailed
    /\ UNCHANGED <<remain, polls, unseen>>

\* The read fails, times out, or the reply is shorter than 11 bytes.
PollFail ==
    /\ pc = "poll"
    /\ BulkCmdFailed
    /\ UNCHANGED <<devvars, argvars, remain, polls, bufferLen, out, unseen>>

Accepted ==
    /\ unseen' = IF Head(pipe).now THEN unseen ELSE unseen \cup {"stale"}
    /\ IF cmd = "mread"
       THEN pc' = "ReadMediaFile" /\ UNCHANGED ret
       ELSE Exit(0)
    /\ UNCHANGED <<remain, polls>>

PollAnyAccepted ==
    /\ TakeReply
    /\ Head(pipe).text # "Continue:34"
    /\ Accepted

PollSuccess ==
    /\ TakeReply
    /\ Head(pipe).text = "success"
    /\ Accepted

-----------------------------------------------------------------------------
OpenFile ==
    /\ pc = "ReadMediaFile"
    /\ remain' = size
    /\ pc' = "chunk"
    /\ UNCHANGED <<devvars, argvars, polls, bufferLen, out, ret, unseen>>

OpenFileFail ==
    /\ pc = "ReadMediaFile" /\ saving
    /\ Exit(995)
    /\ UNCHANGED <<devvars, argvars, remain, polls, bufferLen, out, unseen>>

Chunk == aml_min(remain, ChunkMax)

\* AmlReadMedia asks for the chunk...
AskChunk ==
    /\ pc = "chunk" /\ remain # 0
    /\ AcceptRead(Chunk)
    /\ bufferLen' = Chunk
    /\ pc' = "read"
    /\ UNCHANGED <<argvars, remain, polls, out, ret, unseen>>

\* -5
AskChunkFail ==
    /\ pc = "chunk" /\ remain # 0
    /\ AcceptRead(Chunk) \/ UNCHANGED devvars
    /\ Exit(995)
    /\ UNCHANGED <<argvars, remain, polls, bufferLen, out, unseen>>

\* ... and reads it with one transfer, which ends with a short packet.
Received(n) ==
    /\ n <= Len(pipe)
    /\ \A k \in 1 .. n - 1 : ~IsShort(pipe[k])
    /\ pipe' = SubSeq(pipe, n + 1, Len(pipe))
    /\ UNCHANGED <<dev, next, keeps>>

\* fwrite appends the chunk, or as much of it as it can, unnoticed.
Save(n, m) ==
    /\ m = n \/ saving
    /\ out' = IF saving THEN out \o SubSeq(pipe, 1, m) ELSE out
    /\ unseen' = IF m < n THEN unseen \cup {"fwrite"} ELSE unseen

ReadChunkAnyLength(m) ==
    /\ pc = "read"
    /\ \E n \in 1 .. bufferLen : Received(n) /\ m <= n /\ Save(n, m)
    /\ remain' = remain - bufferLen
    /\ pc' = "chunk"
    /\ UNCHANGED <<argvars, polls, bufferLen, ret>>

ReadChunk(m) ==
    /\ pc = "read"
    /\ Received(bufferLen)
    /\ Save(bufferLen, m)
    /\ remain' = remain - bufferLen
    /\ pc' = "chunk"
    /\ UNCHANGED <<argvars, polls, bufferLen, ret>>

ReadChunkRetry ==
    /\ pc = "read"
    /\ \E n \in 0 .. bufferLen - 1 : Received(n)
    /\ pc' = "chunk"
    /\ UNCHANGED <<argvars, remain, polls, bufferLen, out, ret, unseen>>

\* -6 or -7: an error, or fewer bytes than the chunk has.
ReadChunkFail ==
    /\ pc = "read"
    /\ \E n \in 0 .. bufferLen : Received(n)
    /\ Exit(995)
    /\ UNCHANGED <<argvars, remain, polls, bufferLen, out, unseen>>

AllRead ==
    /\ pc = "chunk" /\ remain = 0
    /\ Exit(0)
    /\ UNCHANGED <<devvars, argvars, remain, polls, bufferLen, out, unseen>>

-----------------------------------------------------------------------------
Host ==
    \/ BadArgs \/ SendText \/ SendTextFail
    \/ PollBusy \/ PollRefused \/ PollFail \/ PollSuccess
    \/ OpenFile \/ OpenFileFail
    \/ AskChunk \/ AskChunkFail
    \/ \E m \in 0 .. bufferLen : ReadChunk(m)
    \/ ReadChunkFail \/ AllRead

Next == Host \/ Device

Spec == Init /\ [][Next]_vars

\* Every transfer has a timeout, so the host never waits for ever.
FairSpec == Spec /\ WF_vars(Host)

-----------------------------------------------------------------------------
\* The upload, packet by packet.
Upload == [k \in 1 .. size |-> Data(k - 1)]

\* An mread that returns 0 has written the upload and nothing else to its file,
\* unless fwrite came up short or the reply of an earlier run was taken for the
\* answer to "upload", neither of which the code can see.
SuccessMeansRead ==
    pc = "exit" /\ cmd = "mread" /\ ret = 0 /\ saving /\ unseen = {} => out = Upload

\* The packets of the upload in s have rising numbers, and every packet before one of
\* them is there.
Unbroken(s) ==
    \A k \in {n \in 1 .. Len(s) : IsData(s[n])} :
        /\ \A j \in 1 .. k - 1 : IsData(s[j]) => s[j].data < s[k].data
        /\ \A d \in 0 .. s[k].data - 1 : \E j \in 1 .. k - 1 : s[j] = Data(d)

\* Whatever else gets into the file, packets of the upload are never lost from its
\* middle, repeated or reordered: a late reply shifts the data by whole packets.
DataInOrder == "fwrite" \notin unseen => Unbroken(out)

\* With a device that discards what an earlier run left behind, the reply that
\* lets the command go on is the device's success for this very command.
AnsweredForItself ==
    ~keeps /\ (pc \in {"ReadMediaFile", "chunk", "read"} \/ (pc = "exit" /\ ret = 0)) =>
        unseen \subseteq {"fwrite"} /\ (cmd = "mread" => dev = "upload")

\* The command ends, whatever the device does or fails to do.
CommandEnds == <>(pc = "exit")

=============================================================================
