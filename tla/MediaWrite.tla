----------------------------- MODULE MediaWrite -----------------------------
(***************************************************************************)
(* WriteMediaFile (update.cpp) and AmlWriteMedia (UsbRomDrv.cpp): an image *)
(* is sent in chunks of 64 KiB, each with a command, one bulk transfer and *)
(* a poll for the device's verdict, tried up to three times.               *)
(***************************************************************************)
EXTENDS MediaDevice

CONSTANTS Attempts,   \* 3, attempts at a chunk
          MaxPolls    \* polls that fit into the deadline (12 and 20 minutes)

ASSUME MediaAssumption == Attempts \in Nat \ {0} /\ MaxPolls \in Nat \ {0}

VARIABLES
    pc,        \* where the program is
    addr,      \* number of the chunk: rom->address
    pos,       \* the chunk fread returns next
    remain,    \* chunks still to be sent
    buf,       \* the chunk in the buffer
    attempt,   \* addr of the loop in AmlWriteMedia
    polls,     \* messages read in the poll under way
    wret,      \* what WriteMediaFile returned, 1 before
    mixed      \* history: a final message was taken for the answer to another request

filevars == <<addr, pos, remain, buf, attempt, wret>>

MediaInit ==
    /\ addr = 0 /\ pos = 0 /\ remain = 0 /\ buf = 0
    /\ attempt = 0 /\ polls = 0 /\ wret = 1 /\ mixed = FALSE

\* WriteMediaFile opens the image again, or fails to.
OpenImage ==
    /\ pc = "WriteMediaFile"
    /\ addr' = 0 /\ pos' = 0 /\ remain' = Chunks
    /\ pc' = "chunk"
    /\ UNCHANGED <<devvars, buf, attempt, polls, wret, mixed>>

OpenImageFail ==
    /\ pc = "WriteMediaFile"
    /\ wret' = -1
    /\ pc' = "written"
    /\ UNCHANGED <<devvars, addr, pos, remain, buf, attempt, polls, mixed>>

\* fread fills the buffer with the next chunk.
ReadChunk ==
    /\ pc = "chunk" /\ remain # 0
    /\ buf' = pos
    /\ pos' = pos + 1
    /\ attempt' = 0
    /\ pc' = "command"
    /\ UNCHANGED <<devvars, addr, remain, polls, wret, mixed>>

\* A short fread or a failed AmlWriteMedia leaves the loop; so does its end.
LeaveLoop ==
    /\ wret' = IF remain = 0 THEN 0 ELSE -1
    /\ pc' = "written"
    /\ UNCHANGED <<addr, pos, remain, buf, attempt>>

ReadChunkFail ==
    /\ pc = "chunk" /\ remain # 0
    /\ LeaveLoop
    /\ UNCHANGED <<devvars, polls, mixed>>

AllSent ==
    /\ pc = "chunk" /\ remain = 0
    /\ LeaveLoop
    /\ UNCHANGED <<devvars, polls, mixed>>

-----------------------------------------------------------------------------
\* The device has seen the command of this attempt.
AcceptChunk ==
    /\ Interrupt
    /\ job' = NoJob
    /\ UNCHANGED <<keeps, sent>>

MediaCommandOk ==
    /\ pc = "command"
    /\ AcceptChunk
    /\ pc' = "data"
    /\ UNCHANGED <<filevars, polls, mixed>>

\* -6, and no other attempt.
MediaCommandFail ==
    /\ pc = "command"
    /\ AcceptChunk \/ UNCHANGED devvars
    /\ LeaveLoop
    /\ UNCHANGED <<polls, mixed>>

\* The data follows in one transfer, at the place the command named.
MediaDataOk ==
    /\ pc = "data"
    /\ sent' = sent + 1
    /\ job' = [req |-> "chunk", at |-> addr, data |-> buf, id |-> sent + 1]
    /\ polls' = 0
    /\ pc' = "poll"
    /\ UNCHANGED <<media, pipe, keeps, filevars, mixed>>

\* -7 or -799: an error or a short transfer, and no other attempt.  What the device
\* makes of the data no longer matters: the command ends without a poll.
MediaDataFail ==
    /\ pc = "data"
    /\ LeaveLoop
    /\ UNCHANGED <<devvars, polls, mixed>>

-----------------------------------------------------------------------------
\* The next message is taken off the pipe.
TakeMessageDrain ==
    /\ pipe # <<>>
    /\ pipe' = <<>>
    /\ polls' = polls + 1
    /\ UNCHANGED <<media, job, keeps, sent>>

TakeMessage ==
    /\ pipe # <<>>
    /\ pipe' = Tail(pipe)
    /\ polls' = polls + 1
    /\ UNCHANGED <<media, job, keeps, sent>>

\* Not the verdict: the chunk is sent again until the attempts are used up.
NextAttemptSkip ==
    /\ addr' = addr + 1 /\ remain' = remain - 1
    /\ pc' = "chunk"
    /\ UNCHANGED <<pos, buf, attempt, wret>>

NextAttemptForever ==
    attempt' = attempt + 1 /\ pc' = "command" /\ UNCHANGED <<addr, pos, remain, buf, wret>>

NextAttempt ==
    IF attempt + 1 < Attempts
    THEN attempt' = attempt + 1 /\ pc' = "command" /\ UNCHANGED <<addr, pos, remain, buf, wret>>
    ELSE LeaveLoop

\* Still busy: poll again after half a second, while the deadline allows it.
PollBusyForever ==
    /\ pc = "poll"
    /\ pipe # <<>> /\ Head(pipe).text = "Continue:32"
    /\ pipe' = Tail(pipe)
    /\ UNCHANGED <<media, job, keeps, sent, filevars, pc, polls, mixed>>

PollBusy ==
    /\ pc = "poll"
    /\ TakeMessage
    /\ Head(pipe).text = "Continue:32"
    /\ polls' < MaxPolls
    /\ UNCHANGED <<filevars, pc, mixed>>

\* The deadline passes while the last message read says busy.
PollDeadline ==
    /\ pc = "poll"
    /\ TakeMessage
    /\ Head(pipe).text = "Continue:32"
    /\ NextAttempt
    /\ UNCHANGED mixed

PollAnsweredUnread ==
    /\ pc = "poll"
    /\ TakeMessage
    /\ Head(pipe).text # "Continue:32"
    /\ mixed' = (mixed \/ Head(pipe).of # sent)
    /\ addr' = addr + 1 /\ remain' = remain - 1
    /\ pc' = "chunk"
    /\ UNCHANGED <<pos, buf, attempt, wret>>

PollAnswered ==
    /\ pc = "poll"
    /\ TakeMessage
    /\ Head(pipe).text # "Continue:32"
    /\ mixed' = (mixed \/ Head(pipe).of # sent)
    /\ IF Head(pipe).text = "OK!!"
       THEN /\ addr' = addr + 1
            /\ remain' = remain - 1
            /\ pc' = "chunk"
            /\ UNCHANGED <<pos, buf, attempt, wret>>
       ELSE NextAttempt

\* -811 or -816: the read fails, times out or returns fewer than 11 bytes.
PollFail ==
    /\ pc = "poll"
    /\ LeaveLoop
    /\ UNCHANGED <<devvars, polls, mixed>>

WriteMediaFile ==
    \/ OpenImage \/ OpenImageFail
    \/ ReadChunk \/ ReadChunkFail \/ AllSent
    \/ MediaCommandOk \/ MediaCommandFail
    \/ MediaDataOk \/ MediaDataFail
    \/ PollBusy \/ PollDeadline \/ PollAnswered \/ PollFail

=============================================================================
