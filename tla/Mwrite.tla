------------------------------- MODULE Mwrite -------------------------------
(***************************************************************************)
(* The mwrite and partition commands: do_cmd_mwrtie (update.cpp) announces *)
(* the image with a TPL command, sends it with WriteMediaFile, asks for    *)
(* the result with the bulk command "download get_status" and, given a     *)
(* verify file, has the device verify it.  AmlUsbBulkCmd (UsbRomDrv.cpp)   *)
(* polls for the answer like AmlWriteMedia does.                           *)
(***************************************************************************)
EXTENDS MediaWrite, FiniteSets

VARIABLES
    verifyFile,   \* the optional argument: "none", "file" or "missing"
    bulkcmd,      \* the bulk command under way
    ret,          \* what do_cmd_mwrtie returns, 1 before
    success       \* "[update]mwrite success" was printed

cmdvars == <<verifyFile, bulkcmd, ret, success>>
vars == <<devvars, filevars, pc, polls, mixed, cmdvars>>

Init ==
    /\ DevInit
    /\ MediaInit
    /\ pc = "start"
    /\ verifyFile \in {"none", "file", "missing"}
    /\ bulkcmd = "none"
    /\ ret = 1
    /\ success = FALSE

\* The end label.
Exit(code) ==
    /\ ret' = code
    /\ pc' = "exit"
    /\ UNCHANGED <<verifyFile, bulkcmd, success>>

\* The image cannot be opened (-236) or is empty (-103).
NoImage ==
    /\ pc = "start"
    /\ \E code \in {-236, -103} : Exit(code)
    /\ UNCHANGED <<devvars, filevars, polls, mixed>>

\* "download ..." is accepted.
TplCmdOk ==
    /\ pc = "start"
    /\ Interrupt
    /\ job' = NoJob
    /\ pc' = "status"
    /\ UNCHANGED <<keeps, sent, filevars, polls, mixed, cmdvars>>

\* The command fails, whether or not the device has seen it; ret is still 0.
TplCmdFail ==
    /\ pc = "start"
    /\ Exit(0)
    /\ UNCHANGED <<devvars, filevars, polls, mixed>>

\* One attempt at reading the status: "success", another text (-307) or no
\* answer (-300).
StatusOk ==
    /\ pc = "status"
    /\ pc' = "WriteMediaFile"
    /\ UNCHANGED <<devvars, filevars, polls, mixed, cmdvars>>

StatusFail ==
    /\ pc = "status"
    /\ \E code \in {-300, -307} : Exit(code)
    /\ UNCHANGED <<devvars, filevars, polls, mixed>>

\* The image is out: ask for the result, or give up.
Written ==
    /\ pc = "written" /\ wret = 0
    /\ bulkcmd' = "get_status"
    /\ pc' = "bulkcmd"
    /\ UNCHANGED <<devvars, filevars, polls, mixed, verifyFile, ret, success>>

WrittenFail ==
    /\ pc = "written" /\ wret # 0
    /\ Exit(-314)
    /\ UNCHANGED <<devvars, filevars, polls, mixed>>

-----------------------------------------------------------------------------
\* AmlUsbBulkCmd: the command is sent...
BulkCmdSend ==
    /\ pc = "bulkcmd"
    /\ Interrupt
    /\ sent' = sent + 1
    /\ job' = [req |-> bulkcmd, at |-> 0, data |-> 0, id |-> sent + 1]
    /\ polls' = 0
    /\ pc' = "bulkpoll"
    /\ UNCHANGED <<keeps, filevars, mixed, cmdvars>>

BulkCmdError == Exit(IF bulkcmd = "get_status" THEN -328 ELSE -354)

BulkCmdSendFail ==
    /\ pc = "bulkcmd"
    /\ BulkCmdError
    /\ UNCHANGED <<devvars, filevars, polls, mixed>>

\* ... and its answer polled for every three seconds.
BulkPollBusy ==
    /\ pc = "bulkpoll"
    /\ TakeMessage
    /\ Head(pipe).text = "Continue:34"
    /\ polls' < MaxPolls
    /\ UNCHANGED <<filevars, pc, mixed, cmdvars>>

\* The last message is still busy at the deadline, or the answer is not
\* "success".
BulkPollRefused ==
    /\ pc = "bulkpoll"
    /\ TakeMessage
    /\ Head(pipe).text # "success"
    /\ BulkCmdError
    /\ UNCHANGED <<filevars, mixed>>

\* A read error, a timeout or a reply of fewer than 11 bytes.
BulkPollFail ==
    /\ pc = "bulkpoll"
    /\ BulkCmdError
    /\ UNCHANGED <<devvars, filevars, polls, mixed>>

AnyReplySucceeds ==
    /\ pc = "bulkpoll"
    /\ TakeMessage
    /\ Head(pipe).text \notin Busy
    /\ mixed' = (mixed \/ Head(pipe).of # sent)
    /\ pc' = IF bulkcmd = "get_status" THEN "verify" ELSE "success"
    /\ UNCHANGED <<filevars, cmdvars>>

BulkPollSuccess ==
    /\ pc = "bulkpoll"
    /\ TakeMessage
    /\ Head(pipe).text = "success"
    /\ mixed' = (mixed \/ Head(pipe).of # sent)
    /\ pc' = IF bulkcmd = "get_status" THEN "verify" ELSE "success"
    /\ UNCHANGED <<filevars, cmdvars>>

-----------------------------------------------------------------------------
\* With a verify file its contents are sent to the device; one that cannot be
\* opened ends the command with ret still 0.
Verify ==
    /\ pc = "verify"
    /\ \/ verifyFile = "none" /\ pc' = "success" /\ UNCHANGED cmdvars
       \/ /\ verifyFile = "file"
          /\ bulkcmd' = "verify"
          /\ pc' = "bulkcmd"
          /\ UNCHANGED <<verifyFile, ret, success>>
       \/ verifyFile = "missing" /\ Exit(0)
    /\ UNCHANGED <<devvars, filevars, polls, mixed>>

Success ==
    /\ pc = "success"
    /\ ret' = 0
    /\ success' = TRUE
    /\ pc' = "exit"
    /\ UNCHANGED <<devvars, filevars, polls, mixed, verifyFile, bulkcmd>>

-----------------------------------------------------------------------------
Host ==
    \/ NoImage \/ TplCmdOk \/ TplCmdFail \/ StatusOk \/ StatusFail
    \/ WriteMediaFile /\ UNCHANGED cmdvars
    \/ Written \/ WrittenFail
    \/ BulkCmdSend \/ BulkCmdSendFail
    \/ BulkPollBusy \/ BulkPollRefused \/ BulkPollFail \/ BulkPollSuccess
    \/ Verify \/ Success

Next ==
    \/ Host
    \/ Device /\ UNCHANGED <<filevars, pc, polls, mixed, cmdvars>>

Spec == Init /\ [][Next]_vars

\* Every transfer has a timeout, so the host never waits for ever.
FairSpec == Spec /\ WF_vars(Host)

-----------------------------------------------------------------------------
HostStates ==
    {"start", "status", "WriteMediaFile", "chunk", "command", "data", "poll", "written",
     "bulkcmd", "bulkpoll", "verify", "success", "exit"}

\* The values of the variables: no chunk, attempt or poll beyond its limit.
TypeOK ==
    /\ media \in [Chunk -> Chunk \cup {Old, Bad}]
    /\ job \in Requests \cup {NoJob}
    /\ pipe \in Seq([text : Texts, of : Nat])
    /\ keeps \in BOOLEAN /\ sent \in Nat
    /\ pc \in HostStates
    /\ addr \in 0 .. Chunks /\ pos \in 0 .. Chunks /\ remain \in 0 .. Chunks
    /\ buf \in Chunk
    /\ attempt \in 0 .. Attempts - 1 /\ polls \in 0 .. MaxPolls
    /\ wret \in {1, 0, -1} /\ mixed \in BOOLEAN
    /\ verifyFile \in {"none", "file", "missing"}
    /\ bulkcmd \in {"none", "get_status", "verify"}
    /\ ret \in {1, 0, -103, -236, -300, -307, -314, -328, -354}
    /\ success \in BOOLEAN

Burned == \A c \in Chunk : media[c] = c

\* "mwrite success" is printed only when every chunk of the image is in its
\* place, for a device that answers every request late or early as for one that
\* forgets them, and with a message of an earlier run still in the pipe.  The
\* messages do not say which attempt they answer, so after a deadline the host
\* may read one message too late all along: the text of get_status's answer is
\* what keeps it from succeeding.  When it does succeed no final message was
\* taken for the answer to another request: chunks, get_status and verify were
\* each answered for themselves.
SuccessMeansBurned == success => Burned /\ ~mixed

\* WriteMediaFile's own 0 can be trusted only when no message is carried over
\* from one command to the next.
WrittenMeansStored == pc = "bulkcmd" /\ bulkcmd = "get_status" /\ ~keeps => Burned

IsFinal(m) == m.text \notin Busy
Finals(p) == {k \in 1 .. Len(p) : IsFinal(p[k])}

\* Final messages the host will find in the pipe beyond the one it waits for.
Behind ==
    Cardinality(Finals(pipe)) + (IF job = NoJob THEN 0 ELSE 1)
        - (IF pc \in {"poll", "bulkpoll"} THEN 1 ELSE 0)

\* A host that has fallen behind the device's answers never catches up before
\* it exits: no sequence of retries consumes two answers for one request.
NeverCatchesUp == [][keeps /\ pc # "exit" /\ pc' # "exit" => Behind' >= Behind]_vars

\* The promise to the user.
Abstract == INSTANCE BurnImage WITH
    outcome <- IF success THEN "burned" ELSE IF pc = "exit" THEN "failed" ELSE "none"

\* The command implements BurnImage: every chunk goes to its own place, a device
\* that forgets unfinished requests is led through the image in order and never
\* sent back, whatever was repeated, and after "mwrite success" no place of the
\* image is touched again.
ImplementsBurnImage == Abstract!Spec

\* The command ends, whatever the device does or fails to do.
CommandEnds == <>(pc = "exit")

\* "Burn a partition with a partition image": exit status 0 is given only for
\* an image that was burned and, when asked for, verified.
ExitZeroMeansBurned == pc = "exit" /\ ret = 0 => success

=============================================================================
