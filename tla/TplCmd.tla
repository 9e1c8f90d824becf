------------------------------- MODULE TplCmd -------------------------------
(***************************************************************************)
(* Text commands over the control endpoint: a frame of 64 bytes goes out   *)
(* with AmlUsbTplCmd (UsbRomDrv.cpp) and the reply is fetched with         *)
(* AmlUsbReadStatus, tried a number of times.  tplcmd and tplstat          *)
(* (update.cpp) show the reply; skgsn and skssn read and write the serial  *)
(* number with two such commands each (aml_get_sn and aml_set_sn,          *)
(* scan.cpp), the first of which may fail.  The number is burned into a    *)
(* fuse: there is no second try.                                           *)
(***************************************************************************)
EXTENDS CtrlCmd

CONSTANTS TplRetries,   \* 5, status reads of tplcmd
          SnRetries,    \* 50, status reads of aml_send_command
          FrameMax,     \* 64, the bytes of a command that are sent
          CmdMax,       \* 125, the longest command aml_send_command takes
          LenMax        \* the longest command tried

ASSUME TplAssumption ==
    /\ TplRetries \in Nat \ {0} /\ SnRetries \in Nat \ {0}
    /\ FrameMax \in Nat \ {0} /\ CmdMax \in Nat /\ LenMax \in Nat \ {0}

TplCmds == {"tplcmd", "tplstat", "skgsn", "skssn"}

\* The commands that are sent: the user's, "efuse write version", "efuse read usid"
\* and "efuse write usid ...".
Requests == {"user", "version", "read", "write"}

\* A reply, by what the parser of scan.cpp tells apart: "success:(x)", "success"
\* without a value, anything else.
Texts == {"success:(x)", "success", "failed"}
Replies == [text : Texts, of : Requests \cup {"earlier"}]

\* What the reply buffer holds before anything is read into it.
NoReply == [text |-> "", of |-> "none"]

VARIABLES
    queue,    \* device: commands it has accepted and not finished
    answer,   \* device: its reply to the last command it finished, or NoReply
    early,    \* device: it answers a status request while at work, with its last reply
    keeps,    \* device: a new command does not cancel those at work
    fuse,     \* device: bytes of the write command it has burned
    burns,    \* history: write commands the device accepted
    cmdLen,   \* the length of "efuse write usid ..."
    step,     \* which of the two commands of aml_get_sn, aml_set_sn
    retry,    \* status reads left
    buf,      \* reply, usid, src: the reply buffer
    result    \* what aml_get_sn or aml_set_sn returned, or tplcmd: see Return

devvars == <<queue, answer, early, keeps, fuse, burns>>
tplvars == <<devvars, cmd, cmdLen, pc, step, retry, buf, result, short>>

TplInit ==
    /\ queue = <<>>
    /\ answer \in {NoReply} \cup [text : Texts, of : {"earlier"}]
    /\ early \in BOOLEAN /\ keeps \in BOOLEAN /\ fuse = 0 /\ burns = 0
    /\ cmd \in TplCmds /\ cmdLen \in 1 .. LenMax
    /\ pc = "start" /\ step = 1 /\ retry = 0 /\ buf = NoReply
    /\ result = "none" /\ short = FALSE

\* The end: "replied" and "failed" (957) of tplcmd and tplstat, the three results
\* of the serial number functions: a length, 0 and -1.
Return(r) ==
    /\ result' = r
    /\ pc' = "exit"

Results == {"none", "replied", "failed", "length", "0", "-1"}

SnCmd == cmd \in {"skgsn", "skssn"}

-----------------------------------------------------------------------------
\* The device finishes the oldest command.
Finish(text) ==
    /\ queue # <<>>
    /\ answer' = [text |-> text, of |-> Head(queue)]
    /\ fuse' = IF Head(queue) = "write" /\ text # "failed"
               THEN aml_min(cmdLen, FrameMax) ELSE fuse
    /\ queue' = Tail(queue)
    /\ UNCHANGED <<early, keeps, burns, cmd, cmdLen, pc, step, retry, buf, result, short>>

Device == \E text \in Texts : Finish(text)

\* A command arrives.
Accept(req) ==
    /\ queue' = IF keeps THEN Append(queue, req) ELSE <<req>>
    /\ burns' = IF req = "write" THEN burns + 1 ELSE burns
    /\ UNCHANGED <<answer, early, keeps, fuse>>

\* The device has something to say to a status request.
Answers == answer # NoReply /\ (early \/ queue = <<>>)

-----------------------------------------------------------------------------
\* The serial number functions look the board up again and ask who it is: no
\* board, no answer, or a boot stage other than 16 is -1.
Identified ==
    /\ pc = "start"
    /\ pc' = IF cmd = "tplstat" THEN "status" ELSE "send"
    /\ retry' = IF cmd = "tplstat" THEN 1 ELSE retry
    /\ UNCHANGED <<devvars, cmd, cmdLen, step, buf, result, short>>

IdentifyFail ==
    /\ pc = "start" /\ SnCmd
    /\ Return("-1")
    /\ UNCHANGED <<devvars, cmd, cmdLen, step, retry, buf, short>>

Request ==
    IF cmd = "tplcmd" THEN "user"
    ELSE IF step = 1 THEN "version"
    ELSE IF cmd = "skgsn" THEN "read" ELSE "write"

\* aml_send_command refuses what does not fit its buffer.
TooLong == Request = "write" /\ cmdLen > CmdMax

Retries == IF cmd = "tplcmd" THEN TplRetries ELSE SnRetries

Send ==
    /\ pc = "send" /\ ~TooLong
    /\ Accept(Request)
    /\ retry' = Retries
    /\ pc' = "status"
    /\ UNCHANGED <<cmd, cmdLen, step, buf, result, short>>

\* aml_send_command returns -1: the first of the two commands may fail.
SendCommandFailAnyStep ==
    IF SnCmd
    THEN (IF step = 1 THEN step' = 2 /\ pc' = "send" ELSE pc' = "parse" /\ UNCHANGED step)
         /\ UNCHANGED result
    ELSE Return("failed") /\ UNCHANGED step

SendCommandFail ==
    IF SnCmd /\ step = 1
    THEN step' = 2 /\ pc' = "send" /\ UNCHANGED result
    ELSE Return(IF SnCmd THEN "-1" ELSE "failed") /\ UNCHANGED step

\* The command fails, whether or not the device has got it.
SendFail ==
    /\ pc = "send"
    /\ (~TooLong /\ Accept(Request)) \/ UNCHANGED devvars
    /\ SendCommandFail
    /\ UNCHANGED <<cmd, cmdLen, retry, buf, short>>

-----------------------------------------------------------------------------
\* aml_send_command returns 0.
Replied ==
    IF ~SnCmd THEN Return("replied") /\ UNCHANGED step
    ELSE IF step = 1 THEN step' = 2 /\ pc' = "send" /\ UNCHANGED result
    ELSE pc' = "parse" /\ UNCHANGED <<step, result>>

Status ==
    /\ pc = "status" /\ Answers
    /\ buf' = answer
    /\ Replied
    /\ UNCHANGED <<devvars, cmd, cmdLen, retry, short>>

\* Any result that is not negative is a reply, also one of no bytes.
StatusEmpty ==
    /\ pc = "status" /\ Answers
    /\ short' = TRUE
    /\ Replied
    /\ UNCHANGED <<devvars, cmd, cmdLen, retry, buf>>

\* No answer: try again, while there are retries.
StatusFailResend ==
    /\ pc = "status"
    /\ retry' = retry - 1
    /\ IF retry' > 0
       THEN Accept(Request) /\ UNCHANGED <<pc, step, result>>
       ELSE SendCommandFail /\ UNCHANGED devvars
    /\ UNCHANGED <<cmd, cmdLen, buf, short>>

StatusFailOnceMore ==
    /\ pc = "status"
    /\ retry' = retry - 1
    /\ IF retry >= 0 THEN UNCHANGED <<pc, step, result>> ELSE SendCommandFail
    /\ UNCHANGED <<devvars, cmd, cmdLen, buf, short>>

StatusFail ==
    /\ pc = "status"
    /\ retry' = retry - 1
    /\ IF retry' > 0 THEN UNCHANGED <<pc, step, result>> ELSE SendCommandFail
    /\ UNCHANGED <<devvars, cmd, cmdLen, buf, short>>

\* sscanf takes the value in parentheses apart; its length is the result.
ParseNoVerdict ==
    /\ pc = "parse"
    /\ Return("length")
    /\ UNCHANGED <<devvars, cmd, cmdLen, step, retry, buf, short>>

Parse ==
    /\ pc = "parse"
    /\ Return(IF buf.text = "success:(x)" THEN "length" ELSE "0")
    /\ UNCHANGED <<devvars, cmd, cmdLen, step, retry, buf, short>>

-----------------------------------------------------------------------------
TplHost ==
    \/ Identified \/ IdentifyFail
    \/ Send \/ SendFail
    \/ Status \/ StatusEmpty \/ StatusFail
    \/ Parse

TplNext == TplHost \/ Device

TplSpec == TplInit /\ [][TplNext]_tplvars

-----------------------------------------------------------------------------
\* The values of the variables; pc is that of the command which is running.
TplTypeOK ==
    /\ queue \in Seq(Requests) /\ answer \in Replies \cup {NoReply}
    /\ early \in BOOLEAN /\ keeps \in BOOLEAN
    /\ fuse \in 0 .. FrameMax /\ burns \in Nat
    /\ cmdLen \in 1 .. LenMax
    /\ cmd \in TplCmds => pc \in {"start", "send", "status", "parse", "exit"}
    /\ step \in {1, 2} /\ retry \in 0 .. Retries
    /\ buf \in Replies \cup {NoReply}
    /\ result \in Results /\ short \in BOOLEAN

Reliable == ~early /\ ~short

\* With a device that is silent while it works, whatever it does with a command
\* that another one follows, the reply a command shows, or takes the serial number
\* or its verdict from, is the reply to that command: although the first of the
\* two may still be at work when the second is sent, and its reply come late.
ReplyIsOwn ==
    /\ Reliable /\ result = "length" => buf.of = (IF cmd = "skgsn" THEN "read" ELSE "write")
    /\ Reliable /\ result = "replied" /\ cmd = "tplcmd" => buf.of = "user"

\* "写此设备的SN成功" is printed only for a fuse that was burned; and the write
\* command is not repeated, however often the status is asked for: the device gets
\* it at most once in a run, be it a success or not.
SuccessMeansBurned ==
    /\ Reliable /\ cmd = "skssn" /\ result = "length" => fuse > 0
    /\ burns <= 1

=============================================================================
