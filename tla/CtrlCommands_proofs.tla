------------------------ MODULE CtrlCommands_proofs ------------------------
(***************************************************************************)
(* Proofs about the commands over the control endpoint: the text commands  *)
(* (TplCmd), for every number of retries and every length, the chip        *)
(* commands (ChipCmd), for every page, identification, password length and *)
(* width of int, the memory commands (CtrlMem), for every memory, packet,  *)
(* piece and range, and the program they are part of.  What is proved of a *)
(* command on its own holds of the program that runs it: a step of the     *)
(* program is a step of the command of the user, and leaves the state of   *)
(* the others at rest.                                                     *)
(* Last of the community modules would reach a RECURSIVE operator: the     *)
(* newest command of the queue is written out.                             *)
(***************************************************************************)
EXTENDS CtrlCommands, Progress, TLAPS

-----------------------------------------------------------------------------
(* Text commands                                                           *)
-----------------------------------------------------------------------------

\* A status is asked for while there are retries.
RetryInv ==
    /\ pc = "status" => retry \in 1 .. Retries
    /\ pc = "parse" => step = 2 /\ SnCmd

\* The write command is the last one sent in a run.
BurnInv ==
    /\ burns \in {0, 1}
    /\ pc \in {"start", "send"} \/ step = 1 => burns = 0

\* While the program waits for a reply its own command is the newest of the queue,
\* or the one finished last.
QueueInv ==
    pc = "status" /\ cmd # "tplstat" =>
        \/ queue # <<>> /\ queue[Len(queue)] = Request
        \/ queue = <<>> /\ answer.of = Request

\* What has been read, with a device that does not answer early.
ReplyInv ==
    /\ pc # "exit" => result = "none"
    /\ Reliable /\ pc = "parse" => buf.of = Request
    /\ result = "length" => SnCmd /\ step = 2 /\ buf.text = "success:(x)"
    /\ result = "length" /\ Reliable => buf.of = Request
    /\ result = "replied" /\ cmd = "tplcmd" /\ Reliable => buf.of = Request

\* A write that was reported as done has burned the fuse.
FuseInv ==
    /\ answer.of = "write" /\ answer.text # "failed" => fuse > 0
    /\ buf.of = "write" /\ buf.text # "failed" => fuse > 0

\* The inductive invariant.
TplIInv == cmd \in TplCmds /\ TplTypeOK /\ RetryInv /\ BurnInv /\ QueueInv /\ ReplyInv /\ FuseInv

-----------------------------------------------------------------------------
\* Both kinds of command are given at least one status read.
LEMMA RetriesPositive == Retries \in Nat /\ Retries >= 1
BY TplAssumption DEF Retries

\* Before the first step the invariant holds.
LEMMA TplInitInv == TplInit => TplIInv
<1> SUFFICES ASSUME TplInit PROVE TplIInv
  OBVIOUS
<1>1. /\ answer \in Replies \cup {NoReply}
      /\ answer.of # "write"
  <2>1. CASE answer = NoReply
    BY <2>1 DEF NoReply
  <2>2. CASE answer \in [text : Texts, of : {"earlier"}]
    BY <2>2 DEF Replies
  <2> QED  BY <2>1, <2>2 DEF TplInit
<1>2. buf \in Replies \cup {NoReply} /\ buf.of # "write"
  BY DEF TplInit, NoReply
<1>3. TplTypeOK
  <2>1. 0 \in 0 .. Retries /\ 0 \in 0 .. FrameMax /\ <<>> \in Seq(Requests)
    BY TplAssumption, RetriesPositive
  <2> QED  BY <1>1, <1>2, <2>1 DEF TplInit, TplTypeOK, Results
<1>4. RetryInv /\ BurnInv /\ QueueInv /\ ReplyInv
  BY DEF TplInit, RetryInv, BurnInv, QueueInv, ReplyInv
<1> QED  BY <1>1, <1>2, <1>3, <1>4 DEF TplIInv, TplInit, FuseInv

\* The program has a command on its way: the queue, whatever the device keeps of it,
\* ends with it.
LEMMA AcceptInv ==
    ASSUME TplTypeOK, NEW req \in Requests, Accept(req)
    PROVE  /\ queue' \in Seq(Requests)
           /\ queue' # <<>> /\ queue'[Len(queue')] = req
           /\ burns' = IF req = "write" THEN burns + 1 ELSE burns
BY DEF Accept, TplTypeOK

\* A command is taken from the front of a queue of several: the newest stays.
LEMMA TailKeepsLast ==
    ASSUME NEW S, NEW q \in Seq(S), Len(q) > 1
    PROVE  Tail(q) # <<>> /\ Tail(q)[Len(Tail(q))] = q[Len(q)]
<1>1. Len(q) \in Nat /\ Len(Tail(q)) = Len(q) - 1
  OBVIOUS
<1>2. Tail(q)[Len(q) - 1] = q[Len(q)]
  BY <1>1
<1>3. Tail(q) # <<>>
  <2>1. \A n \in Nat : n > 1 => n - 1 # 0
    OBVIOUS
  <2>2. Len(Tail(q)) # 0
    BY ONLY <1>1, <2>1, Len(q) > 1
  <2>3. Len(<<>>) = 0
    OBVIOUS
  <2> QED  BY ONLY <2>2, <2>3
<1> QED  BY <1>1, <1>2, <1>3

\* The device finishes a command.
LEMMA FinishInv == ASSUME TplIInv, NEW text \in Texts, Finish(text) PROVE TplIInv'
<1>1. /\ queue \in Seq(Requests) /\ Len(queue) \in Nat /\ Len(queue) > 0
      /\ Head(queue) \in Requests /\ Tail(queue) \in Seq(Requests)
  BY DEF TplIInv, TplTypeOK, Finish
<1>2. /\ answer' = [text |-> text, of |-> Head(queue)]
      /\ queue' = Tail(queue)
      /\ UNCHANGED <<early, keeps, burns, cmd, cmdLen, pc, step, retry, buf, result, short>>
  BY DEF Finish
<1>3. fuse' \in 0 .. FrameMax /\ (fuse > 0 => fuse' > 0)
      /\ (Head(queue) = "write" /\ text # "failed" => fuse' > 0)
  BY TplAssumption DEF TplIInv, TplTypeOK, aml_min, Finish
<1>4. TplTypeOK'
  BY <1>1, <1>2, <1>3 DEF TplIInv, TplTypeOK, Replies, Retries
<1>5. RetryInv' /\ BurnInv' /\ ReplyInv'
  BY <1>2 DEF TplIInv, RetryInv, BurnInv, ReplyInv, Reliable, Retries, Request, SnCmd
<1>6. QueueInv'
  <2> SUFFICES ASSUME pc = "status", cmd # "tplstat"
               PROVE  \/ queue' # <<>> /\ queue'[Len(queue')] = Request
                      \/ queue' = <<>> /\ answer'.of = Request
    BY <1>2 DEF QueueInv, Request
  <2>1. queue[Len(queue)] = Request
    BY <1>1 DEF TplIInv, QueueInv
  <2>2. CASE Len(queue) = 1
    BY <2>1, <2>2, <1>1, <1>2
  <2>3. CASE Len(queue) > 1
    BY <2>1, <2>3, <1>1, <1>2, TailKeepsLast
  <2>4. \A n \in Nat : n > 0 => n = 1 \/ n > 1
    OBVIOUS
  <2> QED  BY ONLY <2>2, <2>3, <2>4, <1>1
<1>7. FuseInv'
  BY <1>2, <1>3 DEF TplIInv, FuseInv
<1> QED  BY <1>2, <1>4, <1>5, <1>6, <1>7 DEF TplIInv

\* aml_send_command sends a command.
LEMMA SendInv == ASSUME TplIInv, Send PROVE TplIInv'
<1> USE DEF Send
<1>1. Request \in Requests
  BY DEF Request, Requests
<1>2. /\ queue' \in Seq(Requests)
      /\ queue' # <<>> /\ queue'[Len(queue')] = Request
      /\ burns' = IF Request = "write" THEN burns + 1 ELSE burns
  BY <1>1, AcceptInv DEF TplIInv
<1>3. UNCHANGED <<answer, early, keeps, fuse>>
  BY DEF Accept
<1>4. TplTypeOK'
  BY <1>2, <1>3, RetriesPositive DEF TplIInv, TplTypeOK, Retries
<1>5. RetryInv'
  BY RetriesPositive DEF TplIInv, RetryInv, Retries, SnCmd
<1>6. BurnInv'
  BY <1>2 DEF TplIInv, BurnInv, TplTypeOK, Request
<1>7. QueueInv'
  BY <1>2 DEF QueueInv, Request
<1>8. ReplyInv' /\ FuseInv'
  BY <1>3 DEF TplIInv, ReplyInv, FuseInv, Reliable, Request, SnCmd
<1> QED  BY <1>4, <1>5, <1>6, <1>7, <1>8 DEF TplIInv

\* aml_send_command has failed: whatever the rest of the state is, the program goes
\* on to the second command or ends.
LEMMA SendFailInv == ASSUME TplIInv, SendFail PROVE TplIInv'
<1> USE DEF SendFail
<1>1. Request \in Requests
  BY DEF Request, Requests
<1>2. /\ queue' \in Seq(Requests)
      /\ burns' = burns \/ (Request = "write" /\ burns' = burns + 1)
      /\ UNCHANGED <<answer, early, keeps, fuse>>
  <2>1. CASE Accept(Request)
    BY <1>1, <2>1, AcceptInv DEF TplIInv, Accept
  <2>2. CASE UNCHANGED devvars
    BY <2>2 DEF devvars, TplIInv, TplTypeOK
  <2> QED  BY <2>1, <2>2
<1>3. TplTypeOK'
  BY <1>2 DEF TplIInv, BurnInv, TplTypeOK, Retries, SendCommandFail, Return, Results
<1>4. RetryInv'
  BY DEF RetryInv, SendCommandFail, Return
<1>5. BurnInv'
  BY <1>2 DEF TplIInv, BurnInv, TplTypeOK, Request, SendCommandFail, Return, SnCmd
<1>6. QueueInv'
  BY DEF QueueInv, SendCommandFail, Return
<1>7. ReplyInv' /\ FuseInv'
  BY <1>2 DEF TplIInv, TplTypeOK, ReplyInv, FuseInv, Reliable, Request, SnCmd, SendCommandFail, Return
<1> QED  BY <1>3, <1>4, <1>5, <1>6, <1>7 DEF TplIInv

\* A status read that fails leaves a retry, or ends the command.
LEMMA StatusFailInv == ASSUME TplIInv, StatusFail PROVE TplIInv'
<1> USE DEF StatusFail
<1>1. retry' = retry - 1 /\ retry \in 1 .. Retries
  BY DEF TplIInv, RetryInv
<1>2. TplTypeOK'
  BY <1>1, RetriesPositive
     DEF TplIInv, TplTypeOK, Retries, SendCommandFail, Return, Results, devvars
<1>3. RetryInv'
  BY <1>1, RetriesPositive DEF TplIInv, TplTypeOK, RetryInv, Retries, SnCmd, SendCommandFail, Return
<1>4. BurnInv'
  BY DEF TplIInv, TplTypeOK, BurnInv, SendCommandFail, Return, SnCmd, devvars
<1>5. QueueInv'
  BY DEF TplIInv, QueueInv, Request, SendCommandFail, Return, devvars
<1>6. ReplyInv' /\ FuseInv'
  BY DEF TplIInv, TplTypeOK, ReplyInv, FuseInv, Reliable, Request, SnCmd, SendCommandFail, Return, devvars
<1> QED  BY <1>2, <1>3, <1>4, <1>5, <1>6 DEF TplIInv

\* A status read that is answered: the reply is that of the newest command.
LEMMA StatusInv == ASSUME TplIInv, Status PROVE TplIInv'
<1> USE DEF Status
<1>1. buf' = answer /\ answer # NoReply /\ UNCHANGED devvars
  BY DEF Answers
<1>2. ~early => queue = <<>> /\ (cmd # "tplstat" => answer.of = Request)
  BY DEF TplIInv, QueueInv, Answers
<1>3. TplTypeOK'
  BY DEF TplIInv, TplTypeOK, Retries, Replied, Return, Results, devvars
<1>4. RetryInv' /\ BurnInv'
  BY DEF TplIInv, TplTypeOK, RetryInv, BurnInv, Replied, Return, SnCmd, devvars
<1>5. QueueInv'
  BY DEF QueueInv, Replied, Return
<1>6. ReplyInv'
  <2>1. result = "none"
    BY DEF TplIInv, ReplyInv
  <2> QED
    BY <1>1, <1>2, <2>1 DEF ReplyInv, Reliable, Request, SnCmd, Replied, Return, devvars
<1>7. FuseInv'
  BY <1>1 DEF TplIInv, FuseInv, devvars
<1> QED  BY <1>3, <1>4, <1>5, <1>6, <1>7 DEF TplIInv

\* A status read of no bytes: the reply buffer is that of before.
LEMMA StatusEmptyInv == ASSUME TplIInv, StatusEmpty PROVE TplIInv'
<1> USE DEF StatusEmpty
<1>1. TplTypeOK'
  BY DEF TplIInv, TplTypeOK, Retries, Replied, Return, Results, devvars
<1>2. RetryInv' /\ BurnInv'
  BY DEF TplIInv, TplTypeOK, RetryInv, BurnInv, Replied, Return, SnCmd, devvars
<1>3. QueueInv'
  BY DEF QueueInv, Replied, Return
<1>4. ReplyInv' /\ FuseInv'
  BY DEF TplIInv, TplTypeOK, ReplyInv, FuseInv, Reliable, Request, SnCmd, Replied, Return, devvars
<1> QED  BY <1>1, <1>2, <1>3, <1>4 DEF TplIInv

\* Every step preserves the invariant.
LEMMA TplNextInv == TplIInv /\ [TplNext]_tplvars => TplIInv'
<1> SUFFICES ASSUME TplIInv, [TplNext]_tplvars PROVE TplIInv'
  OBVIOUS
<1>1. CASE Identified
  <2>1. TplTypeOK' /\ RetryInv'
    BY <1>1, RetriesPositive DEF Identified, devvars, TplIInv, TplTypeOK, RetryInv, Retries
  <2> QED
    BY <1>1, <2>1 DEF Identified, devvars, TplIInv, TplTypeOK, BurnInv, QueueInv, ReplyInv, FuseInv,
                      Reliable, Request, SnCmd
<1>2. CASE IdentifyFail
  BY <1>2 DEF IdentifyFail, Return, devvars, Results, Retries, TplIInv, TplTypeOK, RetryInv, BurnInv,
              QueueInv, ReplyInv, FuseInv, Reliable, Request, SnCmd
<1>3. CASE Parse
  BY <1>3 DEF Parse, Return, devvars, Results, Retries, TplIInv, TplTypeOK, RetryInv, BurnInv,
              QueueInv, ReplyInv, FuseInv, Reliable, Request, SnCmd
<1>4. CASE UNCHANGED tplvars
  BY <1>4 DEF tplvars, devvars, Retries, TplIInv, TplTypeOK, RetryInv, BurnInv, QueueInv, ReplyInv,
              FuseInv, Reliable, Request, SnCmd
<1> QED
  BY <1>1, <1>2, <1>3, <1>4, FinishInv, SendInv, SendFailInv, StatusInv, StatusEmptyInv,
     StatusFailInv
     DEF TplNext, TplHost, Device

\* The invariant holds of every reachable state.
THEOREM TplInductiveInvariant == TplSpec => []TplIInv
<1>1. TplInit => TplIInv
  BY TplInitInv
<1>2. TplIInv /\ [TplNext]_tplvars => TplIInv'
  BY TplNextInv
<1> QED  BY <1>1, <1>2, PTL DEF TplSpec

\* The variables keep their types: no status read goes beyond the retries.
THEOREM TplTypeCorrect == TplSpec => []TplTypeOK
<1>1. TplIInv => TplTypeOK
  BY DEF TplIInv
<1> QED  BY <1>1, TplInductiveInvariant, PTL

-----------------------------------------------------------------------------
(* Chip commands                                                           *)
-----------------------------------------------------------------------------

\* Which command can be where; a command that has not ended has no result.
PlaceInv ==
    /\ pc \in {"stage", "page", "memory"} => cmd = "chipid"
    /\ pc = "save" => cmd = "chipinfo" /\ args.nBytes \in 0 .. PageLen
    /\ pc = "send" => cmd = "password"
    /\ pc # "exit" => ret = 1

\* As many passwords have gone through as the loop of the command has counted.
PasswordInv ==
    /\ pc = "start" => i = 0 /\ accepted = 0
    /\ pc = "send" => i \in {0, 1} /\ accepted = i

\* What chipid takes for version and stage, when nothing came up short.
IdInv ==
    /\ pc = "start" => ~short
    /\ pc = "stage" /\ ~short => idVer = version /\ id3 = stage
    /\ pc \in {"page", "memory"} /\ ~short => stage \in RomStage /\ Supported(version)
    /\ shown # -1 => pc = "exit"

\* The inductive invariant.
ChipIInv ==
    /\ cmd \in ChipCmds
    /\ ChipTypeOK /\ PlaceInv /\ PasswordInv /\ IdInv
    /\ ShownMeansSupported /\ PasswordZeroMeansTaken /\ SavedInPage

-----------------------------------------------------------------------------
\* What the assumption says of each constant.
LEMMA ConstantTypes ==
    /\ IdMax \in Nat /\ IdMax > 0 /\ PageLen \in Nat /\ PageLen > 0
    /\ PageAsked \in Nat /\ IdOffset \in Nat /\ ChipIdLen \in Nat /\ PwdMax \in Nat
    /\ IntMax \in Nat /\ PageLen <= IntMax /\ Numbers \subseteq Int
    /\ Versions \subseteq Nat /\ Stages \subseteq Nat
BY ChipAssumption

\* The numbers of a command are integers.
LEMMA ArgsInt ==
    ASSUME args \in Args
    PROVE  args.nBytes \in Int /\ args.startOffset \in Int
BY ConstantTypes DEF Args

\* Before the first step the invariant holds.
LEMMA ChipInitInv == ChipInit => ChipIInv
<1> SUFFICES ASSUME ChipInit PROVE ChipIInv
  OBVIOUS
<1>1. ChipTypeOK
  <2>1. ret \in ChipResults
    BY DEF ChipInit, ChipResults
  <2>2. accepted \in 0 .. 2 /\ i \in 0 .. 2 /\ left \in 0 .. PageLen /\ shown \in -1 .. ChipIdLen
    BY ConstantTypes DEF ChipInit
  <2>3. /\ version \in Versions /\ stage \in Stages /\ started \in BOOLEAN
        /\ cmd \in ChipCmds /\ args \in Args /\ short \in BOOLEAN
        /\ pc \in {"start", "stage", "page", "memory", "save", "send", "exit"}
        /\ idVer \in Versions \cup {-1} /\ id3 \in Stages \cup {-1}
    BY DEF ChipInit, ArgsOf
  <2> QED  BY <2>1, <2>2, <2>3 DEF ChipTypeOK
<1>2. PlaceInv /\ PasswordInv /\ IdInv
  BY DEF ChipInit, PlaceInv, PasswordInv, IdInv
<1>3. ShownMeansSupported /\ PasswordZeroMeansTaken
  BY DEF ChipInit, ShownMeansSupported, PasswordZeroMeansTaken
<1>4. SavedInPage
  <2>1. saved[1] = 0 /\ saved[2] = 0
    BY DEF ChipInit
  <2> QED  BY <2>1, ConstantTypes DEF SavedInPage
<1> QED  BY <1>1, <1>2, <1>3, <1>4 DEF ChipIInv, ChipInit

\* A range that the check lets pass lies in the page, if its sum does not overflow.
LEMMA RangeInPage ==
    ASSUME ChipTypeOK, NEW sum \in SumExceeds(args.startOffset, args.nBytes), ~RangeRefused(sum)
    PROVE  /\ args.nBytes \in 0 .. PageLen
           /\ args.startOffset \in Nat
           /\ args.startOffset + args.nBytes <= IntMax
                 => args.startOffset + args.nBytes <= PageLen
<1>1. args.nBytes \in Int /\ args.startOffset \in Int /\ PageLen \in Nat /\ IntMax \in Nat
  BY ConstantTypes, ArgsInt DEF ChipTypeOK
<1>2. ~(args.nBytes < 0) /\ ~(args.startOffset < 0) /\ ~sum /\ ~(args.nBytes > PageLen)
  BY Zenon DEF RangeRefused
<1>3. args.nBytes \in 0 .. PageLen /\ args.startOffset \in Nat
  BY ONLY <1>1, <1>2, SMT
<1>4. ASSUME args.startOffset + args.nBytes <= IntMax
      PROVE  args.startOffset + args.nBytes <= PageLen
  <2>1. ~(args.startOffset + args.nBytes > IntMax)
    BY <1>1, <1>4
  <2>2. sum \in {args.startOffset + args.nBytes > PageLen}
    BY <2>1, Zenon DEF SumExceeds
  <2>3. ~(args.startOffset + args.nBytes > PageLen)
    BY <1>2, <2>2, Zenon
  <2> QED  BY <1>1, <2>3
<1> QED  BY <1>3, <1>4

\* A command that ends leaves the device as it is, and its result is its own.
LEMMA Leaves ==
    ASSUME ChipIInv, pc' = "exit", ret' \in ChipResults, cmd = "password" => ret' # 0,
           UNCHANGED <<version, stage, accepted, cmd, args, i>>,
           started' \in BOOLEAN, short' \in BOOLEAN,
           idVer' \in Versions \cup {-1}, id3' \in Stages \cup {-1},
           shown' \in -1 .. ChipIdLen, left' \in 0 .. PageLen,
           ShownMeansSupported', SavedInPage'
    PROVE  ChipIInv'
<1>1. ChipTypeOK'
  BY DEF ChipIInv, ChipTypeOK, ChipResults
<1>2. PlaceInv' /\ PasswordInv' /\ IdInv'
  BY DEF PlaceInv, PasswordInv, IdInv
<1>3. PasswordZeroMeansTaken'
  BY DEF PasswordZeroMeansTaken
<1> QED  BY <1>1, <1>2, <1>3 DEF ChipIInv

\* A command that ends with an error: nothing but its result and its place changes.
LEMMA LeavesWithError ==
    ASSUME ChipIInv, pc' = "exit", ret' \in ChipResults, cmd = "password" => ret' # 0,
           UNCHANGED <<version, stage, accepted, started, cmd, args, idVer, id3, i, shown, saved,
                       left, short>>
    PROVE  ChipIInv'
<1>1. /\ started' \in BOOLEAN /\ short' \in BOOLEAN
      /\ idVer' \in Versions \cup {-1} /\ id3' \in Stages \cup {-1}
      /\ shown' \in -1 .. ChipIdLen /\ left' \in 0 .. PageLen
  BY DEF ChipIInv, ChipTypeOK
<1>2. ShownMeansSupported' /\ SavedInPage'
  BY DEF ChipIInv, ShownMeansSupported, SavedInPage
<1> QED  BY <1>1, <1>2, Leaves

\* A command that goes on keeps its result, 1, and what it has done to the board.
LEMMA GoesOn ==
    ASSUME ChipIInv, pc \in {"start", "stage"}, pc' \in {"stage", "page", "memory", "save", "send"},
           UNCHANGED <<version, stage, accepted, started, cmd, args, i, shown, left, ret>>,
           short' \in BOOLEAN,
           idVer' \in Versions \cup {-1}, id3' \in Stages \cup {-1},
           PlaceInv', IdInv', SavedInPage', pc' = "send" => pc = "start"
    PROVE  ChipIInv'
<1>1. ChipTypeOK'
  BY DEF ChipIInv, ChipTypeOK
<1>2. PasswordInv'
  BY DEF ChipIInv, PasswordInv
<1>3. shown = -1
  BY DEF ChipIInv, IdInv, ChipTypeOK
<1>4. ShownMeansSupported' /\ PasswordZeroMeansTaken'
  BY <1>3 DEF ChipIInv, ShownMeansSupported, PasswordZeroMeansTaken
<1> QED  BY <1>1, <1>2, <1>4 DEF ChipIInv

-----------------------------------------------------------------------------
\* The commands that ask the board who it is.
LEMMA IdentifyErrorInv ==
    ASSUME ChipIInv, IdentifyShort \/ IdentifyHostFail
    PROVE  ChipIInv'
<1>1. /\ pc' = "exit" /\ ret' \in {-855, -765, 774}
      /\ cmd # "password"
      /\ UNCHANGED <<version, stage, accepted, started, cmd, args, idVer, id3, i, shown, saved,
                     left, short>>
  BY DEF IdentifyShort, IdentifyHostFail, IdentifyResult, IdLen, Exit, Say, boardvars
<1>2. ret' \in ChipResults
  BY <1>1 DEF ChipResults
<1> QED  BY <1>1, <1>2, LeavesWithError

\* The answer to identify.
LEMMA IdentifiedInv ==
    ASSUME ChipIInv, NEW n \in 0 .. IdMax, IdentifyHost(n)
    PROVE  ChipIInv'
<1>1. n \in Nat /\ args.idLen \in 4 .. IdMax /\ IdMax \in Nat
  BY ConstantTypes DEF IdentifyHost, IdLen
<1>2. /\ pc = "start" /\ cmd \in {"identify", "chipid"}
      /\ short' = (n < args.idLen)
      /\ idVer' \in IF n >= 2 THEN {version} ELSE Versions
      /\ id3' \in IF n >= 4 THEN {stage} ELSE Stages
      /\ UNCHANGED <<version, stage, accepted, started, cmd, args, i, shown, saved, left>>
      /\ \/ pc' = "exit" /\ ret' \in {-855, -784}
         \/ pc' = "exit" /\ ret' = 0
         \/ cmd = "chipid" /\ pc' = "stage" /\ ret' = ret
  BY DEF IdentifyHost, IdLen, AllZero, IdentifyResult, Exit, Say, boardvars
<1>3. version \in Versions /\ stage \in Stages
  BY DEF ChipIInv, ChipTypeOK
<1>4. short' \in BOOLEAN /\ idVer' \in Versions \cup {-1} /\ id3' \in Stages \cup {-1}
  BY <1>2, <1>3
<1>5. ~short' => idVer' = version /\ id3' = stage
  <2>1. SUFFICES ASSUME ~short' PROVE idVer' = version /\ id3' = stage
    OBVIOUS
  <2>2. ~(n < args.idLen)
    BY <1>2, <2>1
  <2>3. n >= 2 /\ n >= 4
    BY ONLY <2>2, <1>1, SMT
  <2> QED  BY <1>2, <2>3
<1>6. shown' = -1 /\ ret = 1 /\ left' \in 0 .. PageLen /\ -1 \in -1 .. ChipIdLen
  BY <1>2, ConstantTypes DEF ChipIInv, ChipTypeOK, IdInv, PlaceInv
<1>7. ShownMeansSupported' /\ SavedInPage'
  BY <1>2, <1>6 DEF ChipIInv, ShownMeansSupported, SavedInPage
<1>8. CASE pc' = "exit"
  <2>1. ret' \in ChipResults /\ cmd # "password"
    BY <1>8, <1>2, <1>6 DEF ChipResults
  <2>2. started' \in BOOLEAN /\ shown' \in -1 .. ChipIdLen
    BY <1>2, <1>6 DEF ChipIInv, ChipTypeOK
  <2> QED  BY <1>2, <1>4, <1>6, <1>7, <1>8, <2>1, <2>2, Leaves
<1>9. CASE cmd = "chipid" /\ pc' = "stage" /\ ret' = ret
  <2>1. PlaceInv'
    BY <1>2, <1>6, <1>9 DEF PlaceInv
  <2>2. IdInv'
    <3>1. version' = version /\ stage' = stage
      BY <1>2
    <3> QED  BY <1>5, <1>6, <1>9, <3>1 DEF IdInv
  <2> QED  BY <1>2, <1>4, <1>7, <1>9, <2>1, <2>2, GoesOn
<1> QED  BY <1>2, <1>8, <1>9

-----------------------------------------------------------------------------
\* chipid looks at the version and the stage.
LEMMA ByMemoryInv ==
    ASSUME ChipIInv, ByMemory
    PROVE  ChipIInv'
<1>1. /\ pc = "stage" /\ cmd = "chipid"
      /\ UNCHANGED <<version, stage, accepted, started, cmd, args, idVer, id3, i, shown, saved,
                     left, short>>
      /\ \/ pc' = "exit" /\ ret' \in {-860, -900}
         \/ /\ id3 \in RomStage /\ Supported(idVer)
            /\ pc' \in {"page", "memory"} /\ ret' = ret
  BY DEF ByMemory, RomStage, Supported, Exit, Say, boardvars, ChipIInv, PlaceInv
<1>2. CASE pc' = "exit" /\ ret' \in {-860, -900}
  <2>1. ret' \in ChipResults
    BY <1>2 DEF ChipResults
  <2> QED  BY <1>1, <1>2, <2>1, LeavesWithError
<1>3. CASE /\ id3 \in RomStage /\ Supported(idVer)
           /\ pc' \in {"page", "memory"} /\ ret' = ret
  <2>1. PlaceInv' /\ SavedInPage'
    BY <1>1, <1>3 DEF ChipIInv, PlaceInv, SavedInPage
  <2>2. IdInv'
    <3>1. shown' = -1 /\ (~short => idVer = version /\ id3 = stage)
      BY <1>1 DEF ChipIInv, IdInv, ChipTypeOK
    <3> QED  BY <1>1, <1>3, <3>1 DEF IdInv
  <2>3. short' \in BOOLEAN /\ idVer' \in Versions \cup {-1} /\ id3' \in Stages \cup {-1}
    BY <1>1 DEF ChipIInv, ChipTypeOK
  <2> QED  BY <1>1, <1>3, <2>1, <2>2, <2>3, GoesOn
<1> QED  BY <1>1, <1>2, <1>3

\* chipid fails to read the memory of the id.
LEMMA ReadIdFailInv ==
    ASSUME ChipIInv, ReadIdFail
    PROVE  ChipIInv'
<1>1. /\ pc' = "exit" /\ ret' = -908 /\ cmd = "chipid"
      /\ UNCHANGED <<version, stage, accepted, started, cmd, args, idVer, id3, i, shown, saved,
                     left, short>>
  BY DEF ReadIdFail, Exit, Say, boardvars, ChipIInv, PlaceInv
<1>2. ret' \in ChipResults
  BY <1>1 DEF ChipResults
<1> QED  BY <1>1, <1>2, LeavesWithError

\* chipid prints what it has read, in either way.
LEMMA ShowInv ==
    ASSUME ChipIInv, \/ \E n \in 0 .. ChipIdLen : ReadId(n)
                 \/ \E n \in 0 .. PageAsked : ReadPage(n)
    PROVE  ChipIInv'
<1>1. /\ pc \in {"page", "memory"} /\ cmd = "chipid" /\ pc' = "exit" /\ ret' = 0
      /\ UNCHANGED <<version, stage, accepted, started, cmd, args, idVer, id3, i, saved, left>>
  BY DEF ReadId, ReadPage, Exit, Say, boardvars, ChipIInv, PlaceInv
<1>2. shown' \in 0 .. ChipIdLen /\ short' \in BOOLEAN /\ (short => short')
  <2>1. CASE \E n \in 0 .. ChipIdLen : ReadId(n)
    BY <2>1 DEF ReadId, ChipIInv, ChipTypeOK
  <2>2. CASE \E n \in 0 .. PageAsked : ReadPage(n)
    <3>1. PICK n \in 0 .. PageAsked : ReadPage(n)
      BY <2>2
    <3>2. aml_max(0, aml_min(n - IdOffset, ChipIdLen)) \in 0 .. ChipIdLen
      <4>1. n - IdOffset \in Int /\ ChipIdLen \in Nat
        BY ConstantTypes
      <4>2. \A a \in Int, c \in Nat : aml_max(0, aml_min(a, c)) \in 0 .. c
        BY ONLY SMT DEF aml_max, aml_min
      <4> QED  BY <4>1, <4>2
    <3> QED  BY <3>1, <3>2 DEF ReadPage, ChipIInv, ChipTypeOK
  <2> QED  BY <2>1, <2>2
<1>3. /\ started' \in BOOLEAN /\ left' \in 0 .. PageLen
      /\ idVer' \in Versions \cup {-1} /\ id3' \in Stages \cup {-1}
  BY <1>1 DEF ChipIInv, ChipTypeOK
<1>4. shown' \in -1 .. ChipIdLen /\ ret' \in ChipResults
  BY <1>1, <1>2, ConstantTypes DEF ChipResults
<1>5. ShownMeansSupported'
  BY <1>1, <1>2 DEF ChipIInv, IdInv, ShownMeansSupported
<1>6. SavedInPage'
  BY <1>1 DEF ChipIInv, SavedInPage
<1> QED  BY <1>1, <1>2, <1>3, <1>4, <1>5, <1>6, Leaves

-----------------------------------------------------------------------------
\* chipinfo fails.
LEMMA ChipinfoErrorInv ==
    ASSUME ChipIInv, ChipinfoRefuse \/ ChipinfoFail \/ OpenFail
    PROVE  ChipIInv'
<1>1. /\ pc' = "exit" /\ ret' \in {-527, -538, -548} /\ cmd = "chipinfo"
      /\ UNCHANGED <<version, stage, accepted, started, cmd, args, idVer, id3, i, shown, saved,
                     left, short>>
  BY DEF ChipinfoRefuse, ChipinfoFail, OpenFail, Exit, Say, boardvars, ChipIInv, PlaceInv
<1>2. ret' \in ChipResults
  BY <1>1 DEF ChipResults
<1> QED  BY <1>1, <1>2, LeavesWithError

\* chipinfo writes its file.
LEMMA SaveInv ==
    ASSUME ChipIInv, SaveFail \/ Save
    PROVE  ChipIInv'
<1>1. /\ pc' = "exit" /\ ret' \in {-554, 0} /\ cmd = "chipinfo"
      /\ left' \in 0 .. args.nBytes \/ left' \in 0 .. args.nBytes - 1
      /\ UNCHANGED <<version, stage, accepted, started, cmd, args, idVer, id3, i, shown, saved,
                     short>>
  BY DEF SaveFail, Save, Exit, Say, boardvars, ChipIInv, PlaceInv
<1>2. left' \in 0 .. PageLen
  <2>1. args.nBytes \in 0 .. PageLen
    BY DEF SaveFail, Save, ChipIInv, PlaceInv
  <2> QED  BY ONLY <1>1, <2>1, ConstantTypes
<1>3. /\ started' \in BOOLEAN /\ short' \in BOOLEAN /\ shown' \in -1 .. ChipIdLen
      /\ idVer' \in Versions \cup {-1} /\ id3' \in Stages \cup {-1}
  BY <1>1 DEF ChipIInv, ChipTypeOK
<1>4. ret' \in ChipResults /\ cmd # "password"
  BY <1>1 DEF ChipResults
<1>5. ShownMeansSupported' /\ SavedInPage'
  BY <1>1 DEF ChipIInv, ShownMeansSupported, SavedInPage
<1> QED  BY <1>1, <1>2, <1>3, <1>4, <1>5, Leaves

\* chipinfo has its page.
LEMMA PageInv ==
    ASSUME ChipIInv, NEW f \in BOOLEAN, ChipinfoPage(f)
    PROVE  ChipIInv'
<1>1. PICK sum \in SumExceeds(args.startOffset, args.nBytes) : ~RangeRefused(sum)
  BY DEF ChipinfoPage
<1>2. /\ pc = "start" /\ cmd = "chipinfo"
      /\ saved' = <<args.startOffset, args.startOffset + args.nBytes>>
      /\ \/ pc' = "save" /\ ret' = ret
         \/ pc' = "exit" /\ ret' = PageLen
      /\ UNCHANGED <<version, stage, accepted, started, cmd, args, idVer, id3, i, shown, left,
                     short>>
  <2>1. CASE f
    BY <2>1, Zenon DEF ChipinfoPage, boardvars
  <2>2. CASE ~f
    BY <2>2, ZenonT(40) DEF ChipinfoPage, Exit, boardvars
  <2> QED  BY <2>1, <2>2
<1>3. /\ args.nBytes \in 0 .. PageLen
      /\ args.startOffset \in Nat
      /\ args.startOffset + args.nBytes <= IntMax
            => args.startOffset + args.nBytes <= PageLen
  BY <1>1, RangeInPage DEF ChipIInv
<1>4. SavedInPage'
  <2>1. saved'[1] = args.startOffset /\ saved'[2] = args.startOffset + args.nBytes
    BY <1>2
  <2>2. args' = args
    BY <1>2
  <2> QED  BY <1>3, <2>1, <2>2, ConstantTypes DEF SavedInPage
<1>5. /\ started' \in BOOLEAN /\ short' \in BOOLEAN /\ shown' \in -1 .. ChipIdLen
      /\ idVer' \in Versions \cup {-1} /\ id3' \in Stages \cup {-1}
      /\ left' \in 0 .. PageLen
  BY <1>2 DEF ChipIInv, ChipTypeOK
<1>6. CASE pc' = "save" /\ ret' = ret
  <2>1. PlaceInv'
    BY <1>2, <1>3, <1>6 DEF ChipIInv, PlaceInv
  <2>2. IdInv'
    BY <1>2, <1>6 DEF ChipIInv, IdInv
  <2> QED  BY <1>2, <1>4, <1>5, <1>6, <2>1, <2>2, GoesOn
<1>7. CASE pc' = "exit" /\ ret' = PageLen
  <2>1. ShownMeansSupported'
    BY <1>2 DEF ChipIInv, ShownMeansSupported
  <2>2. ret' \in ChipResults
    BY <1>7 DEF ChipResults
  <2> QED  BY <1>2, <1>4, <1>5, <1>7, <2>1, <2>2, Leaves
<1> QED  BY <1>2, <1>6, <1>7

-----------------------------------------------------------------------------
\* password sends, or fails to.
LEMMA PasswordSendInv ==
    ASSUME ChipIInv, PasswordSent \/ PasswordFail
    PROVE  ChipIInv'
<1>1. /\ pc = "send" /\ cmd = "password" /\ i \in {0, 1} /\ accepted = i /\ ret = 1
  BY DEF PasswordSent, PasswordFail, ChipIInv, PlaceInv, PasswordInv
<1>2. /\ i' = i + 1 /\ accepted' \in {accepted, accepted + 1}
      /\ UNCHANGED <<version, stage, started, cmd, args, idVer, id3, shown, saved, left, short>>
      /\ \/ pc' = "exit" /\ ret' = -110
         \/ accepted' = accepted + 1 /\ i' > 1 /\ pc' = "exit" /\ ret' = 0
         \/ accepted' = accepted + 1 /\ ~(i' > 1) /\ pc' = pc /\ ret' = ret
  BY DEF PasswordSent, PasswordFail, Exit
<1>3. i' \in 0 .. 2 /\ accepted' \in 0 .. 2
  BY ONLY <1>1, <1>2, SMT
<1>4. \/ pc' = "exit" /\ ret' = -110
      \/ accepted' = 2 /\ pc' = "exit" /\ ret' = 0
      \/ accepted' = 1 /\ i' = 1 /\ pc' = "send" /\ ret' = 1
  BY ONLY <1>1, <1>2, SMT
<1>5. ChipTypeOK'
  <2>1. ret' \in ChipResults /\ pc' \in {"send", "exit"}
    BY <1>4 DEF ChipResults
  <2> QED  BY <1>2, <1>3, <2>1 DEF ChipIInv, ChipTypeOK, ChipResults
<1>6. PlaceInv' /\ PasswordInv'
  BY <1>1, <1>2, <1>4 DEF PlaceInv, PasswordInv
<1>7. IdInv' /\ ShownMeansSupported' /\ SavedInPage'
  BY <1>1, <1>2, <1>4 DEF ChipIInv, IdInv, ShownMeansSupported, SavedInPage
<1>8. PasswordZeroMeansTaken'
  BY <1>4 DEF PasswordZeroMeansTaken
<1> QED  BY <1>1, <1>2, <1>5, <1>6, <1>7, <1>8 DEF ChipIInv

\* The rest: password without a password, run and reset.
LEMMA OtherInv ==
    ASSUME ChipIInv,
           \/ (\E r \in {-1, -487, -496} : PasswordRefuse(r))
           \/ PasswordRead \/ Run \/ Reset
    PROVE  ChipIInv'
<1>1. ASSUME NEW r \in {-1, -487, -496}, PasswordRefuse(r)
      PROVE  ChipIInv'
  <2>1. /\ pc' = "exit" /\ ret' \in {-1, -487, -496}
        /\ UNCHANGED <<version, stage, accepted, started, cmd, args, idVer, id3, i, shown, saved,
                       left, short>>
    BY <1>1 DEF PasswordRefuse, Exit, Say, boardvars
  <2>2. ret' \in ChipResults /\ ret' # 0
    BY <2>1 DEF ChipResults
  <2> QED  BY <2>1, <2>2, LeavesWithError
<1>2. CASE PasswordRead
  <2>1. /\ pc = "start" /\ cmd = "password" /\ pc' = "send"
        /\ UNCHANGED <<version, stage, accepted, started, cmd, args, idVer, id3, i, shown, saved,
                       left, ret, short>>
    BY <1>2 DEF PasswordRead, boardvars
  <2>2. /\ short' \in BOOLEAN
        /\ idVer' \in Versions \cup {-1} /\ id3' \in Stages \cup {-1}
    BY <2>1 DEF ChipIInv, ChipTypeOK
  <2>3. PlaceInv' /\ IdInv' /\ SavedInPage'
    BY <2>1 DEF ChipIInv, PlaceInv, IdInv, SavedInPage
  <2> QED  BY <2>1, <2>2, <2>3, GoesOn
<1>3. CASE Run
  <2>1. /\ cmd = "run" /\ pc' = "exit" /\ ret' = 0 /\ started' \in BOOLEAN
        /\ UNCHANGED <<version, stage, accepted, cmd, args, idVer, id3, i, shown, saved,
                       left, short>>
    BY <1>3 DEF Run, RunInAddr, Exit
  <2>2. /\ short' \in BOOLEAN /\ shown' \in -1 .. ChipIdLen /\ left' \in 0 .. PageLen
        /\ idVer' \in Versions \cup {-1} /\ id3' \in Stages \cup {-1}
    BY <2>1 DEF ChipIInv, ChipTypeOK
  <2>3. ShownMeansSupported' /\ SavedInPage'
    BY <2>1 DEF ChipIInv, ShownMeansSupported, SavedInPage
  <2>4. ret' \in ChipResults
    BY <2>1 DEF ChipResults
  <2> QED  BY <2>1, <2>2, <2>3, <2>4, Leaves
<1>4. CASE Reset
  <2>1. /\ cmd = "reset" /\ pc' = "exit" /\ ret' \in {0, -5}
        /\ UNCHANGED <<version, stage, accepted, started, cmd, args, idVer, id3, i, shown, saved,
                       left, short>>
    BY <1>4 DEF Reset, Exit, Say, boardvars
  <2>2. ret' \in ChipResults
    BY <2>1 DEF ChipResults
  <2> QED  BY <2>1, <2>2, LeavesWithError
<1> QED  BY <1>1, <1>2, <1>3, <1>4

\* Every step preserves the invariant.
LEMMA ChipNextInv == ChipIInv /\ [ChipNext]_chipvars => ChipIInv'
<1>1. ASSUME ChipIInv, UNCHANGED chipvars PROVE ChipIInv'
  <2>1. UNCHANGED <<version, stage, accepted, started, cmd, args, pc, idVer, id3, i, shown,
                    saved, left, ret, short>>
    BY <1>1 DEF chipvars, boardvars
  <2>2. ChipTypeOK' /\ PlaceInv'
    BY <1>1, <2>1 DEF ChipIInv, ChipTypeOK, PlaceInv
  <2>3. PasswordInv' /\ IdInv' /\ ShownMeansSupported' /\ PasswordZeroMeansTaken' /\ SavedInPage'
    BY <1>1, <2>1 DEF ChipIInv, PasswordInv, IdInv, ShownMeansSupported, PasswordZeroMeansTaken,
                      SavedInPage
  <2> QED  BY <1>1, <2>1, <2>2, <2>3 DEF ChipIInv
<1>2. ASSUME ChipIInv, ChipNext PROVE ChipIInv'
  BY <1>2, IdentifyErrorInv, IdentifiedInv, ByMemoryInv, ReadIdFailInv, ShowInv,
     ChipinfoErrorInv, SaveInv, PageInv, PasswordSendInv, OtherInv, ZenonT(60) DEF ChipNext
<1> QED  BY <1>1, <1>2

\* The invariant holds of every reachable state.
THEOREM ChipInductiveInvariant == ChipSpec => []ChipIInv
<1>1. ChipInit => ChipIInv
  BY ChipInitInv
<1>2. ChipIInv /\ [ChipNext]_chipvars => ChipIInv'
  BY ChipNextInv
<1> QED  BY <1>1, <1>2, PTL DEF ChipSpec

\* The variables keep their types: the password is sent twice at most.
THEOREM ChipTypeCorrect == ChipSpec => []ChipTypeOK
<1>1. ChipIInv => ChipTypeOK
  BY DEF ChipIInv
<1> QED  BY <1>1, ChipInductiveInvariant, PTL

-----------------------------------------------------------------------------
(* Memory commands                                                         *)
-----------------------------------------------------------------------------

\* Where a call stands: its piece lies in the range, and it is left without a
\* failure only at its end.
CallInv ==
    /\ pc # "exit" => ret = 1
    /\ pc = "start" => offset = 0 /\ processed = 0 /\ out = <<>>
    /\ pc = "bulk" => cmd = "rreg"
    /\ pc \in {"packet", "return"} => offset + bulkSize <= range.size
    /\ pc = "return" /\ ~failed => processed = bulkSize
    /\ cmd # "rreg" => offset = 0
    /\ cmd # "rreg" /\ pc # "start" => bulkSize = range.size
    /\ cmd \notin Reading /\ pc # "start" => buffer \in [Index -> Byte]

\* A result of success is one of a whole range.
EndInv ==
    Succeeded => IF cmd = "rreg" THEN offset = range.size ELSE processed = bulkSize

\* What counts as moved is on the other side, when nothing went unseen: of the
\* piece under way, and in the file of rreg of those before it.
BytesInv ==
    unseen = {} =>
        /\ cmd \in Reading /\ (pc \in {"packet", "return"} \/ cmd # "rreg") =>
              \A k \in 0 .. processed - 1 : buffer[k] = mem[range.addr + offset + k]
        /\ cmd \notin Reading =>
              \A k \in 0 .. processed - 1 : buffer[k] = mem[range.addr + offset + k]
        /\ cmd = "rreg" /\ saving =>
              /\ Len(out) = offset
              /\ \A k \in 1 .. offset : out[k] = mem[range.addr + k - 1]

\* The buffer of AmlUsbReadMemCtr is fresh behind what has been read, but for the part
\* of a packet that failed.
FreshInv ==
    cmd = "ReadMemCtr" =>
        /\ pc = "start" => \A k \in Index : buffer[k] = Junk
        /\ pc = "packet" => \A k \in Index : k >= processed => buffer[k] = Junk
        /\ pc \in {"return", "exit"} =>
              \A k \in Index : k >= processed + PacketMax => buffer[k] = Junk
        /\ pc = "exit" => moved = processed

\* The inductive invariant.
MemIInv == cmd \in MemCmds /\ MemTypeOK /\ CallInv /\ EndInv /\ BytesInv /\ FreshInv

-----------------------------------------------------------------------------
\* What the assumption says of each constant.
LEMMA MemConstants ==
    /\ MemSize \in Nat /\ PacketMax \in Nat /\ PacketMax > 0
    /\ BulkMax \in Nat /\ BulkMax > 0
    /\ RegLen \in Nat
    /\ Memories \subseteq [Addr -> Byte] /\ Inputs \subseteq [Index -> Byte]
    /\ \A r \in Ranges : r.addr \in Nat /\ r.size \in Nat /\ r.addr + r.size <= MemSize
BY CtrlAssumption DEF Addr, Index

\* The range of a command lies in memory, also before it is known.
LEMMA RangeInMemory ==
    ASSUME MemTypeOK
    PROVE  /\ range.addr \in Nat /\ range.size \in Nat /\ range.addr + range.size <= MemSize
           /\ offset \in Nat /\ bulkSize \in Nat /\ processed \in Nat
           /\ offset <= range.size /\ bulkSize <= BulkMax /\ processed <= bulkSize
<1>1. range.addr \in Nat /\ range.size \in Nat /\ range.addr + range.size <= MemSize
  <2>1. CASE range \in Ranges
    BY <2>1, MemConstants
  <2>2. CASE range = [addr |-> 0, size |-> 0]
    BY <2>2, MemConstants
  <2> QED  BY <2>1, <2>2 DEF MemTypeOK
<1>2. offset \in 0 .. range.size /\ bulkSize \in 0 .. BulkMax /\ processed \in 0 .. bulkSize
  BY DEF MemTypeOK
<1> QED  BY ONLY <1>1, <1>2, MemConstants, SMT

\* A packet of a piece that is not done has bytes, and ends within the piece.
LEMMA PacketInPiece ==
    ASSUME MemTypeOK, processed < bulkSize
    PROVE  /\ Packet \in Nat /\ Packet > 0 /\ Packet <= PacketMax
           /\ processed + Packet <= bulkSize
<1>1. processed \in Nat /\ bulkSize \in Nat /\ PacketMax \in Nat /\ PacketMax > 0
  BY RangeInMemory, MemConstants
<1> QED  BY ONLY <1>1, processed < bulkSize, SMT DEF Packet, aml_min

\* Before the first step the invariant holds.
LEMMA MemInitInv == MemInit => MemIInv
<1> SUFFICES ASSUME MemInit PROVE MemIInv
  OBVIOUS
<1>1. MemTypeOK
  <2>1. mem \in [Addr -> Byte]
    BY MemConstants DEF MemInit
  <2>2. buffer \in [Index -> Byte \cup {Junk}]
    BY DEF MemInit
  <2>3. out \in Seq(Byte \cup {Junk})
    BY DEF MemInit
  <2>4. offset \in 0 .. range.size /\ bulkSize \in 0 .. BulkMax /\ processed \in 0 .. bulkSize
        /\ moved \in 0 .. BulkMax
    BY MemConstants DEF MemInit
  <2>5. pc \in {"start", "bulk", "packet", "return", "exit"} /\ ret \in {1, 0, -1, -646}
        /\ failed \in BOOLEAN /\ saving \in BOOLEAN /\ unseen \subseteq {"short", "fwrite"}
    BY DEF MemInit
  <2>6. range \in Ranges \cup {[addr |-> 0, size |-> 0]}
    BY DEF MemInit
  <2> QED  BY <2>1, <2>2, <2>3, <2>4, <2>5, <2>6 DEF MemTypeOK
<1>2. CallInv /\ EndInv
  BY DEF MemInit, CallInv, EndInv, Succeeded
<1>3. BytesInv /\ FreshInv
  BY DEF MemInit, BytesInv, FreshInv
<1> QED  BY <1>1, <1>2, <1>3 DEF MemIInv, MemInit

-----------------------------------------------------------------------------
\* What a packet of n bytes does to the two sides.
LEMMA MoveBytes ==
    ASSUME MemIInv, pc = "packet", processed < bulkSize, NEW n \in 0 .. Packet, Move(n)
    PROVE  /\ mem' \in [Addr -> Byte] /\ buffer' \in [Index -> Byte \cup {Junk}]
           /\ cmd \notin Reading => buffer' = buffer
           /\ cmd \in Reading => mem' = mem
           /\ \A k \in Index : ~(k \in processed .. processed + n - 1) => buffer'[k] = buffer[k]
           /\ \A a \in Addr : ~(a \in PacketAddr .. PacketAddr + n - 1) => mem'[a] = mem[a]
           /\ \A k \in processed .. processed + n - 1 :
                  buffer'[k] = mem'[range.addr + offset + k]
<1>1. /\ range.addr \in Nat /\ range.size \in Nat /\ offset \in Nat /\ bulkSize \in Nat
      /\ processed \in Nat /\ range.addr + range.size <= MemSize
      /\ bulkSize <= BulkMax /\ MemSize \in Nat /\ BulkMax \in Nat
  BY RangeInMemory, MemConstants DEF MemIInv
<1>2. n \in Nat /\ processed + n <= bulkSize
  <2>1. Packet \in Nat /\ processed + Packet <= bulkSize
    BY PacketInPiece DEF MemIInv
  <2> QED  BY ONLY <1>1, <2>1, n \in 0 .. Packet, SMT
<1>3. offset + bulkSize <= range.size
  BY DEF MemIInv, CallInv
<1>4. PacketAddr = range.addr + offset + processed
  BY DEF PacketAddr
<1>5. mem \in [Addr -> Byte] /\ buffer \in [Index -> Byte \cup {Junk}]
  BY DEF MemIInv, MemTypeOK
<1>6. CASE cmd \in Reading
  <2>1. /\ mem' = mem
        /\ buffer' = [k \in Index |-> IF k \in processed .. processed + n - 1
                                      THEN mem[PacketAddr + (k - processed)] ELSE buffer[k]]
    BY <1>6 DEF Move
  <2>2. \A k \in processed .. processed + n - 1 :
            /\ k \in Index
            /\ PacketAddr + (k - processed) = range.addr + offset + k
            /\ range.addr + offset + k \in Addr
    BY ONLY <1>1, <1>2, <1>3, <1>4, SMT DEF Index, Addr
  <2>3. buffer' \in [Index -> Byte \cup {Junk}]
    BY <1>5, <2>1, <2>2
  <2> QED  BY <1>5, <1>6, <2>1, <2>2, <2>3
<1>7. CASE cmd \notin Reading
  <2>1. /\ buffer' = buffer
        /\ mem' = [a \in Addr |-> IF a \in PacketAddr .. PacketAddr + n - 1
                                  THEN buffer[processed + (a - PacketAddr)] ELSE mem[a]]
    BY <1>7 DEF Move
  <2>2. buffer \in [Index -> Byte]
    BY <1>7 DEF MemIInv, CallInv
  <2>3. \A a \in PacketAddr .. PacketAddr + n - 1 : processed + (a - PacketAddr) \in Index
    BY ONLY <1>1, <1>2, <1>4, SMT DEF Index
  <2>4. mem' \in [Addr -> Byte]
    BY <1>5, <2>1, <2>2, <2>3
  <2>5. \A k \in processed .. processed + n - 1 :
            /\ range.addr + offset + k \in PacketAddr .. PacketAddr + n - 1
            /\ range.addr + offset + k \in Addr
            /\ processed + ((range.addr + offset + k) - PacketAddr) = k
    BY ONLY <1>1, <1>2, <1>3, <1>4, SMT DEF Addr
  <2>6. \A k \in processed .. processed + n - 1 : buffer'[k] = mem'[range.addr + offset + k]
    BY <2>1, <2>5
  <2> QED  BY <1>5, <1>7, <2>1, <2>4, <2>6
<1> QED  BY <1>6, <1>7

-----------------------------------------------------------------------------
\* The start of a command.
LEMMA StartRregInv ==
    ASSUME MemIInv, NEW a \in Ranges, NEW o \in BOOLEAN, StartRreg(a, o)
    PROVE  MemIInv'
<1> USE DEF StartRreg
<1>1. /\ a.addr \in Nat /\ a.size \in Nat /\ offset = 0 /\ processed = 0 /\ ret = 1
      /\ out = <<>>
  BY MemConstants DEF MemIInv, CallInv
<1>2. MemTypeOK'
  BY <1>1 DEF MemIInv, MemTypeOK
<1>3. CallInv' /\ EndInv'
  BY <1>1 DEF CallInv, EndInv, Succeeded, Reading
<1>4. BytesInv' /\ FreshInv'
  BY <1>1 DEF MemIInv, BytesInv, FreshInv, Reading, MemTypeOK
<1> QED  BY <1>2, <1>3, <1>4 DEF MemIInv

LEMMA StartCallInv ==
    ASSUME MemIInv, NEW a \in Ranges, NEW b \in Inputs, StartCall(a, b)
    PROVE  MemIInv'
<1> USE DEF StartCall, Call
<1>1. /\ a.addr \in Nat /\ a.size \in Nat /\ a.size \in 0 .. BulkMax
      /\ offset = 0 /\ ret = 1 /\ b \in [Index -> Byte]
  BY MemConstants DEF MemIInv, CallInv
<1>2. MemTypeOK'
  <2>1. buffer' \in [Index -> Byte \cup {Junk}]
    BY <1>1 DEF MemIInv, MemTypeOK
  <2>2. offset' \in 0 .. range'.size /\ bulkSize' \in 0 .. BulkMax /\ processed' \in 0 .. bulkSize'
    BY <1>1
  <2>3. /\ mem' \in [Addr -> Byte] /\ saving' \in BOOLEAN /\ out' \in Seq(Byte \cup {Junk})
        /\ moved' \in 0 .. BulkMax /\ unseen' \subseteq {"short", "fwrite"}
    BY DEF MemIInv, MemTypeOK
  <2>4. range' \in Ranges /\ pc' = "packet" /\ failed' = FALSE /\ ret' = 1
    BY <1>1
  <2> QED  BY <2>1, <2>2, <2>3, <2>4 DEF MemTypeOK
<1>3. CallInv' /\ EndInv'
  BY <1>1 DEF MemIInv, CallInv, EndInv, Succeeded
<1>4. BytesInv'
  BY <1>1 DEF BytesInv
<1>5. FreshInv'
  BY DEF MemIInv, FreshInv, Reading
<1> QED  BY <1>2, <1>3, <1>4, <1>5 DEF MemIInv

\* The next piece of rreg.
LEMMA NextBulkInv == ASSUME MemIInv, NextBulk PROVE MemIInv'
<1> USE DEF NextBulk, Call
<1>1. /\ range.size \in Nat /\ offset \in Nat /\ BulkMax \in Nat /\ cmd = "rreg"
  BY RangeInMemory, MemConstants DEF MemIInv, CallInv
<1>2. bulkSize' \in 0 .. BulkMax /\ offset + bulkSize' <= range.size
  <2>1. bulkSize' = aml_min(range.size - offset, BulkMax) /\ offset < range.size
    OBVIOUS
  <2> QED  BY ONLY <1>1, <2>1, SMT DEF aml_min
<1>3. MemTypeOK'
  <2>1. processed' \in 0 .. bulkSize'
    BY <1>2
  <2>2. pc' = "packet" /\ failed' = FALSE /\ ret' \in {1, 0, -1, -646}
    BY DEF MemIInv, MemTypeOK
  <2>3. /\ mem' \in [Addr -> Byte] /\ buffer' \in [Index -> Byte \cup {Junk}]
        /\ range' \in Ranges \cup {[addr |-> 0, size |-> 0]} /\ offset' \in 0 .. range'.size
        /\ saving' \in BOOLEAN /\ out' \in Seq(Byte \cup {Junk})
        /\ moved' \in 0 .. BulkMax /\ unseen' \subseteq {"short", "fwrite"}
    BY DEF MemIInv, MemTypeOK
  <2> QED  BY <1>2, <2>1, <2>2, <2>3 DEF MemTypeOK
<1>4. CallInv' /\ EndInv'
  BY <1>1, <1>2 DEF MemIInv, CallInv, EndInv, Succeeded, Reading
<1>5. BytesInv' /\ FreshInv'
  BY <1>1 DEF MemIInv, BytesInv, FreshInv, Reading
<1> QED  BY <1>3, <1>4, <1>5 DEF MemIInv

-----------------------------------------------------------------------------
\* A packet that is counted.
LEMMA PacketOkInv ==
    ASSUME MemIInv, NEW n \in 0 .. Packet, PacketOk(n)
    PROVE  MemIInv'
<1> DEFINE next == processed + Packet
<1>1. /\ pc = "packet" /\ processed < bulkSize /\ Move(n)
      /\ processed' = next
      /\ cmd \notin Reading => n = Packet
      /\ unseen' = {} => unseen = {} /\ ~(n < Packet)
      /\ unseen' \subseteq unseen \cup {"short"}
      /\ UNCHANGED <<cmd, range, saving, out, pc, offset, bulkSize, failed, moved, ret>>
  BY DEF PacketOk
<1>2. /\ Packet \in Nat /\ Packet > 0 /\ next <= bulkSize /\ processed \in Nat /\ bulkSize \in Nat
      /\ offset \in Nat /\ range.addr \in Nat /\ n \in Nat /\ n <= Packet
  BY <1>1, PacketInPiece, RangeInMemory DEF MemIInv
<1>3. /\ mem' \in [Addr -> Byte] /\ buffer' \in [Index -> Byte \cup {Junk}]
      /\ cmd \notin Reading => buffer' = buffer
      /\ cmd \in Reading => mem' = mem
      /\ \A k \in Index : ~(k \in processed .. processed + n - 1) => buffer'[k] = buffer[k]
      /\ \A a \in Addr : ~(a \in PacketAddr .. PacketAddr + n - 1) => mem'[a] = mem[a]
      /\ \A k \in processed .. processed + n - 1 : buffer'[k] = mem'[range.addr + offset + k]
  BY <1>1, MoveBytes
<1>4. MemTypeOK'
  <2>1. processed' \in 0 .. bulkSize
    BY <1>1, <1>2
  <2> QED  BY <1>1, <1>3, <2>1 DEF MemIInv, MemTypeOK
<1>5. CallInv' /\ EndInv'
  BY <1>1, <1>3 DEF MemIInv, CallInv, EndInv, Succeeded
<1>6. BytesInv'
  <2> SUFFICES ASSUME unseen' = {} PROVE BytesInv'
    BY DEF BytesInv
  <2>1. n = Packet
    BY ONLY <1>1, <1>2, unseen' = {}, SMT
  <2>2. \A k \in 0 .. processed - 1 : buffer[k] = mem[range.addr + offset + k]
    BY <1>1 DEF MemIInv, BytesInv
  <2>3. \A k \in 0 .. processed - 1 :
            /\ k \in Index /\ ~(k \in processed .. processed + n - 1)
            /\ range.addr + offset + k \in Addr
            /\ ~(range.addr + offset + k \in PacketAddr .. PacketAddr + n - 1)
    <3>1. /\ bulkSize <= BulkMax /\ BulkMax \in Nat /\ MemSize \in Nat
          /\ range.size \in Nat /\ range.addr + range.size <= MemSize
          /\ offset + bulkSize <= range.size
      BY <1>1, RangeInMemory, MemConstants DEF MemIInv, CallInv
    <3> QED  BY ONLY <1>1, <1>2, <3>1, SMT DEF Index, Addr, PacketAddr
  <2>4. \A k \in 0 .. processed - 1 : buffer'[k] = mem'[range.addr + offset + k]
    BY <1>3, <2>2, <2>3
  <2>5. \A k \in 0 .. next - 1 : buffer'[k] = mem'[range.addr + offset + k]
    <3>1. \A k \in 0 .. next - 1 : k \in 0 .. processed - 1 \/ k \in processed .. processed + n - 1
      BY ONLY <1>2, <2>1, SMT
    <3> QED  BY <1>3, <2>4, <3>1
  <2>6. cmd = "rreg" => mem' = mem
    BY <1>3 DEF Reading
  <2> QED  BY <1>1, <2>5, <2>6 DEF MemIInv, BytesInv
<1>7. FreshInv'
  <2> SUFFICES ASSUME cmd = "ReadMemCtr", NEW k \in Index, k >= next PROVE buffer'[k] = Junk
    BY <1>1 DEF FreshInv
  <2>1. k >= processed /\ ~(k \in processed .. processed + n - 1)
    <3>1. k \in Nat
      BY MemConstants DEF Index
    <3> QED  BY ONLY <1>2, <3>1, k >= next, SMT
  <2>2. buffer[k] = Junk
    BY <1>1, <2>1 DEF MemIInv, FreshInv
  <2> QED  BY <1>3, <2>1, <2>2
<1> QED  BY <1>1, <1>4, <1>5, <1>6, <1>7 DEF MemIInv

\* A packet that fails, after n bytes of it: the piece ends where it was.
LEMMA PacketFailInv ==
    ASSUME MemIInv, NEW n \in 0 .. Packet, PacketFail(n)
    PROVE  MemIInv'
<1>1. /\ pc = "packet" /\ processed < bulkSize /\ Move(n)
      /\ pc' = "return" /\ failed' = TRUE
      /\ UNCHANGED <<cmd, range, saving, out, offset, bulkSize, processed, moved, ret, unseen>>
  BY DEF PacketFail
<1>2. /\ Packet \in Nat /\ Packet <= PacketMax /\ PacketMax \in Nat
      /\ processed \in Nat /\ bulkSize \in Nat
      /\ offset \in Nat /\ range.addr \in Nat /\ n \in Nat /\ n <= Packet
  BY <1>1, PacketInPiece, RangeInMemory, MemConstants DEF MemIInv
<1>3. /\ mem' \in [Addr -> Byte] /\ buffer' \in [Index -> Byte \cup {Junk}]
      /\ cmd \notin Reading => buffer' = buffer
      /\ cmd \in Reading => mem' = mem
      /\ \A k \in Index : ~(k \in processed .. processed + n - 1) => buffer'[k] = buffer[k]
      /\ \A a \in Addr : ~(a \in PacketAddr .. PacketAddr + n - 1) => mem'[a] = mem[a]
  BY <1>1, MoveBytes
<1>4. MemTypeOK'
  BY <1>1, <1>3 DEF MemIInv, MemTypeOK
<1>5. CallInv' /\ EndInv'
  BY <1>1, <1>3 DEF MemIInv, CallInv, EndInv, Succeeded
<1>6. BytesInv'
  <2> SUFFICES ASSUME unseen = {} PROVE BytesInv'
    BY <1>1 DEF BytesInv
  <2>1. \A k \in 0 .. processed - 1 : buffer[k] = mem[range.addr + offset + k]
    BY <1>1 DEF MemIInv, BytesInv
  <2>2. \A k \in 0 .. processed - 1 :
            /\ k \in Index /\ ~(k \in processed .. processed + n - 1)
            /\ range.addr + offset + k \in Addr
            /\ ~(range.addr + offset + k \in PacketAddr .. PacketAddr + n - 1)
    <3>1. /\ bulkSize <= BulkMax /\ BulkMax \in Nat /\ MemSize \in Nat
          /\ range.size \in Nat /\ range.addr + range.size <= MemSize
          /\ offset + bulkSize <= range.size
      BY <1>1, RangeInMemory, MemConstants DEF MemIInv, CallInv
    <3> QED  BY ONLY <1>1, <1>2, <3>1, SMT DEF Index, Addr, PacketAddr
  <2>3. \A k \in 0 .. processed - 1 : buffer'[k] = mem'[range.addr + offset + k]
    BY <1>3, <2>1, <2>2
  <2>4. cmd = "rreg" => mem' = mem
    BY <1>3 DEF Reading
  <2> QED  BY <1>1, <2>3, <2>4 DEF MemIInv, BytesInv
<1>7. FreshInv'
  <2> SUFFICES ASSUME cmd = "ReadMemCtr", NEW k \in Index, k >= processed + PacketMax
               PROVE  buffer'[k] = Junk
    BY <1>1 DEF FreshInv
  <2>1. k >= processed /\ ~(k \in processed .. processed + n - 1)
    <3>1. k \in Nat
      BY MemConstants DEF Index
    <3> QED  BY ONLY <1>2, <3>1, k >= processed + PacketMax, SMT
  <2>2. buffer[k] = Junk
    BY <1>1, <2>1 DEF MemIInv, FreshInv
  <2> QED  BY <1>3, <2>1, <2>2
<1> QED  BY <1>1, <1>4, <1>5, <1>6, <1>7 DEF MemIInv

-----------------------------------------------------------------------------
\* The end of a piece.
LEMMA CallDoneInv == ASSUME MemIInv, CallDone PROVE MemIInv'
<1> USE DEF CallDone
<1>1. MemTypeOK'
  BY DEF MemIInv, MemTypeOK
<1>2. CallInv' /\ EndInv'
  BY DEF MemIInv, CallInv, EndInv, Succeeded
<1>3. BytesInv'
  BY DEF MemIInv, BytesInv
<1>4. FreshInv'
  <2> SUFFICES ASSUME cmd = "ReadMemCtr", NEW k \in Index, k >= processed + PacketMax
               PROVE  buffer[k] = Junk
    BY DEF FreshInv
  <2>1. k \in Nat /\ processed \in Nat /\ PacketMax \in Nat
    BY MemConstants, RangeInMemory DEF Index, MemIInv
  <2>2. k >= processed
    BY ONLY <2>1, k >= processed + PacketMax, SMT
  <2> QED  BY <2>2 DEF MemIInv, FreshInv
<1> QED  BY <1>1, <1>2, <1>3, <1>4 DEF MemIInv

\* rreg appends its piece to the file, or a part of it.
LEMMA SavedInv == ASSUME MemIInv, NEW n \in 0 .. bulkSize, Saved(n) PROVE MemIInv'
<1>1. /\ pc = "return" /\ cmd = "rreg" /\ ~failed
      /\ n = bulkSize \/ saving
      /\ out' = IF saving THEN out \o [k \in 1 .. n |-> buffer[k - 1]] ELSE out
      /\ unseen' = IF n < bulkSize THEN unseen \cup {"fwrite"} ELSE unseen
      /\ offset' = offset + bulkSize
      /\ pc' = "bulk"
      /\ UNCHANGED <<mem, cmd, range, saving, buffer, bulkSize, processed, failed, moved, ret>>
  BY DEF Saved
<1>2. /\ range.addr \in Nat /\ range.size \in Nat /\ offset \in Nat /\ bulkSize \in Nat
      /\ processed = bulkSize /\ offset + bulkSize <= range.size
      /\ bulkSize <= BulkMax /\ BulkMax \in Nat /\ n \in Nat /\ n <= bulkSize
  BY <1>1, RangeInMemory, MemConstants DEF MemIInv, CallInv
<1>3. buffer \in [Index -> Byte \cup {Junk}] /\ out \in Seq(Byte \cup {Junk})
  BY DEF MemIInv, MemTypeOK
<1> DEFINE piece == [k \in 1 .. n |-> buffer[k - 1]]
<1>4. piece \in Seq(Byte \cup {Junk}) /\ Len(piece) = n
  <2>1. \A k \in 1 .. n : k - 1 \in Index
    BY ONLY <1>2, SMT DEF Index
  <2>2. \A k \in 1 .. n : buffer[k - 1] \in Byte \cup {Junk}
    BY <1>3, <2>1
  <2>3. piece \in [1 .. n -> Byte \cup {Junk}]
    BY <2>2
  <2> QED  BY <1>2, <2>3
<1> HIDE DEF piece
<1>5. MemTypeOK'
  <2>1. out' = out \o piece \/ out' = out
    BY <1>1 DEF piece
  <2>4. out \o piece \in Seq(Byte \cup {Junk})
    BY ONLY <1>3, <1>4, SMT
  <2>2. offset' \in 0 .. range'.size
    BY <1>1, <1>2
  <2>3. unseen' \subseteq {"short", "fwrite"}
    BY <1>1 DEF MemIInv, MemTypeOK
  <2>5. out' \in Seq(Byte \cup {Junk})
    BY <1>3, <2>1, <2>4
  <2> QED  BY <1>1, <2>2, <2>3, <2>5 DEF MemIInv, MemTypeOK
<1>6. CallInv' /\ EndInv'
  BY <1>1, <1>2 DEF MemIInv, CallInv, EndInv, Succeeded, Reading
<1>7. BytesInv'
  <2> SUFFICES ASSUME unseen' = {}, saving
               PROVE  /\ Len(out') = offset + bulkSize
                      /\ \A k \in 1 .. offset + bulkSize : out'[k] = mem[range.addr + k - 1]
    BY <1>1 DEF BytesInv, Reading
  <2>1. unseen = {} /\ n = bulkSize
    <3>1. ~(n < bulkSize)
      BY <1>1
    <3>2. n = bulkSize
      BY ONLY <1>2, <3>1, SMT
    <3> QED  BY <1>1, <3>1, <3>2
  <2>2. /\ Len(out) = offset /\ \A k \in 1 .. offset : out[k] = mem[range.addr + k - 1]
        /\ \A k \in 0 .. bulkSize - 1 : buffer[k] = mem[range.addr + offset + k]
    BY <1>1, <1>2, <2>1 DEF MemIInv, BytesInv, Reading
  <2>3. out' = out \o piece
    BY <1>1 DEF piece
  <2>4. /\ Len(out') = offset + bulkSize
        /\ \A k \in 1 .. offset : out'[k] = out[k]
        /\ \A k \in 1 .. bulkSize : out'[offset + k] = piece[k]
    <3>1. Len(out) = offset /\ Len(piece) = bulkSize
      BY <1>4, <2>1, <2>2
    <3>2. \A s, t \in Seq(Byte \cup {Junk}) :
              /\ Len(s \o t) = Len(s) + Len(t)
              /\ \A k \in 1 .. Len(s) : (s \o t)[k] = s[k]
              /\ \A k \in 1 .. Len(t) : (s \o t)[Len(s) + k] = t[k]
      OBVIOUS
    <3> QED  BY ONLY <1>3, <1>4, <2>3, <3>1, <3>2
  <2>5. \A k \in 1 .. bulkSize : out'[offset + k] = mem[range.addr + (offset + k) - 1]
    <3> SUFFICES ASSUME NEW k \in 1 .. bulkSize
                 PROVE  out'[offset + k] = mem[range.addr + (offset + k) - 1]
      OBVIOUS
    <3>1. piece[k] = buffer[k - 1]
      BY <2>1 DEF piece
    <3>2. /\ k - 1 \in 0 .. bulkSize - 1
          /\ range.addr + offset + (k - 1) = range.addr + (offset + k) - 1
      BY ONLY <1>2, k \in 1 .. bulkSize, SMT
    <3> QED  BY <2>2, <2>4, <3>1, <3>2
  <2>6. \A k \in 1 .. offset + bulkSize :
            k \in 1 .. offset \/ (k - offset \in 1 .. bulkSize /\ offset + (k - offset) = k)
    BY ONLY <1>2, SMT
  <2> QED  BY <2>2, <2>4, <2>5, <2>6
<1>8. FreshInv'
  BY <1>1 DEF FreshInv
<1> QED  BY <1>1, <1>5, <1>6, <1>7, <1>8 DEF MemIInv

\* A command ends.
LEMMA EndingInv == ASSUME MemIInv, RregFail \/ RregDone \/ CallReturns PROVE MemIInv'
<1>1. /\ pc' = "exit" /\ ret' \in {1, 0, -1, -646} /\ pc # "start"
      /\ UNCHANGED <<mem, cmd, range, saving, buffer, out, offset, bulkSize, processed, failed,
                     unseen>>
  BY DEF RregFail, RregDone, CallReturns, Exit, Result, MemIInv, MemCmds
<1>2. moved' = moved \/ (cmd = "ReadMemCtr" /\ moved' = processed)
  BY DEF RregFail, RregDone, CallReturns
<1>9. cmd = "rreg" \/ (CallReturns /\ pc = "return" /\ moved' = IF cmd = "ReadMemCtr" THEN processed ELSE moved)
  BY DEF RregFail, RregDone, CallReturns, MemIInv, CallInv
<1>3. /\ range.size \in Nat /\ offset \in Nat /\ offset <= range.size
      /\ processed \in Nat /\ bulkSize \in Nat /\ processed <= bulkSize /\ bulkSize <= BulkMax
      /\ BulkMax \in Nat
  BY RangeInMemory, MemConstants DEF MemIInv
<1>4. MemTypeOK'
  <2>1. moved' \in 0 .. BulkMax
    BY <1>2, <1>3 DEF MemIInv, MemTypeOK
  <2> QED  BY <1>1, <2>1 DEF MemIInv, MemTypeOK
<1>5. CallInv'
  BY <1>1 DEF MemIInv, CallInv
<1>6. EndInv'
  <2>1. CASE RregFail
    BY <1>1, <2>1 DEF RregFail, Exit, EndInv, Succeeded
  <2>2. CASE RregDone
    <3>1. offset = range.size
      BY <1>3, <2>2 DEF RregDone
    <3> QED  BY <1>1, <2>2, <3>1 DEF RregDone, EndInv, MemIInv, CallInv
  <2>3. CASE CallReturns
    BY <1>1, <2>3 DEF CallReturns, Exit, Result, EndInv, Succeeded, MemIInv, MemCmds, CallInv
  <2> QED  BY <2>1, <2>2, <2>3
<1>7. BytesInv'
  <2>1. cmd # "rreg" => pc = "return"
    BY <1>9
  <2> QED  BY <1>1, <2>1 DEF MemIInv, BytesInv
<1>8. FreshInv'
  BY <1>1, <1>9 DEF MemIInv, FreshInv
<1> QED  BY <1>1, <1>4, <1>5, <1>6, <1>7, <1>8 DEF MemIInv

\* Every step preserves the invariant.
LEMMA MemNextInv == MemIInv /\ [MemNext]_memvars => MemIInv'
<1> SUFFICES ASSUME MemIInv, [MemNext]_memvars PROVE MemIInv'
  OBVIOUS
<1>1. CASE UNCHANGED memvars
  <2> USE <1>1 DEF memvars
  <2>1. MemTypeOK' /\ CallInv'
    BY DEF MemIInv, MemTypeOK, CallInv
  <2>2. EndInv' /\ BytesInv' /\ FreshInv'
    BY DEF MemIInv, EndInv, Succeeded, BytesInv, FreshInv
  <2> QED  BY <2>1, <2>2 DEF MemIInv
<1> QED
  BY <1>1, StartRregInv, StartCallInv, NextBulkInv, PacketOkInv, PacketFailInv, CallDoneInv,
     SavedInv, EndingInv
     DEF MemNext, Program

-----------------------------------------------------------------------------
\* Success means that the range was copied, and the count of AmlUsbReadMemCtr covers
\* what was read.
LEMMA MemCopied == MemIInv => SuccessMeansCopied
<1> SUFFICES ASSUME MemIInv PROVE SuccessMeansCopied
  OBVIOUS
<1>1. ASSUME Succeeded, unseen = {} PROVE Copied
  <2>1. CASE cmd = "rreg"
    BY <1>1, <2>1 DEF MemIInv, EndInv, BytesInv, Copied
  <2>2. CASE cmd # "rreg"
    <3>1. offset = 0 /\ processed = range.size
      BY <1>1, <2>2 DEF MemIInv, EndInv, CallInv, Succeeded
    <3>2. \A k \in 0 .. processed - 1 : buffer[k] = mem[range.addr + offset + k]
      BY <1>1, <2>2 DEF MemIInv, BytesInv
    <3>3. \A k \in 0 .. range.size - 1 : range.addr + offset + k = range.addr + k
      BY <3>1, RangeInMemory DEF MemIInv
    <3> QED  BY <2>2, <3>1, <3>2, <3>3 DEF Copied
  <2> QED  BY <2>1, <2>2
<1>2. CountCoversRead
  BY DEF MemIInv, FreshInv, CountCoversRead
<1> QED  BY <1>1, <1>2 DEF SuccessMeansCopied

\* What a step may change of memory.
LEMMA MemChange ==
    ASSUME MemIInv, [MemNext]_memvars, NEW a \in Addr, mem'[a] # mem[a]
    PROVE  cmd \notin Reading /\ a \in range.addr .. range.addr + range.size - 1
<1>1. PICK n \in 0 .. Packet : PacketOk(n) \/ PacketFail(n)
  BY DEF MemNext, Program, StartRreg, StartCall, NextBulk, CallDone, Saved, RregFail, RregDone,
     CallReturns, memvars
<1>2. pc = "packet" /\ processed < bulkSize /\ Move(n)
  BY <1>1 DEF PacketOk, PacketFail
<1>3. cmd \notin Reading /\ a \in PacketAddr .. PacketAddr + n - 1
  BY <1>2, MoveBytes
<1>4. /\ range.addr \in Nat /\ range.size \in Nat /\ offset \in Nat /\ bulkSize \in Nat
      /\ processed \in Nat /\ Packet \in Nat /\ processed + Packet <= bulkSize
      /\ offset + bulkSize <= range.size /\ n \in Nat /\ n <= Packet
  BY <1>2, PacketInPiece, RangeInMemory DEF MemIInv, CallInv
<1>5. a \in range.addr .. range.addr + range.size - 1
  BY ONLY <1>3, <1>4, SMT DEF PacketAddr
<1> QED  BY <1>3, <1>5

\* The invariant holds of every reachable state of a memory command.
THEOREM MemInductiveInvariant == MemInit /\ [][MemNext]_memvars => []MemIInv
<1> QED  BY MemInitInv, MemNextInv, PTL

-----------------------------------------------------------------------------
\* A byte that rreg may have at a place of its file: one a fresh buffer held, or one of
\* the same place of a piece up to this one.
Origin(b, place) ==
    \/ b = Junk
    \/ \E j \in 0 .. place : (place - j) % BulkMax = 0 /\ b = mem[range.addr + j]

\* Where the bytes of the buffer of rreg come from, and that its pieces but the last are
\* as long as the buffer: this is what makes the places of two pieces the same.
BufferOrigin == \A k \in Index : Origin(buffer[k], offset + k)

OriginInv ==
    /\ ~saving => out = <<>>
    /\ cmd # "rreg" => out = <<>>
    /\ cmd = "rreg" =>
          /\ pc = "start" => \A k \in Index : buffer[k] = Junk
          /\ pc \in {"packet", "return"} =>
                bulkSize = BulkMax \/ offset + bulkSize = range.size
          /\ pc \in {"packet", "return"} \/ (pc = "bulk" /\ offset < range.size) => BufferOrigin
          /\ saving /\ "fwrite" \notin unseen => Len(out) = offset
    /\ FileByteOrigin

\* The same place of the next piece.
LEMMA NextPiece ==
    ASSUME NEW d \in Nat, d % BulkMax = 0
    PROVE  (d + BulkMax) % BulkMax = 0
<1>1. PICK s \in Nat \ {0} : s = BulkMax
  BY MemConstants
<1>2. PICK q \in Nat : d = q * s
  <2>1. d \div s \in Nat /\ d = (d \div s) * s + (d % s)
    BY <1>1
  <2>2. d % s = 0
    BY <1>1
  <2> QED  BY <2>1, <2>2
<1>3. d + s = (q + 1) * s
  BY <1>2
<1>4. ((q + 1) * s) % s = 0
  OBVIOUS
<1> QED  BY <1>1, <1>3, <1>4

LEMMA OriginNextPiece ==
    ASSUME NEW b, NEW place \in Nat, Origin(b, place)
    PROVE  Origin(b, place + BulkMax)
<1>1. PICK s \in Nat : s = BulkMax
  BY MemConstants
<1>2. ASSUME NEW j \in 0 .. place, (place - j) % BulkMax = 0, b = mem[range.addr + j]
      PROVE  Origin(b, place + BulkMax)
  <2>1. place - j \in Nat /\ j \in 0 .. place + s /\ (place - j) + s = (place + s) - j
    OBVIOUS
  <2>2. ((place - j) + s) % BulkMax = 0
    BY <1>1, <1>2, <2>1, NextPiece
  <2> QED  BY <1>1, <1>2, <2>1, <2>2 DEF Origin
<1> QED  BY <1>2 DEF Origin

\* The byte of a place comes from that place.
LEMMA OriginInPlace ==
    ASSUME NEW place \in Nat
    PROVE  Origin(mem[range.addr + place], place)
<1>1. (place - place) % BulkMax = 0
  BY MemConstants
<1> QED  BY <1>1 DEF Origin

-----------------------------------------------------------------------------
\* Steps that move no byte and start no piece keep the origin of every byte.
LEMMA OriginInit == MemInit => OriginInv
BY DEF MemInit, OriginInv, FileByteOrigin, MemCmds

LEMMA StartOrigin ==
    ASSUME MemIInv, OriginInv,
           \/ \E a \in Ranges, o \in BOOLEAN : StartRreg(a, o)
           \/ \E a \in Ranges, b \in Inputs : StartCall(a, b)
    PROVE  OriginInv'
<1>1. out = <<>> /\ offset = 0 /\ out' = out /\ offset' = offset /\ cmd' = cmd /\ pc = "start"
  BY DEF MemIInv, CallInv, StartRreg, StartCall
<1>2. FileByteOrigin'
  BY <1>1 DEF FileByteOrigin
<1>3. CASE cmd = "rreg"
  <2>1. pc' = "bulk" /\ buffer' = buffer
    BY <1>3 DEF StartRreg, StartCall
  <2>2. BufferOrigin'
    BY <1>1, <1>3, <2>1 DEF OriginInv, BufferOrigin, Origin
  <2> QED  BY <1>1, <1>2, <2>1, <2>2 DEF OriginInv
<1>4. CASE cmd # "rreg"
  BY <1>1, <1>2, <1>4 DEF OriginInv
<1> QED  BY <1>3, <1>4

\* A piece is as long as the buffer unless it is the last.
LEMMA NextBulkOrigin == ASSUME MemIInv, OriginInv, NextBulk PROVE OriginInv'
<1> USE DEF NextBulk, Call
<1>1. /\ range.size \in Nat /\ offset \in Nat /\ BulkMax \in Nat /\ cmd = "rreg" /\ pc' = "packet"
      /\ offset < range.size
  BY RangeInMemory, MemConstants DEF MemIInv, CallInv
<1>2. bulkSize' = BulkMax \/ offset + bulkSize' = range.size
  <2>1. bulkSize' = aml_min(range.size - offset, BulkMax)
    OBVIOUS
  <2> QED  BY ONLY <1>1, <2>1, SMT DEF aml_min
<1>3. FileByteOrigin'
  BY DEF OriginInv, FileByteOrigin
<1>4. BufferOrigin'
  BY <1>1 DEF OriginInv, BufferOrigin, Origin
<1> QED  BY <1>1, <1>2, <1>3, <1>4 DEF OriginInv

\* A packet puts bytes of the range into the buffer, each at its place.
LEMMA PacketOrigin ==
    ASSUME MemIInv, OriginInv, NEW n \in 0 .. Packet, PacketOk(n) \/ PacketFail(n)
    PROVE  OriginInv'
<1>1. /\ pc = "packet" /\ pc' \in {"packet", "return"} /\ processed < bulkSize /\ Move(n)
      /\ UNCHANGED <<cmd, range, saving, out, offset, bulkSize>>
      /\ "fwrite" \in unseen' <=> "fwrite" \in unseen
  BY DEF PacketOk, PacketFail
<1>2. /\ cmd \in Reading => mem' = mem
      /\ \A k \in Index : ~(k \in processed .. processed + n - 1) => buffer'[k] = buffer[k]
      /\ \A k \in processed .. processed + n - 1 : buffer'[k] = mem'[range.addr + offset + k]
  BY <1>1, MoveBytes
<1>3. CASE cmd = "rreg"
  <2>1. mem' = mem
    BY <1>2, <1>3 DEF Reading
  <2>2. ASSUME NEW k \in Index PROVE Origin(buffer'[k], offset + k)
    <3>1. /\ range.addr \in Nat /\ offset \in Nat /\ k \in Nat
          /\ range.addr + offset + k = range.addr + (offset + k)
      BY RangeInMemory, MemConstants DEF MemIInv, Index
    <3>2. CASE k \in processed .. processed + n - 1
      BY <1>2, <2>1, <3>1, <3>2, OriginInPlace
    <3>3. CASE ~(k \in processed .. processed + n - 1)
      BY <1>1, <1>2, <1>3, <3>3 DEF OriginInv, BufferOrigin
    <3> QED  BY <3>2, <3>3
  <2>3. BufferOrigin'
    BY <1>1, <2>1, <2>2 DEF BufferOrigin, Origin
  <2>4. FileByteOrigin'
    BY <1>1, <2>1 DEF OriginInv, FileByteOrigin
  <2> QED  BY <1>1, <1>3, <2>3, <2>4 DEF OriginInv
<1>4. CASE cmd # "rreg"
  BY <1>1, <1>4 DEF OriginInv, FileByteOrigin
<1> QED  BY <1>3, <1>4

\* The place of a byte in the file is its place in the buffer, behind the pieces saved.
LEMMA SavedOrigin ==
    ASSUME MemIInv, OriginInv, NEW n \in 0 .. bulkSize, Saved(n)
    PROVE  OriginInv'
<1>1. /\ pc = "return" /\ cmd = "rreg" /\ ~failed
      /\ n = bulkSize \/ saving
      /\ out' = IF saving THEN out \o [k \in 1 .. n |-> buffer[k - 1]] ELSE out
      /\ unseen' = IF n < bulkSize THEN unseen \cup {"fwrite"} ELSE unseen
      /\ offset' = offset + bulkSize
      /\ pc' = "bulk"
      /\ UNCHANGED <<mem, cmd, range, saving, buffer, bulkSize, processed, failed, moved, ret>>
  BY DEF Saved
<1>2. /\ range.size \in Nat /\ offset \in Nat /\ bulkSize \in Nat
      /\ bulkSize <= BulkMax /\ BulkMax \in Nat /\ n \in Nat /\ n <= bulkSize
      /\ offset + bulkSize <= range.size
  BY <1>1, RangeInMemory, MemConstants DEF MemIInv, CallInv
<1>3. offset' < range.size => BufferOrigin'
  <2> SUFFICES ASSUME offset' < range.size, NEW k \in Index
               PROVE  Origin(buffer[k], offset' + k)
    BY <1>1 DEF BufferOrigin, Origin
  <2>1. bulkSize = BulkMax
    <3>1. bulkSize = BulkMax \/ offset + bulkSize = range.size
      BY <1>1 DEF OriginInv
    <3>2. ~(range.size < range.size)
      BY <1>2
    <3> QED  BY <1>1, <3>1, <3>2
  <2>2. k \in Nat
    BY MemConstants DEF Index
  <2>3. Origin(buffer[k], offset + k)
    BY <1>1 DEF OriginInv, BufferOrigin
  <2>4. offset + k \in Nat
    BY <1>2, <2>2
  <2>5. Origin(buffer[k], (offset + k) + BulkMax)
    BY <2>3, <2>4, OriginNextPiece
  <2>6. offset' + k = (offset + k) + BulkMax
    BY <1>1, <1>2, <2>1, <2>2
  <2> QED  BY <2>5, <2>6
<1>4. ASSUME saving, "fwrite" \notin unseen'
      PROVE  /\ Len(out') = offset'
             /\ \A k \in 1 .. Len(out') : Origin(out'[k], k - 1)
  <2> DEFINE piece == [k \in 1 .. n |-> buffer[k - 1]]
  <2>1. n = bulkSize /\ "fwrite" \notin unseen
    BY <1>1, <1>2, <1>4
  <2>2. \A k \in 1 .. n : piece[k] = buffer[k - 1] /\ k - 1 \in Index
    BY <1>2 DEF Index
  <2>3. piece \in Seq(Byte \cup {Junk}) /\ Len(piece) = n
    <3>1. buffer \in [Index -> Byte \cup {Junk}]
      BY DEF MemIInv, MemTypeOK
    <3>2. piece \in [1 .. n -> Byte \cup {Junk}]
      BY <2>2, <3>1
    <3> QED  BY <1>2, <3>2
  <2>4. out' = out \o piece /\ out \in Seq(Byte \cup {Junk}) /\ Len(out) = offset
    BY <1>1, <1>4, <2>1 DEF OriginInv, MemIInv, MemTypeOK
  <2> HIDE DEF piece
  <2>5. /\ Len(out') = offset + n
        /\ \A k \in 1 .. offset : out'[k] = out[k]
        /\ \A k \in 1 .. n : out'[offset + k] = piece[k]
    <3>1. \A s, t \in Seq(Byte \cup {Junk}) :
              /\ Len(s \o t) = Len(s) + Len(t)
              /\ \A k \in 1 .. Len(s) : (s \o t)[k] = s[k]
              /\ \A k \in 1 .. Len(t) : (s \o t)[Len(s) + k] = t[k]
      OBVIOUS
    <3>2. /\ Len(out \o piece) = Len(out) + Len(piece)
          /\ \A k \in 1 .. Len(out) : (out \o piece)[k] = out[k]
          /\ \A k \in 1 .. Len(piece) : (out \o piece)[Len(out) + k] = piece[k]
      BY ONLY <2>3, <2>4, <3>1, Zenon
    <3> QED  BY ONLY <2>3, <2>4, <3>2, Zenon
  <2>6. ASSUME NEW k \in 1 .. offset PROVE Origin(out'[k], k - 1)
    <3>1. FileByteOrigin /\ k \in 1 .. Len(out) /\ out'[k] = out[k]
      BY <2>4, <2>5 DEF OriginInv
    <3>2. Origin(out[k], k - 1)
      BY <2>1, <3>1, Zenon DEF FileByteOrigin, Origin
    <3> QED  BY <3>1, <3>2
  <2>7. ASSUME NEW j \in 1 .. n PROVE Origin(out'[offset + j], (offset + j) - 1)
    <3>1. out'[offset + j] = buffer[j - 1] /\ j - 1 \in Index
      BY <2>2, <2>5
    <3>2. Origin(buffer[j - 1], offset + (j - 1))
      BY <1>1, <3>1 DEF OriginInv, BufferOrigin
    <3>3. offset + (j - 1) = (offset + j) - 1
      BY <1>2
    <3> QED  BY <3>1, <3>2, <3>3
  <2>8. ASSUME NEW k \in 1 .. offset + n PROVE Origin(out'[k], k - 1)
    <3>1. CASE k <= offset
      <4>1. k \in 1 .. offset
        BY <1>2, <3>1
      <4> QED  BY <2>6, <4>1
    <3>2. CASE k > offset
      <4>1. PICK j \in 1 .. n : k = offset + j
        <5>1. k - offset \in 1 .. n /\ k = offset + (k - offset)
          BY <1>2, <3>2
        <5> QED  BY <5>1
      <4>2. Origin(out'[offset + j], (offset + j) - 1)
        BY <2>7
      <4> QED  BY <4>1, <4>2
    <3> QED  BY <1>2, <3>1, <3>2
  <2> QED  BY <1>1, <2>1, <2>5, <2>8
<1>5. FileByteOrigin'
  <2>1. CASE saving
    BY <1>1, <1>4, <2>1 DEF FileByteOrigin, Origin
  <2>2. CASE ~ saving
    BY <1>1, <2>2 DEF OriginInv, FileByteOrigin
  <2> QED  BY <2>1, <2>2
<1>6. (~saving => out = <<>>)'
  BY <1>1 DEF OriginInv
<1> QED  BY <1>1, <1>3, <1>4, <1>5, <1>6 DEF OriginInv

LEMMA RestOrigin ==
    ASSUME MemIInv, OriginInv, CallDone \/ RregFail \/ RregDone \/ CallReturns
    PROVE  OriginInv'
<1>1. /\ UNCHANGED <<mem, cmd, range, saving, buffer, out, offset, bulkSize, unseen>>
      /\ pc' = "exit" \/ (pc = "packet" /\ pc' = "return")
  BY DEF CallDone, RregFail, RregDone, CallReturns, Exit
<1>2. FileByteOrigin'
  BY <1>1 DEF OriginInv, FileByteOrigin
<1>3. BufferOrigin => BufferOrigin'
  BY <1>1 DEF BufferOrigin, Origin
<1> QED  BY <1>1, <1>2, <1>3 DEF OriginInv

LEMMA OriginNext == MemIInv /\ OriginInv /\ [MemNext]_memvars => OriginInv'
<1> SUFFICES ASSUME MemIInv, OriginInv, [MemNext]_memvars PROVE OriginInv'
  OBVIOUS
<1>1. CASE UNCHANGED memvars
  BY <1>1 DEF memvars, OriginInv, BufferOrigin, Origin, FileByteOrigin
<1> QED
  BY <1>1, StartOrigin, NextBulkOrigin, PacketOrigin, SavedOrigin, RestOrigin DEF MemNext, Program

-----------------------------------------------------------------------------
(* The program                                                             *)
-----------------------------------------------------------------------------

\* The state of each kind of command in the program.
TplPart == IF cmd \in TplCmds THEN TplIInv ELSE TplIdle
ChipPart == IF cmd \in ChipCmds THEN ChipIInv ELSE ChipIdle
MemPart == IF cmd \in MemCmds THEN MemIInv /\ short = FALSE ELSE MemIdle

CommandInv == cmd \in TplCmds \cup ChipCmds \cup MemCmds /\ TplPart /\ ChipPart /\ MemPart

-----------------------------------------------------------------------------
\* A command is of one kind.
LEMMA KindsDiffer ==
    /\ \A c \in TplCmds : c \notin ChipCmds \cup MemCmds
    /\ \A c \in ChipCmds : c \notin MemCmds
BY DEF TplCmds, ChipCmds, MemCmds

\* No step of a chip command changes the command.
LEMMA ChipKeepsCommand == ChipNext => cmd' = cmd
BY ZenonT(60) DEF ChipNext, IdentifyShort, IdentifyHostFail, IdentifyHost, ByMemory, ReadId, ReadIdFail,
   ReadPage, ChipinfoRefuse, ChipinfoPage, ChipinfoFail, OpenFail, SaveFail, Save,
   PasswordRefuse, PasswordRead, PasswordSent, PasswordFail, Run, Reset

\* Nor does one of a memory command.
LEMMA MemKeepsCommand == MemNext => cmd' = cmd
BY Zenon DEF MemNext, Program, StartRreg, StartCall, NextBulk, PacketOk, PacketFail, CallDone, Saved,
   RregFail, RregDone, CallReturns

\* Nor does one of a text command, or of the device.
LEMMA TplKeepsCommand == TplNext => cmd' = cmd
BY Zenon DEF TplNext, TplHost, Device, Finish, Identified, IdentifyFail, Send, SendFail, Status,
   StatusEmpty, StatusFail, Parse

\* Before the first step.
LEMMA CommandInit == Init => CommandInv
<1>1. ASSUME TplInit, ChipIdle, MemIdle PROVE CommandInv
  <2>1. cmd \in TplCmds /\ cmd \notin ChipCmds \cup MemCmds
    BY <1>1, KindsDiffer DEF TplInit
  <2> QED  BY <1>1, <2>1, TplInitInv DEF CommandInv, TplPart, ChipPart, MemPart
<1>2. ASSUME ChipInit, TplIdle, MemIdle PROVE CommandInv
  <2>1. cmd \in ChipCmds /\ cmd \notin TplCmds \cup MemCmds
    BY <1>2, KindsDiffer DEF ChipInit
  <2> QED  BY <1>2, <2>1, ChipInitInv DEF CommandInv, TplPart, ChipPart, MemPart
<1>3. ASSUME MemInit, short = FALSE, TplIdle, ChipIdle PROVE CommandInv
  <2>1. cmd \in MemCmds /\ cmd \notin TplCmds /\ cmd \notin ChipCmds
    BY <1>3, KindsDiffer DEF MemInit
  <2> QED  BY <1>3, <2>1, MemInitInv DEF CommandInv, TplPart, ChipPart, MemPart
<1> QED  BY <1>1, <1>2, <1>3 DEF Init

\* A step of the program is a step of one command.
LEMMA StepIsOfOneCommand ==
    ASSUME CommandInv, [Next]_vars
    PROVE  /\ cmd' = cmd
           /\ cmd \in TplCmds => [TplNext]_tplvars
           /\ cmd \notin TplCmds => UNCHANGED tplown
           /\ cmd \in ChipCmds => [ChipNext]_chipvars
           /\ cmd \notin ChipCmds => UNCHANGED chipown
           /\ cmd \in MemCmds => [MemNext]_memvars /\ UNCHANGED short
           /\ cmd \notin MemCmds => UNCHANGED memown
<1>1. CASE cmd \in TplCmds /\ TplHost /\ UNCHANGED <<ret, chipown, memown>>
  BY <1>1, KindsDiffer, TplKeepsCommand DEF TplNext
<1>2. CASE cmd \in ChipCmds /\ ChipNext /\ UNCHANGED <<tplown, memown>>
  BY <1>2, KindsDiffer, ChipKeepsCommand
<1>3. CASE cmd \in MemCmds /\ MemNext /\ UNCHANGED <<short, tplown, chipown>>
  BY <1>3, KindsDiffer, MemKeepsCommand
<1>4. CASE Device /\ UNCHANGED <<ret, chipown, memown>>
  <2>1. queue # <<>> /\ cmd' = cmd
    BY <1>4 DEF Device, Finish
  <2>2. cmd \in TplCmds
    BY <2>1 DEF CommandInv, TplPart, TplIdle
  <2> QED  BY <1>4, <2>1, <2>2, KindsDiffer DEF TplNext
<1>5. CASE UNCHANGED vars
  BY <1>5 DEF vars, tplvars, tplown, chipvars, chipown, memvars, memown
<1> QED  BY <1>1, <1>2, <1>3, <1>4, <1>5 DEF Next, Host

\* Every step keeps the invariant.
LEMMA CommandNext == CommandInv /\ [Next]_vars => CommandInv'
<1> SUFFICES ASSUME CommandInv, [Next]_vars PROVE CommandInv'
  OBVIOUS
<1>1. cmd' = cmd
  BY StepIsOfOneCommand
<1>2. TplPart'
  <2>1. CASE cmd \in TplCmds
    BY <1>1, <2>1, StepIsOfOneCommand, TplNextInv DEF CommandInv, TplPart
  <2>2. CASE cmd \notin TplCmds
    <3>1. TplIdle /\ UNCHANGED tplown
      BY <2>2, StepIsOfOneCommand DEF CommandInv, TplPart
    <3>2. TplIdle'
      BY <3>1 DEF TplIdle, tplown, devvars
    <3> QED  BY <1>1, <2>2, <3>2 DEF TplPart
  <2> QED  BY <2>1, <2>2
<1>3. ChipPart'
  <2>1. CASE cmd \in ChipCmds
    BY <1>1, <2>1, StepIsOfOneCommand, ChipNextInv DEF CommandInv, ChipPart
  <2>2. CASE cmd \notin ChipCmds
    <3>1. ChipIdle /\ UNCHANGED chipown
      BY <2>2, StepIsOfOneCommand DEF CommandInv, ChipPart
    <3>2. ChipIdle'
      BY <3>1 DEF ChipIdle, chipown, boardvars
    <3> QED  BY <1>1, <2>2, <3>2 DEF ChipPart
  <2> QED  BY <2>1, <2>2
<1>4. MemPart'
  <2>1. CASE cmd \in MemCmds
    BY <1>1, <2>1, StepIsOfOneCommand, MemNextInv DEF CommandInv, MemPart
  <2>2. CASE cmd \notin MemCmds
    <3>1. MemIdle /\ UNCHANGED memown
      BY <2>2, StepIsOfOneCommand DEF CommandInv, MemPart
    <3>2. MemIdle'
      BY <3>1 DEF MemIdle, memown
    <3> QED  BY <1>1, <2>2, <3>2 DEF MemPart
  <2> QED  BY <2>1, <2>2
<1> QED  BY <1>1, <1>2, <1>3, <1>4 DEF CommandInv

\* The parts stay as they are proved to be.
THEOREM CommandsCompose == Spec => []CommandInv
<1> QED  BY CommandInit, CommandNext, PTL DEF Spec

-----------------------------------------------------------------------------
\* There are arguments for a command at rest.
LEMMA ArgsExist == \E a \in Args : TRUE
<1>1. PICK n \in Numbers : TRUE
  BY ChipAssumption
<1>2. 0 \in 0 .. IdMax + 1 /\ 0 \in 0 .. PwdMax + 1
  BY ConstantTypes
<1>3. [idLen |-> 0, nBytes |-> n, startOffset |-> n, len |-> 0] \in Args
  BY <1>2 DEF Args
<1> QED  BY <1>3

\* No reply is taken for that of another command, with a device that does not answer
\* while it works.
THEOREM RepliesAreOwn == Spec => []ReplyIsOwn
<1>1. TplIInv => ReplyIsOwn
  BY DEF TplIInv, ReplyInv, ReplyIsOwn, Request, SnCmd
<1>2. TplIdle => ReplyIsOwn
  BY DEF TplIdle, ReplyIsOwn
<1>3. CommandInv => ReplyIsOwn
  BY <1>1, <1>2 DEF CommandInv, TplPart
<1> QED  BY <1>3, CommandsCompose, PTL

\* skssn reports success only for a fuse that was burned, and sends the write command
\* once, whatever fails and however many status reads aml_send_command makes (scan.cpp).
THEOREM SuccessIsBurned == Spec => []SuccessMeansBurned
<1>1. ASSUME TplIInv PROVE SuccessMeansBurned
  <2>1. Reliable /\ cmd = "skssn" /\ result = "length" => fuse > 0
    BY <1>1 DEF TplIInv, ReplyInv, FuseInv, Request
  <2>2. burns <= 1
    BY <1>1 DEF TplIInv, BurnInv
  <2> QED  BY <2>1, <2>2 DEF SuccessMeansBurned
<1>2. TplIdle => SuccessMeansBurned
  BY DEF TplIdle, SuccessMeansBurned
<1>3. CommandInv => SuccessMeansBurned
  BY <1>1, <1>2 DEF CommandInv, TplPart
<1> QED  BY <1>3, CommandsCompose, PTL

\* chipid prints the chip id of supported boards only, when no transfer was short; a
\* password command that returns 0 has had the password taken twice; chipinfo stays in
\* its page for all numbers whose sum is an int.
THEOREM ReportIsSo == Spec => []ReportedIsSo
<1>1. CommandInv => ShownMeansSupported
  BY DEF CommandInv, ChipPart, ChipIInv, ChipIdle, ShownMeansSupported
<1>2. CommandInv => PasswordZeroMeansTaken
  BY DEF CommandInv, ChipPart, ChipIInv, PasswordZeroMeansTaken, ChipCmds
<1>3. CommandInv => SavedInPage
  <2>1. saved = <<0, 0>> => SavedInPage
    BY ConstantTypes DEF SavedInPage
  <2> QED  BY <2>1 DEF CommandInv, ChipPart, ChipIInv, ChipIdle
<1>4. CommandInv => ReportedIsSo
  BY <1>1, <1>2, <1>3 DEF ReportedIsSo
<1> QED  BY <1>4, CommandsCompose, PTL

\* A memory command that reports success has copied its range, over any number of
\* pieces and packets, unless a mishap went unseen.
THEOREM SuccessIsCopied == Spec => []SuccessMeansCopied
<1>1. CommandInv => SuccessMeansCopied
  <2>1. cmd \notin MemCmds => SuccessMeansCopied
    BY DEF SuccessMeansCopied, Succeeded, CountCoversRead, MemCmds
  <2> QED  BY <2>1, MemCopied DEF CommandInv, MemPart
<1> QED  BY <1>1, CommandsCompose, PTL

\* What the file of rreg holds comes from where OriginInv says, next to the invariant.
OriginPart == cmd \in MemCmds => OriginInv

\* A byte in the file of rreg is the byte of its place, one that an earlier piece left at
\* the same place of the buffer, or one of the fresh buffer, unless fwrite failed: for
\* ranges of any number of pieces and packets of any length.
THEOREM BytesHaveOrigin == Spec => []FileByteOrigin
<1>1. Init => OriginPart
  <2>1. ASSUME TplInit \/ ChipInit PROVE cmd \notin MemCmds
    BY <2>1, KindsDiffer DEF TplInit, ChipInit
  <2> QED  BY <2>1, OriginInit DEF Init, OriginPart
<1>2. CommandInv /\ OriginPart /\ [Next]_vars => OriginPart'
  <2> SUFFICES ASSUME CommandInv, OriginPart, [Next]_vars, cmd' \in MemCmds PROVE OriginInv'
    BY DEF OriginPart
  <2>1. cmd \in MemCmds /\ [MemNext]_memvars
    BY StepIsOfOneCommand
  <2>2. MemIInv
    BY <2>1 DEF CommandInv, MemPart
  <2> QED  BY <2>1, <2>2, OriginNext DEF OriginPart
<1>3. CommandInv /\ OriginPart => FileByteOrigin
  <2>1. MemIdle => FileByteOrigin
    BY DEF MemIdle, FileByteOrigin
  <2> QED  BY <2>1 DEF CommandInv, MemPart, OriginPart, OriginInv
<1> QED  BY <1>1, <1>2, <1>3, CommandsCompose, PTL DEF Spec

\* No command changes memory outside the range it was to write.
THEOREM OnlyRangeWritten == Spec => WritesInRange
<1>1. CommandInv /\ [Next]_vars =>
          [\A a \in Addr : mem'[a] # mem[a] =>
              cmd \notin Reading /\ a \in range.addr .. range.addr + range.size - 1]_memvars
  <2> SUFFICES ASSUME CommandInv, [Next]_vars, NEW a \in Addr, mem'[a] # mem[a]
               PROVE  cmd \notin Reading /\ a \in range.addr .. range.addr + range.size - 1
    OBVIOUS
  <2>1. cmd \in MemCmds /\ [MemNext]_memvars
    BY StepIsOfOneCommand DEF memown
  <2>2. MemIInv
    BY <2>1 DEF CommandInv, MemPart
  <2> QED  BY <2>1, <2>2, MemChange
<1> QED  BY <1>1, CommandsCompose, PTL DEF Spec, WritesInRange

\* The variables keep their types, those of the commands that do not run included.
THEOREM CommandTypeCorrect == Spec => []TypeOK
<1>1. ASSUME CommandInv PROVE TplTypeOK
  <2>1. CASE cmd \in TplCmds
    BY <1>1, <2>1 DEF CommandInv, TplPart, TplIInv
  <2>2. CASE cmd \notin TplCmds
    <3>1. short \in BOOLEAN
      BY <1>1, <2>2 DEF CommandInv, ChipPart, ChipIInv, ChipTypeOK, MemPart
    <3>2. TplIdle
      BY <1>1, <2>2 DEF CommandInv, TplPart
    <3>3. 0 \in 0 .. Retries /\ 0 \in 0 .. FrameMax /\ 1 \in 1 .. LenMax /\ <<>> \in Seq(Requests)
      BY TplAssumption, RetriesPositive
    <3> QED  BY <2>2, <3>1, <3>2, <3>3 DEF TplIdle, TplTypeOK, Results
  <2> QED  BY <2>1, <2>2
<1>2. ASSUME CommandInv PROVE ChipTypeOK
  <2>1. CASE cmd \in ChipCmds
    BY <1>1, <1>2, <2>1 DEF CommandInv, ChipPart, ChipIInv
  <2>2. CASE cmd \notin ChipCmds
    <3>1. short \in BOOLEAN
      BY <1>1, <1>2 DEF TplTypeOK
    <3>2. ChipIdle
      BY <1>2, <2>2 DEF CommandInv, ChipPart
    <3>3. version \in Versions /\ stage \in Stages
      BY <3>2, ChipAssumption, Zenon DEF ChipIdle
    <3>4. args \in Args
      BY <3>2, ArgsExist, Zenon DEF ChipIdle
    <3>5. 0 \in 0 .. PageLen /\ -1 \in -1 .. ChipIdLen
      BY ConstantTypes
    <3>6. accepted = 0 /\ started = FALSE /\ idVer = -1 /\ id3 = -1 /\ i = 0 /\ shown = -1 /\ left = 0
      BY <3>2 DEF ChipIdle
    <3>7. started \in BOOLEAN
      BY <3>6, Zenon
    <3>8. /\ accepted \in 0 .. 2 /\ i \in 0 .. 2
          /\ shown \in -1 .. ChipIdLen /\ left \in 0 .. PageLen
          /\ idVer \in Versions \cup {-1} /\ id3 \in Stages \cup {-1}
      BY <3>5, <3>6
    <3> QED  BY <2>2, <3>1, <3>3, <3>4, <3>8, <3>7 DEF ChipTypeOK
  <2> QED  BY <2>1, <2>2
<1>3. ASSUME CommandInv PROVE MemTypeOK
  <2>1. CASE cmd \in MemCmds
    BY <1>3, <2>1 DEF CommandInv, MemPart, MemIInv
  <2>2. CASE cmd \notin MemCmds
    <3>1. MemIdle
      BY <1>3, <2>2 DEF CommandInv, MemPart
    <3>2. mem \in Memories
      BY <3>1, CtrlAssumption, Zenon DEF MemIdle
    <3>3. mem \in [Addr -> Byte]
      BY <3>2, MemConstants
    <3>4. buffer \in [Index -> Byte \cup {Junk}] /\ out \in Seq(Byte \cup {Junk})
      BY <3>1 DEF MemIdle
    <3>5. /\ offset \in 0 .. range.size /\ bulkSize \in 0 .. BulkMax
          /\ processed \in 0 .. bulkSize /\ moved \in 0 .. BulkMax
          /\ range = [addr |-> 0, size |-> 0] /\ saving = FALSE /\ failed = FALSE /\ unseen = {}
      BY <3>1, MemConstants DEF MemIdle
    <3> QED  BY <2>2, <3>3, <3>4, <3>5 DEF MemTypeOK
  <2> QED  BY <2>1, <2>2
<1>4. CommandInv => TypeOK
  BY <1>1, <1>2, <1>3 DEF TypeOK
<1> QED  BY <1>4, CommandsCompose, PTL

-----------------------------------------------------------------------------
\* What a command has left to do: the places it has still to pass, the second of two
\* commands or passwords or the bytes of the range, and what is left of that.
Phase ==
    CASE pc = "start" -> 3
      [] pc \in {"send", "status", "stage", "bulk", "packet", "return"} -> 2
      [] pc = "exit" -> 0
      [] OTHER -> 1

TplRemaining == <<Phase, 2 - step, IF pc = "send" THEN 1 ELSE 0, retry>>

ChipRemaining == <<Phase, 2 - i, 0, 0>>

PieceSpot == CASE pc = "bulk" -> 2 [] pc = "packet" -> 1 [] OTHER -> 0

MemRemaining == <<Phase, range.size - offset, PieceSpot, bulkSize - processed>>

Remaining ==
    IF cmd \in TplCmds THEN TplRemaining
    ELSE IF cmd \in ChipCmds THEN ChipRemaining
    ELSE MemRemaining

LEMMA Falls ==
    ASSUME NEW p, NEW q, NEW r, NEW s, NEW p2, NEW q2, NEW r2, NEW s2,
           \/ p2 < p
           \/ p2 = p /\ q2 < q
           \/ p2 = p /\ q2 = q /\ r2 < r
           \/ p2 = p /\ q2 = q /\ r2 = r /\ s2 < s
    PROVE  Below(<<p2, q2, r2, s2>>, <<p, q, r, s>>)
<1> DEFINE m == <<p2, q2, r2, s2>>
           n == <<p, q, r, s>>
<1>1. CASE p2 < p
  <2>1. 1 \in 1 .. Len(n) /\ m[1] < n[1] /\ \A j \in 1 .. 1 - 1 : m[j] = n[j]
    BY <1>1
  <2> QED  BY <2>1 DEF Below
<1>2. CASE p2 = p /\ q2 < q
  <2>1. 2 \in 1 .. Len(n) /\ m[2] < n[2] /\ \A j \in 1 .. 2 - 1 : m[j] = n[j]
    BY <1>2
  <2> QED  BY <2>1 DEF Below
<1>3. CASE p2 = p /\ q2 = q /\ r2 < r
  <2>1. 3 \in 1 .. Len(n) /\ m[3] < n[3] /\ \A j \in 1 .. 3 - 1 : m[j] = n[j]
    BY <1>3
  <2> QED  BY <2>1 DEF Below
<1>4. CASE p2 = p /\ q2 = q /\ r2 = r /\ s2 < s
  <2>1. 4 \in 1 .. Len(n) /\ m[4] < n[4] /\ \A j \in 1 .. 4 - 1 : m[j] = n[j]
    BY <1>4
  <2> QED  BY <2>1 DEF Below
<1> QED  BY <1>1, <1>2, <1>3, <1>4

\* The phases of two places.
LEMMA PhaseFalls ==
    /\ Phase \in 0 .. 3
    /\ pc # "exit" /\ pc' = "exit" => Phase' < Phase
    /\ pc = "start" /\ pc' # "start" => Phase' < Phase
    /\ pc \in {"send", "status", "stage", "bulk", "packet", "return"}
       /\ pc' \in {"page", "memory", "parse"} => Phase' < Phase
    /\ pc \in {"send", "status", "stage", "bulk", "packet", "return"}
       /\ pc' \in {"send", "status", "stage", "bulk", "packet", "return"} => Phase' = Phase
BY DEF Phase

\* Each step of a text command brings its end nearer.
LEMMA TplFalls ==
    ASSUME TplIInv, TplHost
    PROVE  \/ Phase' < Phase
           \/ Phase' = Phase /\ 2 - step' < 2 - step
           \/ Phase' = Phase /\ step' = step /\ pc = "send" /\ pc' # "send"
           \/ Phase' = Phase /\ step' = step /\ pc' = pc /\ retry' < retry
<1>1. step \in {1, 2} /\ retry \in Nat /\ (pc = "status" => retry > 0)
  BY RetriesPositive DEF TplIInv, TplTypeOK, RetryInv
<1>2. CASE Identified
  BY <1>2, PhaseFalls DEF Identified
<1>3. CASE IdentifyFail \/ Parse
  BY <1>3, PhaseFalls DEF IdentifyFail, Parse, Return
<1>4. CASE Send
  BY <1>4, PhaseFalls DEF Send
<1>5. ASSUME pc \in {"send", "status"}, SendCommandFail
      PROVE  Phase' < Phase \/ (Phase' = Phase /\ 2 - step' < 2 - step)
  BY <1>1, <1>5, PhaseFalls DEF SendCommandFail, Return
<1>6. CASE SendFail
  BY <1>5, <1>6 DEF SendFail
<1>7. CASE Status \/ StatusEmpty
  <2>1. pc = "status" /\ Replied
    BY <1>7 DEF Status, StatusEmpty
  <2> QED  BY <1>1, <2>1, PhaseFalls DEF Replied, Return
<1>8. CASE StatusFail
  <2>1. CASE UNCHANGED <<pc, step, result>>
    BY <1>1, <1>8, <2>1, PhaseFalls DEF StatusFail
  <2>2. CASE SendCommandFail
    BY <1>5, <1>8, <2>2 DEF StatusFail
  <2> QED  BY <1>8, <2>1, <2>2 DEF StatusFail
<1> QED  BY <1>2, <1>3, <1>4, <1>6, <1>7, <1>8 DEF TplHost

\* Each step of a chip command.
LEMMA ChipFalls ==
    ASSUME ChipIInv, ChipNext
    PROVE  Phase' < Phase \/ (Phase' = Phase /\ 2 - i' < 2 - i)
<1>1. i \in 0 .. 2
  BY DEF ChipIInv, ChipTypeOK
<1>2. CASE IdentifyShort \/ IdentifyHostFail \/ \E n \in 0 .. IdMax : IdentifyHost(n)
  BY <1>2, PhaseFalls DEF IdentifyShort, IdentifyHostFail, IdentifyHost, IdentifyResult, Exit
<1>3. CASE ByMemory
  BY <1>3, PhaseFalls DEF ByMemory, Exit
<1>4. CASE (\E n \in 0 .. ChipIdLen : ReadId(n)) \/ ReadIdFail \/ \E n \in 0 .. PageAsked : ReadPage(n)
  BY <1>4, PhaseFalls DEF ReadId, ReadIdFail, ReadPage, Exit
<1>5. CASE ChipinfoRefuse \/ (\E f \in BOOLEAN : ChipinfoPage(f)) \/ ChipinfoFail
  BY <1>5, PhaseFalls DEF ChipinfoRefuse, ChipinfoPage, ChipinfoFail, Exit
<1>6. CASE OpenFail \/ SaveFail \/ Save
  BY <1>6, PhaseFalls DEF OpenFail, SaveFail, Save, Exit
<1>7. CASE (\E r \in {-1, -487, -496} : PasswordRefuse(r)) \/ PasswordRead
  BY <1>7, PhaseFalls DEF PasswordRefuse, PasswordRead, Exit
<1>8. CASE PasswordSent \/ PasswordFail
  BY <1>1, <1>8, PhaseFalls DEF PasswordSent, PasswordFail, Exit
<1>9. CASE Run \/ Reset
  BY <1>9, PhaseFalls DEF Run, Reset, Exit
<1> QED  BY <1>2, <1>3, <1>4, <1>5, <1>6, <1>7, <1>8, <1>9 DEF ChipNext

\* A piece of rreg is not empty.
PieceInv == cmd = "rreg" /\ pc \in {"packet", "return"} => bulkSize > 0

LEMMA PieceNext == MemIInv /\ PieceInv /\ [MemNext]_memvars => PieceInv'
<1> SUFFICES ASSUME MemIInv, PieceInv, [MemNext]_memvars PROVE PieceInv'
  OBVIOUS
<1>1. CASE \E a \in Ranges, o \in BOOLEAN : StartRreg(a, o)
  BY <1>1 DEF StartRreg, PieceInv
<1>2. CASE \E a \in Ranges, b \in Inputs : StartCall(a, b)
  BY <1>2 DEF StartCall, PieceInv
<1>3. CASE NextBulk
  <2>1. offset \in Nat /\ range.size \in Nat /\ BulkMax \in Nat /\ BulkMax > 0
    BY RangeInMemory, MemConstants DEF MemIInv, MemTypeOK
  <2> QED  BY <1>3, <2>1 DEF NextBulk, Call, aml_min, PieceInv
<1>4. CASE CallDone \/ \E n \in 0 .. Packet : PacketOk(n) \/ PacketFail(n)
  BY <1>4 DEF CallDone, PacketOk, PacketFail, PieceInv
<1>5. CASE RregFail \/ RregDone \/ CallReturns \/ \E n \in 0 .. bulkSize : Saved(n)
  BY <1>5 DEF RregFail, RregDone, CallReturns, Exit, Saved, PieceInv
<1>6. CASE UNCHANGED memvars
  BY <1>6 DEF memvars, PieceInv
<1> QED  BY <1>1, <1>2, <1>3, <1>4, <1>5, <1>6 DEF MemNext, Program

\* Each step of a memory command.
LEMMA MemFalls ==
    ASSUME MemIInv, PieceInv, MemNext
    PROVE  \/ Phase' < Phase
           \/ Phase' = Phase /\ range.size' - offset' < range.size - offset
           \/ /\ Phase' = Phase /\ range.size' = range.size /\ offset' = offset
              /\ PieceSpot' < PieceSpot
           \/ /\ Phase' = Phase /\ range.size' = range.size /\ offset' = offset
              /\ PieceSpot' = PieceSpot /\ bulkSize' - processed' < bulkSize - processed
<1>1. /\ offset \in Nat /\ range.size \in Nat /\ bulkSize \in Nat /\ processed \in Nat
      /\ PacketMax \in Nat /\ PacketMax > 0
  BY RangeInMemory, MemConstants DEF MemIInv, MemTypeOK
<1>2. CASE \/ \E a \in Ranges, o \in BOOLEAN : StartRreg(a, o)
           \/ \E a \in Ranges, b \in Inputs : StartCall(a, b)
  BY <1>2, PhaseFalls DEF StartRreg, StartCall, Call
<1>3. CASE NextBulk
  BY <1>3, PhaseFalls DEF NextBulk, Call, PieceSpot
<1>4. ASSUME NEW n \in 0 .. Packet, PacketOk(n)
      PROVE  /\ Phase' = Phase /\ range.size' = range.size /\ offset' = offset
             /\ PieceSpot' = PieceSpot /\ bulkSize' - processed' < bulkSize - processed
  <2>1. Packet \in Nat /\ Packet > 0
    BY <1>1, <1>4 DEF PacketOk, Packet, aml_min
  <2> QED  BY <1>1, <1>4, <2>1, PhaseFalls DEF PacketOk, PieceSpot
<1>5. CASE CallDone \/ \E n \in 0 .. Packet : PacketFail(n)
  BY <1>5, PhaseFalls DEF CallDone, PacketFail, PieceSpot
<1>6. ASSUME NEW n \in 0 .. bulkSize, Saved(n)
      PROVE  Phase' = Phase /\ range.size' - offset' < range.size - offset
  <2>1. bulkSize > 0
    BY <1>6 DEF Saved, PieceInv
  <2> QED  BY <1>1, <1>6, <2>1, PhaseFalls DEF Saved
<1>7. CASE RregFail \/ RregDone \/ CallReturns
  BY <1>7, PhaseFalls DEF RregFail, RregDone, CallReturns, Exit
<1> QED  BY <1>2, <1>3, <1>4, <1>5, <1>6, <1>7 DEF MemNext, Program

PiecePart == cmd \in MemCmds => PieceInv

\* Every command over the control endpoint comes to its end after finitely many steps,
\* for every number of retries, bytes, packets and pieces and whatever its transfers do:
\* each of its steps takes the four numbers down, in lexicographic order, none of them
\* falls below 0, and no step of the device brings them up (the loops of
\* aml_send_command, update_sub_cmd_tplcmd, update_sub_cmd_set_password, Aml_Libusb_Ctrl_RdWr,
\* AmlUsbReadMemCtr and AmlUsbWriteMemCtr).
THEOREM CommandProgress ==
    Spec => /\ [](Remaining \in Nat \X Nat \X Nat \X Nat)
            /\ [][IF Host THEN Below(Remaining', Remaining) ELSE Remaining' = Remaining]_vars
<1>1. CommandInv => Remaining \in Nat \X Nat \X Nat \X Nat
  <2> SUFFICES ASSUME CommandInv PROVE Remaining \in Nat \X Nat \X Nat \X Nat
    OBVIOUS
  <2>1. Phase \in Nat
    BY PhaseFalls
  <2>2. CASE cmd \in TplCmds
    <3>1. step \in {1, 2} /\ retry \in Nat
      BY <2>2, RetriesPositive DEF CommandInv, TplPart, TplIInv, TplTypeOK
    <3> QED  BY <2>1, <2>2, <3>1 DEF Remaining, TplRemaining
  <2>3. CASE cmd \in ChipCmds
    <3>1. i \in 0 .. 2 /\ cmd \notin TplCmds
      BY <2>3, KindsDiffer DEF CommandInv, ChipPart, ChipIInv, ChipTypeOK
    <3> QED  BY <2>1, <2>3, <3>1 DEF Remaining, ChipRemaining
  <2>4. CASE cmd \in MemCmds
    <3>1. MemIInv /\ cmd \notin TplCmds /\ cmd \notin ChipCmds
      BY <2>4, KindsDiffer DEF CommandInv, MemPart
    <3>2. range.size - offset \in Nat /\ bulkSize - processed \in Nat
      BY <3>1, RangeInMemory, MemConstants DEF MemIInv, MemTypeOK
    <3>3. PieceSpot \in Nat
      BY DEF PieceSpot
    <3> QED  BY <2>1, <3>1, <3>2, <3>3 DEF Remaining, MemRemaining
  <2> QED  BY <2>2, <2>3, <2>4 DEF CommandInv
<1>2. ASSUME CommandInv, PiecePart, Host PROVE Below(Remaining', Remaining)
  <2>1. cmd' = cmd
    BY <1>2, StepIsOfOneCommand DEF Next
  <2>2. CASE cmd \in TplCmds
    <3>1. TplHost /\ TplIInv
      BY <1>2, <2>2, KindsDiffer DEF Host, CommandInv, TplPart
    <3>2. Below(TplRemaining', TplRemaining)
      BY <3>1, TplFalls, Falls DEF TplRemaining
    <3> QED  BY <2>1, <2>2, <3>2 DEF Remaining
  <2>3. CASE cmd \in ChipCmds
    <3>1. ChipNext /\ ChipIInv /\ cmd \notin TplCmds
      BY <1>2, <2>3, KindsDiffer DEF Host, CommandInv, ChipPart
    <3>2. Below(ChipRemaining', ChipRemaining)
      BY <3>1, ChipFalls, Falls DEF ChipRemaining
    <3> QED  BY <2>1, <2>3, <3>1, <3>2 DEF Remaining
  <2>4. CASE cmd \in MemCmds
    <3>1. MemNext /\ MemIInv /\ PieceInv /\ cmd \notin TplCmds /\ cmd \notin ChipCmds
      BY <1>2, <2>4, KindsDiffer DEF Host, CommandInv, MemPart, PiecePart
    <3>2. Below(MemRemaining', MemRemaining)
      BY <3>1, MemFalls, Falls DEF MemRemaining
    <3> QED  BY <2>1, <3>1, <3>2 DEF Remaining
  <2> QED  BY <1>2, <2>2, <2>3, <2>4 DEF CommandInv
<1>3. ASSUME Device, UNCHANGED <<ret, chipown, memown>> PROVE Remaining' = Remaining
  <2>1. UNCHANGED <<cmd, pc, step, retry>>
    BY <1>3 DEF Device, Finish
  <2>2. UNCHANGED <<i, range, offset, bulkSize, processed>>
    BY <1>3 DEF chipown, memown
  <2>3. Phase' = Phase /\ PieceSpot' = PieceSpot
    BY <2>1 DEF Phase, PieceSpot
  <2> QED  BY <2>1, <2>2, <2>3 DEF Remaining, TplRemaining, ChipRemaining, MemRemaining
<1>4. CommandInv /\ PiecePart /\ [Next]_vars
      => [IF Host THEN Below(Remaining', Remaining) ELSE Remaining' = Remaining]_vars
  BY <1>2, <1>3 DEF Next
<1>5. Init => PiecePart
  <2>1. ASSUME TplInit \/ ChipInit PROVE cmd \notin MemCmds
    BY <2>1, KindsDiffer DEF TplInit, ChipInit
  <2> QED  BY <2>1 DEF Init, PiecePart, MemInit, PieceInv
<1>6. CommandInv /\ PiecePart /\ [Next]_vars => PiecePart'
  BY StepIsOfOneCommand, PieceNext DEF PiecePart, CommandInv, MemPart
<1> QED  BY <1>1, <1>4, <1>5, <1>6, CommandsCompose, PTL DEF Spec

=============================================================================
