------------------------- MODULE UpdateMain_proofs -------------------------
(***************************************************************************)
(* Proofs about main for argument lists of every length, every number of   *)
(* boards and every number behind "dev".                                   *)
(***************************************************************************)
EXTENDS UpdateMain, TLAPS

\* The values of the variables that the steps look at.
TypeInv ==
    /\ cmd \in Cmds /\ argc \in Nat \ {0} /\ first \in Words /\ boards \in Nat
    /\ (first.kind = "none") = (argc <= 2)
    /\ pc \in {"start", "find", "command", "exit"}
    /\ devNo \in Nat \cup {-2} /\ device \in Nat \cup {NULL}
    /\ base \in {2, 3} /\ cmdArgc \in Nat

\* The board the user named, the first one if he named none.
Named ==
    CASE first.kind = "dev" -> first.no
      [] first.kind = "path" -> ByPath
      [] OTHER -> 0

\* Before the command nothing has been done to a board.
IdleInv == pc # "exit" => target = NULL /\ used = {} /\ done = FALSE

\* While the board is sought its number stands in devNo, or it has been found by its path.
FindInv ==
    /\ pc = "start" => device = NULL /\ devNo = -2
    /\ pc = "find" =>
          /\ device # NULL => device = ByPath /\ first.kind = "path"
          /\ first.kind \in {"path", "pathname"} => devNo = -2
          /\ first.kind \notin {"path", "pathname"} => devNo = Named

\* The command has the board and what is behind it in the argument list; with nothing
\* behind the command's own name its list is empty.
CommandInv ==
    /\ pc = "command" => device = Named
    /\ pc \in {"find", "command"} =>
          /\ argc > 2 => base + cmdArgc = argc
          /\ argc <= 2 => cmdArgc = 0

\* The inductive invariant.
IInv ==
    /\ TypeInv /\ IdleInv /\ FindInv /\ CommandInv
    /\ NamedBoardOnly /\ StatusTells /\ CountedArgumentsOnly

-----------------------------------------------------------------------------
LEMMA WordKinds ==
    ASSUME NEW w \in Words
    PROVE  /\ w.kind \in {"dev", "badDev", "path", "pathname", "word", "none"}
           /\ w.no \in Nat
<1>1. DevNos \subseteq Nat
  BY MainAssumption
<1>2. CASE w \in [kind : {"dev"}, no : DevNos]
  BY <1>1, <1>2
<1>3. CASE w \in [kind : {"badDev", "path", "pathname", "word", "none"}, no : {0}]
  BY <1>3
<1> QED  BY <1>2, <1>3 DEF Words

LEMMA InitInv == Init => IInv
<1> SUFFICES ASSUME Init PROVE IInv
  OBVIOUS
<1>1. TypeInv
  BY MainAssumption DEF Init, TypeInv, NULL
<1>2. IdleInv /\ FindInv /\ CommandInv
  BY DEF Init, IdleInv, FindInv, CommandInv, NULL
<1>3. NamedBoardOnly /\ StatusTells /\ CountedArgumentsOnly
  BY DEF Init, NamedBoardOnly, StatusTells, CountedArgumentsOnly, NULL
<1> QED  BY <1>1, <1>2, <1>3 DEF IInv

\* The codes with which main and the commands report a failure keep a bit in the byte
\* that is left of them.
LEMMA CodesShow ==
    /\ -1020 % 256 # 0
    /\ \A c \in Reported \ Empty : \A r \in Errors(c) : r \in Int /\ r % 256 # 0
    /\ \A c \in Reported : \A r \in Least(c).rets : r \in Int /\ r % 256 # 0
<1>1. -1020 % 256 # 0
  OBVIOUS
<1>2. ASSUME NEW c \in Reported \ Empty, NEW r \in Errors(c) PROVE r \in Int /\ r % 256 # 0
  <2>1. \A x \in IoErrors : x \in Int /\ x % 256 # 0
    BY DEF IoErrors
  <2> QED  BY <1>2, <2>1 DEF Errors
<1>3. ASSUME NEW c \in Reported, NEW r \in Least(c).rets PROVE r \in Int /\ r % 256 # 0
  BY <1>3 DEF Least, Memory
<1> QED  BY <1>1, <1>2, <1>3

\* What a status of success leaves open is which of the lossy commands has failed.
LEMMA BadTells ==
    ASSUME NEW c \in Reported \ Empty, NEW r \in Bad(c)
    PROVE  r \in Int /\ (r % 256 = 0 => r = 0 /\ c \in Lossy)
<1>1. CASE r \in Errors(c)
  BY <1>1, CodesShow
<1>2. CASE r \notin Errors(c)
  BY <1>2 DEF Bad
<1> QED  BY <1>1, <1>2

\* The program ends with an error before a command has done anything.
LEMMA FailsInv ==
    ASSUME IInv, pc # "exit", pc' = "exit", ret' \in Int, ret' % 256 # 0,
           UNCHANGED <<cmd, argc, first, boards, used, target, done>>,
           base' \in {2, 3}, cmdArgc' \in Nat, devNo' \in Nat \cup {-2},
           device' \in Nat \cup {NULL}
    PROVE  IInv'
<1>1. TypeInv' /\ IdleInv' /\ FindInv' /\ CommandInv'
  BY DEF IInv, TypeInv, IdleInv, FindInv, CommandInv
<1>2. target' = NULL /\ used' = {} /\ done' = FALSE
  BY DEF IInv, IdleInv
<1>3. NamedBoardOnly' /\ StatusTells' /\ CountedArgumentsOnly'
  BY <1>2 DEF NamedBoardOnly, StatusTells, CountedArgumentsOnly
<1> QED  BY <1>1, <1>3 DEF IInv

-----------------------------------------------------------------------------
LEMMA UsageInv == ASSUME IInv, Usage PROVE IInv'
<1>1. /\ pc = "start" /\ pc' = "exit" /\ ret' = 0
      /\ argc = 1 \/ cmd \in {"help", "scan"}
      /\ UNCHANGED <<cmd, argc, first, boards, devNo, base, cmdArgc, device, used, target, done>>
  BY DEF Usage, Exit, input
<1>2. target = NULL /\ used = {}
  BY <1>1 DEF IInv, IdleInv
<1>3. TypeInv' /\ IdleInv' /\ FindInv' /\ CommandInv'
  BY <1>1 DEF IInv, TypeInv, IdleInv, FindInv, CommandInv
<1>4. cmd \notin Telling \/ argc = 1
  BY <1>1 DEF Telling, Reported
<1>5. StatusTells'
  BY <1>1, <1>4 DEF StatusTells, ShowsText, Telling
<1>6. NamedBoardOnly' /\ CountedArgumentsOnly'
  BY <1>1, <1>2 DEF NamedBoardOnly, CountedArgumentsOnly
<1> QED  BY <1>3, <1>5, <1>6 DEF IInv

\* The board begins to be sought: what argv[2] says stands in devNo, or in device.
LEMMA SeeksInv ==
    ASSUME IInv, pc = "start", pc' = "find", UNCHANGED <<input, used, target, done>>,
           devNo' \in Nat \cup {-2}, device' \in {NULL, ByPath},
           device' # NULL => first.kind = "path",
           first.kind \in {"path", "pathname"} => devNo' = -2,
           first.kind \notin {"path", "pathname"} => devNo' = Named,
           base' \in {2, 3}, cmdArgc' \in Nat,
           argc > 2 => base' + cmdArgc' = argc, argc <= 2 => cmdArgc' = 0
    PROVE  IInv'
<1>1. UNCHANGED <<cmd, argc, first, boards>>
  BY DEF input
<1>2. TypeInv'
  BY <1>1 DEF IInv, TypeInv, ByPath
<1>3. target' = NULL /\ used' = {} /\ done' = FALSE
  BY DEF IInv, IdleInv
<1>4. IdleInv' /\ FindInv' /\ CommandInv'
  BY <1>1, <1>3 DEF IdleInv, FindInv, CommandInv, Named
<1>5. NamedBoardOnly' /\ StatusTells' /\ CountedArgumentsOnly'
  BY <1>3 DEF NamedBoardOnly, StatusTells, CountedArgumentsOnly
<1> QED  BY <1>2, <1>4, <1>5 DEF IInv

LEMMA DeviceArgumentInv == ASSUME IInv, DeviceArgument PROVE IInv'
<1>1. /\ TypeInv /\ pc = "start" /\ devNo \in Nat \cup {-2} /\ device = NULL /\ argc \in Nat
      /\ UNCHANGED <<input, used, target, done>>
  BY DEF IInv, TypeInv, FindInv, DeviceArgument
<1>2. /\ first.kind \in {"dev", "badDev", "path", "pathname", "word", "none"}
      /\ first.no \in Nat
      /\ (first.kind = "none") = (argc <= 2)
  BY <1>1, WordKinds DEF TypeInv
<1>3. UNCHANGED <<cmd, argc, first, boards>>
  BY <1>1 DEF input
<1>4. CASE pc' = "find"
  <2>1. CASE first.kind = "none"
    BY <1>1, <1>2, <1>4, <2>1, SeeksInv DEF DeviceArgument, Named, PathArgument
  <2>2. CASE first.kind = "dev"
    BY <1>1, <1>2, <1>4, <2>2, SeeksInv DEF DeviceArgument, Named, ArgsFrom, PathArgument
  <2>3. CASE first.kind = "badDev"
    BY <1>2, <1>4, <2>3 DEF DeviceArgument, PathArgument, Fail, Exit
  <2>4. CASE first.kind \in {"path", "pathname"}
    <3>1. /\ argc > 2 /\ cmdArgc' = argc - 3 /\ base' = 3 /\ devNo' = devNo
          /\ device' \in {NULL, ByPath} /\ (device' # NULL => first.kind = "path")
      <4>1. argc > 2
        BY <1>1, <1>2, <2>4
      <4>2. /\ cmdArgc' = argc - 3 /\ base' = 3 /\ devNo' = devNo
            /\ device' \in {NULL} \cup (IF boards > 0 /\ first.kind = "path" THEN {ByPath} ELSE {})
        BY <2>4 DEF DeviceArgument, ArgsFrom, PathArgument
      <4> QED  BY <4>1, <4>2
    <3>2. devNo = -2
      BY <1>1 DEF IInv, FindInv
    <3> QED  BY <1>1, <1>4, <2>4, <3>1, <3>2, SeeksInv
  <2>5. CASE first.kind = "word"
    BY <1>1, <1>2, <1>4, <2>5, SeeksInv DEF DeviceArgument, Named, ArgsFrom, PathArgument
  <2> QED  BY <1>2, <2>1, <2>2, <2>3, <2>4, <2>5
<1>5. CASE pc' # "find"
  <2>1. /\ pc' = "exit" /\ ret' = -1020 /\ device' = NULL
        /\ \/ devNo' = first.no /\ base' = 3 /\ cmdArgc' = argc - 3 /\ first.kind = "dev"
           \/ UNCHANGED <<devNo, base, cmdArgc>>
    BY <1>1, <1>5 DEF DeviceArgument, Fail, Exit, ArgsFrom
  <2>2. base' \in {2, 3} /\ cmdArgc' \in Nat /\ devNo' \in Nat \cup {-2}
    BY <1>1, <1>2, <2>1 DEF TypeInv
  <2> QED  BY <1>1, <1>3, <2>1, <2>2, CodesShow, FailsInv
<1> QED  BY <1>4, <1>5

LEMMA FindDeviceInv == ASSUME IInv, FindDevice PROVE IInv'
<1>1. /\ TypeInv /\ pc = "find" /\ UNCHANGED <<devNo, base, cmdArgc, used, target, done>>
      /\ UNCHANGED <<cmd, argc, first, boards>>
  BY DEF IInv, FindDevice, input
<1>2. CASE pc' = "command"
  <2>1. device' = Named /\ device' \in Nat
    <3>1. CASE device # NULL
      BY <1>1, <3>1 DEF IInv, FindInv, FindDevice, Named, ByPath
    <3>2. CASE device = NULL
      <4>1. devNo # -2 /\ device' = devNo
        BY <1>2, <3>2 DEF FindDevice, Handles, Fail, Exit
      <4> QED  BY <1>1, <4>1 DEF IInv, TypeInv, FindInv
    <3> QED  BY <3>1, <3>2
  <2>2. TypeInv'
    BY <1>1, <1>2, <2>1 DEF TypeInv
  <2>3. target' = NULL /\ used' = {} /\ done' = FALSE
    BY <1>1 DEF IInv, IdleInv
  <2>4. IdleInv' /\ FindInv' /\ CommandInv'
    BY <1>1, <1>2, <2>1, <2>3 DEF IInv, IdleInv, FindInv, CommandInv, Named
  <2>5. NamedBoardOnly' /\ StatusTells' /\ CountedArgumentsOnly'
    BY <1>1, <1>2, <2>3, <2>4 DEF NamedBoardOnly, StatusTells, CountedArgumentsOnly, CommandInv
  <2> QED  BY <2>2, <2>4, <2>5 DEF IInv
<1>3. CASE pc' # "command"
  <2>1. pc' = "exit" /\ ret' = -1020 /\ device' = device
    BY <1>3 DEF FindDevice, Fail, Exit
  <2> QED  BY <1>1, <2>1, CodesShow, FailsInv DEF TypeInv
<1> QED  BY <1>2, <1>3

-----------------------------------------------------------------------------
\* The command cannot begin, or the code ends it.
LEMMA NothingDoneInv ==
    ASSUME IInv,
           \/ Refuse \/ Unknown \/ MassStorageCommand \/ SnUsage \/ DownUsage \/ Down
    PROVE  IInv'
<1>1. /\ pc = "command" /\ pc' = "exit" /\ UNCHANGED <<base, cmdArgc, used, target, done>>
      /\ UNCHANGED <<cmd, argc, first, boards>>
  BY DEF Refuse, Unknown, MassStorageCommand, SnUsage, DownUsage, Down, Fail, Exit, input
<1>2. TypeInv
  BY DEF IInv
<1>3. devNo' \in Nat \cup {-2} /\ device' \in Nat \cup {NULL}
  <2>1. CASE Down
    BY <1>2, <2>1, WordKinds DEF Down, TypeInv
  <2>2. CASE ~ Down
    BY <1>2, <2>2 DEF TypeInv, Refuse, Unknown, MassStorageCommand, SnUsage, DownUsage
  <2> QED  BY <2>1, <2>2
<1>4. ret' \in Int /\ ret' % 256 # 0
  <2>1. CASE ret' = -1020
    BY <2>1, CodesShow
  <2>2. CASE ret' # -1020
    <3>1. cmd \in Reported /\ ret' \in Least(cmd).rets
      BY <2>2 DEF Refuse, Unknown, MassStorageCommand, SnUsage, DownUsage, Down, Fail, Exit
    <3> QED  BY <3>1, CodesShow
  <2> QED  BY <2>1, <2>2
<1> QED  BY <1>1, <1>2, <1>3, <1>4, FailsInv DEF TypeInv

LEMMA MassStorageUsageInv == ASSUME IInv, MassStorageUsage PROVE IInv'
<1>1. /\ pc = "command" /\ pc' = "exit"
      /\ UNCHANGED <<cmd, argc, first, boards, devNo, base, cmdArgc, device, used, target, done>>
  BY DEF MassStorageUsage, Fail, Exit, input
<1>2. CASE ret' = -1020
  BY <1>1, <1>2, CodesShow, FailsInv DEF IInv, TypeInv
<1>3. CASE ret' # -1020
  <2>1. cmd \in {"msdev", "msget"} /\ argc > 3 /\ ret' = 0 /\ cmd \notin Telling
    BY <1>3 DEF MassStorageUsage, Fail, Exit, MassStorage, Telling, Reported
  <2>2. target = NULL /\ used = {}
    BY <1>1 DEF IInv, IdleInv
  <2>3. TypeInv' /\ IdleInv' /\ FindInv' /\ CommandInv'
    BY <1>1 DEF IInv, TypeInv, IdleInv, FindInv, CommandInv
  <2>4. StatusTells'
    BY <1>1, <2>1 DEF StatusTells, ShowsText, Telling
  <2>5. NamedBoardOnly' /\ CountedArgumentsOnly'
    BY <1>1, <2>2 DEF NamedBoardOnly, CountedArgumentsOnly
  <2> QED  BY <2>3, <2>4, <2>5 DEF IInv
<1> QED  BY <1>2, <1>3

\* A command with enough arguments for its own count reads no others.
LEMMA UsesCounted ==
    ASSUME TypeInv, CommandInv, pc = "command", ~ TooFew(cmd), cmd \in Reported \cup Unreported,
           cmd \notin {"password", "mwrite", "partition", "tplcmd", "bulkcmd"}
    PROVE  \A p \in Uses(cmd) : p < argc /\ p >= base
<1>1. /\ argc \in Nat /\ base \in {2, 3} /\ cmdArgc \in Nat
      /\ argc > 2 => base + cmdArgc = argc
      /\ argc <= 2 => cmdArgc = 0
  BY DEF TypeInv, CommandInv
<1>2. cmdArgc >= Least(cmd).args
  BY <1>1 DEF TooFew, Least
<1>3. CASE cmd \in Empty
  <2>1. Least(cmd).args = 2
    BY <1>3 DEF Least, Memory, Empty
  <2>2. Uses(cmd) = {base + 1}
    BY <1>3 DEF Uses
  <2> QED  BY <1>1, <1>2, <2>1, <2>2
<1>4. CASE cmd \notin Empty
  <2>1. Uses(cmd) = {base + k : k \in 0 .. Least(cmd).args - 1} /\ Least(cmd).args \in Nat
    BY <1>4 DEF Uses, Least
  <2> QED  BY <1>1, <1>2, <2>1
<1> QED  BY <1>3, <1>4

\* A command that runs has a board.
LEMMA NamedIsBoard == ASSUME TypeInv PROVE Named # NULL
<1>1. first.no \in Nat
  BY WordKinds DEF TypeInv
<1> QED  BY <1>1 DEF Named, NULL, ByPath

LEMMA PerformInv == ASSUME IInv, NEW ok \in BOOLEAN, Perform(ok) PROVE IInv'
<1>1. /\ TypeInv /\ CommandInv /\ pc = "command" /\ pc' = "exit"
      /\ cmd \in Reported \ Empty /\ ~ TooFew(cmd) /\ device = Named
      /\ UNCHANGED <<cmd, argc, first, boards, devNo, base, cmdArgc, device>>
      /\ used' = Uses(cmd) /\ target' = device /\ done' = ok
  BY DEF IInv, CommandInv, Perform, Exit, input
<1>2. TypeInv' /\ IdleInv' /\ FindInv' /\ CommandInv'
  BY <1>1 DEF TypeInv, IdleInv, FindInv, CommandInv
<1>3. NamedBoardOnly'
  BY <1>1 DEF NamedBoardOnly, Named
<1>4. StatusTells'
  <2>1. target' # NULL
    BY <1>1, NamedIsBoard
  <2>2. GotToBoard' /\ cmd' \in Reported \ Empty
    BY <1>1, <2>1 DEF GotToBoard
  <2>3. CASE ok
    <3>1. ret' \in {0, 64} /\ (cmd \in Telling => ret' = 0)
      BY <2>3 DEF Perform, Exit, Good, Telling, Lossy
    <3>2. ret' % 256 = 0 <=> ret' = 0
      <4>1. CASE ret' = 0
        BY <4>1, SMT
      <4>2. CASE ret' = 64
        BY <4>2, SMT
      <4> QED  BY <3>1, <4>1, <4>2
    <3>3. cmd' = cmd /\ done' = TRUE
      BY <1>1, <2>3
    <3>4. cmd' \in Telling => (ret' % 256 = 0) = done'
      BY <3>1, <3>2, <3>3 DEF Telling
    <3> QED  BY <2>2, <3>2, <3>4 DEF StatusTells
  <2>4. CASE ~ ok
    <3>1. ret' \in Bad(cmd)
      BY <2>4 DEF Perform, Exit
    <3>2. ret' % 256 = 0 => ret' = 0 /\ cmd \in Lossy
      BY <1>1, <3>1, BadTells
    <3>3. cmd \in Telling => ret' % 256 # 0
      BY <3>2 DEF Telling
    <3> QED  BY <1>1, <2>2, <2>4, <3>2, <3>3 DEF StatusTells, Telling
  <2> QED  BY <2>3, <2>4
<1>5. CountedArgumentsOnly'
  BY <1>1, UsesCounted DEF CountedArgumentsOnly
<1> QED  BY <1>2, <1>3, <1>4, <1>5 DEF IInv

LEMMA PerformEmptyInv == ASSUME IInv, PerformEmpty PROVE IInv'
<1>1. /\ TypeInv /\ CommandInv /\ pc = "command" /\ pc' = "exit" /\ ret' = 0
      /\ cmd \in Empty /\ ~ TooFew(cmd) /\ device = Named /\ target = NULL
      /\ UNCHANGED <<cmd, argc, first, boards, devNo, base, cmdArgc, device, target, done>>
      /\ used' = Uses(cmd)
  BY DEF IInv, IdleInv, CommandInv, PerformEmpty, Exit, input
<1>2. TypeInv' /\ IdleInv' /\ FindInv' /\ CommandInv'
  BY <1>1 DEF TypeInv, IdleInv, FindInv, CommandInv
<1>3. NamedBoardOnly'
  BY <1>1 DEF NamedBoardOnly
<1>4. StatusTells'
  <2>1. GotToBoard'
    BY <1>1, NamedIsBoard DEF GotToBoard, Uses
  <2> QED  BY <1>1, <2>1 DEF StatusTells, Telling
<1>5. CountedArgumentsOnly'
  <2>1. cmd \in Reported
    BY <1>1 DEF Empty, Reported, Cmds, Memory, MassStorage, Serial, Unreported
  <2> QED  BY <1>1, <2>1, UsesCounted DEF CountedArgumentsOnly
<1> QED  BY <1>2, <1>3, <1>4, <1>5 DEF IInv

LEMMA PerformUnreportedInv == ASSUME IInv, NEW ok \in BOOLEAN, PerformUnreported(ok) PROVE IInv'
<1>1. /\ TypeInv /\ CommandInv /\ pc = "command" /\ pc' = "exit" /\ cmd \in Unreported
      /\ device = Named /\ ret' = -1020
      /\ UNCHANGED <<cmd, argc, first, boards, devNo, base, cmdArgc, device>>
      /\ used' = Uses(cmd) /\ target' = device /\ done' = ok
  BY DEF IInv, CommandInv, PerformUnreported, Fail, Exit, input
<1>2. TypeInv' /\ IdleInv' /\ FindInv' /\ CommandInv'
  BY <1>1 DEF TypeInv, IdleInv, FindInv, CommandInv
<1>3. NamedBoardOnly' /\ StatusTells'
  BY <1>1, CodesShow DEF NamedBoardOnly, StatusTells, Named, Telling, Reported
<1>4. CountedArgumentsOnly'
  <2>1. ~ TooFew(cmd)
    BY <1>1 DEF TooFew, Least, Unreported, Memory, TypeInv
  <2> QED  BY <1>1, <2>1, UsesCounted DEF CountedArgumentsOnly
<1> QED  BY <1>2, <1>3, <1>4 DEF IInv

LEMMA SnInv == ASSUME IInv, NEW ok \in BOOLEAN, Sn(ok) PROVE IInv'
<1>1. /\ TypeInv /\ CommandInv /\ pc = "command" /\ pc' = "exit" /\ cmd \in Serial /\ ret' = -1020
      /\ UNCHANGED <<cmd, argc, first, boards, devNo, base, cmdArgc, device>>
      /\ cmd # "skssn" => used' = {}
  BY DEF IInv, IdleInv, Sn, Fail, Exit, input
<1>2. TypeInv' /\ IdleInv' /\ FindInv' /\ CommandInv'
  BY <1>1 DEF TypeInv, IdleInv, FindInv, CommandInv
<1>3. NamedBoardOnly' /\ StatusTells' /\ CountedArgumentsOnly'
  BY <1>1, CodesShow DEF NamedBoardOnly, StatusTells, CountedArgumentsOnly, Telling, Reported
<1> QED  BY <1>2, <1>3 DEF IInv

LEMMA NextInv == IInv /\ [Next]_vars => IInv'
<1> SUFFICES ASSUME IInv, [Next]_vars PROVE IInv'
  OBVIOUS
<1>1. CASE Usage
  BY <1>1, UsageInv
<1>2. CASE DeviceArgument
  BY <1>2, DeviceArgumentInv
<1>3. CASE FindDevice
  BY <1>3, FindDeviceInv
<1>4. CASE Refuse \/ Unknown \/ MassStorageCommand \/ SnUsage \/ DownUsage \/ Down
  BY <1>4, NothingDoneInv
<1>5. CASE MassStorageUsage
  BY <1>5, MassStorageUsageInv
<1>6. ASSUME NEW ok \in BOOLEAN, Perform(ok) PROVE IInv'
  BY <1>6, PerformInv
<1>7. ASSUME NEW ok \in BOOLEAN, PerformUnreported(ok) PROVE IInv'
  BY <1>7, PerformUnreportedInv
<1>8. ASSUME NEW ok \in BOOLEAN, Sn(ok) PROVE IInv'
  BY <1>8, SnInv
<1>9. CASE PerformEmpty
  BY <1>9, PerformEmptyInv
<1>10. CASE UNCHANGED vars
  <2>1. /\ UNCHANGED <<cmd, argc, first, boards, pc, devNo, base, cmdArgc, device>>
        /\ UNCHANGED <<used, target, done, ret>>
    BY <1>10 DEF vars
  <2>2. TypeInv' /\ IdleInv' /\ FindInv' /\ CommandInv'
    BY <2>1 DEF IInv, TypeInv, IdleInv, FindInv, CommandInv, Named
  <2>3. NamedBoardOnly' /\ StatusTells' /\ CountedArgumentsOnly'
    BY <2>1 DEF IInv, NamedBoardOnly, StatusTells, CountedArgumentsOnly, ShowsText, GotToBoard
  <2> QED  BY <2>2, <2>3 DEF IInv
<1> QED  BY <1>1, <1>2, <1>3, <1>4, <1>5, <1>6, <1>7, <1>8, <1>9, <1>10 DEF Next

-----------------------------------------------------------------------------
\* The inductive invariant holds for every argument list.
THEOREM InductiveInvariant == Spec => []IInv
<1>1. Init => IInv
  BY InitInv
<1>2. IInv /\ [Next]_vars => IInv'
  BY NextInv
<1> QED  BY <1>1, <1>2, PTL DEF Spec

\* No command but those of the serial number works on another board than the one named,
\* however many boards there are and whatever number is given.
THEOREM NamedBoard == Spec => []NamedBoardOnly
<1>1. IInv => NamedBoardOnly
  BY DEF IInv
<1> QED  BY <1>1, InductiveInvariant, PTL

\* Of write, cwr, wreg, password and bulkcmd the shell sees success exactly if they have done
\* their work; of the other commands that report, it never sees success in place of an error
\* code, a missing board or a missing argument.
THEOREM StatusCanBeRead == Spec => []StatusTells
<1>1. IInv => StatusTells
  BY DEF IInv
<1> QED  BY <1>1, InductiveInvariant, PTL

\* The commands that count their arguments read none but those behind the device, for
\* argument lists of every length.
THEOREM ArgumentsCounted == Spec => []CountedArgumentsOnly
<1>1. IInv => CountedArgumentsOnly
  BY DEF IInv
<1> QED  BY <1>1, InductiveInvariant, PTL

=============================================================================
