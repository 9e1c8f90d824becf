----------------------------- MODULE UpdateMain -----------------------------
(***************************************************************************)
(* main of update.cpp: from the arguments to the board, from the board to  *)
(* a command, from the command to the status of the process.  An argument  *)
(* is what the code tells apart in it; only argv[2] may name a board.      *)
(* argc counts the name of the program, as in C.                           *)
(***************************************************************************)
EXTENDS Integers, FiniteSets

CONSTANTS MaxArgc,    \* bound of the model: the longest argument list
          DevNos,     \* the n of "dev<n>" that are tried
          Boards,     \* numbers of boards that are tried
          MaxDev,     \* 16, the largest number taken
          MaxSn,      \* 8, boards the serial number commands look at
          Radix       \* 10, in which n is written

ASSUME MainAssumption ==
    /\ MaxArgc \in Nat /\ DevNos \subseteq Nat /\ Boards \subseteq Nat
    /\ \A n \in DevNos : n < Radix * Radix
    /\ MaxDev \in Nat /\ MaxSn \in Nat /\ Radix \in Nat \ {0, 1}

Memory == {"write", "read", "wreg", "dump", "boot", "cwr", "write2"}
\* Main knows the two names, and nothing behind it does.
Empty == {"boot", "write2"}

MassStorage == {"msdev", "msget", "msset"}
Serial == {"skscan", "skgsn", "skssn"}

\* Commands whose outcome main drops: it returns what ret was initialised with.
Unreported == {"identify", "reset", "tplcmd", "burn", "tplstat"}
Cmds == {"help", "scan", "run", "rreg", "password", "chipinfo", "chipid", "mwrite",
         "partition", "bulkcmd", "down", "mread", "bl2_test", "bl2_boot", "nonsense"}
        \cup Memory \cup MassStorage \cup Serial \cup Unreported

\* argv[2]: "dev<n>" of one or two digits, "dev" with something longer or negative
\* behind it, "path-<name>", a word of five letters or more that begins with "path",
\* any other word, or none.
Words == [kind : {"dev"}, no : DevNos]
         \cup [kind : {"badDev", "path", "pathname", "word", "none"}, no : {0}]

VARIABLES
    cmd, argc, first,  \* the arguments: argv[1], their number, argv[2]
    boards,            \* boards connected
    pc,                \* "start", "find", "command" or "exit"
    devNo,             \* dev_no
    base, cmdArgc,     \* cmdArgv = argv + base, and its length
    device,            \* rom.device: index of a board, or NULL
    used,              \* history: positions in argv that the command has read
    target,            \* history: the board the command has worked on
    done,              \* history: the command has done what it is for
    ret                \* what main returns, 1 before

vars == <<cmd, argc, first, boards, pc, devNo, base, cmdArgc, device, used, target, done,
          ret>>
input == <<cmd, argc, first, boards>>

NULL == -1
ByPath == 1000    \* the board a path names

Init ==
    /\ cmd \in Cmds /\ argc \in 1 .. MaxArgc /\ boards \in Boards
    /\ first \in {w \in Words : (w.kind = "none") = (argc <= 2)}
    /\ pc = "start" /\ devNo = -2 /\ base = 3 /\ cmdArgc = 0
    /\ device = NULL /\ target = NULL /\ used = {} /\ done = FALSE
    /\ ret = 1

Exit(r) ==
    /\ ret' = r
    /\ pc' = "exit"

\* ret as main initialises it.
Fail == Exit(-1020)

-----------------------------------------------------------------------------
\* No command, "help" and "scan": main returns 0 whatever it has found.
Usage ==
    /\ pc = "start"
    /\ argc = 1 \/ cmd \in {"help", "scan"}
    /\ Exit(0)
    /\ UNCHANGED <<input, devNo, base, cmdArgc, device, used, target, done>>

\* The device argument: "dev" with a number up to 16, a path, or none, in which
\* case argv[2] belongs to the command.  Four letters of "path-" are compared.
ArgsFromThird(b) == argc - 3

ArgsFrom(b) == argc - b

PathArgument == first.kind \in {"path", "pathname"}

DeviceArgument ==
    /\ pc = "start" /\ argc > 1 /\ cmd \notin {"help", "scan"}
    /\ \/ /\ first.kind = "none"
          /\ devNo' = 0 /\ base' = 3 /\ cmdArgc' = 0
          /\ pc' = "find" /\ UNCHANGED <<ret, device>>
       \/ /\ first.kind = "dev"
          /\ devNo' = first.no /\ base' = 3 /\ cmdArgc' = ArgsFrom(3)
          /\ IF first.no > MaxDev THEN Fail ELSE pc' = "find" /\ UNCHANGED ret
          /\ UNCHANGED device
       \/ /\ first.kind = "badDev"
          /\ Fail
          /\ UNCHANGED <<devNo, base, cmdArgc, device>>
       \/ /\ PathArgument
          /\ cmdArgc' = ArgsFrom(3) /\ base' = 3
          /\ device' \in {NULL} \cup (IF boards > 0 /\ first.kind = "path" THEN {ByPath} ELSE {})
          /\ pc' = "find" /\ UNCHANGED <<ret, devNo>>
       \/ /\ first.kind = "word"
          /\ devNo' = 0 /\ base' = 2 /\ cmdArgc' = ArgsFrom(2)
          /\ pc' = "find" /\ UNCHANGED <<ret, device>>
    /\ UNCHANGED <<input, used, target, done>>

\* update_scan, if a path has not named the board: none (-182), too few (-191), or
\* the board of that number, which may be gone by then.  Without a number it returns
\* 0 and no board.
UpdateScan == IF boards = 0 \/ devNo + 1 > boards THEN -1 ELSE 0

HandlesAnyBoard == {NULL, IF devNo = -2 THEN 0 ELSE devNo}

Handles == IF devNo = -2 THEN {NULL} ELSE {NULL, devNo}

FindDevice ==
    /\ pc = "find"
    /\ IF device # NULL THEN pc' = "command" /\ UNCHANGED <<device, ret>>
       ELSE IF UpdateScan # 0
       THEN Fail /\ UNCHANGED device
       ELSE \E h \in Handles :
               IF h = NULL THEN Fail /\ UNCHANGED device
               ELSE device' = h /\ pc' = "command" /\ UNCHANGED ret
    /\ UNCHANGED <<input, devNo, base, cmdArgc, used, target, done>>

-----------------------------------------------------------------------------
\* The arguments a command wants, by its own count or main's, and what it returns
\* with fewer; the bl2 commands open the board before they count.
Least(c) ==
    CASE c = "run" -> [args |-> 1, rets |-> {-382}]
      [] c = "rreg" -> [args |-> 2, rets |-> {-382}]
      [] c = "chipinfo" -> [args |-> 1, rets |-> {-1020}]
      [] c \in Memory -> [args |-> 2, rets |-> {583}]
      [] c = "mread" -> [args |-> 4, rets |-> {964}]
      [] c = "bl2_test" -> [args |-> 1, rets |-> {-855, -869}]
      [] c = "bl2_boot" -> [args |-> 1, rets |-> {-1151, -1157}]
      [] c \in {"mwrite", "partition"} -> [args |-> 0, rets |-> {-1020}]
      [] OTHER -> [args |-> 0, rets |-> {}]

TooFewByOne(c) ==
    \/ cmdArgc + 1 < Least(c).args
    \/ c = "mwrite" /\ argc <= 5
    \/ c = "partition" /\ argc <= 3

TooFew(c) ==
    \/ cmdArgc < Least(c).args
    \/ c = "mwrite" /\ argc <= 5
    \/ c = "partition" /\ argc <= 3

\* The positions the command reads of the argument list without another look at
\* its length.
Uses(c) ==
    CASE c \in Empty -> {base + 1}
      [] c = "password" -> {base}
      [] c = "mwrite" -> {base + k : k \in 0 .. 3}
      [] c = "partition" -> {base, base + 1}
      [] c \in {"tplcmd", "bulkcmd"} -> {argc - 1}
      [] OTHER -> {base + k : k \in 0 .. Least(c).args - 1}

Reported == Cmds \ (MassStorage \cup Serial \cup Unreported \cup
                    {"help", "scan", "down", "nonsense"})

\* Commands that return 0 also after a failure: the result of a transfer (run), of
\* fwrite (rreg, read, dump, mread) or of fclose (chipinfo) is dropped, a short
\* transfer counts as whole (rreg, chipid), an error is printed and followed by the
\* regular end (chipid, read, dump, bl2_test, bl2_boot), or ret is still 0 where
\* mwrite and partition give up.
Lossy == {"run", "rreg", "read", "dump", "chipinfo", "chipid", "mwrite", "partition",
          "mread", "bl2_test", "bl2_boot"}

\* The negated errno of usbcompat.h, for each error of libusb.
IoErrors == {-2, -4, -5, -6, -12, -13, -16, -22, -32, -34, -38, -75, -110}

ErrorsRound(c) == IF c = "mread" THEN {768} ELSE {-1}

\* The codes with which the functions behind a command report an error.
Errors(c) ==
    CASE c = "run" -> {-1, -2}
      [] c \in {"rreg", "wreg"} -> {-645, -646}
      [] c = "password" -> {-1, -487, -496, -696} \cup IoErrors
      [] c = "chipinfo" -> {-527, -538, -548, -554}
      [] c = "chipid" -> {-855, -860, -900, -908}
      [] c \in {"read", "dump"} -> {-639, -641}
      [] c \in {"write", "cwr"} -> {-689, -734, -735}
      [] c \in {"mwrite", "partition"} -> {-103, -236, -300, -307, -314, -328, -354}
      [] c = "bulkcmd" -> {-1368}
      [] c = "mread" -> {977, 988, 995}
      [] c = "bl2_test" -> {-855, -874, -885, -896, -904, -911, -926, -932, -938, -946,
                            -959, -969}
      [] OTHER -> {-1151, -1165, -1173, -1177, -1188}

\* What a command returns when it has done what it is for, and when it has not: the
\* 64 of chipinfo is the number of bytes it has shown.
Good(c) == IF c = "chipinfo" THEN {0, 64} ELSE {0}

BadUnseen(c) == Errors(c) \cup {0}

Bad(c) == Errors(c) \cup (IF c \in Lossy THEN {0} ELSE {})

Refuse ==
    /\ pc = "command" /\ cmd \in Reported
    /\ TooFew(cmd)
    /\ \E r \in Least(cmd).rets : Exit(r)
    /\ UNCHANGED <<input, devNo, base, cmdArgc, device, used, target, done>>

Perform(ok) ==
    /\ pc = "command" /\ cmd \in Reported \ Empty
    /\ ~TooFew(cmd)
    /\ used' = Uses(cmd)
    /\ target' = device
    /\ done' = ok
    /\ \E r \in IF ok THEN Good(cmd) ELSE Bad(cmd) : Exit(r)
    /\ UNCHANGED <<input, devNo, base, cmdArgc, device>>

\* boot and write2 read an address, leave the board alone and return 0.
PerformEmpty ==
    /\ pc = "command" /\ cmd \in Empty
    /\ ~TooFew(cmd)
    /\ used' = Uses(cmd)
    /\ Exit(0)
    /\ UNCHANGED <<input, devNo, base, cmdArgc, device, target, done>>

\* The result is printed and dropped.
PerformUnreported(ok) ==
    /\ pc = "command" /\ cmd \in Unreported
    /\ used' = Uses(cmd)
    /\ target' = device
    /\ done' = ok
    /\ Fail
    /\ UNCHANGED <<input, devNo, base, cmdArgc, device>>

Unknown ==
    /\ pc = "command" /\ cmd = "nonsense"
    /\ Fail
    /\ UNCHANGED <<input, devNo, base, cmdArgc, device, used, target, done>>

-----------------------------------------------------------------------------
\* The character behind "dev", as a digit: the first of the number.
FirstDigit(n) == IF n < Radix THEN n ELSE n \div Radix

\* A device argument of four characters.
OneDigit == first.kind = "dev" /\ first.no < Radix

\* msdev, msget and msset: the scan for mass storage finds nothing.
MassStorageCommand ==
    /\ pc = "command" /\ cmd \in MassStorage
    /\ IF cmd = "msset" THEN argc = 3 \/ (argc = 4 /\ OneDigit)
                        ELSE argc = 2 \/ (argc = 3 /\ OneDigit)
    /\ Fail
    /\ UNCHANGED <<input, devNo, base, cmdArgc, device, used, target, done>>

\* Any other argument list shows the usage or asks for "dev0", and so does the
\* answer N to "if you want input cmd" of msset.  msdev and msget return 0 then.
MassStorageUsage ==
    /\ pc = "command" /\ cmd \in MassStorage
    /\ IF cmd = "msset"
       THEN Fail /\ (argc \notin {3, 4} \/ (argc = 4 /\ ~OneDigit)
                     \/ (argc = 3 /\ first.kind = "dev"))
       ELSE IF argc > 3 THEN Exit(0)
       ELSE argc = 3 /\ ~OneDigit /\ Fail
    /\ UNCHANGED <<input, devNo, base, cmdArgc, device, used, target, done>>

\* The serial number commands take the number again, from one digit, and scan again.
SnArgs == IF cmd = "skssn" THEN 1 ELSE 0

SnUsage ==
    /\ pc = "command" /\ cmd \in Serial
    /\ \/ argc = SnArgs + 3 /\ first.kind \notin {"dev", "badDev"}
       \/ argc \notin {SnArgs + 2, SnArgs + 3} /\ cmd # "skscan"
    /\ Fail
    /\ UNCHANGED <<input, devNo, base, cmdArgc, device, used, target, done>>

SnDevNo ==
    IF argc = SnArgs + 2 THEN 0
    ELSE IF argc = SnArgs + 3 THEN FirstDigit(first.no)
    ELSE devNo

\* aml_scan_usbdev lists the boards, MaxSn of them at most.
Candidate(n) == n >= 0 /\ n < MaxSn /\ n < boards

Sn(ok) ==
    /\ pc = "command" /\ cmd \in Serial
    /\ \/ argc = SnArgs + 2
       \/ argc = SnArgs + 3 /\ first.kind = "dev"
       \/ cmd = "skscan" /\ argc > 3
    /\ IF Candidate(SnDevNo)
       THEN /\ target' = IF cmd = "skscan" THEN target ELSE SnDevNo
            /\ used' = IF cmd = "skssn" THEN {argc - 1} ELSE {}
       ELSE ~ok /\ UNCHANGED <<used, target>>
    /\ done' = ok
    /\ Fail
    /\ UNCHANGED <<input, devNo, base, cmdArgc, device>>

\* down scans again, and takes the 0 of a scan that went well for a failure.
DownUsage ==
    /\ pc = "command" /\ cmd = "down"
    /\ argc \notin {3, 4} \/ (argc = 4 /\ ~OneDigit)
    /\ Fail
    /\ UNCHANGED <<input, devNo, base, cmdArgc, device, used, target, done>>

Down ==
    /\ pc = "command" /\ cmd = "down"
    /\ argc = 3 \/ (argc = 4 /\ OneDigit)
    /\ devNo' = IF argc = 4 THEN first.no ELSE 0
    /\ device' \in {device, NULL, devNo'}
    /\ Fail
    /\ UNCHANGED <<input, base, cmdArgc, used, target, done>>

-----------------------------------------------------------------------------
Next ==
    \/ Usage \/ DeviceArgument \/ FindDevice
    \/ Refuse \/ Unknown \/ PerformEmpty
    \/ \E ok \in BOOLEAN : Perform(ok) \/ PerformUnreported(ok) \/ Sn(ok)
    \/ MassStorageCommand \/ MassStorageUsage
    \/ SnUsage \/ DownUsage \/ Down

Spec == Init /\ [][Next]_vars

-----------------------------------------------------------------------------
\* A command works on the board the user named, and on the first one only if he
\* named none: a number that is too large or a path that is not there never ends
\* on another board.
NamedBoardOnly ==
    target # NULL /\ cmd \notin Serial =>
        target = CASE first.kind = "dev" -> first.no
                   [] first.kind = "path" -> ByPath
                   [] OTHER -> 0

\* The paths that end with a text and 0.
ShowsText ==
    argc = 1 \/ cmd \in {"help", "scan"} \/ (cmd \in {"msdev", "msget"} /\ argc > 3)

\* The command has been carried out on a board, or read its arguments with one at hand.
GotToBoard ==
    \/ cmd \in Reported \ Empty /\ target # NULL
    \/ cmd \in Empty /\ device # NULL /\ used # {}

\* Commands that report every failure of theirs.
Telling == Reported \ (Lossy \cup Empty)

\* What the shell can tell from the status, of which eight bits are left.  Of the
\* commands that report every failure (write, cwr, wreg, password, bulkcmd) it is that
\* of success exactly if the command did its work, wherever main or the command gave
\* up.  Of the others 0 says less, but never that a code of an error has lost its bits,
\* that no board was found or that an argument was missing: unless a text was shown the
\* command had its board and its arguments.  What the others lose is in Lossy, and the
\* status says nothing about it; boot and write2 return 0 having done nothing.
StatusTells ==
    pc = "exit" =>
        /\ ret % 256 = 0 =>
              /\ ret = 0
              /\ ShowsText \/ GotToBoard
        /\ cmd \in Telling /\ argc > 1 => (ret % 256 = 0) = done

\* The arguments of a command are those behind the device, with one or without, and
\* the commands that count them read none behind the last, nor the name of the board.
CountedArgumentsOnly ==
    /\ pc = "command" /\ argc > 2 => base + cmdArgc = argc
    /\ cmd \notin {"password", "mwrite", "partition", "tplcmd", "bulkcmd", "skssn"} =>
          \A p \in used : p < argc /\ p >= base

=============================================================================
