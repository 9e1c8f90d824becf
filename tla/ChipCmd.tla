------------------------------ MODULE ChipCmd ------------------------------
(***************************************************************************)
(* The commands that ask a board about itself or change its state          *)
(* (update.cpp): identify and chipid, chipinfo, password, run and reset.   *)
(* Each is a few control transfers.  A transfer to the host may end early  *)
(* without an error, and the rest of the buffer, which nobody has set, is  *)
(* then used as if the board had sent it.                                  *)
(***************************************************************************)
EXTENDS CtrlCmd

CONSTANTS Versions,    \* versions a boot stage may report, as 256 * id[0] + id[1]
          Stages,      \* stages it may report in id[3]
          IdMax,       \* 8, the longest identification
          PageLen,     \* 64, a page of chip information
          PageAsked,   \* 40, the bytes of a page that chipid asks for
          IdOffset,    \* 20, where the chip id begins in it
          ChipIdLen,   \* 12
          PwdMax,      \* 64, the longest password
          Numbers,     \* nBytes and startOffset a user gives to chipinfo
          IntMax       \* 2^31 - 1, int is -IntMax - 1 .. IntMax

ASSUME ChipAssumption ==
    /\ Versions \subseteq Nat /\ Stages \subseteq Nat
    /\ Versions # {} /\ Stages # {} /\ Numbers # {}
    /\ {IdMax, PageLen, PageAsked, IdOffset, ChipIdLen, PwdMax} \subseteq Nat \ {0}
    /\ IdOffset + ChipIdLen <= PageAsked /\ PageAsked <= PageLen
    /\ IntMax \in Nat /\ PageLen <= IntMax
    /\ Numbers \subseteq -IntMax - 1 .. IntMax

ChipCmds == {"identify", "chipid", "chipinfo", "password", "run", "reset"}

VARIABLES
    version, stage,  \* device: what it answers to identify
    accepted,        \* device: passwords it has taken
    started,         \* device: it runs the code at the user's address
    args,            \* its numbers: idLen; nBytes, startOffset; password length
    idVer, id3,      \* what the program takes for version and stage
    i,               \* passwords sent
    shown,           \* bytes of the chip id from the device when it was printed, or -1
    saved,           \* positions of the page that chipinfo took, <<first, one behind>>
    left,            \* bytes of them the file holds once it is closed
    said             \* error messages of the command

boardvars == <<version, stage, accepted, started>>
chipvars == <<boardvars, cmd, args, pc, idVer, id3, i, shown, saved, left, said, ret, short>>

Args == [idLen : 0 .. IdMax + 1, nBytes : Numbers, startOffset : Numbers,
         len : 0 .. PwdMax + 1]

\* The arguments a command looks at vary, the others stay put.
ArgsOf(c) ==
    {a \in Args :
        /\ c # "identify" => a.idLen = 4
        /\ c # "chipinfo" => \A n \in Numbers : a.nBytes <= n /\ a.startOffset <= n
        /\ c # "password" => a.len = 0}

ChipInit ==
    /\ version \in Versions /\ stage \in Stages /\ accepted = 0 /\ started = FALSE
    /\ cmd \in ChipCmds /\ args \in ArgsOf(cmd)
    /\ pc = "start"
    /\ idVer = -1 /\ id3 = -1 /\ i = 0
    /\ shown = -1 /\ saved = <<0, 0>> /\ left = 0
    /\ said = {} /\ ret = 1 /\ short = FALSE

Say(message) == said' = said \cup {message}

-----------------------------------------------------------------------------
\* AmlUsbIdentifyHost with idLen bytes: the handler takes at most IdMax.  chipid
\* makes -855 of any failure.
IdLen == args.idLen

IdentifyResult(r) == IF cmd = "chipid" THEN Exit(-855) ELSE Exit(r)

IdentifyShort ==
    /\ pc = "start" /\ cmd \in {"identify", "chipid"}
    /\ IdLen <= 3
    /\ IdentifyResult(-765)
    /\ Say("idLen_invalid")
    /\ UNCHANGED <<boardvars, cmd, args, idVer, id3, i, shown, saved, left, short>>

IdentifyHostFail ==
    /\ pc = "start" /\ cmd \in {"identify", "chipid"}
    /\ IdLen > 3
    /\ IdentifyResult(774)
    /\ Say("get_info_failed")
    /\ UNCHANGED <<boardvars, cmd, args, idVer, id3, i, shown, saved, left, short>>

\* n bytes arrive: id[0] and id[1] are the version and id[3] the stage; id[2] is 0
\* here.  A version of which the first four bytes that arrived are 0 is an error.
AllZero(n) ==
    /\ n < 1 \/ version \div 256 = 0
    /\ n < 2 \/ version % 256 = 0
    /\ n < 4 \/ stage = 0

IdentifyHost(n) ==
    /\ pc = "start" /\ cmd \in {"identify", "chipid"}
    /\ IdLen \in 4 .. IdMax /\ n <= IdLen
    /\ short' = (n < IdLen)
    /\ idVer' \in IF n >= 2 THEN {version} ELSE Versions
    /\ id3' \in IF n >= 4 THEN {stage} ELSE Stages
    /\ IF AllZero(n) THEN IdentifyResult(-784) /\ Say("fw_ver_error")
       ELSE IF cmd = "identify" THEN Exit(0) /\ UNCHANGED said
       ELSE pc' = "stage" /\ UNCHANGED <<ret, said>>
    /\ UNCHANGED <<boardvars, cmd, args, i, shown, saved, left>>

-----------------------------------------------------------------------------
\* chipid: which stages and versions can be asked, and in which of two ways.
Supported(v) == v \in 512 .. 517 \cup {768}
RomStage == {0, 8}
PageVersion == 515

ByMemoryAlways ==
    /\ pc = "stage"
    /\ IF ~Supported(idVer) THEN Exit(-900) /\ Say("cannot_support_chipid")
       ELSE pc' = (IF idVer = PageVersion THEN "page" ELSE "memory") /\ UNCHANGED <<ret, said>>
    /\ UNCHANGED <<boardvars, cmd, args, idVer, id3, i, shown, saved, left, short>>

ByMemory ==
    /\ pc = "stage"
    /\ IF id3 \notin RomStage THEN Exit(-860) /\ Say("romStage_not_bl1_bl2")
       ELSE IF ~Supported(idVer) THEN Exit(-900) /\ Say("cannot_support_chipid")
       ELSE pc' = (IF idVer = PageVersion THEN "page" ELSE "memory") /\ UNCHANGED <<ret, said>>
    /\ UNCHANGED <<boardvars, cmd, args, idVer, id3, i, shown, saved, left, short>>

\* Aml_Libusb_Ctrl_RdWr with one transfer; any result that is not negative will do.
ReadId(n) ==
    /\ pc = "memory" /\ n <= ChipIdLen
    /\ short' = (short \/ n < ChipIdLen)
    /\ shown' = n
    /\ Exit(0)
    /\ UNCHANGED <<boardvars, cmd, args, idVer, id3, i, saved, left, said>>

ReadIdFail ==
    /\ pc = "memory"
    /\ Exit(-908)
    /\ Say("fail_in_read_chip_id")
    /\ UNCHANGED <<boardvars, cmd, args, idVer, id3, i, shown, saved, left, short>>

\* Aml_Libusb_get_chipinfo: n bytes of the page, none if it fails.  chipid complains
\* of a length other than the one it asked for, and goes on.
ReadPage(n) ==
    /\ pc = "page" /\ n <= PageAsked
    /\ IF n # PageAsked THEN Say("fail_in_get_chipinfo") ELSE UNCHANGED said
    /\ shown' = aml_max(0, aml_min(n - IdOffset, ChipIdLen))
    /\ Exit(0)
    /\ UNCHANGED <<boardvars, cmd, args, idVer, id3, i, saved, left, short>>

-----------------------------------------------------------------------------
\* The range of chipinfo.  The sum of two int that exceeds IntMax is undefined:
\* as the addition is compiled, it wraps or it compares as it should.
SumExceeds(m, n) ==
    IF m + n > IntMax THEN BOOLEAN ELSE {m + n > PageLen}

RangeRefusedAlone(sum) == args.nBytes < 0 \/ args.startOffset < 0 \/ args.nBytes > PageLen

RangeRefused(sum) ==
    args.nBytes < 0 \/ args.startOffset < 0 \/ sum \/ args.nBytes > PageLen

ChipinfoRefuse ==
    /\ pc = "start" /\ cmd = "chipinfo"
    /\ \E sum \in SumExceeds(args.startOffset, args.nBytes) : RangeRefused(sum)
    /\ Exit(-527)
    /\ Say("invalid_range")
    /\ UNCHANGED <<boardvars, cmd, args, idVer, id3, i, shown, saved, left, short>>

\* The whole page must arrive; then the range is printed (the result is 64) or saved.
ChipinfoPage(toFile) ==
    /\ pc = "start" /\ cmd = "chipinfo"
    /\ \E sum \in SumExceeds(args.startOffset, args.nBytes) : ~RangeRefused(sum)
    /\ saved' = <<args.startOffset, args.startOffset + args.nBytes>>
    /\ IF toFile THEN pc' = "save" /\ UNCHANGED ret ELSE Exit(PageLen)
    /\ UNCHANGED <<boardvars, cmd, args, idVer, id3, i, shown, left, said, short>>

ChipinfoFail ==
    /\ pc = "start" /\ cmd = "chipinfo"
    /\ \E sum \in SumExceeds(args.startOffset, args.nBytes) : ~RangeRefused(sum)
    /\ Exit(-538)
    /\ Say("fail_in_get_chipinfo")
    /\ UNCHANGED <<boardvars, cmd, args, idVer, id3, i, shown, saved, left, short>>

OpenFail ==
    /\ pc = "save"
    /\ Exit(-548)
    /\ Say("fail_in_open_file")
    /\ UNCHANGED <<boardvars, cmd, args, idVer, id3, i, shown, saved, left, short>>

\* fwrite either fails, or its bytes reach the file when fclose writes them out,
\* whose result is not looked at.
SaveFail ==
    /\ pc = "save" /\ args.nBytes > 0
    /\ left' \in 0 .. args.nBytes - 1
    /\ Exit(-554)
    /\ Say("fail_in_save_file")
    /\ UNCHANGED <<boardvars, cmd, args, idVer, id3, i, shown, saved, short>>

Save ==
    /\ pc = "save"
    /\ left' \in 0 .. args.nBytes
    /\ Exit(0)
    /\ UNCHANGED <<boardvars, cmd, args, idVer, id3, i, shown, saved, said, short>>

-----------------------------------------------------------------------------
\* password: the file cannot be opened (-1), is too long (-487) or cannot be read
\* (-496); otherwise it is sent twice, with five seconds in between.
PasswordRefuse(r) ==
    /\ pc = "start" /\ cmd = "password"
    /\ r \in {-1, -496} \/ (r = -487 /\ args.len > PwdMax)
    /\ Exit(r)
    /\ Say("password_file")
    /\ UNCHANGED <<boardvars, cmd, args, idVer, id3, i, shown, saved, left, short>>

PasswordRead ==
    /\ pc = "start" /\ cmd = "password" /\ args.len <= PwdMax
    /\ pc' = "send"
    /\ UNCHANGED <<boardvars, cmd, args, idVer, id3, i, shown, saved, left, said, ret, short>>

PasswordSentOnceMore ==
    /\ pc = "send"
    /\ accepted' = accepted + 1
    /\ i' = i + 1
    /\ IF i' > 2 THEN Exit(0) ELSE UNCHANGED <<pc, ret>>
    /\ UNCHANGED <<version, stage, started, cmd, args, idVer, id3, shown, saved, left, said,
                   short>>

PasswordSent ==
    /\ pc = "send"
    /\ accepted' = accepted + 1
    /\ i' = i + 1
    /\ IF i' > 1 THEN Exit(0) ELSE UNCHANGED <<pc, ret>>
    /\ UNCHANGED <<version, stage, started, cmd, args, idVer, id3, shown, saved, left, said,
                   short>>

\* A transfer that fails, before or after the device has taken it: the loop ends.
PasswordFailRetried ==
    /\ pc = "send"
    /\ accepted' \in {accepted, accepted + 1}
    /\ i' = i + 1
    /\ IF i' > 1 THEN Exit(-110) ELSE UNCHANGED <<pc, ret>>
    /\ UNCHANGED <<version, stage, started, cmd, args, idVer, id3, shown, saved, left, said,
                   short>>

PasswordFail ==
    /\ pc = "send"
    /\ accepted' \in {accepted, accepted + 1}
    /\ i' = i + 1
    /\ Exit(-110)
    /\ UNCHANGED <<version, stage, started, cmd, args, idVer, id3, shown, saved, left, said,
                   short>>

-----------------------------------------------------------------------------
\* The handler of run does not look at the result of the transfer.
RunInAddr == started' \in BOOLEAN

Run ==
    /\ pc = "start" /\ cmd = "run"
    /\ RunInAddr
    /\ Exit(0)
    /\ UNCHANGED <<version, stage, accepted, cmd, args, idVer, id3, i, shown, saved, left,
                   said, short>>

\* reset: usb_reset succeeds or fails.
Reset ==
    /\ pc = "start" /\ cmd = "reset"
    /\ \/ Exit(0) /\ UNCHANGED said
       \/ Exit(-5) /\ Say("get_info_failed")
    /\ UNCHANGED <<boardvars, cmd, args, idVer, id3, i, shown, saved, left, short>>

-----------------------------------------------------------------------------
ChipNext ==
    \/ IdentifyShort \/ IdentifyHostFail \/ (\E n \in 0 .. IdMax : IdentifyHost(n))
    \/ ByMemory \/ (\E n \in 0 .. ChipIdLen : ReadId(n)) \/ ReadIdFail
    \/ \E n \in 0 .. PageAsked : ReadPage(n)
    \/ ChipinfoRefuse \/ (\E f \in BOOLEAN : ChipinfoPage(f)) \/ ChipinfoFail
    \/ OpenFail \/ SaveFail \/ Save
    \/ (\E r \in {-1, -487, -496} : PasswordRefuse(r))
    \/ PasswordRead \/ PasswordSent \/ PasswordFail
    \/ Run \/ Reset

ChipSpec == ChipInit /\ [][ChipNext]_chipvars

-----------------------------------------------------------------------------
\* What a command may return.
ChipResults ==
    {1, 0, 774, PageLen, -1, -5, -110, -487, -496, -527, -538, -548, -554, -765, -784, -855,
     -860, -900, -908}

\* The values of the variables: the password goes out twice at most, and no part of
\* a chip id longer than it.
ChipTypeOK ==
    /\ version \in Versions /\ stage \in Stages /\ accepted \in 0 .. 2 /\ started \in BOOLEAN
    /\ args \in Args
    /\ cmd \in ChipCmds => pc \in {"start", "stage", "page", "memory", "save", "send", "exit"}
    /\ idVer \in Versions \cup {-1} /\ id3 \in Stages \cup {-1}
    /\ i \in 0 .. 2 /\ shown \in -1 .. ChipIdLen
    /\ left \in 0 .. PageLen
    /\ short \in BOOLEAN
    /\ cmd \in ChipCmds => ret \in ChipResults

\* A chip id is printed only of a board that is in its ROM or in BL2 and of a version
\* whose chip id has a known place, as the board itself said in full a moment before.
ShownMeansSupported ==
    shown # -1 /\ ~short => stage \in RomStage /\ Supported(version)

\* password returns 0 only when the board has taken the password both times.
PasswordZeroMeansTaken == cmd = "password" /\ ret = 0 => accepted = 2

\* What chipinfo prints or saves lies in the page that was read, unless the sum of
\* its two numbers overflows.
SavedInPage ==
    args.startOffset + args.nBytes <= IntMax =>
        0 <= saved[1] /\ saved[1] <= saved[2] /\ saved[2] <= PageLen

\* What a chip command shows, saves or reports as done is so.
ReportedIsSo == ShownMeansSupported /\ PasswordZeroMeansTaken /\ SavedInPage

=============================================================================
