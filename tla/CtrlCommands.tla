---------------------------- MODULE CtrlCommands ----------------------------
(***************************************************************************)
(* The commands over the control endpoint, together: the program is        *)
(* started for one of them, runs it and exits.  What belongs to the others *)
(* stays as it is.                                                         *)
(***************************************************************************)
EXTENDS TplCmd, ChipCmd, CtrlMem

tplown == <<devvars, cmdLen, step, retry, buf, result>>
chipown == <<boardvars, args, idVer, id3, i, shown, saved, left, said>>
memown == <<mem, range, saving, buffer, out, offset, bulkSize, processed, failed, moved,
            unseen>>

vars == <<cmd, pc, ret, short, tplown, chipown, memown>>

\* The variables of a command that is not the user's, at rest.
TplIdle ==
    /\ queue = <<>> /\ answer = NoReply /\ early = FALSE /\ keeps = FALSE
    /\ fuse = 0 /\ burns = 0 /\ cmdLen = 1 /\ step = 1 /\ retry = 0
    /\ buf = NoReply /\ result = "none"

ChipIdle ==
    /\ version = CHOOSE v \in Versions : TRUE
    /\ stage = CHOOSE s \in Stages : TRUE
    /\ accepted = 0 /\ started = FALSE
    /\ args = CHOOSE a \in Args : TRUE
    /\ idVer = -1 /\ id3 = -1 /\ i = 0
    /\ shown = -1 /\ saved = <<0, 0>> /\ left = 0 /\ said = {}

MemIdle ==
    /\ mem = CHOOSE m \in Memories : TRUE
    /\ range = [addr |-> 0, size |-> 0] /\ saving = FALSE
    /\ buffer = [k \in Index |-> Junk] /\ out = <<>>
    /\ offset = 0 /\ bulkSize = 0 /\ processed = 0 /\ failed = FALSE /\ moved = 0
    /\ unseen = {}

Init ==
    \/ TplInit /\ ret = 1 /\ ChipIdle /\ MemIdle
    \/ ChipInit /\ TplIdle /\ MemIdle
    \/ MemInit /\ short = FALSE /\ TplIdle /\ ChipIdle

\* A step of the command, and a step of the device on its own.
Host ==
    \/ cmd \in TplCmds /\ TplHost /\ UNCHANGED <<ret, chipown, memown>>
    \/ cmd \in ChipCmds /\ ChipNext /\ UNCHANGED <<tplown, memown>>
    \/ cmd \in MemCmds /\ MemNext /\ UNCHANGED <<short, tplown, chipown>>

Next ==
    \/ Host
    \/ Device /\ UNCHANGED <<ret, chipown, memown>>

\* Every control transfer has a timeout (5, 50 or 60 s), so that a command goes on
\* whatever the device does; nothing makes the device answer.
Spec == Init /\ [][Next]_vars /\ WF_vars(Host)

\* The values of the variables, those of the commands at rest included.
TypeOK == TplTypeOK /\ ChipTypeOK /\ MemTypeOK

\* Every command ends, with a device that never answers or fails any of its
\* transfers: no number of retries, packets or pieces keeps it busy for ever.
CommandEnds == <>(pc = "exit")

=============================================================================
