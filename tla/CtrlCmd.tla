------------------------------ MODULE CtrlCmd ------------------------------
(***************************************************************************)
(* What the commands over the control endpoint share.  The program runs    *)
(* one command and exits.  A transfer to the host may end early without an *)
(* error, on USB: the rest of its buffer is then whatever it was.          *)
(***************************************************************************)
EXTENDS Integers, Sequences

VARIABLES
    cmd,      \* the command of the user
    pc,       \* where it is: "start", ..., "exit"
    ret,      \* what it returned, 1 before
    short     \* history: a transfer to the host ended early and nobody noticed

aml_min(m, n) == IF m < n THEN m ELSE n
aml_max(m, n) == IF m > n THEN m ELSE n

\* The command returns r.
Exit(r) ==
    /\ ret' = r
    /\ pc' = "exit"
=============================================================================
