------------------------------ MODULE MCMemCmd ------------------------------
(* MemCmd and Burn with one memory and one file in which every byte is *)
(* different, so that a byte in a wrong place always shows.            *)
EXTENDS Burn

MCInit ==
    /\ mem = [a \in Addr |-> a]
    /\ file = [k \in 0 .. FileLen - 1 |-> 10 + k]
    /\ buffer = [k \in Index |-> 20]
    /\ BurnInit

MCSpec ==
    /\ MCInit
    /\ [][BurnNext]_burnvars
    /\ WF_burnvars(BurnNext)
=============================================================================
