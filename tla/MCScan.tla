------------------------------- MODULE MCScan -------------------------------
(* Scan with three boards and another device on two busses.  The boards play *)
(* the same part, so they may be permuted.                                   *)
EXTENDS Scan, TLC

Boards3 == Permutations(Board)
=============================================================================
