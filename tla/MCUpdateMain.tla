---------------------------- MODULE MCUpdateMain ----------------------------
(* UpdateMain with the numbers of boards at which it decides differently. *)
EXTENDS UpdateMain
=============================================================================
