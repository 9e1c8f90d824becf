------------------------------ MODULE MCMread ------------------------------
(* Mread on uploads of a few packets. *)
EXTENDS Mread
=============================================================================
