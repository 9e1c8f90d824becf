----------------------------- MODULE MCLargeMem -----------------------------
(* LargeMem on a memory of a few bytes. *)
EXTENDS LargeMem
=============================================================================
