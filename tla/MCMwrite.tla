------------------------------ MODULE MCMwrite ------------------------------
(* Mwrite on an image of a few chunks. *)
EXTENDS Mwrite
=============================================================================
