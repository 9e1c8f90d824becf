------------------------------- MODULE MCBl2 -------------------------------
(* Bl2 on an image of a few bytes, and Checksum on every buffer of a few bytes *)
(* of one bit: a behaviour is either a run of the command or builds a buffer.  *)
EXTENDS Bl2, Checksum

MCInit == Init /\ SumInit

MCNext ==
    \/ data = <<>> /\ Next /\ UNCHANGED data
    \/ pc = "open" /\ SumNext /\ UNCHANGED vars

MCSpec == MCInit /\ [][MCNext]_<<vars, data>>

MCFairSpec == MCSpec /\ WF_<<vars, data>>(data = <<>> /\ Download /\ UNCHANGED data)
=============================================================================
