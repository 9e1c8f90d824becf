----------------------------- MODULE BurnImage -----------------------------
(***************************************************************************)
(* What the mwrite and partition commands promise: the device puts chunks  *)
(* of the image where they belong, one at a time, and may spoil the place  *)
(* it works on; a device that forgets unfinished requests is led through   *)
(* the image in order and never returns to a chunk before the last; and    *)
(* the image is reported as burned once, when all of it is in place, after *)
(* which nothing of it is touched.  Messages, polls, attempts and verdicts *)
(* are the business of Mwrite, which implements this specification.        *)
(***************************************************************************)
EXTENDS Integers

CONSTANTS Chunks,     \* the image has this many chunks
          Old, Bad    \* what else a place of the partition may hold

VARIABLES media,      \* the partition: at each place the chunk it holds, Old or Bad
          keeps,      \* the device finishes every request, however late
          outcome     \* "none", "burned" or "failed"

bvars == <<media, keeps, outcome>>

Chunk == 0 .. Chunks - 1

Init ==
    /\ media = [c \in Chunk |-> Old]
    /\ keeps \in BOOLEAN
    /\ outcome = "none"

\* The chunks before c are stored and those after it not yet touched.
InOrder(c) == \A d \in Chunk : (d < c => media[d] = d) /\ (d > c => media[d] = Old)

\* Chunk c is stored, or its place spoilt.  The program may have given up by then.
Burn(c) ==
    /\ outcome # "burned"
    /\ ~keeps => InOrder(c)
    /\ \E d \in {c, Bad} : media' = [media EXCEPT ![c] = d]
    /\ UNCHANGED <<keeps, outcome>>

Report ==
    /\ outcome = "none"
    /\ \A c \in Chunk : media[c] = c
    /\ outcome' = "burned"
    /\ UNCHANGED <<media, keeps>>

GiveUp ==
    /\ outcome = "none"
    /\ outcome' = "failed"
    /\ UNCHANGED <<media, keeps>>

Next == (\E c \in Chunk : Burn(c)) \/ Report \/ GiveUp

Spec == Init /\ [][Next]_bvars

=============================================================================
