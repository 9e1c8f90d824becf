------------------------------ MODULE Progress ------------------------------
(***************************************************************************)
(* Measures of what a program has left to do: tuples of natural numbers in *)
(* lexicographic order, in which no sequence falls for ever.               *)
(***************************************************************************)
EXTENDS Integers, Sequences

Below(m, n) ==
    \E k \in 1 .. Len(n) : m[k] < n[k] /\ \A j \in 1 .. k - 1 : m[j] = n[j]

=============================================================================
