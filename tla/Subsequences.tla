------------------------------ MODULE Subsequences -------------------------
(***************************************************************************)
(* What a loop that appends some elements of a slice to another one leaves *)
(* there, as a function of the positions it keeps: no recursion, so that   *)
(* its properties can be proved (Subsequences_proofs).                     *)
(***************************************************************************)
EXTENDS Integers, Sequences, FiniteSets

\* The number of positions kept up to j.
Rank(keep, j) == Cardinality({i \in keep : i <= j})

\* The k-th position kept.
Position(keep, k) == CHOOSE j \in keep : Rank(keep, j) = k

\* The elements of s at the positions in `keep', in their order.
Subsequence(s, keep) == [k \in 1..Cardinality(keep) |-> s[Position(keep, k)]]
=============================================================================
