----------------------------- MODULE Subsequences -----------------------------
(***************************************************************************)
(* Filtered and sorted sequences, by the rank of an element in a set of    *)
(* numbers.  (SelectSeq and SortSeq say the same to TLC, but nothing to    *)
(* the prover.)                                                            *)
(***************************************************************************)
EXTENDS Integers, FiniteSets, Sequences

\* The k-th smallest element of a finite set of numbers.
Nth(S, k) == CHOOSE i \in S : Cardinality({j \in S : j <= i}) = k

\* What seq has at the positions in P, in its order: [x for x in seq if ...].
Pick(seq, P) == [k \in 1..Cardinality(P) |-> seq[Nth(P, k)]]

\* The elements of S, the largest first.
Descending(S) == [k \in 1..Cardinality(S) |-> Nth(S, Cardinality(S) + 1 - k)]
=============================================================================
