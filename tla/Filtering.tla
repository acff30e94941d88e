------------------------------ MODULE Filtering ------------------------------
(***************************************************************************)
(* Array.prototype.filter, by the positions it keeps: SelectSeq in a form  *)
(* without recursion, so that theorems can be proved about its users.      *)
(***************************************************************************)
EXTENDS Integers, FiniteSets

\* The how-many-th of the kept positions i is.
Rank(kept, i) == Cardinality({j \in kept : j <= i})

\* The elements of a sequence at the positions in kept, in their order.
AtPositions(s, kept) ==
    [n \in 1..Cardinality(kept) |-> s[CHOOSE i \in kept : Rank(kept, i) = n]]
=============================================================================
