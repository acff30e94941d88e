--------------------------- MODULE MCOrderSystem ---------------------------
(* OrderSystem for TLC. *)
EXTENDS OrderSystem, TLC

CONSTANTS u1

\* Both keys come from the one user's clients.
OneUser == [k \in Keys |-> u1]

Symmetry == Permutations(Requests) \cup Permutations(Keys) \cup Permutations(Orders)
=============================================================================
