--------------------------- MODULE MCAccessSeats ---------------------------
(* Instances of AccessSeats for TLC. *)
EXTENDS AccessSeats, TLC

Symmetry == Permutations(AccessCodes) \cup Permutations(Users)
            \cup Permutations(Contracts) \cup Permutations(Transactions)
=============================================================================
