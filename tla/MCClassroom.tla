---------------------------- MODULE MCClassroom -----------------------------
(* Instances of Classroom for TLC. *)
EXTENDS Classroom, TLC

CONSTANTS q1, q2, b1, b2

\* Both questions in one batch, or each in a batch of its own.
OneBatch == q1 :> b1 @@ q2 :> b1
TwoBatches == q1 :> b1 @@ q2 :> b2
JustOne == q1 :> b1

Symmetry == Permutations(Students) \cup Permutations(Calls)
=============================================================================
