------------------------ MODULE MCAssessmentAttempt -------------------------
(* Instances of AssessmentAttempt for TLC. *)
EXTENDS AssessmentAttempt, TLC

Symmetry == Permutations(Students) \cup Permutations(StartKeys)
            \cup Permutations(SubmitKeys) \cup Permutations(Questions)
            \cup Permutations(Calls)
=============================================================================
