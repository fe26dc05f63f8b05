------------------------ MODULE MCWeeklyParentReport ------------------------
(* Instances of WeeklyParentReport for TLC. *)
EXTENDS WeeklyParentReport, TLC

Symmetry == Permutations(ReportWorkers)
=============================================================================
