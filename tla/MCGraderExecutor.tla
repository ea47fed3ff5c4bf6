-------------------------- MODULE MCGraderExecutor --------------------------
(* Instances of GraderExecutor for TLC. *)
EXTENDS GraderExecutor, TLC

CONSTANTS r1, r2

TwoRuns == {r1, r2}
RunSymmetry == Permutations(Runs)
=============================================================================
