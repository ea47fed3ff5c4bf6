-------------------------- MODULE MCCorrectionFlow --------------------------
(* Instances of CorrectionFlow for TLC. *)
EXTENDS CorrectionFlow, TLC

CONSTANTS r1, r2

TwoRuns == {r1, r2}
FlowContents == (1..MaxAttempt) \X Runs
FlowGrades == {85, 92}
Defaults == {DefaultConfig}
NoInputs == {}

RunSymmetry == Permutations(Runs)
=============================================================================
