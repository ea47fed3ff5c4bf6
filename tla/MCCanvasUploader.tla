-------------------------- MODULE MCCanvasUploader --------------------------
(* Instances of CanvasUploader for TLC. *)
EXTENDS CanvasUploader, TLC

CONSTANTS r1, r2, zipA, zipB

TwoRuns == {r1, r2}
TwoFiles == {zipA, zipB}
\* Canvas gives "92.5" back as it was posted, and "85.0" as "85".
TwoGrades == {"92.5", "85.0"}
SameText == {"92.5"}

\* The default configuration, each single departure from it, and a dry run that
\* does not check either.
OneOff == {DefaultConfig,
           [DefaultConfig EXCEPT !.check = FALSE], [DefaultConfig EXCEPT !.dry = TRUE],
           [DefaultConfig EXCEPT !.comments = FALSE], [DefaultConfig EXCEPT !.grades = FALSE],
           [DefaultConfig EXCEPT !.check = FALSE, !.dry = TRUE]}

NoResults == [zip |-> None, points |-> None, cfg |-> DefaultConfig]

\* Every kind of run, on one file and either grade.
AllKinds == [zip : Contents, points : {"92.5", "85.0"}, cfg : OneOff] \cup {NoResults}

RunSymmetry == Permutations(Runs)
=============================================================================
