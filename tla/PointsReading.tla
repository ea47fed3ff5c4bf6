---------------------------- MODULE PointsReading ----------------------------
(***************************************************************************)
(* `ccc course run` beside the parser of points files: either the          *)
(* processes of AssignmentBatch run, or a points file that a grader has    *)
(* written is parsed on its own, as what is in it matters for nothing      *)
(* else in AssignmentBatch.                                                *)
(***************************************************************************)
EXTENDS AssignmentBatch

CONSTANT PointsFilesToRead   \* points files a grader may write, line by line

ASSUME PointsFilesAssumption ==
  PointsFilesToRead \subseteq Seq(Seq(Int \cup {Word, Slash}))

VARIABLE lines   \* the points file being parsed, never changed

ReadOrRun == Init /\ lines \in PointsFilesToRead
RunOn == lines = <<<<>>>> /\ Next /\ UNCHANGED lines
ReadOrRunSpec == ReadOrRun /\ [][RunOn]_<<vars, lines>>

\* Whatever is in the file _parse_points_file reads, it is worth the scores it
\* states.
PointsAreScores == PointsAreTheScores({lines})
=============================================================================
