--------------------------- MODULE CorrectionFlow ---------------------------
(***************************************************************************)
(* correct_submission_flow for one submission: several flow runs, started  *)
(* by webhooks or by hand, while the student hands in new attempts.  The   *)
(* stages before the upload are here; the two upload tasks are those of    *)
(* CanvasUploader, on the same Canvas submission.                          *)
(*                                                                         *)
(* An attempt is its number.  What it is worth is whatever the points file *)
(* in the workspace says, the grader's or one the student handed in, if    *)
(* there is one.  A feedback file is the attempt it is about and the run   *)
(* that built it, because create_feedback_zip writes the time of           *)
(* collection into it.                                                     *)
(***************************************************************************)
EXTENDS CanvasUploader

CONSTANTS
  MaxAttempt,    \* attempts a student makes
  RunConfigs     \* upload configurations of the course

Attempts == 1..MaxAttempt

ASSUME AttemptAssumption == MaxAttempt \in Nat \ {0}
ASSUME FlowContentsAssumption == Attempts \X Runs \subseteq Contents
ASSUME RunConfigsAssumption == RunConfigs \subseteq Configs

VARIABLES
  attempt,    \* Canvas: the attempt the submission shows
  stage,      \* run -> stage before the upload
  meta,       \* run -> attempt its metadata is about
  files,      \* run -> attempt its files are from
  gradedFor   \* history: the attempt the last run to post a grade had graded

flow == <<attempt, stage, meta, files, gradedFor>>
flowVars == <<vars, flow>>

Stages == {"new", "metadata", "download", "prepare", "execute", "collect", "upload", "failed"}
Before == Stages \ {"new", "upload", "failed"}

FlowTypeOK ==
  /\ TypeOK
  /\ attempt \in Attempts
  /\ stage \in [Runs -> Stages]
  /\ meta \in [Runs -> 0..MaxAttempt] /\ files \in [Runs -> 0..MaxAttempt]
  /\ gradedFor \in 0..MaxAttempt

FlowInit ==
  /\ Init
  /\ attempt = 1
  /\ stage = [r \in Runs |-> "new"]
  /\ meta = [r \in Runs |-> 0] /\ files = [r \in Runs |-> 0]
  /\ gradedFor = 0

InStage(r, s) == stage[r] = s
Enter(r, s) == stage' = [stage EXCEPT ![r] = s]
Busy(r) == stage[r] \in Before \/ pc[r] \in Active

\* The student hands in the next attempt.
Resubmit ==
  /\ attempt < MaxAttempt
  /\ attempt' = attempt + 1
  /\ UNCHANGED <<vars, stage, meta, files, gradedFor>>

Start(r) ==
  /\ InStage(r, "new")
  /\ Enter(r, "metadata")
  /\ Alongside(r, {q \in Runs : Busy(q)})
  /\ UNCHANGED <<canvas, zip, points, cfg, refused, pc, seen, seenGrade, fb, gr, shown>>
  /\ UNCHANGED <<attempt, meta, files, gradedFor>>

FetchMetadata(r) ==
  /\ InStage(r, "metadata")
  /\ meta' = [meta EXCEPT ![r] = attempt]
  /\ Enter(r, "download")
  /\ UNCHANGED <<vars, attempt, files, gradedFor>>

\* Mutant: the attachments are taken from the submission's history, which holds
\* every attempt.
DownloadFiles_History(r) ==
  /\ InStage(r, "download")
  /\ \E a \in 1..attempt : files' = [files EXCEPT ![r] = a]
  /\ Enter(r, "prepare")
  /\ UNCHANGED <<vars, attempt, meta, gradedFor>>

\* download_submission_files asks Canvas again: the attempt shown by now.
DownloadFiles(r) ==
  /\ InStage(r, "download")
  /\ files' = [files EXCEPT ![r] = attempt]
  /\ Enter(r, "prepare")
  /\ UNCHANGED <<vars, attempt, meta, gradedFor>>

PrepareWorkspace(r) ==
  /\ InStage(r, "prepare")
  /\ Enter(r, "execute")
  /\ UNCHANGED <<vars, attempt, meta, files, gradedFor>>

\* execute_grader returns a summary whether the grader ended, timed out or could
\* not be run; the flow does not look at it.
ExecuteGrader(r) ==
  /\ InStage(r, "execute")
  /\ Enter(r, "collect")
  /\ UNCHANGED <<vars, attempt, meta, files, gradedFor>>

\* Mutant: a feedback file does not carry the time it was built.
FeedbackZip_Undated(r) == <<files[r], None>>

FeedbackZip(r) == <<files[r], r>>
Results(r, x, c) == [zip |-> FeedbackZip(r), points |-> x, cfg |-> c]

\* collect_results finds points, and the flow goes on to its upload tasks.
CollectResults(r) ==
  /\ InStage(r, "collect")
  /\ \E x \in Grades, c \in RunConfigs : Begin(r, Results(r, x, c))
  /\ Enter(r, "upload")
  /\ UNCHANGED <<attempt, meta, files, gradedFor>>

\* Canvas, the bucket or Docker cannot be reached, there is no points file or
\* nothing readable in it, or the worker dies: the exception ends the flow run.
StageFails(r) ==
  /\ stage[r] \in Before
  /\ Enter(r, "failed")
  /\ UNCHANGED <<vars, attempt, meta, files, gradedFor>>

UploadResults(r) ==
  /\ Upload(r)
  /\ gradedFor' = IF EditGrade(r) THEN files[r] ELSE gradedFor
  /\ UNCHANGED <<attempt, stage, meta, files>>

TeacherGradesToo ==
  /\ \E g \in Grades : TeacherGrades(g)
  /\ UNCHANGED flow

Work(r) ==
  \/ FetchMetadata(r) \/ DownloadFiles(r) \/ PrepareWorkspace(r)
  \/ ExecuteGrader(r) \/ CollectResults(r) \/ UploadResults(r)

FlowNext ==
  \/ Resubmit
  \/ \E r \in Runs : Start(r) \/ Work(r) \/ StageFails(r)
  \/ TeacherGradesToo

FlowSpec == FlowInit /\ [][FlowNext]_flowVars

------------------------------------------------------------------------------
(* Properties *)

\* A grade posted for an attempt is replaced by one for an earlier attempt only
\* by a run that overlapped another: with the runs of a submission one after
\* another the grade moves forward, whichever runs failed or died and whenever
\* the student resubmitted.
GradesMoveForward ==
  [][gradedFor' < gradedFor => \E r \in overlapped : EditGrade(r)]_flowVars

\* "posts feedback and grades back to Canvas idempotently using duplicate
\* checks": running the flow again on an attempt, after the run before has
\* ended, posts no second feedback.
OneFeedbackPerAttempt ==
  \A a \in Attempts :
    Cardinality({r \in Runs \ overlapped : comments[<<a, r>>] > 0}) <= 1

\* Why the first holds: a run has its files from its download on, and it uploads
\* from its upload stage; and a run that works alone has files no older than any
\* grade posted, since the attempt only grows and nobody else posts.
Downloaded(r) == stage[r] \in {"prepare", "execute", "collect", "upload"}

Fetched == \A r \in Runs : Downloaded(r) => files[r] \in Attempts

Staged == \A r \in Runs : ~At(r, "idle") => InStage(r, "upload")

Forward ==
  /\ gradedFor <= attempt
  /\ \A r \in Runs : files[r] <= attempt
  /\ \A r, q \in Runs : r # q /\ Busy(r) /\ Busy(q) => r \in overlapped
  /\ \A r \in Runs : Busy(r) /\ r \notin overlapped /\ Downloaded(r) => gradedFor <= files[r]

FlowInv == FlowTypeOK /\ Fetched /\ Staged /\ Forward
=============================================================================
