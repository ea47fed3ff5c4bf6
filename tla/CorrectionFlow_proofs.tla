----------------------- MODULE CorrectionFlow_proofs -----------------------
(***************************************************************************)
(* Proofs about CorrectionFlow, for any number of flow runs and attempts:  *)
(* the upload tasks keep inside a flow what they promise by themselves,    *)
(* and only a run that overlapped another takes a grade back to an earlier *)
(* attempt.                                                                *)
(***************************************************************************)
EXTENDS CorrectionFlow, CanvasUploader_proofs

USE AttemptAssumption, FlowContentsAssumption, RunConfigsAssumption

\* What a step of the upload tasks of one run leaves alone.
LEMMA UploadEffect ==
  ASSUME TypeOK, NEW r \in Runs, Upload(r)
  PROVE  /\ overlapped' = overlapped
         /\ pc[r] \in Active /\ pc'[r] # "idle"
         /\ \A q \in Runs \ {r} : pc'[q] = pc[q]
         /\ \A q \in Runs : pc'[q] \in Active => pc[q] \in Active
<1> USE DEF TypeOK, At, GoTo, Feedback, Grade, canvas, input,
            Active, FeedbackPoints, GradePoints, Ended
<1>1. CASE UploadFeedback(r)
  BY <1>1 DEF UploadFeedback, SkipFeedback, FetchForFeedback, DryRunFeedback,
       DisabledFeedback, SkipCheck, ReloadComments, FindDuplicate, FindNoDuplicate,
       CheckFails, UploadComment, UploadAnswered, UploadRefused, UploadFails
<1>2. CASE PostGrade(r)
  BY <1>2 DEF PostGrade, SkipGrade, FetchForGrade, DryRunGrade, SameGrade,
       DisabledGrade, DecideEdit, EditGrade, EditAnswered, EditFails
<1>3. CASE TaskRaises(r) \/ Crash(r)
  BY <1>3 DEF TaskRaises, Crash
<1> QED
  BY <1>1, <1>2, <1>3 DEF Upload

LEMMA ResultsAreInputs ==
  ASSUME FlowTypeOK, Fetched, NEW r \in Runs, InStage(r, "collect"),
         NEW x \in Grades, NEW c \in RunConfigs
  PROVE  Results(r, x, c) \in AnyInput
<1>1. files[r] \in Attempts
  BY DEF Fetched, InStage, Downloaded
<1>2. FeedbackZip(r) \in Contents
  BY <1>1 DEF FeedbackZip
<1> QED
  BY <1>2 DEF Results, AnyInput

\* Every step of a flow is, for the upload tasks, one of their own or a run that
\* joins others.
LEMMA FlowStepIsStep ==
  ASSUME FlowTypeOK, Fetched, [FlowNext]_flowVars
  PROVE  Step
<1>1. ASSUME NEW r \in Runs, Start(r) PROVE Step
  BY <1>1 DEF Start, Step, Joins, Alongside, FlowTypeOK, TypeOK
<1>2. ASSUME NEW r \in Runs, CollectResults(r) PROVE Step
  BY <1>2, ResultsAreInputs DEF CollectResults, Step
<1>3. ASSUME NEW r \in Runs, UploadResults(r) PROVE Step
  BY <1>3 DEF UploadResults, Step
<1>4. CASE TeacherGradesToo
  BY <1>4 DEF TeacherGradesToo, Step
<1>5. CASE UNCHANGED vars
  BY <1>5 DEF vars, input, Step, Joins, FlowTypeOK, TypeOK
<1> QED
  BY <1>1, <1>2, <1>3, <1>4, <1>5
     DEF FlowNext, Resubmit, Work, FetchMetadata, DownloadFiles, PrepareWorkspace,
         ExecuteGrader, StageFails, flowVars

LEMMA FlowInitType == FlowInit => FlowTypeOK /\ Fetched
  BY InitType DEF FlowInit, FlowTypeOK, Fetched, Downloaded, Attempts, Stages

LEMMA FlowStepType ==
  ASSUME FlowTypeOK, Fetched, [FlowNext]_flowVars
  PROVE  FlowTypeOK' /\ Fetched'
<1>0. TypeOK'
  BY FlowStepIsStep, StepType DEF FlowTypeOK
<1> USE DEF FlowTypeOK, Fetched, Downloaded, Attempts, Stages, Before, InStage, Enter
<1>1. CASE Resubmit
  BY <1>0, <1>1 DEF Resubmit
<1>2. ASSUME NEW r \in Runs, Start(r) PROVE FlowTypeOK' /\ Fetched'
  BY <1>0, <1>2 DEF Start
<1>3. ASSUME NEW r \in Runs, FetchMetadata(r) \/ StageFails(r) PROVE FlowTypeOK' /\ Fetched'
  BY <1>0, <1>3 DEF FetchMetadata, StageFails
<1>4. ASSUME NEW r \in Runs, DownloadFiles(r) PROVE FlowTypeOK' /\ Fetched'
  BY <1>0, <1>4 DEF DownloadFiles
<1>5. ASSUME NEW r \in Runs, PrepareWorkspace(r) PROVE FlowTypeOK' /\ Fetched'
  BY <1>0, <1>5 DEF PrepareWorkspace
<1>6. ASSUME NEW r \in Runs, ExecuteGrader(r) PROVE FlowTypeOK' /\ Fetched'
  BY <1>0, <1>6 DEF ExecuteGrader
<1>7. ASSUME NEW r \in Runs, CollectResults(r) PROVE FlowTypeOK' /\ Fetched'
  BY <1>0, <1>7 DEF CollectResults
<1>8. ASSUME NEW r \in Runs, UploadResults(r) PROVE FlowTypeOK' /\ Fetched'
  BY <1>0, <1>8 DEF UploadResults
<1>9. CASE TeacherGradesToo
  BY <1>0, <1>9 DEF TeacherGradesToo, flow
<1>10. CASE UNCHANGED flowVars
  BY <1>0, <1>10 DEF flowVars, flow
<1> QED
  BY <1>1, <1>2, <1>3, <1>4, <1>5, <1>6, <1>7, <1>8, <1>9, <1>10 DEF FlowNext, Work

\* Every variable keeps its type, whatever the runs, the student and the teacher do.
THEOREM FlowTypeCorrect == FlowSpec => []FlowTypeOK
  BY FlowInitType, FlowStepType, PTL DEF FlowSpec

\* Inside a flow, with its stages failing and the student resubmitting, the
\* upload tasks keep every promise they make by themselves: their reports are
\* true, but for a file that Canvas did not take without an error, and surplus
\* copies are due to excused runs.
THEOREM UploadPromisesKept ==
  FlowSpec => [](FeedbackDelivered /\ GradeReportHonest /\ AtMostOneCopy)
<1>1. FlowInit => IInv
  BY InitInv DEF FlowInit
<1>2. FlowTypeOK /\ Fetched /\ IInv /\ [FlowNext]_flowVars => IInv'
  BY FlowStepIsStep, StepInv
<1>3. IInv => FeedbackDelivered /\ GradeReportHonest /\ AtMostOneCopy
  BY CopiesBound DEF IInv
<1> QED
  BY FlowInitType, FlowStepType, <1>1, <1>2, <1>3, PTL DEF FlowSpec

------------------------------------------------------------------------------

LEMMA StepStaged ==
  ASSUME FlowTypeOK, Staged, [FlowNext]_flowVars
  PROVE  Staged'
<1> USE DEF FlowTypeOK, TypeOK, Staged, InStage, Enter, At
<1>1. ASSUME NEW r \in Runs, CollectResults(r) PROVE Staged'
  <2>1. \A q \in Runs \ {r} : pc'[q] = pc[q] /\ stage'[q] = stage[q]
    BY <1>1 DEF CollectResults, Begin, GoTo
  <2>2. stage'[r] = "upload"
    BY <1>1 DEF CollectResults
  <2> QED
    BY <2>1, <2>2
<1>2. ASSUME NEW r \in Runs, UploadResults(r) PROVE Staged'
  <2>1. /\ stage' = stage /\ pc[r] # "idle"
        /\ \A q \in Runs \ {r} : pc'[q] = pc[q]
    BY <1>2, UploadEffect DEF UploadResults, Active, FeedbackPoints, GradePoints
  <2> QED
    BY <2>1
<1>3. ASSUME NEW r \in Runs,
             \/ Start(r) \/ FetchMetadata(r) \/ DownloadFiles(r) \/ PrepareWorkspace(r)
             \/ ExecuteGrader(r) \/ StageFails(r)
      PROVE  Staged'
  <2>1. /\ pc' = pc /\ stage[r] # "upload"
        /\ \A q \in Runs \ {r} : stage'[q] = stage[q]
    BY <1>3 DEF Start, FetchMetadata, DownloadFiles, PrepareWorkspace, ExecuteGrader,
                StageFails, Before, vars
  <2> QED
    BY <2>1
<1>4. CASE Resubmit \/ TeacherGradesToo \/ UNCHANGED flowVars
  BY <1>4 DEF Resubmit, TeacherGradesToo, TeacherGrades, flowVars, flow, vars
<1> QED
  BY <1>1, <1>2, <1>3, <1>4 DEF FlowNext, Work

\* Runs are not busy at the same time unnoticed, and one that is alone has files
\* as new as the last posted grade.
LEMMA StepForward ==
  ASSUME FlowTypeOK, Fetched, Staged, Forward, [FlowNext]_flowVars
  PROVE  Forward'
<1> DEFINE Apart == \A r, q \in Runs : r # q /\ Busy(r) /\ Busy(q) => r \in overlapped
           Fresh == \A r \in Runs :
             Busy(r) /\ r \notin overlapped /\ Downloaded(r) => gradedFor <= files[r]
           Bounded == gradedFor <= attempt /\ \A r \in Runs : files[r] <= attempt
<1> SUFFICES Apart' /\ Fresh' /\ Bounded'
  BY DEF Forward
<1>0. /\ Apart /\ Fresh /\ Bounded
      /\ attempt \in Nat /\ gradedFor \in Nat /\ \A r \in Runs : files[r] \in Nat
  BY DEF Forward, FlowTypeOK, Attempts
<1> USE DEF FlowTypeOK, TypeOK, InStage, Enter, Busy, Downloaded
<1> HIDE DEF Apart, Fresh, Bounded
\* Steps that start nobody, fetch no files and post no grade.
<1>1. ASSUME \A r \in Runs : Busy(r)' => Busy(r),
             \A r \in Runs : Downloaded(r)' /\ Busy(r)' => Downloaded(r),
             overlapped \subseteq overlapped', UNCHANGED <<files, gradedFor>>,
             attempt' \in Nat, attempt <= attempt'
      PROVE  Apart' /\ Fresh' /\ Bounded'
  <2>1. Apart' /\ Fresh'
    BY <1>0, <1>1 DEF Apart, Fresh
  <2>2. Bounded'
    BY <1>0, <1>1 DEF Bounded
  <2> QED
    BY <2>1, <2>2
<1>2. CASE Resubmit
  BY <1>1, <1>2, <1>0 DEF Resubmit, vars, input
<1>3. ASSUME NEW r \in Runs, Start(r) PROVE Apart' /\ Fresh' /\ Bounded'
  <2>1. /\ stage[r] = "new" /\ stage' = [stage EXCEPT ![r] = "metadata"]
        /\ Alongside(r, {q \in Runs : Busy(q)})
        /\ UNCHANGED <<pc, attempt, files, gradedFor>>
    BY <1>3 DEF Start
  <2>2. Apart'
    BY <1>0, <2>1 DEF Apart, Alongside, Before
  <2>3. Fresh' /\ Bounded'
    BY <1>0, <2>1 DEF Fresh, Bounded, Alongside
  <2> QED
    BY <2>2, <2>3
<1>4. ASSUME NEW r \in Runs,
             FetchMetadata(r) \/ PrepareWorkspace(r) \/ ExecuteGrader(r) \/ StageFails(r)
      PROVE  Apart' /\ Fresh' /\ Bounded'
  <2>1. /\ stage[r] \in Before /\ stage' \in [Runs -> Stages]
        /\ stage'[r] \in {"prepare", "execute", "collect", "upload"} => Downloaded(r)
        /\ \A q \in Runs \ {r} : stage'[q] = stage[q]
        /\ UNCHANGED <<pc, overlapped, attempt, files, gradedFor>>
    BY <1>4 DEF FetchMetadata, PrepareWorkspace, ExecuteGrader, StageFails, vars, input,
                Before, Stages
  <2> QED
    BY <1>0, <1>1, <2>1
<1>5. ASSUME NEW r \in Runs, DownloadFiles(r) PROVE Apart' /\ Fresh' /\ Bounded'
  <2>1. /\ stage[r] = "download" /\ stage' = [stage EXCEPT ![r] = "prepare"]
        /\ files' = [files EXCEPT ![r] = attempt]
        /\ UNCHANGED <<pc, overlapped, attempt, gradedFor>>
    BY <1>5 DEF DownloadFiles, vars, input
  <2>2. Apart'
    BY <1>0, <2>1 DEF Apart, Before, Stages
  <2>3. Fresh' /\ Bounded'
    BY <1>0, <2>1 DEF Fresh, Bounded
  <2> QED
    BY <2>2, <2>3
<1>6. ASSUME NEW r \in Runs, CollectResults(r) PROVE Apart' /\ Fresh' /\ Bounded'
  <2>1. /\ stage[r] = "collect" /\ stage' = [stage EXCEPT ![r] = "upload"]
        /\ pc' = [pc EXCEPT ![r] = "fetchF"]
        /\ overlapped \subseteq overlapped'
        /\ UNCHANGED <<attempt, files, gradedFor>>
    BY <1>6 DEF CollectResults, Begin, GoTo, Alongside
  <2> QED
    BY <1>0, <1>1, <2>1 DEF Before, Stages
<1>7. ASSUME NEW r \in Runs, UploadResults(r) PROVE Apart' /\ Fresh' /\ Bounded'
  <2>1. /\ UNCHANGED <<overlapped, stage, attempt, files>>
        /\ pc[r] \in Active /\ \A q \in Runs : pc'[q] \in Active => pc[q] \in Active
    BY <1>7, UploadEffect DEF UploadResults, input
  <2>2. CASE ~EditGrade(r)
    <3>1. gradedFor' = gradedFor
      BY <1>7, <2>2 DEF UploadResults
    <3> QED
      BY <1>0, <1>1, <2>1, <3>1
  <2>3. CASE EditGrade(r)
    <3>1. gradedFor' = files[r]
      BY <1>7, <2>3 DEF UploadResults
    <3>2. \A q \in Runs : q # r /\ Busy(q)' => q \in overlapped
      BY <1>0, <2>1 DEF Apart
    <3>3. Apart'
      BY <1>0, <2>1 DEF Apart
    <3>4. Fresh' /\ Bounded'
      BY <1>0, <2>1, <3>1, <3>2 DEF Fresh, Bounded
    <3> QED
      BY <3>3, <3>4
  <2> QED
    BY <2>2, <2>3
<1>8. CASE TeacherGradesToo
  BY <1>0, <1>1, <1>8 DEF TeacherGradesToo, TeacherGrades, flow, input
<1>9. CASE UNCHANGED flowVars
  BY <1>0, <1>1, <1>9 DEF flowVars, flow, vars, input
<1> QED
  BY <1>2, <1>3, <1>4, <1>5, <1>6, <1>7, <1>8, <1>9 DEF FlowNext, Work

\* Only a run that overlapped another takes the posted grade back to an earlier
\* attempt, for any number of runs and attempts.
THEOREM GradesGoForward == FlowSpec => GradesMoveForward
<1>1. FlowInit => Staged /\ Forward
  BY DEF FlowInit, Init, Staged, Forward, At, InStage, Busy, Before, Stages, Active,
         FeedbackPoints, GradePoints
<1>2. ASSUME FlowTypeOK, Staged, Forward, [FlowNext]_flowVars, gradedFor' < gradedFor
      PROVE  \E r \in overlapped : EditGrade(r)
  <2>1. gradedFor' # gradedFor
    BY <1>2 DEF FlowTypeOK
  <2>2. PICK r \in Runs : UploadResults(r)
    BY <1>2, <2>1 DEF FlowNext, Work, Resubmit, Start, FetchMetadata, DownloadFiles,
         PrepareWorkspace, ExecuteGrader, CollectResults, StageFails, TeacherGradesToo,
         flow, flowVars
  <2>3. EditGrade(r) /\ gradedFor' = files[r]
    BY <2>1, <2>2 DEF UploadResults
  <2>4. At(r, "edit")
    BY <2>3 DEF EditGrade
  <2>5. Busy(r) /\ Downloaded(r)
    BY <1>2, <2>4 DEF Busy, Downloaded, Staged, InStage, At, Active, GradePoints
  <2>6. ~(gradedFor <= files[r])
    BY <1>2, <2>3 DEF FlowTypeOK
  <2>7. r \in overlapped
    BY <1>2, <2>5, <2>6 DEF Forward
  <2> QED
    BY <2>3, <2>7
<1> QED
  BY FlowInitType, FlowStepType, <1>1, StepStaged, StepForward, <1>2, PTL
     DEF FlowSpec, GradesMoveForward
=============================================================================
