----------------------- MODULE CanvasUploader_proofs -----------------------
(***************************************************************************)
(* Proofs about CanvasUploader, for any number of runs, files and grades:  *)
(* what a run reports about its feedback and its grade is true, but for a  *)
(* file that Canvas did not take without an error, and Canvas is written   *)
(* only by runs whose configuration allows it.                             *)
(***************************************************************************)
EXTENDS CanvasUploader, FiniteSetTheorems, TLAPS

USE NoneAssumption, RenderedAssumption

\* The lemmas are about any step a run or a teacher can make, whatever results a
\* run brings and even if something outside the upload tasks made runs overlap,
\* so that they serve the correction flow as well.
AnyInput == [zip : Contents \cup {None}, points : Grades \cup {None}, cfg : Configs]

Joins ==
  /\ overlapped \subseteq overlapped' /\ overlapped' \subseteq Runs
  /\ UNCHANGED <<canvas, zip, points, cfg, refused, pc, seen, seenGrade, fb, gr, shown>>

Step ==
  \/ \E r \in Runs, in \in AnyInput : Begin(r, in)
  \/ \E r \in Runs : Upload(r)
  \/ \E g \in Grades : TeacherGrades(g)
  \/ Joins

LEMMA NextIsStep == TypeOK /\ [Next]_vars => Step
  BY InputsAssumption DEF Next, Step, AnyInput, Joins, TypeOK, vars, canvas, input

LEMMA InitType == Init => TypeOK
  BY DEF Init, TypeOK, Outcomes, Configs, DefaultConfig

LEMMA StepType == TypeOK /\ Step => TypeOK'
<1> SUFFICES ASSUME TypeOK, Step PROVE TypeOK'
  OBVIOUS
<1> USE DEF TypeOK, Outcomes, Active, FeedbackPoints, GradePoints, Ended,
            At, GoTo, Feedback, Grade, canvas, input
<1>1. ASSUME NEW r \in Runs, NEW in \in AnyInput, Begin(r, in) PROVE TypeOK'
  <2>1. /\ in.zip \in Contents \cup {None}
        /\ in.points \in Grades \cup {None}
        /\ in.cfg \in Configs
    BY DEF AnyInput
  <2> QED
    BY <1>1, <2>1 DEF Begin, Alongside
<1>2. ASSUME NEW r \in Runs, UploadFeedback(r) PROVE TypeOK'
  <2>1. CASE SkipFeedback(r) \/ DryRunFeedback(r) \/ DisabledFeedback(r)
             \/ FindDuplicate(r) \/ CheckFails(r) \/ UploadAnswered(r) \/ UploadRefused(r)
             \/ UploadFails(r)
    BY <2>1 DEF SkipFeedback, DryRunFeedback, DisabledFeedback, FindDuplicate,
                CheckFails, UploadAnswered, UploadRefused, UploadFails
  <2>2. CASE FetchForFeedback(r) \/ SkipCheck(r) \/ FindNoDuplicate(r)
    BY <2>2 DEF FetchForFeedback, SkipCheck, FindNoDuplicate
  <2>3. CASE ReloadComments(r)
    BY <2>3 DEF ReloadComments
  <2>4. CASE UploadComment(r)
    <3>1. comments' = [comments EXCEPT ![zip[r]] = comments[zip[r]] + 1]
      BY <2>4 DEF UploadComment
    <3>2. comments' \in [Contents -> Nat]
      <4>1. zip[r] \in Contents => comments[zip[r]] + 1 \in Nat
        OBVIOUS
      <4> QED
        BY <3>1, <4>1
    <3> QED
      BY <2>4, <3>2 DEF UploadComment
  <2> QED
    BY <1>2, <2>1, <2>2, <2>3, <2>4 DEF UploadFeedback
<1>3. ASSUME NEW r \in Runs, PostGrade(r) PROVE TypeOK'
  <2>1. CASE SkipGrade(r) \/ DryRunGrade(r) \/ SameGrade(r) \/ DisabledGrade(r)
             \/ EditAnswered(r) \/ EditFails(r)
    BY <2>1 DEF SkipGrade, DryRunGrade, SameGrade, DisabledGrade, EditAnswered, EditFails
  <2>2. CASE FetchForGrade(r)
    BY <2>2 DEF FetchForGrade
  <2>3. CASE DecideEdit(r)
    BY <2>3 DEF DecideEdit
  <2>4. CASE EditGrade(r)
    BY <2>4 DEF EditGrade, Show
  <2> QED
    BY <1>3, <2>1, <2>2, <2>3, <2>4 DEF PostGrade
<1>4. ASSUME NEW r \in Runs, TaskRaises(r) \/ Crash(r) PROVE TypeOK'
  BY <1>4 DEF TaskRaises, Crash
<1>5. ASSUME NEW g \in Grades, TeacherGrades(g) PROVE TypeOK'
  BY <1>5 DEF TeacherGrades, Show
<1>6. CASE Joins
  BY <1>6 DEF Joins, canvas
<1> QED
  BY <1>1, <1>2, <1>3, <1>4, <1>5, <1>6 DEF Step, Upload

\* Every variable keeps its type, whatever the runs and the teacher do.
THEOREM TypeCorrect == Spec => []TypeOK
  BY InitType, StepType, NextIsStep, PTL DEF Spec

------------------------------------------------------------------------------

LEMMA SpentIsFinite ==
  ASSUME NEW c PROVE IsFiniteSet(Spent(c)) /\ Cardinality(Spent(c)) \in Nat
  BY Spent(c) \subseteq Runs, RunsAssumption, FS_Subset, FS_CardinalityType DEF Spent

LEMMA InitInv == Init => IInv
<1> SUFFICES ASSUME Init PROVE IInv
  OBVIOUS
<1>1. TypeOK /\ Delivering /\ FeedbackDelivered /\ Grading /\ GradeReportHonest /\ Permitted
  BY InitType DEF Init, Delivering, FeedbackDelivered, Grading,
                  GradeReportHonest, Permitted, At, FeedbackPoints, GradePoints
<1>2. Copying
  BY SpentIsFinite DEF Init, Copying, At, Active, FeedbackPoints, GradePoints
<1> QED
  BY <1>1, <1>2 DEF IInv

\* What a run has said about its feedback, and what it is about to say, is true.
LEMMA StepDelivery ==
  ASSUME TypeOK, Delivering, FeedbackDelivered, Step
  PROVE  Delivering' /\ FeedbackDelivered'
<1> USE DEF TypeOK, Delivering, FeedbackDelivered, FeedbackPoints, GradePoints,
            At, GoTo, Feedback, Grade, canvas, input
<1>1. ASSUME NEW r \in Runs, NEW in \in AnyInput, Begin(r, in)
      PROVE  Delivering' /\ FeedbackDelivered'
  BY <1>1 DEF Begin
<1>2. ASSUME NEW r \in Runs, UploadFeedback(r) PROVE Delivering' /\ FeedbackDelivered'
  <2>1. CASE SkipFeedback(r) \/ DryRunFeedback(r) \/ DisabledFeedback(r)
             \/ CheckFails(r) \/ UploadFails(r)
    BY <2>1 DEF SkipFeedback, DryRunFeedback, DisabledFeedback, CheckFails, UploadFails
  <2>2. CASE FetchForFeedback(r) \/ SkipCheck(r) \/ FindNoDuplicate(r)
    BY <2>2 DEF FetchForFeedback, SkipCheck, FindNoDuplicate
  <2>3. CASE ReloadComments(r)
    BY <2>3 DEF ReloadComments
  <2>4. CASE FindDuplicate(r)
    BY <2>4 DEF FindDuplicate
  <2>5. CASE UploadComment(r)
    <3>1. comments' = [comments EXCEPT ![zip[r]] = comments[zip[r]] + 1]
      BY <2>5 DEF UploadComment
    <3>2. \A c : comments[c] > 0 /\ c \in Contents => comments'[c] > 0
      BY <3>1
    <3>3. comments'[zip[r]] > 0
      BY <2>5, <3>1 DEF UploadComment
    <3> QED
      BY <2>5, <3>2, <3>3 DEF UploadComment
  <2>6. CASE UploadAnswered(r) \/ UploadRefused(r)
    BY <2>6 DEF UploadAnswered, UploadRefused
  <2> QED
    BY <1>2, <2>1, <2>2, <2>3, <2>4, <2>5, <2>6 DEF UploadFeedback
<1>3. ASSUME NEW r \in Runs, PostGrade(r) PROVE Delivering' /\ FeedbackDelivered'
  BY <1>3 DEF PostGrade, SkipGrade, FetchForGrade, DryRunGrade, SameGrade,
              DisabledGrade, DecideEdit, EditGrade, Show, EditAnswered, EditFails
<1>4. ASSUME NEW r \in Runs, TaskRaises(r) \/ Crash(r)
      PROVE  Delivering' /\ FeedbackDelivered'
  BY <1>4 DEF TaskRaises, Crash
<1>5. ASSUME NEW g \in Grades, TeacherGrades(g) PROVE Delivering' /\ FeedbackDelivered'
  BY <1>5 DEF TeacherGrades, Show
<1>6. CASE Joins
  BY <1>6 DEF Joins, canvas
<1> QED
  BY <1>1, <1>2, <1>3, <1>4, <1>5, <1>6 DEF Step, Upload

\* So is what it has said about its grade.
LEMMA StepGrading ==
  ASSUME TypeOK, Grading, GradeReportHonest, Step
  PROVE  Grading' /\ GradeReportHonest'
<1> USE DEF TypeOK, Grading, GradeReportHonest, FeedbackPoints, GradePoints,
            At, GoTo, Feedback, Grade, canvas, input
<1>1. ASSUME NEW r \in Runs, NEW in \in AnyInput, Begin(r, in)
      PROVE  Grading' /\ GradeReportHonest'
  BY <1>1 DEF Begin
<1>2. ASSUME NEW r \in Runs, UploadFeedback(r) PROVE Grading' /\ GradeReportHonest'
  BY <1>2 DEF UploadFeedback, SkipFeedback, FetchForFeedback, DryRunFeedback,
              DisabledFeedback, SkipCheck, ReloadComments, FindDuplicate,
              FindNoDuplicate, CheckFails, UploadComment, UploadAnswered, UploadRefused, UploadFails
<1>3. ASSUME NEW r \in Runs, PostGrade(r) PROVE Grading' /\ GradeReportHonest'
  <2>1. CASE SkipGrade(r) \/ DryRunGrade(r) \/ DisabledGrade(r) \/ EditFails(r)
    BY <2>1 DEF SkipGrade, DryRunGrade, DisabledGrade, EditFails
  <2>2. CASE FetchForGrade(r)
    BY <2>2 DEF FetchForGrade
  <2>3. CASE SameGrade(r)
    BY <2>3 DEF SameGrade, IsSameGrade
  <2>4. CASE DecideEdit(r)
    BY <2>4 DEF DecideEdit
  <2>5. CASE EditGrade(r)
    BY <2>5 DEF EditGrade, Show
  <2>6. CASE EditAnswered(r)
    BY <2>6 DEF EditAnswered
  <2> QED
    BY <1>3, <2>1, <2>2, <2>3, <2>4, <2>5, <2>6 DEF PostGrade
<1>4. ASSUME NEW r \in Runs, TaskRaises(r) \/ Crash(r) PROVE Grading' /\ GradeReportHonest'
  BY <1>4 DEF TaskRaises, Crash
<1>5. ASSUME NEW g \in Grades, TeacherGrades(g) PROVE Grading' /\ GradeReportHonest'
  BY <1>5 DEF TeacherGrades, Show
<1>6. CASE Joins
  BY <1>6 DEF Joins, canvas
<1> QED
  BY <1>1, <1>2, <1>3, <1>4, <1>5, <1>6 DEF Step, Upload

LEMMA StepPermitted ==
  ASSUME TypeOK, Permitted, Step
  PROVE  Permitted'
<1> USE DEF TypeOK, Permitted, At, GoTo, Feedback, Grade, canvas, input
<1>1. ASSUME NEW r \in Runs, NEW in \in AnyInput, Begin(r, in) PROVE Permitted'
  BY <1>1 DEF Begin
<1>2. ASSUME NEW r \in Runs, UploadFeedback(r) PROVE Permitted'
  <2>1. CASE FindNoDuplicate(r) \/ FindDuplicate(r) \/ CheckFails(r)
    BY <2>1 DEF FindNoDuplicate, FindDuplicate, CheckFails
  <2> QED
    BY <1>2, <2>1 DEF UploadFeedback, SkipFeedback, FetchForFeedback, DryRunFeedback,
              DisabledFeedback, SkipCheck, ReloadComments, UploadComment,
              UploadAnswered, UploadRefused, UploadFails
<1>3. ASSUME NEW r \in Runs, PostGrade(r) PROVE Permitted'
  BY <1>3 DEF PostGrade, SkipGrade, FetchForGrade, DryRunGrade, SameGrade,
              DisabledGrade, DecideEdit, EditGrade, Show, EditAnswered, EditFails
<1>4. ASSUME NEW r \in Runs, TaskRaises(r) \/ Crash(r) PROVE Permitted'
  BY <1>4 DEF TaskRaises, Crash
<1>5. ASSUME NEW g \in Grades, TeacherGrades(g) PROVE Permitted'
  BY <1>5 DEF TeacherGrades, Show
<1>6. CASE Joins
  BY <1>6 DEF Joins, canvas
<1> QED
  BY <1>1, <1>2, <1>3, <1>4, <1>5, <1>6 DEF Step, Upload

\* What an excused run has been charged with stays charged.
LEMMA SpentGrows ==
  ASSUME TypeOK, Step, NEW c \in Contents
  PROVE  Spent(c) \subseteq Spent(c)'
<1> USE DEF TypeOK, Spent, Excused, At, GoTo, Feedback, Grade, GradePoints, Ended, input
<1>1. ASSUME NEW r \in Runs, NEW in \in AnyInput, Begin(r, in)
      PROVE  Spent(c) \subseteq Spent(c)'
  BY <1>1 DEF Begin, Alongside
<1>2. ASSUME NEW r \in Runs, UploadFeedback(r) PROVE Spent(c) \subseteq Spent(c)'
  BY <1>2 DEF UploadFeedback, SkipFeedback, FetchForFeedback, DryRunFeedback,
              DisabledFeedback, SkipCheck, ReloadComments, FindDuplicate,
              FindNoDuplicate, CheckFails, UploadComment, UploadAnswered, UploadRefused, UploadFails
<1>3. ASSUME NEW r \in Runs, PostGrade(r) PROVE Spent(c) \subseteq Spent(c)'
  BY <1>3 DEF PostGrade, SkipGrade, FetchForGrade, DryRunGrade, SameGrade,
              DisabledGrade, DecideEdit, EditGrade, EditAnswered, EditFails
<1>4. ASSUME NEW r \in Runs, TaskRaises(r) \/ Crash(r) PROVE Spent(c) \subseteq Spent(c)'
  BY <1>4 DEF TaskRaises, Crash
<1>5. ASSUME NEW g \in Grades, TeacherGrades(g) PROVE Spent(c) \subseteq Spent(c)'
  BY <1>5 DEF TeacherGrades
<1>6. CASE Joins
  BY <1>6 DEF Joins
<1> QED
  BY <1>1, <1>2, <1>3, <1>4, <1>5, <1>6 DEF Step, Upload

\* Runs do not come to work at the same time unnoticed.
LEMMA StepTogether ==
  ASSUME TypeOK, Step, Copying
  PROVE  \A r, q \in Runs :
           r # q /\ pc'[r] \in Active /\ pc'[q] \in Active => r \in overlapped'
<1> USE DEF TypeOK, Copying, At, GoTo, Feedback, Grade, input
<1>1. ASSUME NEW r \in Runs, NEW in \in AnyInput, Begin(r, in),
             NEW a \in Runs, NEW b \in Runs, a # b, pc'[a] \in Active, pc'[b] \in Active
      PROVE  a \in overlapped'
  BY <1>1 DEF Begin, Alongside
<1>2. ASSUME overlapped \subseteq overlapped',
             \A r \in Runs : pc'[r] \in Active => pc[r] \in Active
      PROVE  \A r, q \in Runs :
               r # q /\ pc'[r] \in Active /\ pc'[q] \in Active => r \in overlapped'
  BY <1>2
<1>3. ASSUME NEW r \in Runs, UploadFeedback(r) PROVE \A q \in Runs : pc'[q] \in Active => pc[q] \in Active
  BY <1>3 DEF UploadFeedback, SkipFeedback, FetchForFeedback, DryRunFeedback,
              DisabledFeedback, SkipCheck, ReloadComments, FindDuplicate,
              FindNoDuplicate, CheckFails, UploadComment, UploadAnswered, UploadRefused, UploadFails,
              Active, FeedbackPoints, GradePoints
<1>4. ASSUME NEW r \in Runs, PostGrade(r) PROVE \A q \in Runs : pc'[q] \in Active => pc[q] \in Active
  BY <1>4 DEF PostGrade, SkipGrade, FetchForGrade, DryRunGrade, SameGrade,
              DisabledGrade, DecideEdit, EditGrade, EditAnswered, EditFails,
              Active, FeedbackPoints, GradePoints
<1>5. ASSUME NEW r \in Runs, TaskRaises(r) \/ Crash(r)
      PROVE  \A q \in Runs : pc'[q] \in Active => pc[q] \in Active
  BY <1>5 DEF TaskRaises, Crash, Active, FeedbackPoints, GradePoints, Ended
<1>6. CASE \E g \in Grades : TeacherGrades(g)
  BY <1>2, <1>6 DEF TeacherGrades
<1>7. CASE Joins
  BY <1>2, <1>7 DEF Joins
<1>8. ASSUME NEW r \in Runs, Upload(r) PROVE overlapped' = overlapped
  BY <1>8 DEF Upload, UploadFeedback, SkipFeedback, FetchForFeedback, DryRunFeedback,
     DisabledFeedback, SkipCheck, ReloadComments, FindDuplicate, FindNoDuplicate,
     CheckFails, UploadComment, UploadAnswered, UploadRefused, UploadFails,
     PostGrade, SkipGrade, FetchForGrade, DryRunGrade, SameGrade, DisabledGrade,
     DecideEdit, EditGrade, EditAnswered, EditFails, TaskRaises, Crash
<1>9. ASSUME NEW r \in Runs, Upload(r)
      PROVE  \A q \in Runs : pc'[q] \in Active => pc[q] \in Active
  BY <1>3, <1>4, <1>5, <1>9 DEF Upload
<1> QED
  BY <1>1, <1>2, <1>6, <1>7, <1>8, <1>9 DEF Step

\* A run that checks alone uploads nothing that is there already, and any other
\* copy is charged.
LEMMA StepCopying ==
  ASSUME TypeOK, Delivering, Copying, Step
  PROVE  Copying'
<1> DEFINE Knows(r) == ~Excused(r) =>
             /\ At(r, "compare") => \A c \in Contents : comments[c] > 0 => c \in seen[r]
             /\ At(r, "upload") => comments[zip[r]] = 0
           Charged(c) == comments[c] <= 1 + Cardinality(Spent(c))
<1> USE DEF TypeOK, At, GoTo, Feedback, Grade, canvas, input
<1>0. \A c \in Contents :
        /\ IsFiniteSet(Spent(c)) /\ Cardinality(Spent(c)) \in Nat
        /\ IsFiniteSet(Spent(c)') /\ Cardinality(Spent(c)') \in Nat
        /\ Cardinality(Spent(c)) <= Cardinality(Spent(c)')
  <2>1. ASSUME NEW c \in Contents
        PROVE  IsFiniteSet(Spent(c)') /\ Cardinality(Spent(c)') \in Nat
    BY Spent(c)' \subseteq Runs, RunsAssumption, FS_Subset, FS_CardinalityType DEF Spent
  <2> QED
    BY <2>1, SpentIsFinite, SpentGrows, FS_Subset
<1>1. CASE comments' = comments
  <2>1. \A c \in Contents : Charged(c)'
    BY <1>0, <1>1 DEF Copying
  <2>2. ASSUME NEW r \in Runs PROVE Knows(r)'
    <3> USE <1>1 DEF Excused
    <3>1. ASSUME NEW q \in Runs, NEW in \in AnyInput, Begin(q, in) PROVE Knows(r)'
      BY <3>1 DEF Begin, Alongside, Copying
    <3>2. ASSUME NEW q \in Runs, ReloadComments(q) PROVE Knows(r)'
      BY <3>2 DEF ReloadComments, Copying
    <3>3. ASSUME NEW q \in Runs, FindNoDuplicate(q) PROVE Knows(r)'
      BY <3>3 DEF FindNoDuplicate, Copying, Delivering, FeedbackPoints
    <3>4. ASSUME NEW q \in Runs,
                 UploadFeedback(q), ~ReloadComments(q), ~FindNoDuplicate(q), ~SkipCheck(q)
          PROVE  Knows(r)'
      BY <3>4 DEF UploadFeedback, SkipFeedback, FetchForFeedback, DryRunFeedback,
         DisabledFeedback, FindDuplicate, CheckFails, UploadComment, UploadAnswered,
         UploadRefused, UploadFails, Copying
    <3>5. ASSUME NEW q \in Runs, SkipCheck(q) PROVE Knows(r)'
      BY <3>5 DEF SkipCheck, Copying
    <3>6. ASSUME NEW q \in Runs, PostGrade(q) PROVE Knows(r)'
      BY <3>6 DEF PostGrade, SkipGrade, FetchForGrade, DryRunGrade, SameGrade,
         DisabledGrade, DecideEdit, EditGrade, EditAnswered, EditFails, Copying
    <3>7. ASSUME NEW q \in Runs, TaskRaises(q) \/ Crash(q) PROVE Knows(r)'
      BY <3>7 DEF TaskRaises, Crash, Copying
    <3>8. ASSUME NEW g \in Grades, TeacherGrades(g) PROVE Knows(r)'
      BY <3>8 DEF TeacherGrades, Copying
    <3>9. CASE Joins
      BY <3>9 DEF Joins, Copying
    <3> QED
      BY <3>1, <3>2, <3>3, <3>4, <3>5, <3>6, <3>7, <3>8, <3>9 DEF Step, Upload
  <2> QED
    BY <2>1, <2>2, StepTogether DEF Copying
<1>2. ASSUME NEW r \in Runs, UploadComment(r) PROVE Copying'
  <2>1. /\ comments' = [comments EXCEPT ![zip[r]] = comments[zip[r]] + 1]
        /\ pc' = [pc EXCEPT ![r] = "uploaded"]
        /\ At(r, "upload") /\ zip[r] \in Contents
        /\ UNCHANGED <<seen, zip, cfg, overlapped>>
    BY <1>2 DEF UploadComment, Delivering, FeedbackPoints
  <2>2. ASSUME NEW q \in Runs, ~Excused(q)' PROVE ~At(q, "compare")' /\ ~At(q, "upload")'
    <3>1. CASE q = r
      BY <2>1, <3>1
    <3>2. CASE q # r
      <4>1. ~Excused(q) /\ pc'[q] = pc[q]
        BY <2>1, <2>2, <3>2 DEF Excused
      <4>2. pc[q] \notin Active
        BY <2>1, <3>2, <4>1 DEF Copying, Excused, Active, FeedbackPoints
      <4> QED
        BY <4>1, <4>2 DEF Active, FeedbackPoints
    <3> QED
      BY <3>1, <3>2
  <2>3. ASSUME NEW c \in Contents PROVE Charged(c)'
    <3>1. CASE c # zip[r]
      BY <1>0, <2>1, <3>1 DEF Copying
    <3>2. CASE c = zip[r] /\ ~Excused(r)
      BY <1>0, <2>1, <3>2 DEF Copying
    <3>3. CASE c = zip[r] /\ Excused(r)
      <4>1. r \notin Spent(c) /\ r \in Spent(c)'
        BY <2>1, <3>3 DEF Spent, Excused, GradePoints, Ended
      <4>2. Spent(c) \cup {r} \subseteq Spent(c)'
        BY <4>1, SpentGrows
      <4>3. Cardinality(Spent(c) \cup {r}) = Cardinality(Spent(c)) + 1
        BY <1>0, <4>1, FS_AddElement
      <4>4. Cardinality(Spent(c)) + 1 <= Cardinality(Spent(c)')
        BY <1>0, <4>2, <4>3, FS_Subset
      <4>5. comments'[c] = comments[c] + 1 /\ comments[c] \in Nat
        BY <2>1, <3>3
      <4>6. comments[c] <= 1 + Cardinality(Spent(c))
        BY DEF Copying
      <4> QED
        BY <1>0, <4>4, <4>5, <4>6
    <3> QED
      BY <3>1, <3>2, <3>3
  <2> QED
    BY <2>2, <2>3, StepTogether DEF Copying
<1>3. ASSUME NEW r \in Runs, Upload(r), ~UploadComment(r) PROVE comments' = comments
  BY <1>3 DEF Upload, UploadFeedback, SkipFeedback, FetchForFeedback, DryRunFeedback,
     DisabledFeedback, SkipCheck, ReloadComments, FindDuplicate, FindNoDuplicate,
     CheckFails, UploadAnswered, UploadRefused, UploadFails,
     PostGrade, SkipGrade, FetchForGrade, DryRunGrade, SameGrade, DisabledGrade,
     DecideEdit, EditGrade, EditAnswered, EditFails, TaskRaises, Crash
<1> QED
  BY <1>1, <1>2, <1>3 DEF Step, Begin, TeacherGrades, Joins

LEMMA StepInv == IInv /\ Step => IInv'
  BY StepType, StepDelivery, StepGrading, StepPermitted, StepCopying DEF IInv

LEMMA Invariance == Spec => []IInv
<1>1. IInv => TypeOK
  BY DEF IInv
<1> QED
  BY InitInv, StepInv, NextIsStep, <1>1, PTL DEF Spec

\* No run says "posted" or "already there" of a feedback file that Canvas does not
\* have, unless Canvas itself did not take the run's file and raised no error.
THEOREM FeedbackReportsTrue == Spec => []FeedbackDelivered
<1>1. IInv => FeedbackDelivered
  BY DEF IInv
<1> QED
  BY <1>1, Invariance, PTL

\* No run ever says "posted" or "already set" of a grade Canvas has not shown
\* since the run looked.
THEOREM GradeReportsTrue == Spec => []GradeReportHonest
<1>1. IInv => GradeReportHonest
  BY DEF IInv
<1> QED
  BY <1>1, Invariance, PTL

\* A dry run and a disabled upload write nothing to Canvas, at any point.
THEOREM OnlyAllowedWrites == Spec => WritesAllowed
<1>1. ASSUME IInv, [Next]_vars PROVE [AllowedWrite]_vars
  <2> SUFFICES ASSUME Next PROVE AllowedWrite
    BY <1>1
  <2> USE DEF AllowedWrite, At, GoTo, Feedback, Grade, canvas, input
  <2>0. TypeOK /\ Permitted
    BY <1>1 DEF IInv
  <2>1. ASSUME NEW r \in Runs, NEW in \in Inputs, Begin(r, in) PROVE AllowedWrite
    BY <2>1 DEF Begin
  <2>2. ASSUME NEW r \in Runs, UploadFeedback(r) PROVE AllowedWrite
    <3>1. CASE UploadComment(r)
      BY <2>0, <3>1 DEF UploadComment, TypeOK, Permitted
    <3> QED
      BY <2>2, <3>1 DEF UploadFeedback, SkipFeedback, FetchForFeedback,
           DryRunFeedback, DisabledFeedback, SkipCheck, ReloadComments,
           FindDuplicate, FindNoDuplicate, CheckFails, UploadAnswered, UploadRefused, UploadFails
  <2>3. ASSUME NEW r \in Runs, PostGrade(r) PROVE AllowedWrite
    <3>1. CASE EditGrade(r)
      BY <2>0, <3>1 DEF EditGrade, Show, TypeOK, Permitted
    <3> QED
      BY <2>3, <3>1 DEF PostGrade, SkipGrade, FetchForGrade, DryRunGrade,
           SameGrade, DisabledGrade, DecideEdit, EditAnswered, EditFails
  <2>4. ASSUME NEW r \in Runs, TaskRaises(r) \/ Crash(r) PROVE AllowedWrite
    BY <2>4 DEF TaskRaises, Crash
  <2>5. ASSUME NEW g \in Grades, TeacherGrades(g) PROVE AllowedWrite
    BY <2>5 DEF TeacherGrades, Show
  <2> QED
    BY <2>1, <2>2, <2>3, <2>4, <2>5 DEF Next, Upload
<1> QED
  BY <1>1, Invariance, PTL DEF Spec, WritesAllowed

LEMMA CopiesBound == TypeOK /\ Copying => AtMostOneCopy
<1>1. ASSUME TypeOK, Copying PROVE AtMostOneCopy
  <2> SUFFICES ASSUME NEW c \in Contents
               PROVE  comments[c] <= 1 + Cardinality({r \in Runs : zip[r] = c /\ Excused(r)})
    BY DEF AtMostOneCopy
  <2> DEFINE All == {r \in Runs : zip[r] = c /\ Excused(r)}
  <2>1. Spent(c) \subseteq All /\ All \subseteq Runs
    BY DEF Spent
  <2>2. IsFiniteSet(All) /\ Cardinality(All) \in Nat
    BY <2>1, RunsAssumption, FS_Subset, FS_CardinalityType
  <2>3. Cardinality(Spent(c)) <= Cardinality(All)
    BY <2>1, <2>2, FS_Subset
  <2>4. comments[c] \in Nat /\ comments[c] <= 1 + Cardinality(Spent(c))
    BY <1>1 DEF TypeOK, Copying
  <2> HIDE DEF All
  <2>5. comments[c] <= 1 + Cardinality(All)
    BY <2>2, <2>3, <2>4, SpentIsFinite
  <2> QED
    BY <2>5 DEF All
<1> QED
  BY <1>1

\* However many runs there are, a file has one copy and at most one more for
\* each run that did not check or overlapped another.
THEOREM CopiesAreExcused == Spec => []AtMostOneCopy
<1>1. IInv => AtMostOneCopy
  BY CopiesBound DEF IInv
<1> QED
  BY <1>1, Invariance, PTL
=============================================================================
