--------------------------- MODULE CanvasUploader ---------------------------
(***************************************************************************)
(* The last two tasks of a correction flow, upload_feedback and            *)
(* post_grade, each with its own CanvasUploader, by several flow runs on   *)
(* one Canvas submission (external), which a teacher may grade as well.    *)
(*                                                                         *)
(* Every call to Canvas is a step of its own, and a call that writes has   *)
(* two: the write, and its answer, which may be an error all the same.     *)
(***************************************************************************)
EXTENDS Naturals, FiniteSets

CONSTANTS
  Runs,       \* flow runs
  Contents,   \* feedback files, by MD5
  Grades,     \* points, as str(points) writes them
  None,       \* no file, no points, not graded
  Rendered,   \* the grades Canvas gives back in the same characters
  Inputs      \* what a flow may bring: results and upload configuration

ASSUME NoneAssumption == None \notin Contents \cup Grades
ASSUME RenderedAssumption == Rendered \subseteq Grades

\* UploadConfig without verbose, which only logs.
Configs == [check : BOOLEAN, comments : BOOLEAN, grades : BOOLEAN, dry : BOOLEAN]

ASSUME InputsAssumption ==
  Inputs \subseteq [zip : Contents \cup {None}, points : Grades \cup {None}, cfg : Configs]
ASSUME RunsAssumption == IsFiniteSet(Runs)

VARIABLES
  comments,   \* Canvas: feedback file -> comments it is attached to
  grade,      \* Canvas: submission.grade
  pc,         \* run -> where it is
  zip,        \* run -> results.feedback_zip_path
  points,     \* run -> results.points
  cfg,        \* run -> UploadConfig
  overlapped, \* history: runs that were at work while another one was
  refused,    \* history: runs whose file Canvas did not take, without an error
  seen,       \* run -> attachments of the reloaded submission
  seenGrade,  \* run -> grade of the fetched submission
  fb, gr,     \* run -> outcome of upload_feedback, of post_grade
  shown       \* history: run -> has Canvas shown its points since post_grade fetched

canvas == <<comments, grade>>
input  == <<zip, points, cfg, overlapped, refused>>
vars   == <<canvas, input, pc, seen, seenGrade, fb, gr, shown>>

Outcomes == {"none", "dry", "off", "duplicate", "posted", "failed"}
FeedbackPoints == {"fetchF", "feedback", "compare", "upload", "uploaded"}
GradePoints    == {"fetchG", "grade", "edit", "edited"}
Active == FeedbackPoints \cup GradePoints
Ended  == {"done", "raised", "crashed"}

TypeOK ==
  /\ comments \in [Contents -> Nat]
  /\ grade \in Grades \cup {None}
  /\ pc \in [Runs -> {"idle"} \cup Active \cup Ended]
  /\ zip \in [Runs -> Contents \cup {None}]
  /\ points \in [Runs -> Grades \cup {None}]
  /\ cfg \in [Runs -> Configs]
  /\ overlapped \subseteq Runs /\ refused \subseteq Runs
  /\ seen \in [Runs -> SUBSET Contents]
  /\ seenGrade \in [Runs -> Grades \cup {None}]
  /\ fb \in [Runs -> Outcomes] /\ gr \in [Runs -> Outcomes]
  /\ shown \in [Runs -> BOOLEAN]

\* UploadConfig's defaults.
DefaultConfig == [check |-> TRUE, comments |-> TRUE, grades |-> TRUE, dry |-> FALSE]

Init ==
  /\ comments = [c \in Contents |-> 0]
  /\ grade = None
  /\ pc = [r \in Runs |-> "idle"]
  /\ zip = [r \in Runs |-> None]
  /\ points = [r \in Runs |-> None]
  /\ cfg = [r \in Runs |-> DefaultConfig]
  /\ overlapped = {} /\ refused = {}
  /\ seen = [r \in Runs |-> {}]
  /\ seenGrade = [r \in Runs |-> None]
  /\ fb = [r \in Runs |-> "none"] /\ gr = [r \in Runs |-> "none"]
  /\ shown = [r \in Runs |-> FALSE]

At(r, point) == pc[r] = point
GoTo(r, point) == pc' = [pc EXCEPT ![r] = point]

\* A task ended with a result, whatever it is: its uploader is gone and the
\* flow goes on.
Feedback(r, outcome) ==
  /\ fb' = [fb EXCEPT ![r] = outcome]
  /\ seen' = [seen EXCEPT ![r] = {}]
  /\ GoTo(r, "fetchG")

Grade(r, outcome) ==
  /\ gr' = [gr EXCEPT ![r] = outcome]
  /\ seenGrade' = [seenGrade EXCEPT ![r] = None]
  /\ GoTo(r, "done")

\* A run joins others: it and they overlap.
Alongside(r, others) ==
  overlapped' = IF others = {} THEN overlapped ELSE overlapped \cup others \cup {r}

\* The flow reaches its upload tasks with these results and this configuration.
Begin(r, in) ==
  /\ At(r, "idle")
  /\ Alongside(r, {q \in Runs : pc[q] \in Active})
  /\ zip' = [zip EXCEPT ![r] = in.zip]
  /\ points' = [points EXCEPT ![r] = in.points]
  /\ cfg' = [cfg EXCEPT ![r] = in.cfg]
  /\ GoTo(r, "fetchF")
  /\ UNCHANGED <<canvas, refused, seen, seenGrade, fb, gr, shown>>

------------------------------------------------------------------------------
(* upload_feedback *)

SkipFeedback(r) ==
  /\ At(r, "fetchF") /\ zip[r] = None
  /\ Feedback(r, "failed")
  /\ UNCHANGED <<canvas, input, seenGrade, gr, shown>>

FetchForFeedback(r) ==
  /\ At(r, "fetchF") /\ zip[r] # None
  /\ GoTo(r, "feedback")
  /\ UNCHANGED <<canvas, input, seen, seenGrade, fb, gr, shown>>

DryRunFeedback(r) ==
  /\ At(r, "feedback") /\ cfg[r].dry
  /\ Feedback(r, "dry")
  /\ UNCHANGED <<canvas, input, seenGrade, gr, shown>>

DisabledFeedback(r) ==
  /\ At(r, "feedback") /\ ~cfg[r].dry /\ ~cfg[r].comments
  /\ Feedback(r, "off")
  /\ UNCHANGED <<canvas, input, seenGrade, gr, shown>>

\* Mutant: the configuration is asked about duplicates only.
SkipCheck_Always(r) ==
  /\ At(r, "feedback") /\ ~cfg[r].check
  /\ GoTo(r, "upload")
  /\ UNCHANGED <<canvas, input, seen, seenGrade, fb, gr, shown>>

SkipCheck(r) ==
  /\ At(r, "feedback") /\ ~cfg[r].dry /\ cfg[r].comments /\ ~cfg[r].check
  /\ GoTo(r, "upload")
  /\ UNCHANGED <<canvas, input, seen, seenGrade, fb, gr, shown>>

\* Mutant: a comment without a file counts as an attachment.
ReloadComments_Unfiltered(r) ==
  /\ At(r, "feedback") /\ ~cfg[r].dry /\ cfg[r].comments /\ cfg[r].check
  /\ seen' = [seen EXCEPT ![r] = {c \in Contents : comments[c] > 0} \cup {None}]
  /\ GoTo(r, "compare")
  /\ UNCHANGED <<canvas, input, seenGrade, fb, gr, shown>>

\* Mutant: the submission is fetched again without include, so it has no comments.
ReloadComments_Bare(r) ==
  /\ At(r, "feedback") /\ ~cfg[r].dry /\ cfg[r].comments /\ cfg[r].check
  /\ GoTo(r, "compare")
  /\ UNCHANGED <<canvas, input, seen, seenGrade, fb, gr, shown>>

\* _reload_submission: the attachments there are now.
ReloadComments(r) ==
  /\ At(r, "feedback") /\ ~cfg[r].dry /\ cfg[r].comments /\ cfg[r].check
  /\ \/ /\ seen' = [seen EXCEPT ![r] = {c \in Contents : comments[c] > 0}]
        /\ GoTo(r, "compare")
        /\ UNCHANGED fb
     \/ Feedback(r, "failed")
  /\ UNCHANGED <<canvas, input, seenGrade, gr, shown>>

\* Attachments are immutable, so downloading and comparing them one by one is
\* one step: one of them matches, none does, or a download failed first.
FindDuplicate(r) ==
  /\ At(r, "compare") /\ zip[r] \in seen[r]
  /\ Feedback(r, "duplicate")
  /\ UNCHANGED <<canvas, input, seenGrade, gr, shown>>

FindNoDuplicate(r) ==
  /\ At(r, "compare") /\ zip[r] \notin seen[r]
  /\ GoTo(r, "upload")
  /\ UNCHANGED <<canvas, input, seen, seenGrade, fb, gr, shown>>

CheckFails(r) ==
  /\ At(r, "compare") /\ seen[r] # {}
  /\ Feedback(r, "failed")
  /\ UNCHANGED <<canvas, input, seenGrade, gr, shown>>

UploadComment(r) ==
  /\ At(r, "upload")
  /\ comments' = [comments EXCEPT ![zip[r]] = @ + 1]
  /\ GoTo(r, "uploaded")
  /\ UNCHANGED <<grade, input, seen, seenGrade, fb, gr, shown>>

UploadAnswered(r) ==
  /\ At(r, "uploaded")
  /\ Feedback(r, "posted")
  /\ UNCHANGED <<canvas, input, seenGrade, gr, shown>>

\* upload_comment raises nothing when Canvas does not take the file: it returns
\* (False, its answer), which nobody looks at.
UploadRefused(r) ==
  /\ At(r, "upload")
  /\ refused' = refused \cup {r}
  /\ Feedback(r, "posted")
  /\ UNCHANGED <<canvas, zip, points, cfg, overlapped, seenGrade, gr, shown>>

\* Mutant: the result is built before the exception is looked at.
UploadFails_Reported(r) ==
  /\ pc[r] \in {"upload", "uploaded"}
  /\ Feedback(r, "posted")
  /\ UNCHANGED <<canvas, input, seenGrade, gr, shown>>

\* The call fails before Canvas stored the comment, or after.
UploadFails(r) ==
  /\ pc[r] \in {"upload", "uploaded"}
  /\ Feedback(r, "failed")
  /\ UNCHANGED <<canvas, input, seenGrade, gr, shown>>

------------------------------------------------------------------------------
(* post_grade *)

SkipGrade(r) ==
  /\ At(r, "fetchG") /\ points[r] = None
  /\ Grade(r, "failed")
  /\ UNCHANGED <<canvas, input, seen, fb, shown>>

FetchForGrade(r) ==
  /\ At(r, "fetchG") /\ points[r] # None
  /\ seenGrade' = [seenGrade EXCEPT ![r] = grade]
  /\ shown' = [shown EXCEPT ![r] = grade = points[r]]
  /\ GoTo(r, "grade")
  /\ UNCHANGED <<canvas, input, seen, fb, gr>>

DryRunGrade(r) ==
  /\ At(r, "grade") /\ cfg[r].dry
  /\ Grade(r, "dry")
  /\ UNCHANGED <<canvas, input, seen, fb, shown>>

\* Mutant: any grade counts as the same grade.
IsSameGrade_AnyGrade(r) == cfg[r].check /\ seenGrade[r] # None

\* str(current_grade) == str(grade), when duplicates are checked.
IsSameGrade(r) ==
  cfg[r].check /\ seenGrade[r] = points[r] /\ points[r] \in Rendered

SameGrade(r) ==
  /\ At(r, "grade") /\ ~cfg[r].dry /\ IsSameGrade(r)
  /\ Grade(r, "duplicate")
  /\ UNCHANGED <<canvas, input, seen, fb, shown>>

DisabledGrade(r) ==
  /\ At(r, "grade") /\ ~cfg[r].dry /\ ~IsSameGrade(r) /\ ~cfg[r].grades
  /\ Grade(r, "off")
  /\ UNCHANGED <<canvas, input, seen, fb, shown>>

DecideEdit(r) ==
  /\ At(r, "grade") /\ ~cfg[r].dry /\ ~IsSameGrade(r) /\ cfg[r].grades
  /\ GoTo(r, "edit")
  /\ UNCHANGED <<canvas, input, seen, seenGrade, fb, gr, shown>>

\* Canvas shows grade g from now on; whoever is between its fetch and its
\* answer has seen it shown.
Show(g) ==
  /\ grade' = g
  /\ shown' = [r \in Runs |->
                shown[r] \/ (pc[r] \in {"grade", "edit", "edited"} /\ points[r] = g)]

EditGrade(r) ==
  /\ At(r, "edit")
  /\ Show(points[r])
  /\ GoTo(r, "edited")
  /\ UNCHANGED <<comments, input, seen, seenGrade, fb, gr>>

EditAnswered(r) ==
  /\ At(r, "edited")
  /\ Grade(r, "posted")
  /\ UNCHANGED <<canvas, input, seen, fb, shown>>

EditFails(r) ==
  /\ pc[r] \in {"edit", "edited"}
  /\ Grade(r, "failed")
  /\ UNCHANGED <<canvas, input, seen, fb, shown>>

------------------------------------------------------------------------------

\* create_uploader_from_resources cannot find the submission, Canvas does not
\* answer it, or the file cannot be hashed before its upload, outside the try:
\* the task raises and the flow run fails.
TaskRaises(r) ==
  /\ \/ At(r, "fetchF") /\ zip[r] # None
     \/ At(r, "fetchG") /\ points[r] # None
     \/ At(r, "upload")
  /\ GoTo(r, "raised")
  /\ UNCHANGED <<canvas, input, seen, seenGrade, fb, gr, shown>>

\* The worker dies.
Crash(r) ==
  /\ pc[r] \in Active
  /\ GoTo(r, "crashed")
  /\ UNCHANGED <<canvas, input, seen, seenGrade, fb, gr, shown>>

\* A teacher grades the submission in Canvas.
TeacherGrades(g) ==
  /\ Show(g)
  /\ UNCHANGED <<comments, input, pc, seen, seenGrade, fb, gr>>

UploadFeedback(r) ==
  \/ SkipFeedback(r) \/ FetchForFeedback(r) \/ DryRunFeedback(r)
  \/ DisabledFeedback(r) \/ SkipCheck(r) \/ ReloadComments(r)
  \/ FindDuplicate(r) \/ FindNoDuplicate(r) \/ CheckFails(r)
  \/ UploadComment(r) \/ UploadAnswered(r) \/ UploadRefused(r) \/ UploadFails(r)

PostGrade(r) ==
  \/ SkipGrade(r) \/ FetchForGrade(r) \/ DryRunGrade(r) \/ SameGrade(r)
  \/ DisabledGrade(r) \/ DecideEdit(r)
  \/ EditGrade(r) \/ EditAnswered(r) \/ EditFails(r)

Upload(r) == UploadFeedback(r) \/ PostGrade(r) \/ TaskRaises(r) \/ Crash(r)

Next ==
  \/ \E r \in Runs, in \in Inputs : Begin(r, in)
  \/ \E r \in Runs : Upload(r)
  \/ \E g \in Grades : TeacherGrades(g)

Spec == Init /\ [][Next]_vars

------------------------------------------------------------------------------
(* Properties *)

\* A run that reports its feedback as posted or as already there is right: the
\* submission has a comment with that very file, whatever other runs, failed
\* calls and crashes did (UploadResult of upload_feedback).  The one exception is
\* a run whose own file Canvas did not take: its report is wrong, see below.
FeedbackDelivered ==
  \A r \in Runs :
    fb[r] \in {"posted", "duplicate"} /\ r \notin refused => comments[zip[r]] > 0

\* "Feedback uploaded successfully": a run that says so has attached its file.
PostedIsAttached ==
  \A r \in Runs : fb[r] = "posted" => comments[zip[r]] > 0

\* A run that was told not to check, or that overlapped another one.
Excused(r) == ~cfg[r].check \/ r \in overlapped

\* "MD5-based duplicate detection to avoid uploading the same file twice": every
\* copy of a file beyond the first is due to an excused run; with runs in turn a
\* file is attached once, even if a call reported an error after it had been
\* stored, or a run died and was repeated.
AtMostOneCopy ==
  \A c \in Contents :
    comments[c] <= 1 + Cardinality({r \in Runs : zip[r] = c /\ Excused(r)})

\* A run that reports its grade as posted or already set is right: Canvas showed
\* that grade at some moment between the run's fetch and its report, even when
\* a teacher or another run changed it meanwhile.
GradeReportHonest ==
  \A r \in Runs : gr[r] \in {"posted", "duplicate"} => shown[r]

\* Canvas changes only by the step of a run allowed to change it: a dry run
\* writes nothing, a course that disabled comments gets none, and one that
\* disabled grades keeps the teacher's.
AllowedWrite ==
  /\ comments' # comments =>
       \E r \in Runs : At(r, "upload") /\ pc'[r] = "uploaded"
                         /\ ~cfg[r].dry /\ cfg[r].comments
  /\ grade' # grade /\ pc' # pc =>
       \E r \in Runs : At(r, "edit") /\ pc'[r] = "edited"
                         /\ ~cfg[r].dry /\ cfg[r].grades

WritesAllowed == [][AllowedWrite]_vars

\* Why the first, the third and the last hold whatever the interleaving.  A run
\* keeps its results and configuration once it has begun, and has reported
\* nothing before; attachments never go away, so what was seen is still there;
\* and a run writes only after its configuration was asked.
Delivering ==
  \A r \in Runs :
    /\ pc[r] \in FeedbackPoints \cup {"idle"} => fb[r] = "none"
    /\ pc[r] \in FeedbackPoints \ {"fetchF"} => zip[r] \in Contents
    /\ \A c \in seen[r] : comments[c] > 0
    /\ At(r, "uploaded") => comments[zip[r]] > 0

Grading ==
  \A r \in Runs :
    /\ pc[r] \in FeedbackPoints \cup GradePoints \cup {"idle"} => gr[r] = "none"
    /\ pc[r] \in GradePoints \ {"fetchG"} => points[r] \in Grades
    /\ At(r, "grade") /\ seenGrade[r] = points[r] => shown[r]
    /\ At(r, "edited") => shown[r]

Permitted ==
  \A r \in Runs :
    /\ pc[r] \in {"compare", "upload"} => ~cfg[r].dry /\ cfg[r].comments
    /\ At(r, "edit") => ~cfg[r].dry /\ cfg[r].grades

\* Why the second: runs at work at the same time know it of each other, so what
\* a run that checks has seen is all there is until it uploads; and a copy is
\* charged to an excused run only once that run is past its upload.
Spent(c) ==
  {r \in Runs : zip[r] = c /\ Excused(r)
                  /\ pc[r] \in {"uploaded"} \cup GradePoints \cup Ended}

Copying ==
  /\ \A r, q \in Runs : r # q /\ {pc[r], pc[q]} \subseteq Active => r \in overlapped
  /\ \A r \in Runs : ~Excused(r) =>
       /\ At(r, "compare") => \A c \in Contents : comments[c] > 0 => c \in seen[r]
       /\ At(r, "upload") => comments[zip[r]] = 0
  /\ \A c \in Contents : comments[c] <= 1 + Cardinality(Spent(c))

IInv ==
  /\ TypeOK
  /\ Delivering /\ FeedbackDelivered
  /\ Grading /\ GradeReportHonest
  /\ Permitted
  /\ Copying
=============================================================================
