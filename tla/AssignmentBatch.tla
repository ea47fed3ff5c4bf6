--------------------------- MODULE AssignmentBatch ---------------------------
(***************************************************************************)
(* `ccc course run` on one assignment: a batch runs correct_submission_flow*)
(* on every submission in turn, with one download directory for all of     *)
(* them; a single run has one submission.  Several such processes may run  *)
(* on one machine, and their directories are the operator's choice.        *)
(*                                                                         *)
(* Of a flow run this keeps the way of the files: downloaded one by one    *)
(* into the directory under a name Canvas has for them, then copied one by *)
(* one into a workspace of the flow run's own, which may be the first in   *)
(* its assignment's directory, and where the grader adds its results and   *)
(* the collector looks for them.  What a file contains is which attachment *)
(* it is, or which submission the grader made it for.                      *)
(*                                                                         *)
(* A batch never holds the list of submissions: it grades one page of it   *)
(* and only then asks Canvas for the next, while users come and go.        *)
(***************************************************************************)
EXTENDS ResultCollector, CanvasRecords

CONSTANTS
  Processes,     \* `ccc course run` processes
  Attachments,   \* files students have handed in
  Attached,      \* submission -> its attachments
  Labels,        \* attachment -> the names Canvas has for it, best first, or None
  FallbackName,  \* attachment -> "attachment-" and its ID
  Names,         \* all file names
  UserDirs,      \* directories an operator may pass as --download-dir
  Shared,        \* may two running processes be given the same one
  None           \* no submission, no file, no name

\* The submissions there may be of the assignment.
Submissions == {SubOf[u] : u \in Users}

ASSUME AttachedAssumption ==
  /\ Attached \in [Submissions -> SUBSET Attachments]
  /\ Labels \in [Attachments -> Seq(Names \cup {None})]
  /\ FallbackName \in [Attachments -> Names]
  /\ PointsSuffixed \cup OtherText \cup {PointsFile} \subseteq Names
ASSUME NoneAssumption == None \notin Submissions /\ None \notin Attachments /\ None \notin Names
ASSUME ContentAssumption == Submissions \cap Attachments = {}
ASSUME SharedAssumption == Shared \in BOOLEAN
ASSUME DirsAssumption == UserDirs \cap Processes = {}

VARIABLES
  tree,      \* how many of the directories above a workspace exist, from the top
  disk,      \* directory -> name -> which attachment is there
  dir,       \* process -> its download directory
  single,    \* process -> was it given a submission
  pc,        \* process -> where it is
  next,      \* process -> place in the list at which its next page begins
  more,      \* process -> whether there is one
  stayed,    \* history: process -> users there since before its first page
  due,       \* history: process -> those before whom in the list nobody has left
  todo,      \* process -> submissions of the page in hand it has still to take up
  cur,       \* process -> submission being corrected
  left,      \* process -> attachments still to download, or to copy
  depth,     \* process -> how many of those directories it knows to exist
  ws,        \* process -> name -> what is in the workspace: an attachment, or the
             \* submission for which the grader wrote it
  points,    \* process -> content of the points file that was collected
  comments,  \* process -> content of the comments file that was, or None
  graded,    \* process -> submissions whose flow run came to its end
  failed     \* process -> failed_submission_ids

setting == <<dir, single>>
listing == <<assigned, next, more, stayed, due>>
results == <<points, comments>>
report == <<graded, failed>>
run == <<cur, left, depth, ws, results>>
vars == <<tree, disk, setting, listing, pc, todo, run, report>>

\* The temporary directory of a process is named after it here.
Dirs == UserDirs \cup Processes
Running == {"next", "download", "ensure", "mkdir", "copy", "grade", "collect", "upload"}
\* Exit status 0, exit status 1 with the list of failures, any other end.
Ended == {"completed", "failures", "aborted"}
Contents == Attachments \cup Submissions
\* workspace.root and the directory of the assignment in it.
SharedDirs == 2
NoFiles == [n \in Names |-> None]

TypeOK ==
  /\ tree \in 0..SharedDirs
  /\ disk \in [Dirs -> [Names -> Attachments \cup {None}]]
  /\ dir \in [Processes -> Dirs] /\ single \in [Processes -> BOOLEAN]
  /\ pc \in [Processes -> {"idle"} \cup Running \cup Ended]
  /\ assigned \subseteq Users
  /\ next \in [Processes -> Nat] /\ more \in [Processes -> BOOLEAN]
  /\ stayed \in [Processes -> SUBSET Users] /\ due \in [Processes -> SUBSET Users]
  /\ todo \in [Processes -> SUBSET Submissions]
  /\ cur \in [Processes -> Submissions \cup {None}]
  /\ left \in [Processes -> SUBSET Attachments]
  /\ depth \in [Processes -> 0..SharedDirs]
  /\ ws \in [Processes -> [Names -> Contents \cup {None}]]
  /\ points \in [Processes -> Contents \cup {None}]
  /\ comments \in [Processes -> Contents \cup {None}]
  /\ graded \in [Processes -> SUBSET Submissions]
  /\ failed \in [Processes -> SUBSET Submissions]

Init ==
  /\ tree = 0
  /\ disk = [d \in Dirs |-> NoFiles]
  /\ dir = [p \in Processes |-> p] /\ single = [p \in Processes |-> FALSE]
  /\ pc = [p \in Processes |-> "idle"]
  /\ assigned \in SUBSET Users
  /\ next = [p \in Processes |-> 0] /\ more = [p \in Processes |-> FALSE]
  /\ stayed = [p \in Processes |-> {}] /\ due = [p \in Processes |-> {}]
  /\ todo = [p \in Processes |-> {}]
  /\ cur = [p \in Processes |-> None]
  /\ left = [p \in Processes |-> {}]
  /\ depth = [p \in Processes |-> 0]
  /\ ws = [p \in Processes |-> NoFiles]
  /\ points = [p \in Processes |-> None] /\ comments = [p \in Processes |-> None]
  /\ graded = [p \in Processes |-> {}] /\ failed = [p \in Processes |-> {}]

At(p, point) == pc[p] = point
GoTo(p, point) == pc' = [pc EXCEPT ![p] = point]

\* Is d free for p: another process uses it only where that is allowed.
MayUse(p, d) ==
  Shared \/ \A q \in Processes \ {p} : pc[q] \in Running => dir[q] # d

Start(p) ==
  /\ At(p, "idle")
  /\ \E d \in UserDirs \cup {p} :
       MayUse(p, d) /\ dir' = [dir EXCEPT ![p] = d]
  /\ \/ /\ single' = [single EXCEPT ![p] = FALSE]
        /\ more' = [more EXCEPT ![p] = TRUE]
        /\ UNCHANGED todo
     \/ /\ single' = [single EXCEPT ![p] = TRUE]
        /\ \E s \in Submissions : todo' = [todo EXCEPT ![p] = {s}]
        /\ UNCHANGED more
  /\ stayed' = [stayed EXCEPT ![p] = assigned]
  /\ due' = [due EXCEPT ![p] = assigned]
  /\ GoTo(p, "next")
  /\ UNCHANGED <<tree, disk, assigned, next, run, report>>

\* The loop over the PaginatedList fetches a page when it has used up the last.
FetchPage(p) ==
  /\ At(p, "next") /\ todo[p] = {} /\ more[p]
  /\ todo' = [todo EXCEPT ![p] = {SubOf[u] : u \in Page(next[p])}]
  /\ more' = [more EXCEPT ![p] = HasNext(next[p])]
  /\ next' = [next EXCEPT ![p] = @ + PerPage]
  /\ UNCHANGED <<tree, disk, setting, assigned, stayed, due, pc, run, report>>

\* Mutant: the workspace of a flow run is not its own.
NewWorkspace_Reused(p) == UNCHANGED ws

\* Its directory is named by a run_id of its own, and does not exist yet.
NewWorkspace(p) == ws' = [ws EXCEPT ![p] = NoFiles]

\* The next submission on the page: a new flow run, also of one that had a run
\* before, if the list was longer by then.
NextSubmission(p, s) ==
  /\ At(p, "next") /\ s \in todo[p]
  /\ todo' = [todo EXCEPT ![p] = @ \ {s}]
  /\ cur' = [cur EXCEPT ![p] = s]
  /\ left' = [left EXCEPT ![p] = Attached[s]]
  /\ NewWorkspace(p)
  /\ GoTo(p, "download")
  /\ UNCHANGED <<tree, disk, setting, listing, depth, results, report>>

\* _resolve_attachment_name: the first name there is.
NameOf(a) ==
  LET given == SelectSeq(Labels[a], LAMBDA n : n # None)
  IN  IF given = <<>> THEN FallbackName[a] ELSE Head(given)

DownloadFile(p, a) ==
  /\ At(p, "download") /\ a \in left[p]
  /\ disk' = [disk EXCEPT ![dir[p]][NameOf(a)] = a]
  /\ left' = [left EXCEPT ![p] = @ \ {a}]
  /\ UNCHANGED <<tree, setting, listing, pc, todo, cur, depth, ws, results, report>>

\* Mutant: the whole download directory is handed to prepare_workspace.
Downloaded_Directory(p) ==
  /\ At(p, "download") /\ left[p] = {}
  /\ left' = [left EXCEPT ![p] = {a \in Attachments : disk[dir[p]][NameOf(a)] # None}]
  /\ GoTo(p, "ensure")
  /\ UNCHANGED <<tree, disk, setting, listing, todo, cur, depth, ws, results, report>>

\* downloaded_files: the paths this flow run wrote, no others.
Downloaded(p) ==
  /\ At(p, "download") /\ left[p] = {}
  /\ left' = [left EXCEPT ![p] = Attached[cur[p]]]
  /\ GoTo(p, "ensure")
  /\ UNCHANGED <<tree, disk, setting, listing, todo, cur, depth, ws, results, report>>

\* _ensure_safe_directory: which directories above the workspace are missing.
\* (A symlink or a world-writable directory among them is SubmissionFails.)
EnsureSafeDirectory(p) ==
  /\ At(p, "ensure")
  /\ depth' = [depth EXCEPT ![p] = tree]
  /\ GoTo(p, "mkdir")
  /\ UNCHANGED <<tree, disk, setting, listing, todo, cur, left, ws, results, report>>

\* The next one missing is made.  If it is there by now, mkdir raises
\* FileExistsError, an OSError: SubmissionFails or Abort, and nothing else.
MakeDirectory(p) ==
  /\ At(p, "mkdir") /\ depth[p] < SharedDirs /\ tree = depth[p]
  /\ tree' = tree + 1
  /\ depth' = [depth EXCEPT ![p] = tree']
  /\ UNCHANGED <<disk, setting, listing, pc, todo, cur, left, ws, results, report>>

MakeWorkspace(p) ==
  /\ At(p, "mkdir") /\ depth[p] = SharedDirs
  /\ depth' = [depth EXCEPT ![p] = 0]
  /\ GoTo(p, "copy")
  /\ UNCHANGED <<tree, disk, setting, listing, todo, cur, left, ws, results, report>>

CopyFile(p, a) ==
  /\ At(p, "copy") /\ a \in left[p]
  /\ ws' = [ws EXCEPT ![p][NameOf(a)] = disk[dir[p]][NameOf(a)]]
  /\ left' = [left EXCEPT ![p] = @ \ {a}]
  /\ UNCHANGED <<tree, disk, setting, listing, pc, todo, cur, depth, results, report>>

Prepared(p) ==
  /\ At(p, "copy") /\ left[p] = {}
  /\ GoTo(p, "grade")
  /\ UNCHANGED <<tree, disk, setting, listing, todo, run, report>>

\* The grader writes its results under the names of the contract, over files
\* of the student's if need be; one that fails may write only some, or none.
Grade(p) ==
  /\ At(p, "grade")
  /\ \E written \in SUBSET ({PointsFile, CommentsFile} \cup PointsSuffixed) :
       ws' = [ws EXCEPT ![p] = [n \in Names |-> IF n \in written THEN cur[p] ELSE @[n]]]
  /\ GoTo(p, "collect")
  /\ UNCHANGED <<tree, disk, setting, listing, todo, cur, left, depth, results, report>>

\* collect_results; of several matches the directory's order decides.  Without
\* a points file it raises, which is SubmissionFails or Abort.
Collect(p) ==
  LET present == {n \in Names : ws[p][n] # None}
  IN  /\ At(p, "collect")
      /\ \E n \in PointsFiles(present) : points' = [points EXCEPT ![p] = ws[p][n]]
      /\ IF CommentsFiles(present) = {} THEN UNCHANGED comments
         ELSE \E n \in CommentsFiles(present) : comments' = [comments EXCEPT ![p] = ws[p][n]]
      /\ GoTo(p, "upload")
      /\ UNCHANGED <<tree, disk, setting, listing, todo, cur, left, depth, ws, report>>

\* What a flow run knows and has collected goes with it.
Forget(p) ==
  /\ depth' = [depth EXCEPT ![p] = 0]
  /\ points' = [points EXCEPT ![p] = None]
  /\ comments' = [comments EXCEPT ![p] = None]

\* Both uploads; the flow run comes back.
Upload(p) ==
  /\ At(p, "upload")
  /\ graded' = [graded EXCEPT ![p] = @ \cup {cur[p]}]
  /\ Forget(p)
  /\ GoTo(p, "next")
  /\ UNCHANGED <<tree, disk, setting, listing, todo, cur, left, ws, failed>>

\* Mutant: the first submission that fails ends the loop.
SubmissionFails_EndsLoop(p) ==
  /\ pc[p] \in Running \ {"next"} /\ ~single[p]
  /\ failed' = [failed EXCEPT ![p] = @ \cup {cur[p]}]
  /\ todo' = [todo EXCEPT ![p] = {}] /\ more' = [more EXCEPT ![p] = FALSE]
  /\ left' = [left EXCEPT ![p] = {}] /\ Forget(p)
  /\ GoTo(p, "next")
  /\ UNCHANGED <<tree, disk, setting, assigned, next, stayed, due, cur, ws, graded>>

\* Mutant: the loop variable is cleared before the failure is recorded.
SubmissionFails_Cleared(p) ==
  /\ pc[p] \in Running \ {"next"} /\ ~single[p]
  /\ cur' = [cur EXCEPT ![p] = None]
  /\ failed' = [failed EXCEPT ![p] = @ \cup {cur'[p]}]
  /\ left' = [left EXCEPT ![p] = {}] /\ Forget(p)
  /\ GoTo(p, "next")
  /\ UNCHANGED <<tree, disk, setting, listing, todo, ws, graded>>

\* A step of the flow run raises one of BATCH_SUBMISSION_EXCEPTIONS.
SubmissionFails(p) ==
  /\ pc[p] \in Running \ {"next"} /\ ~single[p]
  /\ failed' = [failed EXCEPT ![p] = @ \cup {cur[p]}]
  /\ left' = [left EXCEPT ![p] = {}] /\ Forget(p)
  /\ GoTo(p, "next")
  /\ UNCHANGED <<tree, disk, setting, listing, todo, cur, ws, graded>>

\* Anything else is raised (a CanvasException is no RuntimeError), also while
\* the next page of submissions is fetched, or any exception in a single run.
\* A submission that is gone when its flow run asks for it is one reason.
Abort(p) ==
  /\ pc[p] \in Running
  /\ left' = [left EXCEPT ![p] = {}] /\ Forget(p)
  /\ GoTo(p, "aborted")
  /\ UNCHANGED <<tree, disk, setting, listing, todo, cur, ws, report>>

End(p) ==
  /\ At(p, "next") /\ todo[p] = {} /\ ~more[p]
  /\ GoTo(p, IF failed[p] = {} THEN "completed" ELSE "failures")
  /\ UNCHANGED <<tree, disk, setting, listing, todo, run, report>>

Correct(p) ==
  \/ FetchPage(p) \/ \E s \in Submissions : NextSubmission(p, s)
  \/ \E a \in Attachments : DownloadFile(p, a) \/ CopyFile(p, a)
  \/ Downloaded(p) \/ EnsureSafeDirectory(p) \/ MakeDirectory(p) \/ MakeWorkspace(p)
  \/ Prepared(p) \/ Grade(p) \/ Collect(p) \/ Upload(p)

\* Canvas's side: users come and go while a batch is at work.
Reassign ==
  \E u \in Users :
    /\ \/ Enrol(u) /\ UNCHANGED <<stayed, due>>
       \/ /\ Leave(u)
          /\ stayed' = [p \in Processes |-> stayed[p] \ {u}]
          /\ due' = [p \in Processes |-> {v \in due[p] : Order[v] < Order[u]}]
    /\ UNCHANGED <<tree, disk, setting, next, more, pc, todo, run, report>>

Next ==
  \/ \E p \in Processes : Start(p) \/ Correct(p) \/ SubmissionFails(p) \/ Abort(p) \/ End(p)
  \/ Reassign

Spec == Init /\ [][Next]_vars

------------------------------------------------------------------------------
(* Properties *)

NamesIn(s) == {NameOf(a) : a \in Attached[s]}
Own(s, n) == {a \in Attached[s] : NameOf(a) = n}

\* "run-specific download directory", "isolated directories": a grader is run
\* on a file of its submission under every name of one, and on nobody else's,
\* although the flow runs of a batch share a download directory that still
\* holds the files of the submissions before, the failed ones included.  (Two
\* attachments of one name are one file.)
GradedOnOwnFiles ==
  \A p \in Processes, n \in Names :
    At(p, "grade") =>
      IF n \in NamesIn(cur[p])
      THEN ws[p][n] \in Own(cur[p], n)
      ELSE ws[p][n] = None

\* "the contract the grader and the uploader agree on": the points and comments
\* a flow run uploads are what the grader wrote in that very run, never a left-
\* over of another; unless the student has handed in a file that the collector
\* takes for one.  (The comments file may be missing, the points file not.)
ResultsAreTheGraders ==
  \A p \in Processes :
    At(p, "upload") =>
      /\ NamesIn(cur[p]) \cap ({PointsFile} \cup PointsSuffixed) = {} => points[p] = cur[p]
      /\ NamesIn(cur[p]) \cap OtherText = {} => comments[p] \in {cur[p], None}

\* "Ensure directory exists": a flow run that finds directories above its
\* workspace missing is not refused it because another one has made them since.
NotRefusedForExisting ==
  \A p \in Processes : At(p, "mkdir") => tree = depth[p] \/ depth[p] = SharedDirs

Of(users) == {SubOf[u] : u \in users}

\* What a process says when it ends covers the submissions it was run for: exit
\* status 0 means each was graded, the list of failures has each that was not,
\* and only an abort leaves some out.  For a batch, which reads the list page by
\* page while it grades, these are the submissions that were there all along and
\* before which in the list nobody has left; users who join take none away.
ReportComplete ==
  \A p \in Processes :
    /\ At(p, "completed") /\ ~single[p] => Of(due[p]) \subseteq graded[p]
    /\ At(p, "completed") /\ single[p] => Cardinality(graded[p]) = 1
    /\ At(p, "failures") => failed[p] # {} /\ Of(due[p]) \subseteq graded[p] \cup failed[p]

\* "Batch mode: processing all submissions", "Batch processing completed!": a
\* batch that ends with exit status 0 has graded each submission that was there
\* all along, whoever came or went meanwhile.
AllProcessed ==
  \A p \in Processes :
    At(p, "completed") /\ ~single[p] => Of(stayed[p]) \subseteq graded[p]

\* Why: a flow run has a submission and moves the files of that submission only;
InHand ==
  \A p \in Processes :
    /\ pc[p] \in Running \ {"next"} => cur[p] \in Submissions
    /\ pc[p] \in {"download", "copy"} => left[p] \subseteq Attached[cur[p]]
    /\ pc[p] \in {"ensure", "mkdir"} => left[p] = Attached[cur[p]]

\* running processes do not share a directory, so what a flow run has written
\* under a name stays there until it copies it, whatever else is there;
Separate ==
  \A p, q \in Processes :
    p # q /\ {pc[p], pc[q]} \subseteq Running => dir[p] # dir[q]

Moved(p) == Attached[cur[p]] \ left[p]

Placed(p) ==
  \A n \in Names :
    /\ At(p, "download") /\ (\E a \in Moved(p) : NameOf(a) = n)
         => disk[dir[p]][n] \in Own(cur[p], n)
    /\ pc[p] \in {"ensure", "mkdir", "copy"} /\ n \in NamesIn(cur[p])
         => disk[dir[p]][n] \in Own(cur[p], n)
    /\ At(p, "copy") /\ (\E a \in Moved(p) : NameOf(a) = n)
         => ws[p][n] \in Own(cur[p], n)

FilesInPlace == \A p \in Processes : Placed(p)

\* a workspace has nothing under a name that is not the submission's until the
\* grader writes it, and nothing has been collected before;
NothingElse ==
  \A p \in Processes :
    /\ pc[p] \in {"download", "ensure", "mkdir", "copy", "grade"} =>
         \A n \in Names \ NamesIn(cur[p]) : ws[p][n] = None
    /\ At(p, "collect") => \A n \in Names \ NamesIn(cur[p]) : ws[p][n] \in {cur[p], None}
    /\ ~At(p, "upload") => comments[p] = None

\* and every submission that is due is on the page in hand, in hand itself, graded
\* or failed, or on a page to come: its place in the list can only grow.
Open(p) == IF pc[p] \in Running \ {"next"} THEN {cur[p]} ELSE {}
TakenUp(p) == todo[p] \cup Open(p) \cup graded[p] \cup failed[p]
Ahead(p, u) == SubOf[u] \in TakenUp(p) \/ (more[p] /\ Place(u) >= next[p])

Accounted ==
  \A p \in Processes :
    /\ At(p, "idle") => graded[p] = {} /\ failed[p] = {} /\ ~more[p] /\ next[p] = 0
    /\ pc[p] \in Running \cup {"completed", "failures"} =>
         IF single[p]
         THEN failed[p] = {} /\ ~more[p] /\ \E s \in Submissions : TakenUp(p) = {s}
         ELSE \A u \in due[p] : u \in assigned /\ Ahead(p, u)
    /\ pc[p] \in {"completed", "failures"} =>
         todo[p] = {} /\ ~more[p] /\ (At(p, "completed") <=> failed[p] = {})

FilesInv == TypeOK /\ InHand /\ Separate /\ FilesInPlace /\ NothingElse /\ GradedOnOwnFiles
ReportInv == TypeOK /\ InHand /\ Accounted
=============================================================================
