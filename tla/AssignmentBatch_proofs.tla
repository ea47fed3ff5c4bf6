----------------------- MODULE AssignmentBatch_proofs -----------------------
(***************************************************************************)
(* Proofs about AssignmentBatch, for any number of processes, submissions  *)
(* and attachments, however they are named: a grader is run on the files   *)
(* of its submission, what is uploaded is what it wrote, the report of a   *)
(* process covers its submissions, and a points file is worth the scores   *)
(* it states.                                                              *)
(***************************************************************************)
EXTENDS PointsReading, NumberFacts, FiniteSetTheorems, TLAPS

LEMMA AttachedType == \A s \in Submissions : Attached[s] \subseteq Attachments
  BY AttachedAssumption

LEMMA InitType == Init => TypeOK
  BY DEF Init, TypeOK, Dirs, Running, Ended, NoFiles, SharedDirs

LEMMA StepType == TypeOK /\ InHand /\ [Next]_vars => TypeOK'
<1> SUFFICES ASSUME TypeOK, InHand, [Next]_vars PROVE TypeOK'
  OBVIOUS
<1> USE DEF TypeOK, Running, Ended, Contents, SharedDirs, At, GoTo, setting, listing, results,
            report, run
<1>0. \A p \in Processes : pc[p] \in Running \ {"next"} => cur[p] \in Submissions
  BY DEF InHand
<1>1. ASSUME NEW p \in Processes, Start(p) PROVE TypeOK'
  <2>1. PICK d \in UserDirs \cup {p} : dir' = [dir EXCEPT ![p] = d]
    BY <1>1 DEF Start
  <2>2. dir' \in [Processes -> Dirs]
    BY <2>1 DEF Dirs
  <2>3. /\ single' \in [Processes -> BOOLEAN] /\ more' \in [Processes -> BOOLEAN]
        /\ todo' \in [Processes -> SUBSET Submissions]
    <3>1. CASE /\ single' = [single EXCEPT ![p] = FALSE]
               /\ more' = [more EXCEPT ![p] = TRUE] /\ todo' = todo
      BY <3>1
    <3>2. ASSUME NEW s \in Submissions, single' = [single EXCEPT ![p] = TRUE],
                 todo' = [todo EXCEPT ![p] = {s}], more' = more
          PROVE  /\ single' \in [Processes -> BOOLEAN] /\ more' \in [Processes -> BOOLEAN]
                 /\ todo' \in [Processes -> SUBSET Submissions]
      BY <3>2
    <3> QED
      BY <1>1, <3>1, <3>2 DEF Start
  <2>4. stayed' \in [Processes -> SUBSET Users] /\ due' \in [Processes -> SUBSET Users]
    BY <1>1 DEF Start
  <2> QED
    BY <1>1, <2>2, <2>3, <2>4 DEF Start
<1>2. ASSUME NEW p \in Processes, NEW s \in Submissions, NextSubmission(p, s) PROVE TypeOK'
  BY <1>2, AttachedType DEF NextSubmission, NewWorkspace, NoFiles
<1>3. ASSUME NEW p \in Processes, NEW a \in Attachments, DownloadFile(p, a) PROVE TypeOK'
  <2>1. disk' \in [Dirs -> [Names -> Attachments \cup {None}]]
    BY <1>3 DEF DownloadFile
  <2> QED
    BY <1>3, <2>1 DEF DownloadFile
<1>4. ASSUME NEW p \in Processes, NEW a \in Attachments, CopyFile(p, a) PROVE TypeOK'
  <2>1. ws' \in [Processes -> [Names -> Contents \cup {None}]]
    <3>1. NameOf(a) \in Names => disk[dir[p]][NameOf(a)] \in Contents \cup {None}
      <4>1. dir[p] \in Dirs
        OBVIOUS
      <4>2. disk[dir[p]] \in [Names -> Attachments \cup {None}]
        BY <4>1
      <4> QED
        BY <4>2
    <3>2. ws' = [ws EXCEPT ![p] = [ws[p] EXCEPT ![NameOf(a)] = disk[dir[p]][NameOf(a)]]]
      BY <1>4 DEF CopyFile
    <3>3. [ws[p] EXCEPT ![NameOf(a)] = disk[dir[p]][NameOf(a)]] \in [Names -> Contents \cup {None}]
      <4>1. ws[p] \in [Names -> Contents \cup {None}]
        OBVIOUS
      <4> HIDE DEF Contents
      <4> QED
        BY <3>1, <4>1
    <3> QED
      BY <3>2, <3>3
  <2> QED
    BY <1>4, <2>1 DEF CopyFile
<1>5. ASSUME NEW p \in Processes, Downloaded(p) PROVE TypeOK'
  BY <1>0, <1>5, AttachedType DEF Downloaded
<1>6. ASSUME NEW p \in Processes, EnsureSafeDirectory(p) \/ MakeWorkspace(p) \/ Prepared(p)
      PROVE  TypeOK'
  <2>1. CASE EnsureSafeDirectory(p)
    BY <1>6, <2>1 DEF EnsureSafeDirectory
  <2>2. CASE MakeWorkspace(p)
    BY <1>6, <2>2 DEF MakeWorkspace
  <2>3. CASE Prepared(p)
    BY <1>6, <2>3 DEF Prepared
  <2> QED
    BY <1>6, <2>1, <2>2, <2>3
<1>7. ASSUME NEW p \in Processes, MakeDirectory(p) PROVE TypeOK'
  <2>1. tree' \in 0..2 /\ depth' = [depth EXCEPT ![p] = tree']
    BY <1>7 DEF MakeDirectory
  <2> QED
    BY <1>7, <2>1 DEF MakeDirectory
<1>8. ASSUME NEW p \in Processes, Grade(p) PROVE TypeOK'
  <2>1. cur[p] \in Submissions
    BY <1>0, <1>8 DEF Grade
  <2>2. PICK written : ws' = [ws EXCEPT ![p] =
          [n \in Names |-> IF n \in written THEN cur[p] ELSE ws[p][n]]]
    BY <1>8 DEF Grade
  <2>3. ws' \in [Processes -> [Names -> Contents \cup {None}]]
    BY <2>1, <2>2
  <2> QED
    BY <1>8, <2>3 DEF Grade
<1>9. ASSUME NEW p \in Processes, Collect(p) PROVE TypeOK'
  <2>1. \A n \in Names : ws[p][n] \in Contents \cup {None}
    OBVIOUS
  <2>2. points' \in [Processes -> Contents \cup {None}]
    <3>1. PICK n \in PointsFiles({m \in Names : ws[p][m] # None}) :
            points' = [points EXCEPT ![p] = ws[p][n]]
      BY <1>9 DEF Collect
    <3>2. n \in Names
      BY DEF PointsFiles
    <3> QED
      BY <2>1, <3>1, <3>2
  <2>3. comments' \in [Processes -> Contents \cup {None}]
    BY <1>9, <2>1 DEF Collect, CommentsFiles
  <2> QED
    BY <1>9, <2>2, <2>3 DEF Collect
<1>10. ASSUME NEW p \in Processes, Upload(p) PROVE TypeOK'
  <2>1. graded' \in [Processes -> SUBSET Submissions]
    BY <1>0, <1>10 DEF Upload
  <2> QED
    BY <1>10, <2>1 DEF Upload, Forget
<1>11. ASSUME NEW p \in Processes, SubmissionFails(p) PROVE TypeOK'
  <2>1. failed' \in [Processes -> SUBSET Submissions]
    BY <1>0, <1>11 DEF SubmissionFails
  <2> QED
    BY <1>11, <2>1 DEF SubmissionFails, Forget
<1>12. ASSUME NEW p \in Processes, Abort(p) PROVE TypeOK'
  BY <1>12 DEF Abort, Forget
<1>13. ASSUME NEW p \in Processes, End(p) PROVE TypeOK'
  BY <1>13 DEF End
<1>14. CASE UNCHANGED vars
  BY <1>14 DEF vars
<1>15. ASSUME NEW p \in Processes, FetchPage(p) PROVE TypeOK'
  <2>1. Page(next[p]) \subseteq Users /\ HasNext(next[p]) \in BOOLEAN
    BY DEF Page, HasNext
  <2>2. {SubOf[u] : u \in Page(next[p])} \subseteq Submissions
    BY <2>1 DEF Submissions
  <2>3. /\ todo' \in [Processes -> SUBSET Submissions] /\ more' \in [Processes -> BOOLEAN]
        /\ next' \in [Processes -> Nat]
    BY <1>15, <2>1, <2>2, PagesAssumption DEF FetchPage
  <2> QED
    BY <1>15, <2>3 DEF FetchPage
<1>16. CASE Reassign
  <2>1. assigned' \subseteq Users
    BY <1>16 DEF Reassign, Enrol, Leave
  <2>2. stayed' \in [Processes -> SUBSET Users] /\ due' \in [Processes -> SUBSET Users]
    BY <1>16 DEF Reassign
  <2> QED
    BY <1>16, <2>1, <2>2 DEF Reassign
<1> QED
  BY <1>1, <1>2, <1>3, <1>4, <1>5, <1>6, <1>7, <1>8, <1>9, <1>10, <1>11, <1>12, <1>13, <1>14,
     <1>15, <1>16
     DEF Next, Correct

\* A step of one process leaves what is the others' alone, and who is enrolled.
Others(p) ==
  \A q \in Processes \ {p} :
    /\ pc'[q] = pc[q] /\ todo'[q] = todo[q] /\ cur'[q] = cur[q] /\ left'[q] = left[q]
    /\ ws'[q] = ws[q] /\ points'[q] = points[q] /\ comments'[q] = comments[q]
    /\ graded'[q] = graded[q] /\ failed'[q] = failed[q]
    /\ dir'[q] = dir[q] /\ single'[q] = single[q]
    /\ next'[q] = next[q] /\ more'[q] = more[q] /\ due'[q] = due[q]

StepOf(p) == Start(p) \/ Correct(p) \/ SubmissionFails(p) \/ Abort(p) \/ End(p)

LEMMA Frame ==
  ASSUME TypeOK, NEW p \in Processes, StepOf(p)
  PROVE  Others(p) /\ assigned' = assigned
<1> USE DEF TypeOK, Others, GoTo, setting, listing, results, report, run
<1>1. CASE Start(p)
  <2>1. PICK d \in UserDirs \cup {p} : dir' = [dir EXCEPT ![p] = d]
    BY <1>1 DEF Start
  <2>2. \A q \in Processes \ {p} :
          todo'[q] = todo[q] /\ single'[q] = single[q] /\ more'[q] = more[q]
    BY <1>1 DEF Start
  <2> QED
    BY <1>1, <2>1, <2>2 DEF Start
<1>11. CASE FetchPage(p)
  BY <1>11 DEF FetchPage
<1>2. ASSUME NEW s \in Submissions, NextSubmission(p, s) PROVE Others(p) /\ assigned' = assigned
  BY <1>2 DEF NextSubmission, NewWorkspace
<1>3. ASSUME NEW a \in Attachments, DownloadFile(p, a) \/ CopyFile(p, a) PROVE Others(p) /\ assigned' = assigned
  BY <1>3 DEF DownloadFile, CopyFile
<1>4. CASE Downloaded(p) \/ EnsureSafeDirectory(p) \/ MakeDirectory(p) \/ MakeWorkspace(p)
  BY <1>4 DEF Downloaded, EnsureSafeDirectory, MakeDirectory, MakeWorkspace
<1>5. CASE Prepared(p)
  BY <1>5 DEF Prepared
<1>6. CASE Grade(p)
  BY <1>6 DEF Grade
<1>7. CASE Collect(p)
  <2>1. \A q \in Processes \ {p} : points'[q] = points[q] /\ comments'[q] = comments[q]
    BY <1>7 DEF Collect
  <2> QED
    BY <1>7, <2>1 DEF Collect
<1>8. CASE Upload(p)
  BY <1>8 DEF Upload, Forget
<1>9. CASE SubmissionFails(p)
  BY <1>9 DEF SubmissionFails, Forget
<1>10. CASE Abort(p) \/ End(p)
  BY <1>10 DEF Abort, End, Forget
<1> QED
  BY <1>1, <1>2, <1>3, <1>4, <1>5, <1>6, <1>7, <1>8, <1>9, <1>10, <1>11
     DEF StepOf, Correct

\* What no step of a process changes the processes keep.
Unmoved == UNCHANGED <<tree, disk, setting, pc, todo, run, report>>

LEMMA StepsOrNot == [Next]_vars => Unmoved \/ \E p \in Processes : StepOf(p)
  BY DEF Next, StepOf, Reassign, Unmoved, vars

LEMMA StepInHand == TypeOK /\ InHand /\ [Next]_vars => InHand'
<1> SUFFICES ASSUME TypeOK, InHand, [Next]_vars PROVE InHand'
  OBVIOUS
<1> DEFINE Good(p) ==
      /\ pc[p] \in Running \ {"next"} => cur[p] \in Submissions
      /\ pc[p] \in {"download", "copy"} => left[p] \subseteq Attached[cur[p]]
      /\ pc[p] \in {"ensure", "mkdir"} => left[p] = Attached[cur[p]]
<1>0. \A p \in Processes : Good(p)
  BY DEF InHand
<1> USE DEF TypeOK, Running, Ended, At, GoTo, setting, listing, results, report, run
<1>1. ASSUME NEW p \in Processes, StepOf(p) PROVE Good(p)'
  <2>1. CASE Start(p)
    BY <2>1 DEF Start
  <2>2. ASSUME NEW s \in Submissions, NextSubmission(p, s) PROVE Good(p)'
    BY <2>2 DEF NextSubmission
  <2>11. CASE FetchPage(p)
    BY <2>11 DEF FetchPage
  <2>3. ASSUME NEW a \in Attachments, DownloadFile(p, a) \/ CopyFile(p, a) PROVE Good(p)'
    BY <1>0, <2>3 DEF DownloadFile, CopyFile
  <2>4. CASE Downloaded(p)
    BY <1>0, <2>4 DEF Downloaded
  <2>5. CASE EnsureSafeDirectory(p) \/ MakeDirectory(p) \/ MakeWorkspace(p)
    BY <1>0, <2>5 DEF EnsureSafeDirectory, MakeDirectory, MakeWorkspace
  <2>6. CASE Prepared(p)
    BY <1>0, <2>6 DEF Prepared
  <2>7. CASE Grade(p)
    BY <1>0, <2>7 DEF Grade
  <2>8. CASE Collect(p)
    BY <1>0, <2>8 DEF Collect
  <2>9. CASE Upload(p) \/ SubmissionFails(p)
    BY <2>9 DEF Upload, SubmissionFails
  <2>10. CASE Abort(p) \/ End(p)
    BY <2>10 DEF Abort, End
  <2> QED
    BY <1>1, <2>1, <2>2, <2>3, <2>4, <2>5, <2>6, <2>7, <2>8, <2>9, <2>10, <2>11
       DEF StepOf, Correct
<1>2. ASSUME NEW p \in Processes, StepOf(p), NEW q \in Processes \ {p} PROVE Good(q)'
  BY <1>0, <1>2, Frame DEF Others
<1>3. CASE Unmoved
  BY <1>0, <1>3 DEF Unmoved, InHand
<1>4. ASSUME NEW p \in Processes, StepOf(p) PROVE InHand'
  BY <1>1, <1>2, <1>4 DEF InHand
<1> QED
  BY <1>3, <1>4, StepsOrNot DEF Next, StepOf

LEMMA InitHand == Init => InHand
  BY DEF Init, InHand, Running

\* Every variable keeps its type, whatever the processes do and however their
\* directories are shared.
THEOREM TypeCorrect == Spec => []TypeOK
  BY InitType, InitHand, StepType, StepInHand, PTL DEF Spec

------------------------------------------------------------------------------

\* A copy is made under a name of the submission's own.
LEMMA CopiesOwnName ==
  ASSUME InHand, NEW p \in Processes, NEW a \in Attachments, CopyFile(p, a)
  PROVE  NameOf(a) \in NamesIn(cur[p])
  BY DEF InHand, CopyFile, At, NamesIn

LEMMA StepNothingElse ==
  ASSUME TypeOK, InHand, NothingElse, [Next]_vars
  PROVE  NothingElse'
<1> DEFINE Bare(p) == \A n \in Names \ NamesIn(cur[p]) : ws[p][n] = None
           Clean(p) ==
             /\ pc[p] \in {"download", "ensure", "mkdir", "copy", "grade"} => Bare(p)
             /\ At(p, "collect") =>
                  \A n \in Names \ NamesIn(cur[p]) : ws[p][n] \in {cur[p], None}
             /\ ~At(p, "upload") => comments[p] = None
<1>0. \A p \in Processes : Clean(p)
  BY DEF NothingElse
<1> USE DEF TypeOK, At, GoTo, setting, listing, results, report, run
<1>1. ASSUME NEW p \in Processes, StepOf(p) PROVE Clean(p)'
  <2>0. NamesIn(cur[p])' = NamesIn(cur'[p])
    BY DEF NamesIn
  <2>1. CASE Start(p)
    BY <1>0, <2>1 DEF Start
  <2>2. ASSUME NEW s \in Submissions, NextSubmission(p, s) PROVE Clean(p)'
    BY <1>0, <2>2 DEF NextSubmission, NewWorkspace, NoFiles
  <2>11. CASE FetchPage(p)
    BY <1>0, <2>11 DEF FetchPage
  <2>3. ASSUME NEW a \in Attachments, DownloadFile(p, a) PROVE Clean(p)'
    BY <1>0, <2>0, <2>3 DEF DownloadFile
  <2>4. ASSUME NEW a \in Attachments, CopyFile(p, a) PROVE Clean(p)'
    <3>0. NameOf(a) \in NamesIn(cur[p])
      BY <2>4, CopiesOwnName
    <3>1. \A n \in Names \ NamesIn(cur[p]) : ws'[p][n] = ws[p][n]
      BY <2>4, <3>0 DEF CopyFile
    <3> QED
      BY <1>0, <2>0, <2>4, <3>1 DEF CopyFile
  <2>5. CASE Downloaded(p) \/ EnsureSafeDirectory(p) \/ MakeDirectory(p) \/ MakeWorkspace(p)
    BY <1>0, <2>0, <2>5 DEF Downloaded, EnsureSafeDirectory, MakeDirectory, MakeWorkspace
  <2>6. CASE Prepared(p)
    BY <1>0, <2>0, <2>6 DEF Prepared
  <2>7. CASE Grade(p)
    <3>1. \A n \in Names \ NamesIn(cur[p]) : ws'[p][n] \in {cur[p], None}
      BY <1>0, <2>7 DEF Grade
    <3> QED
      BY <1>0, <2>0, <2>7, <3>1 DEF Grade
  <2>8. CASE Collect(p)
    BY <2>8 DEF Collect
  <2>9. CASE Upload(p) \/ SubmissionFails(p) \/ Abort(p)
    BY <2>9 DEF Upload, SubmissionFails, Abort, Forget
  <2>10. CASE End(p)
    BY <1>0, <2>10 DEF End
  <2> QED
    BY <1>1, <2>1, <2>2, <2>3, <2>4, <2>5, <2>6, <2>7, <2>8, <2>9, <2>10, <2>11
       DEF StepOf, Correct
<1>2. ASSUME NEW p \in Processes, StepOf(p), NEW q \in Processes \ {p} PROVE Clean(q)'
  <2>1. Others(p)
    BY <1>2, Frame
  <2>2. NamesIn(cur[q])' = NamesIn(cur[q])
    BY <2>1 DEF Others, NamesIn
  <2> QED
    BY <1>0, <2>1, <2>2 DEF Others
<1>3. CASE Unmoved
  BY <1>0, <1>3 DEF Unmoved, NothingElse, NamesIn
<1>4. ASSUME NEW p \in Processes, StepOf(p) PROVE NothingElse'
  BY <1>1, <1>2, <1>4 DEF NothingElse
<1> QED
  BY <1>3, <1>4, StepsOrNot DEF Next, StepOf

LEMMA StepResults ==
  ASSUME TypeOK, InHand, NothingElse, ResultsAreTheGraders, [Next]_vars
  PROVE  ResultsAreTheGraders'
<1> DEFINE Own1(p) == NamesIn(cur[p]) \cap ({PointsFile} \cup PointsSuffixed) = {}
                        => points[p] = cur[p]
           Own2(p) == NamesIn(cur[p]) \cap OtherText = {} => comments[p] \in {cur[p], None}
<1> USE DEF TypeOK, At, GoTo, setting, listing, results, report, run
<1>1. ASSUME NEW p \in Processes, Collect(p) PROVE Own1(p)' /\ Own2(p)'
  <2> DEFINE present == {n \in Names : ws[p][n] # None}
  <2>1. cur' = cur /\ NamesIn(cur[p])' = NamesIn(cur[p])
    BY <1>1 DEF Collect, NamesIn
  <2>2. \A n \in present \ NamesIn(cur[p]) : ws[p][n] = cur[p]
    BY <1>1 DEF Collect, NothingElse
  <2>3. comments[p] = None
    BY <1>1 DEF Collect, NothingElse
  <2>4. Own1(p)'
    <3>1. PICK n \in PointsFiles(present) : points' = [points EXCEPT ![p] = ws[p][n]]
      BY <1>1 DEF Collect
    <3>2. n \in present /\ n \in {PointsFile} \cup PointsSuffixed
      BY DEF PointsFiles
    <3> QED
      BY <2>1, <2>2, <3>1, <3>2
  <2>5. Own2(p)'
    <3>1. CASE CommentsFiles(present) = {}
      BY <1>1, <2>3, <3>1 DEF Collect
    <3>2. CASE CommentsFiles(present) # {}
      <4>1. PICK n \in CommentsFiles(present) : comments' = [comments EXCEPT ![p] = ws[p][n]]
        BY <1>1, <3>2 DEF Collect
      <4>2. n \in present /\ n \in OtherText
        BY DEF CommentsFiles
      <4> QED
        BY <2>1, <2>2, <4>1, <4>2
    <3> QED
      BY <3>1, <3>2
  <2> QED
    BY <2>4, <2>5
<1>2. ASSUME NEW p \in Processes, StepOf(p), ~Collect(p) PROVE pc'[p] # "upload"
  <2>1. CASE Start(p) \/ SubmissionFails(p) \/ Abort(p) \/ End(p)
    BY <2>1 DEF Start, SubmissionFails, Abort, End
  <2>2. CASE Correct(p)
    BY <1>2, <2>2 DEF Correct, FetchPage, NextSubmission, DownloadFile, CopyFile, Downloaded,
         EnsureSafeDirectory, MakeDirectory, MakeWorkspace, Prepared, Grade, Upload
  <2> QED
    BY <1>2, <2>1, <2>2 DEF StepOf
<1>3. ASSUME NEW p \in Processes, StepOf(p), NEW q \in Processes \ {p}, pc'[q] = "upload"
      PROVE  Own1(q)' /\ Own2(q)'
  <2>1. Others(p)
    BY <1>3, Frame
  <2>2. NamesIn(cur[q])' = NamesIn(cur[q])
    BY <2>1 DEF Others, NamesIn
  <2>3. Own1(q) /\ Own2(q)
    BY <1>3, <2>1 DEF Others, ResultsAreTheGraders
  <2> QED
    BY <2>1, <2>2, <2>3 DEF Others
<1>4. CASE Unmoved
  BY <1>4 DEF Unmoved, ResultsAreTheGraders, NamesIn
<1>5. ASSUME NEW p \in Processes, StepOf(p) PROVE ResultsAreTheGraders'
  BY <1>1, <1>2, <1>3, <1>5 DEF ResultsAreTheGraders
<1> QED
  BY <1>4, <1>5, StepsOrNot DEF Next, StepOf

\* What a flow run uploads its own grader has written, for any number of runs and
\* files and even if the processes share their directories, unless the student
\* handed in a file by the name of a result.
THEOREM ResultsStayTheGraders == Spec => []ResultsAreTheGraders
<1>1. Init => NothingElse /\ ResultsAreTheGraders
  BY DEF Init, NothingElse, ResultsAreTheGraders, At
<1> QED
  BY InitType, InitHand, <1>1, StepType, StepInHand, StepNothingElse, StepResults, PTL
     DEF Spec

------------------------------------------------------------------------------

LEMMA StepSeparate ==
  ASSUME TypeOK, Separate, ~Shared, [Next]_vars
  PROVE  Separate'
<1> USE DEF TypeOK, At, GoTo, setting, listing, results, report, run
<1>0. \A p, q \in Processes :
        p # q /\ pc[p] \in Running /\ pc[q] \in Running => dir[p] # dir[q]
  BY DEF Separate
<1> SUFFICES ASSUME NEW a \in Processes, NEW b \in Processes, a # b,
                    pc'[a] \in Running, pc'[b] \in Running
             PROVE  dir'[a] # dir'[b]
  BY DEF Separate
<1>1. ASSUME NEW p \in Processes, StepOf(p), ~Start(p)
      PROVE  pc[p] \in Running /\ dir' = dir
  <2>1. CASE SubmissionFails(p) \/ Abort(p) \/ End(p)
    BY <2>1 DEF SubmissionFails, Abort, End, Running
  <2>2. CASE Correct(p)
    BY <2>2 DEF Correct, FetchPage, NextSubmission, DownloadFile, CopyFile, Downloaded,
         EnsureSafeDirectory, MakeDirectory, MakeWorkspace, Prepared, Grade, Collect,
         Upload, Running
  <2> QED
    BY <1>1, <2>1, <2>2 DEF StepOf
<1>2. ASSUME NEW p \in Processes, StepOf(p), ~Start(p) PROVE dir'[a] # dir'[b]
  <2>1. pc[p] \in Running /\ dir' = dir
    BY <1>1, <1>2
  <2>2. Others(p)
    BY <1>2, Frame
  <2>3. pc[a] \in Running /\ pc[b] \in Running
    BY <2>1, <2>2 DEF Others
  <2> QED
    BY <1>0, <2>1, <2>3
<1>3. ASSUME NEW p \in Processes, Start(p) PROVE dir'[a] # dir'[b]
  <2>1. PICK d \in UserDirs \cup {p} : MayUse(p, d) /\ dir' = [dir EXCEPT ![p] = d]
    BY <1>3 DEF Start
  <2>2. \A q \in Processes \ {p} : pc[q] \in Running => dir[q] # d
    BY <2>1 DEF MayUse
  <2>3. \A q \in Processes \ {p} : pc'[q] = pc[q] /\ dir'[q] = dir[q]
    BY <1>3, Frame DEF Others, StepOf
  <2>4. dir'[p] = d
    BY <2>1
  <2> QED
    BY <1>0, <2>2, <2>3, <2>4
<1>4. CASE Unmoved
  BY <1>0, <1>4 DEF Unmoved
<1> QED
  BY <1>2, <1>3, <1>4, StepsOrNot DEF Next, StepOf

\* What Separate and GradedOnOwnFiles say of one process.
SeparateOf(p) ==
  \A q \in Processes \ {p} : {pc[p], pc[q]} \subseteq Running => dir[p] # dir[q]

OwnFilesOf(p) ==
  At(p, "grade") => \A n \in Names :
    IF n \in NamesIn(cur[p]) THEN ws[p][n] \in Own(cur[p], n) ELSE ws[p][n] = None

\* The files of a process stay in place while its directory is its own.
LEMMA StepPlaced ==
  ASSUME TypeOK, InHand, NEW e \in Processes, SeparateOf(e), Placed(e), [Next]_vars
  PROVE  Placed(e)'
<1> DEFINE Ready(n) == pc[e] \in {"ensure", "mkdir", "copy"} /\ n \in NamesIn(cur[e])
                         => disk[dir[e]][n] \in Own(cur[e], n)
<1> USE DEF Placed
<1> USE DEF TypeOK, At, GoTo, setting, listing, results, report, run
<1>1. ASSUME NEW p \in Processes, cur'[p] = cur[p]
      PROVE  \A n : NamesIn(cur[p])' = NamesIn(cur[p]) /\ Own(cur[p], n)' = Own(cur[p], n)
  BY <1>1 DEF NamesIn, Own
\* A step of another process finds other directories.
<1>2. ASSUME NEW p \in Processes, StepOf(p), p # e PROVE Placed(e)'
  <2>1. Others(p)
    BY <1>2, Frame
  <2>2. Moved(e)' = Moved(e) /\ cur'[e] = cur[e]
    BY <1>2, <2>1 DEF Others, Moved
  <2>3. pc[e] \in Running => disk'[dir[e]] = disk[dir[e]]
    <3>1. CASE \E a \in Attachments : DownloadFile(p, a)
      BY <1>2, <3>1 DEF DownloadFile, SeparateOf, Running
    <3>2. CASE ~\E a \in Attachments : DownloadFile(p, a)
      BY <1>2, <3>2 DEF StepOf, Correct, Start, SubmissionFails, Abort, End, FetchPage,
           NextSubmission, CopyFile, Downloaded, EnsureSafeDirectory, MakeDirectory, MakeWorkspace,
           Prepared, Grade, Collect, Upload
    <3> QED
      BY <3>1, <3>2
  <2> QED
    BY <1>1, <1>2, <2>1, <2>2, <2>3 DEF Others, Running
<1>3. ASSUME StepOf(e) PROVE Placed(e)'
  <2>1. CASE pc'[e] \notin {"download", "ensure", "mkdir", "copy"}
    BY <2>1
  <2>2. ASSUME NEW s \in Submissions, NextSubmission(e, s) PROVE Placed(e)'
    <3>1. Moved(e)' = {} /\ pc'[e] = "download"
      BY <2>2, AttachedType DEF NextSubmission, Moved
    <3> QED
      BY <3>1
  <2>3. ASSUME NEW a \in Attachments, DownloadFile(e, a) PROVE Placed(e)'
    <3>1. /\ pc'[e] = "download" /\ dir' = dir /\ cur' = cur /\ dir[e] \in Dirs
          /\ \A n \in Names : disk'[dir[e]][n] = IF n = NameOf(a) THEN a ELSE disk[dir[e]][n]
      BY <2>3 DEF DownloadFile
    <3>2. Moved(e)' = Moved(e) \cup {a} /\ a \in Attached[cur[e]]
      BY <2>3 DEF DownloadFile, Moved, InHand
    <3>3. ASSUME NEW n \in Names, NEW b \in Moved(e)', NameOf(b) = n
          PROVE  disk'[dir[e]][n] \in Own(cur[e], n)
      <4>1. CASE n = NameOf(a)
        BY <3>1, <3>2, <4>1 DEF Own
      <4>2. CASE n # NameOf(a)
        BY <2>3, <3>1, <3>2, <3>3, <4>2 DEF DownloadFile
      <4> QED
        BY <4>1, <4>2
    <3> QED
      BY <1>1, <3>1, <3>3
  <2>4. ASSUME NEW a \in Attachments, CopyFile(e, a) PROVE Placed(e)'
    <3>1. /\ pc' = pc /\ pc[e] = "copy" /\ dir' = dir /\ disk' = disk /\ cur' = cur
          /\ \A n \in Names : ws'[e][n] = IF n = NameOf(a) THEN disk[dir[e]][n] ELSE ws[e][n]
      BY <2>4 DEF CopyFile
    <3>2. Moved(e)' = Moved(e) \cup {a} /\ a \in Attached[cur[e]]
      BY <2>4 DEF CopyFile, Moved, InHand
    <3>3. ASSUME NEW n \in Names, NEW b \in Moved(e)', NameOf(b) = n
          PROVE  ws'[e][n] \in Own(cur[e], n)
      <4>1. CASE n = NameOf(a)
        BY <3>1, <3>2, <4>1 DEF NamesIn
      <4>2. CASE n # NameOf(a)
        BY <3>1, <3>2, <3>3, <4>2
      <4> QED
        BY <4>1, <4>2
    <3>4. \A n \in Names : Ready(n)'
      BY <1>1, <3>1
    <3> QED
      BY <1>1, <3>1, <3>3, <3>4
  <2>5. CASE Downloaded(e)
    <3>1. /\ pc[e] = "download" /\ pc'[e] = "ensure"
          /\ dir' = dir /\ disk' = disk /\ cur' = cur
      BY <2>5 DEF Downloaded
    <3>2. Moved(e) = Attached[cur[e]]
      BY <2>5 DEF Downloaded, Moved
    <3>3. \A n \in Names : n \in NamesIn(cur[e]) => disk[dir[e]][n] \in Own(cur[e], n)
      BY <3>1, <3>2 DEF NamesIn
    <3> QED
      BY <1>1, <3>1, <3>3
  <2>6. CASE EnsureSafeDirectory(e) \/ MakeDirectory(e)
    <3>1. /\ pc[e] \in {"ensure", "mkdir"} /\ pc'[e] = "mkdir"
          /\ dir' = dir /\ disk' = disk /\ cur' = cur
      BY <2>6 DEF EnsureSafeDirectory, MakeDirectory
    <3> QED
      BY <1>1, <3>1
  <2>7. CASE MakeWorkspace(e)
    <3>1. /\ pc[e] = "mkdir" /\ pc'[e] = "copy"
          /\ dir' = dir /\ disk' = disk /\ cur' = cur
      BY <2>7 DEF MakeWorkspace
    <3>2. Moved(e)' = {}
      BY <2>7, <3>1 DEF MakeWorkspace, Moved, InHand
    <3>3. \A n \in Names : Ready(n)'
      BY <1>1, <3>1
    <3> QED
      BY <3>1, <3>2, <3>3
  <2>8. CASE Start(e) \/ FetchPage(e) \/ SubmissionFails(e) \/ Abort(e) \/ End(e)
    BY <2>1, <2>8 DEF Start, FetchPage, SubmissionFails, Abort, End
  <2>9. CASE Prepared(e) \/ Grade(e) \/ Collect(e) \/ Upload(e)
    BY <2>1, <2>9 DEF Prepared, Grade, Collect, Upload
  <2> QED
    BY <1>3, <2>2, <2>3, <2>4, <2>5, <2>6, <2>7, <2>8, <2>9 DEF StepOf, Correct
<1>4. CASE Unmoved
  <2>1. Moved(e)' = Moved(e)
    BY <1>4 DEF Unmoved, Moved
  <2> QED
    BY <1>1, <1>4, <2>1 DEF Unmoved
<1> QED
  BY <1>2, <1>3, <1>4, StepsOrNot DEF Next, StepOf

LEMMA StepOwnFilesOf ==
  ASSUME TypeOK, InHand, NEW e \in Processes, Placed(e), NothingElse, OwnFilesOf(e), [Next]_vars
  PROVE  OwnFilesOf(e)'
<1> DEFINE Fit == \A n \in Names :
             IF n \in NamesIn(cur[e]) THEN ws[e][n] \in Own(cur[e], n) ELSE ws[e][n] = None
<1> USE DEF TypeOK, At, GoTo, setting, listing, results, report, run
<1>1. ASSUME cur'[e] = cur[e], ws'[e] = ws[e], Fit PROVE Fit'
  BY <1>1 DEF NamesIn, Own
<1>2. ASSUME Prepared(e) PROVE Fit'
  <2>1. pc[e] = "copy" /\ cur' = cur /\ ws' = ws
    BY <1>2 DEF Prepared
  <2>2. Moved(e) = Attached[cur[e]]
    BY <1>2 DEF Prepared, Moved
  <2>3. Fit
    BY <2>1, <2>2 DEF Placed, NothingElse, NamesIn
  <2> QED
    BY <1>1, <2>1, <2>3
<1>3. ASSUME StepOf(e), ~Prepared(e) PROVE pc'[e] # "grade"
  <2>1. CASE Start(e) \/ SubmissionFails(e) \/ Abort(e) \/ End(e)
    BY <2>1 DEF Start, SubmissionFails, Abort, End
  <2>2. CASE Correct(e)
    BY <1>3, <2>2 DEF Correct, FetchPage, NextSubmission, DownloadFile, CopyFile, Downloaded,
         EnsureSafeDirectory, MakeDirectory, MakeWorkspace, Grade, Collect, Upload
  <2> QED
    BY <1>3, <2>1, <2>2 DEF StepOf
<1>4. ASSUME NEW p \in Processes \ {e}, StepOf(p), pc'[e] = "grade" PROVE Fit'
  <2>1. Others(p)
    BY <1>4, Frame
  <2>2. Fit /\ cur'[e] = cur[e] /\ ws'[e] = ws[e]
    BY <1>4, <2>1 DEF Others, OwnFilesOf
  <2> QED
    BY <1>1, <2>2
<1>5. CASE Unmoved
  BY <1>1, <1>5 DEF Unmoved, OwnFilesOf
<1> QED
  BY <1>2, <1>3, <1>4, <1>5, StepsOrNot DEF Next, StepOf, OwnFilesOf

\* A grader is run on files of its submission and on nobody else's, for any
\* number of processes, submissions and attachments under any names, in every
\* behaviour in which nobody else is given the directory its process runs in;
\* what other processes share among them is not in its way.
THEOREM EachProcessOwnFiles ==
  ASSUME NEW p \in Processes
  PROVE  Spec /\ []SeparateOf(p) => []OwnFilesOf(p)
<1> DEFINE Inv == TypeOK /\ InHand /\ NothingElse /\ Placed(p) /\ OwnFilesOf(p)
<1>1. Init => Inv
  BY InitType, InitHand
     DEF Init, NothingElse, Placed, OwnFilesOf, At
<1>2. Inv /\ SeparateOf(p) /\ [Next]_vars => Inv'
  BY StepType, StepInHand, StepNothingElse, StepPlaced, StepOwnFilesOf
<1>3. Inv => OwnFilesOf(p)
  OBVIOUS
<1> QED
  BY <1>1, <1>2, <1>3, PTL DEF Spec

\* So it is for all of them wherever every process is given a directory of its own.
THEOREM GradersGetOwnFiles ==
  ASSUME ~Shared
  PROVE  Spec => []GradedOnOwnFiles
<1>1. Init => FilesInv
  BY InitType, InitHand
     DEF Init, FilesInv, Separate, Running, FilesInPlace, Placed, NothingElse, GradedOnOwnFiles, At
<1>2. FilesInv /\ [Next]_vars => FilesInv'
  <2> SUFFICES ASSUME FilesInv, [Next]_vars PROVE FilesInv'
    OBVIOUS
  <2>1. (TypeOK /\ InHand /\ NothingElse /\ Separate)'
    BY StepType, StepInHand, StepNothingElse, StepSeparate DEF FilesInv
  <2>2. \A p \in Processes : SeparateOf(p) /\ Placed(p) /\ OwnFilesOf(p)
    BY DEF FilesInv, Separate, SeparateOf, FilesInPlace, GradedOnOwnFiles, OwnFilesOf
  <2>3. \A p \in Processes : Placed(p)' /\ OwnFilesOf(p)'
    BY <2>2, StepPlaced, StepOwnFilesOf DEF FilesInv
  <2> QED
    BY <2>1, <2>3 DEF FilesInv, FilesInPlace, GradedOnOwnFiles, OwnFilesOf
<1>3. FilesInv => GradedOnOwnFiles
  BY DEF FilesInv
<1> QED
  BY <1>1, <1>2, <1>3, PTL DEF Spec

------------------------------------------------------------------------------

\* The place of a user in the list is before the end of the list.
LEMMA PlaceBounds ==
  ASSUME assigned \subseteq Users, NEW u \in assigned
  PROVE  /\ Place(u) \in Nat
         /\ Cardinality(assigned) \in Nat
         /\ Place(u) < Cardinality(assigned)
<1> DEFINE Before == {v \in assigned : Order[v] < Order[u]}
<1>1. IsFiniteSet(assigned)
  BY FS_Subset, UsersAssumption
<1>2. IsFiniteSet(Before) /\ Before \cup {u} \subseteq assigned /\ u \notin Before
  BY <1>1, FS_Subset, PagesAssumption
<1>3. Cardinality(Before \cup {u}) = Cardinality(Before) + 1
  BY <1>2, FS_AddElement
<1>4. Cardinality(Before \cup {u}) <= Cardinality(assigned)
  BY <1>1, <1>2, FS_Subset
<1>5. Cardinality(Before) \in Nat /\ Cardinality(assigned) \in Nat
  BY <1>1, <1>2, FS_CardinalityType
<1> HIDE DEF Before
<1>6. Cardinality(Before) < Cardinality(assigned)
  BY <1>3, <1>4, <1>5
<1> QED
  BY <1>5, <1>6 DEF Place, Before

\* Nobody's place moves forward while nobody before him in the list leaves.
LEMMA PlaceGrows ==
  ASSUME assigned \subseteq Users, assigned' \subseteq Users, NEW u \in assigned,
         \A v \in assigned \ assigned' : Order[u] <= Order[v]
  PROVE  Place(u)' \in Nat /\ Place(u) <= Place(u)'
<1> DEFINE Before == {v \in assigned : Order[v] < Order[u]}
           After == {v \in assigned' : Order[v] < Order[u]}
<1>1. Before \subseteq After
  <2>1. \A v \in Before : v \in Users /\ Order[v] \in Nat /\ Order[u] \in Nat
    BY PagesAssumption
  <2>2. \A v \in Before : ~(Order[u] <= Order[v])
    BY <2>1
  <2> QED
    BY <2>2
<1>2. IsFiniteSet(After)
  BY FS_Subset, UsersAssumption
<1>3. Cardinality(Before) <= Cardinality(After) /\ Cardinality(After) \in Nat
  BY <1>1, <1>2, FS_Subset, FS_CardinalityType
<1> QED
  BY <1>3 DEF Place

\* What a submission that is due is accounted for with, of one process.
Complete(p) ==
  IF single[p]
  THEN failed[p] = {} /\ ~more[p] /\ \E s \in Submissions : TakenUp(p) = {s}
  ELSE \A u \in due[p] : u \in assigned /\ Ahead(p, u)

Counted(p) ==
  /\ At(p, "idle") => graded[p] = {} /\ failed[p] = {} /\ ~more[p] /\ next[p] = 0
  /\ pc[p] \in Running \cup {"completed", "failures"} => Complete(p)
  /\ pc[p] \in {"completed", "failures"} =>
       todo[p] = {} /\ ~more[p] /\ (At(p, "completed") <=> failed[p] = {})

\* A submission once taken up stays accounted for, wherever it moves; so do those
\* on pages to come while these are not fetched.
LEMMA CompleteKept ==
  ASSUME NEW p \in Processes, Complete(p), TakenUp(p)' = TakenUp(p),
         UNCHANGED <<assigned, next, more, due, single>>, ~single[p] \/ failed' = failed
  PROVE  Complete(p)'
<1>1. CASE single[p]
  BY <1>1 DEF Complete
<1>2. CASE ~single[p]
  <2>1. \A u : Place(u)' = Place(u)
    BY DEF Place
  <2> QED
    BY <1>2, <2>1 DEF Complete, Ahead
<1> QED
  BY <1>1, <1>2

LEMMA StepAccounted ==
  ASSUME TypeOK, InHand, Accounted, [Next]_vars
  PROVE  Accounted'
<1>0. \A p \in Processes : Counted(p)
  BY DEF Accounted, Counted, Complete
<1> USE DEF TypeOK, At, GoTo, setting, listing, results, report, run
<1>1. ASSUME NEW p \in Processes, Start(p) PROVE Counted(p)'
  <2>1. /\ pc'[p] = "next" /\ graded'[p] = {} /\ failed'[p] = {} /\ Open(p)' = {}
        /\ due'[p] = assigned /\ assigned' = assigned /\ next'[p] = 0
        /\ TakenUp(p)' = todo'[p] /\ ~more[p]
    BY <1>0, <1>1 DEF Start, Open, Counted, TakenUp
  <2>2. CASE single' = [single EXCEPT ![p] = FALSE] /\ more' = [more EXCEPT ![p] = TRUE]
    <3>1. ~single'[p] /\ more'[p]
      BY <2>2
    <3>2. \A u \in assigned : Place(u)' \in Nat
      BY <2>1, PlaceBounds DEF Place
    <3>3. Complete(p)'
      BY <2>1, <3>1, <3>2 DEF Complete, Ahead
    <3> QED
      BY <2>1, <3>3 DEF Counted
  <2>3. ASSUME NEW s \in Submissions, more' = more,
               single' = [single EXCEPT ![p] = TRUE], todo' = [todo EXCEPT ![p] = {s}]
        PROVE  Counted(p)'
    <3>1. single'[p] /\ todo'[p] = {s} /\ ~more'[p]
      BY <2>1, <2>3
    <3> QED
      BY <2>1, <3>1 DEF Counted, Complete
  <2> QED
    BY <1>1, <2>2, <2>3 DEF Start
<1>2. ASSUME NEW p \in Processes, FetchPage(p) PROVE Counted(p)'
  <2>1. /\ pc[p] = "next" /\ pc' = pc /\ Open(p) = {} /\ Open(p)' = {} /\ more[p]
        /\ todo[p] = {} /\ todo'[p] = {SubOf[u] : u \in Page(next[p])}
        /\ more'[p] = HasNext(next[p]) /\ next'[p] = next[p] + PerPage
        /\ UNCHANGED <<assigned, due, single, graded, failed>>
    BY <1>2 DEF FetchPage, Open, Running
  <2>2. Complete(p) /\ ~single[p]
    BY <1>0, <2>1 DEF Counted, Complete, Running
  <2>3. ASSUME NEW u \in due[p] PROVE u \in assigned /\ Ahead(p, u)'
    <3>1. u \in assigned /\ Ahead(p, u)
      BY <2>2 DEF Complete
    <3>2. CASE SubOf[u] \in graded[p] \cup failed[p]
      BY <2>1, <3>1, <3>2 DEF Ahead, TakenUp
    <3>3. CASE Place(u) >= next[p]
      <4>1. /\ Place(u) \in Nat /\ Cardinality(assigned) \in Nat
            /\ Place(u) < Cardinality(assigned) /\ next[p] \in Nat /\ PerPage \in Nat
        BY <3>1, PlaceBounds, PagesAssumption
      <4>2. Place(u)' = Place(u)
        BY <2>1 DEF Place
      <4>3. CASE Place(u) <= next[p] + PerPage - 1
        <5>1. u \in Page(next[p])
          BY <3>1, <3>3, <4>1, <4>3 DEF Page
        <5>2. SubOf[u] \in todo'[p]
          BY <2>1, <5>1
        <5> QED
          BY <3>1, <5>2 DEF Ahead, TakenUp
      <4>4. CASE Place(u) >= next[p] + PerPage
        <5>1. HasNext(next[p])
          BY <4>1, <4>4 DEF HasNext
        <5> QED
          BY <2>1, <3>1, <4>2, <4>4, <5>1 DEF Ahead
      <4> QED
        BY <4>1, <4>3, <4>4
    <3> QED
      BY <2>1, <3>1, <3>2, <3>3 DEF Ahead, TakenUp
  <2>4. Complete(p)'
    BY <2>1, <2>2, <2>3 DEF Complete
  <2> QED
    BY <2>1, <2>4 DEF Counted
<1>3. ASSUME NEW p \in Processes, NEW s \in Submissions, NextSubmission(p, s)
      PROVE  Counted(p)'
  <2>1. /\ pc[p] = "next" /\ pc'[p] = "download" /\ s \in todo[p]
        /\ todo'[p] = todo[p] \ {s} /\ Open(p) = {} /\ Open(p)' = {s}
        /\ UNCHANGED <<assigned, next, more, due, single, graded, failed>>
    BY <1>3 DEF NextSubmission, Open, Running
  <2>2. TakenUp(p)' = TakenUp(p)
    BY <2>1 DEF TakenUp
  <2>3. Complete(p)'
    BY <1>0, <2>1, <2>2, CompleteKept DEF Counted, Running
  <2> QED
    BY <2>1, <2>3 DEF Counted
\* Steps within a flow run.
<1>4. ASSUME NEW p \in Processes,
             \/ \E a \in Attachments : DownloadFile(p, a) \/ CopyFile(p, a)
             \/ Downloaded(p) \/ EnsureSafeDirectory(p) \/ MakeDirectory(p) \/ MakeWorkspace(p)
             \/ Prepared(p) \/ Grade(p) \/ Collect(p)
      PROVE  Counted(p)'
  <2>1. pc[p] \in Running \ {"next"} /\ pc'[p] \in Running \ {"next"}
    BY <1>4 DEF DownloadFile, CopyFile, Downloaded, EnsureSafeDirectory, MakeDirectory,
         MakeWorkspace, Prepared, Grade, Collect, Running
  <2>2. cur'[p] = cur[p]
        /\ UNCHANGED <<todo, graded, failed, assigned, next, more, due, single>>
    BY <1>4 DEF DownloadFile, CopyFile, Downloaded, EnsureSafeDirectory, MakeDirectory,
         MakeWorkspace, Prepared, Grade, Collect
  <2>3. TakenUp(p)' = TakenUp(p)
    BY <2>1, <2>2 DEF TakenUp, Open
  <2>4. Complete(p)'
    BY <1>0, <2>1, <2>2, <2>3, CompleteKept DEF Counted
  <2> QED
    BY <2>1, <2>4 DEF Counted, Running
<1>5. ASSUME NEW p \in Processes, Upload(p) \/ SubmissionFails(p) PROVE Counted(p)'
  <2>1. /\ pc[p] \in Running \ {"next"} /\ pc'[p] = "next" /\ Open(p) = {cur[p]}
        /\ Open(p)' = {} /\ (~single[p] \/ failed' = failed)
        /\ graded'[p] \cup failed'[p] = graded[p] \cup failed[p] \cup {cur[p]}
        /\ UNCHANGED <<todo, assigned, next, more, due, single>>
    BY <1>5 DEF Upload, SubmissionFails, Open, Running
  <2>2. TakenUp(p)' = TakenUp(p)
    BY <2>1 DEF TakenUp
  <2>3. Complete(p)'
    BY <1>0, <2>1, <2>2, CompleteKept DEF Counted
  <2> QED
    BY <2>1, <2>3 DEF Counted
<1>6. ASSUME NEW p \in Processes, Abort(p) PROVE Counted(p)'
  <2>1. pc'[p] = "aborted"
    BY <1>6 DEF Abort
  <2> QED
    BY <2>1 DEF Running, Counted
<1>7. ASSUME NEW p \in Processes, End(p) PROVE Counted(p)'
  <2>1. /\ pc[p] = "next" /\ todo[p] = {} /\ ~more[p] /\ Open(p) = {} /\ Open(p)' = {}
        /\ pc'[p] = IF failed[p] = {} THEN "completed" ELSE "failures"
        /\ UNCHANGED <<todo, graded, failed, assigned, next, more, due, single>>
    BY <1>7 DEF End, Open, Running
  <2>2. TakenUp(p)' = TakenUp(p)
    BY <2>1 DEF TakenUp
  <2>3. Complete(p)'
    BY <1>0, <2>1, <2>2, CompleteKept DEF Counted, Running
  <2> QED
    BY <2>1, <2>3 DEF Counted
<1>8. ASSUME NEW p \in Processes, StepOf(p), NEW q \in Processes \ {p} PROVE Counted(q)'
  <2>1. Others(p) /\ assigned' = assigned
    BY <1>8, Frame
  <2>2. TakenUp(q)' = TakenUp(q) /\ \A u : Place(u)' = Place(u)
    BY <2>1 DEF Others, Open, TakenUp, Place
  <2>3. \A u : Ahead(q, u) => Ahead(q, u)'
    BY <2>1, <2>2 DEF Others, Ahead
  <2>4. Complete(q) => Complete(q)'
    BY <2>1, <2>2, <2>3 DEF Others, Complete
  <2>5. Counted(q)
    BY <1>0
  <2> QED
    BY <2>1, <2>4, <2>5 DEF Others, Counted
\* Nobody who is due is moved forward in the list.
<1>9. ASSUME Reassign, NEW p \in Processes PROVE Counted(p)'
  <2>1. /\ pc' = pc /\ UNCHANGED <<todo, graded, failed, next, more, single, cur>>
        /\ Open(p)' = Open(p)
    BY <1>9 DEF Reassign, Open
  <2>2. assigned' \subseteq Users
    BY <1>9 DEF Reassign, Enrol, Leave
  <2>3. ASSUME NEW u \in due'[p], u \in assigned, Ahead(p, u)
        PROVE  u \in assigned' /\ Ahead(p, u)'
    <3>1. u \in assigned' /\ \A v \in assigned \ assigned' : Order[u] <= Order[v]
      <4>1. CASE \E e \in Users : Enrol(e)
        BY <2>3, <4>1 DEF Enrol
      <4>2. ASSUME NEW e \in Users, Leave(e), due' = [q \in Processes |-> {v \in due[q] : Order[v] < Order[e]}]
            PROVE  u \in assigned' /\ \A v \in assigned \ assigned' : Order[u] <= Order[v]
        <5>1. Order[u] < Order[e] /\ Order[u] \in Nat /\ Order[e] \in Nat
          BY <2>3, <4>2, PagesAssumption
        <5> QED
          BY <2>3, <4>2, <5>1 DEF Leave
      <4> QED
        BY <1>9, <4>1, <4>2 DEF Reassign
    <3>2. Place(u) \in Nat /\ Place(u)' \in Nat /\ Place(u) <= Place(u)'
      BY <2>2, <2>3, <3>1, PlaceBounds, PlaceGrows
    <3> QED
      BY <2>1, <2>3, <3>1, <3>2 DEF Ahead, TakenUp
  <2>4. due'[p] \subseteq due[p]
    BY <1>9 DEF Reassign
  <2>5. TakenUp(p)' = TakenUp(p)
    BY <2>1 DEF TakenUp
  <2>6. Complete(p) => Complete(p)'
    BY <2>1, <2>3, <2>4, <2>5 DEF Complete
  <2> QED
    BY <1>0, <2>1, <2>6 DEF Counted
<1>10. CASE UNCHANGED vars
  <2>1. ASSUME NEW p \in Processes PROVE Counted(p)'
    <3>1. TakenUp(p)' = TakenUp(p)
      BY <1>10 DEF vars, Open, TakenUp
    <3>2. Complete(p) => Complete(p)'
      BY <1>10, <3>1, CompleteKept DEF vars
    <3> QED
      BY <1>0, <1>10, <3>2 DEF vars, Counted
  <2> QED
    BY <2>1 DEF Accounted, Counted, Complete
<1>11. ASSUME NEW p \in Processes, StepOf(p) PROVE \A q \in Processes : Counted(q)'
  BY <1>1, <1>2, <1>3, <1>4, <1>5, <1>6, <1>7, <1>8, <1>11 DEF StepOf, Correct
<1>12. ASSUME \A q \in Processes : Counted(q)' PROVE Accounted'
  BY <1>12 DEF Accounted, Counted, Complete
<1> QED
  BY <1>9, <1>10, <1>11, <1>12 DEF Next, StepOf

\* A process that ends by itself has graded every submission it was run for, or
\* lists it as failed, for any number of processes, of users and any length of a
\* page: a batch of those before whom in the list nobody left while it ran.
THEOREM ReportsAreComplete == Spec => []ReportComplete
<1>1. Init => Accounted
  BY DEF Init, Accounted, At, Running
<1>2. ASSUME TypeOK, Accounted PROVE ReportComplete
  <2> SUFFICES ASSUME NEW p \in Processes, pc[p] \in {"completed", "failures"}
               PROVE  /\ At(p, "completed") /\ ~single[p] => Of(due[p]) \subseteq graded[p]
                      /\ At(p, "completed") /\ single[p] => Cardinality(graded[p]) = 1
                      /\ At(p, "failures") =>
                           failed[p] # {} /\ Of(due[p]) \subseteq graded[p] \cup failed[p]
    BY DEF ReportComplete, At
  <2>1. TakenUp(p) = graded[p] \cup failed[p] /\ ~more[p]
    BY <1>2 DEF Accounted, Open, TakenUp, Running
  <2>2. At(p, "completed") <=> failed[p] = {}
    BY <1>2 DEF Accounted
  <2>3. CASE single[p]
    <3>1. PICK s \in Submissions : graded[p] = {s}
      BY <1>2, <2>1, <2>3 DEF Accounted
    <3>2. failed[p] = {} /\ ~At(p, "failures")
      BY <1>2, <2>3 DEF Accounted, At
    <3> QED
      BY <2>3, <3>1, <3>2, FS_Singleton
  <2>4. CASE ~single[p]
    <3>1. \A u \in due[p] : SubOf[u] \in graded[p] \cup failed[p]
      BY <1>2, <2>1, <2>4 DEF Accounted, Ahead
    <3> QED
      BY <2>2, <2>4, <3>1 DEF Of, At
  <2> QED
    BY <2>3, <2>4
<1> QED
  BY InitType, InitHand, <1>1, StepType, StepInHand, StepAccounted, <1>2, PTL DEF Spec

------------------------------------------------------------------------------
(* The directories above a workspace *)

\* No two flow runs are at the directories above their workspaces at once.
OneMakes == \A p, q \in Processes : At(p, "mkdir") /\ At(q, "mkdir") => p = q

LEMMA StepNotRefused ==
  ASSUME TypeOK, OneMakes, NotRefusedForExisting, [Next]_vars
  PROVE  NotRefusedForExisting'
<1> USE DEF TypeOK, At, GoTo, setting, listing, run, results
<1>1. ASSUME NEW p \in Processes, EnsureSafeDirectory(p) PROVE NotRefusedForExisting'
  BY <1>1 DEF EnsureSafeDirectory, NotRefusedForExisting
<1>2. ASSUME NEW p \in Processes, MakeDirectory(p) PROVE NotRefusedForExisting'
  <2>1. /\ At(p, "mkdir") /\ pc' = pc
        /\ depth' = [depth EXCEPT ![p] = tree']
    BY <1>2 DEF MakeDirectory
  <2>2. \A q \in Processes : At(q, "mkdir")' => q = p
    BY <2>1 DEF OneMakes
  <2> QED
    BY <2>1, <2>2 DEF NotRefusedForExisting
<1>3. ASSUME NEW p \in Processes, UNCHANGED <<tree, depth>>,
             pc' = pc \/ \E point \in (Running \cup Ended) \ {"mkdir"} : GoTo(p, point)
      PROVE  NotRefusedForExisting'
  BY <1>3 DEF NotRefusedForExisting
<1>4. ASSUME NEW p \in Processes,
             \/ Start(p) \/ FetchPage(p) \/ \E s \in Submissions : NextSubmission(p, s)
             \/ \E a \in Attachments : DownloadFile(p, a) \/ CopyFile(p, a)
             \/ Downloaded(p) \/ Prepared(p) \/ Grade(p) \/ Collect(p) \/ End(p)
      PROVE  NotRefusedForExisting'
  <2>1. UNCHANGED <<tree, depth>>
    BY <1>4 DEF Start, FetchPage, NextSubmission, DownloadFile, CopyFile, Downloaded,
         Prepared, Grade, Collect, End
  <2>2. pc' = pc \/ \E point \in (Running \cup Ended) \ {"mkdir"} : GoTo(p, point)
    BY <1>4 DEF Start, FetchPage, NextSubmission, DownloadFile, CopyFile, Downloaded,
         Prepared, Grade, Collect, End, Running, Ended
  <2> QED
    BY <1>3, <2>1, <2>2
<1>5. ASSUME NEW p \in Processes,
             MakeWorkspace(p) \/ Upload(p) \/ SubmissionFails(p) \/ Abort(p)
      PROVE  NotRefusedForExisting'
  <2>1. /\ tree' = tree /\ depth' = [depth EXCEPT ![p] = 0]
        /\ \E point \in {"copy", "next", "aborted"} : pc' = [pc EXCEPT ![p] = point]
    BY <1>5 DEF MakeWorkspace, Upload, SubmissionFails, Abort, Forget
  <2> QED
    BY <2>1 DEF NotRefusedForExisting
<1>6. CASE Unmoved
  BY <1>6 DEF Unmoved, NotRefusedForExisting
<1> QED
  BY <1>1, <1>2, <1>4, <1>5, <1>6, StepsOrNot DEF StepOf, Correct

\* Only two flow runs that make the directories at the same time can refuse them
\* to each other: while one makes them at a time, whatever else runs alongside
\* and whatever is there already, no run is refused a directory for existing.
THEOREM OnlyRacesAreRefused == Spec /\ []OneMakes => []NotRefusedForExisting
<1>1. Init => NotRefusedForExisting
  BY DEF Init, NotRefusedForExisting, At
<1>2. TypeOK /\ OneMakes /\ NotRefusedForExisting /\ [Next]_vars => NotRefusedForExisting'
  BY StepNotRefused
<1> QED
  BY <1>1, <1>2, TypeCorrect, PTL DEF Spec

------------------------------------------------------------------------------
(* What Total adds up: FoldLeft takes the numbers from the last to the     *)
(* first, by a function over the sets of positions                         *)

IsSum(g, s, n) ==
  g = [S \in SUBSET (1..n) |-> IF S = {} THEN 0 ELSE g[S \ {Max(S)}] + s[Max(S)]]

LEMMA SumsExist ==
  ASSUME NEW s, NEW n \in Nat
  PROVE  \E g : IsSum(g, s, n)
<1> DEFINE P(m) == \E g : IsSum(g, s, m)
           N == {m \in Nat : P(m)}
<1>1. P(0)
  <2> DEFINE g == [S \in SUBSET (1..0) |-> 0]
  <2>1. IsSum(g, s, 0)
    <3>1. \A S \in SUBSET (1..0) : S = {}
      OBVIOUS
    <3> QED
      BY <3>1 DEF IsSum
  <2> QED
    BY <2>1
<1>2. ASSUME NEW m \in Nat, P(m) PROVE P(m + 1)
  <2>1. PICK g : IsSum(g, s, m)
    BY <1>2
  <2> DEFINE h == [S \in SUBSET (1..(m + 1)) |->
                     IF m + 1 \in S THEN g[S \ {m + 1}] + s[m + 1] ELSE g[S]]
  <2>2. ASSUME NEW S \in SUBSET (1..(m + 1))
        PROVE  h[S] = IF S = {} THEN 0 ELSE h[S \ {Max(S)}] + s[Max(S)]
    <3>1. CASE m + 1 \in S
      <4>1. Max(S) = m + 1
        BY <3>1, MaxOfUpTo
      <4>2. h[S \ {m + 1}] = g[S \ {m + 1}]
        OBVIOUS
      <4> QED
        BY <3>1, <4>1, <4>2
    <3>2. CASE m + 1 \notin S
      <4>1. S \in SUBSET (1..m)
        BY <3>2
      <4>2. h[S] = g[S]
        BY <3>2
      <4>3. ASSUME NEW T, T \subseteq S PROVE h[T] = g[T]
        BY <3>2, <4>1, <4>3
      <4>4. h[S \ {Max(S)}] = g[S \ {Max(S)}]
        <5> HIDE DEF h
        <5> QED
          BY <4>3
      <4>5. g[S] = IF S = {} THEN 0 ELSE g[S \ {Max(S)}] + s[Max(S)]
        BY <2>1, <4>1 DEF IsSum
      <4> QED
        BY <4>2, <4>4, <4>5
    <3> QED
      BY <3>1, <3>2
  <2>3. IsSum(h, s, m + 1)
    <3>1. h = [S \in SUBSET (1..(m + 1)) |-> h[S]]
      OBVIOUS
    <3> HIDE DEF h
    <3> QED
      BY <2>2, <3>1 DEF IsSum
  <2> QED
    BY <2>3
<1>3. N = Nat
  <2>1. N \subseteq Nat /\ 0 \in N /\ \A m \in N : m + 1 \in N
    <3> HIDE DEF P
    <3> QED
      BY <1>1, <1>2
  <2> HIDE DEF N
  <2> QED
    BY <2>1, AllNumbers
<1> QED
  BY <1>3

LEMMA TotalIsSum ==
  ASSUME NEW s \in Seq(Int)
  PROVE  Total(s) = (CHOOSE g : IsSum(g, s, Len(s)))[1..Len(s)]
<1>1. DOMAIN s = 1..Len(s)
  OBVIOUS
<1> QED
  BY <1>1 DEF Total, FoldLeft, MapThenFoldSet, IsSum

Agree(s, t, n) == \A i \in 1..n : s[i] = t[i]

\* Sums of the same numbers are the same.
LEMMA SumsAgree ==
  ASSUME NEW s, NEW t, NEW n \in Nat, NEW g, NEW h,
         IsSum(g, s, n), IsSum(h, t, n + 1), Agree(s, t, n)
  PROVE  g[1..n] = h[1..n]
<1> DEFINE P(m) == \A S \in SUBSET (1..n) : S \subseteq 1..m => g[S] = h[S]
           N == {m \in Nat : P(m)}
<1>0. \A S \in SUBSET (1..n) :
         /\ g[S] = IF S = {} THEN 0 ELSE g[S \ {Max(S)}] + s[Max(S)]
         /\ h[S] = IF S = {} THEN 0 ELSE h[S \ {Max(S)}] + t[Max(S)]
  <2>1. \A S \in SUBSET (1..n) : S \in SUBSET (1..(n + 1))
    OBVIOUS
  <2> QED
    BY <2>1 DEF IsSum
<1>1. P(0)
  <2>1. \A S : S \subseteq 1..0 => S = {}
    OBVIOUS
  <2> QED
    BY <1>0, <2>1
<1>2. ASSUME NEW m \in Nat, P(m) PROVE P(m + 1)
  <2>1. SUFFICES ASSUME NEW S \in SUBSET (1..n), S \subseteq 1..(m + 1), m + 1 \in S
                 PROVE  g[S] = h[S]
    <3>1. \A S : S \subseteq 1..(m + 1) /\ m + 1 \notin S => S \subseteq 1..m
      OBVIOUS
    <3> QED
      BY <1>2, <3>1
  <2>2. Max(S) = m + 1
    BY <2>1, MaxOfUpTo
  <2>3. s[m + 1] = t[m + 1]
    BY <2>1 DEF Agree
  <2>4. S \ {m + 1} \in SUBSET (1..n) /\ S \ {m + 1} \subseteq 1..m
    BY <2>1
  <2>5. g[S \ {m + 1}] = h[S \ {m + 1}]
    BY <1>2, <2>4
  <2> QED
    BY <1>0, <2>1, <2>2, <2>3, <2>5
<1>3. N = Nat
  <2>1. N \subseteq Nat /\ 0 \in N /\ \A m \in N : m + 1 \in N
    <3> HIDE DEF P
    <3> QED
      BY <1>1, <1>2
  <2> HIDE DEF N
  <2> QED
    BY <2>1, AllNumbers
<1> QED
  <2>1. n \in N
    BY <1>3
  <2> QED
    BY <2>1

\* Total adds up a sequence from the left, as the loops of the code do.
LEMMA TotalOfNone == Total(<<>>) = 0
<1> DEFINE g == CHOOSE g : IsSum(g, <<>>, 0)
<1>1. IsSum(g, <<>>, 0)
  BY SumsExist, Zenon
<1>2. Total(<<>>) = g[1..0]
  <2>1. <<>> \in Seq(Int) /\ Len(<<>>) = 0
    OBVIOUS
  <2> QED
    BY <2>1, TotalIsSum
<1>3. 1..0 = {}
  OBVIOUS
<1> HIDE DEF g
<1> QED
  BY <1>1, <1>2, <1>3 DEF IsSum

LEMMA TotalOfAppend ==
  ASSUME NEW s \in Seq(Int), NEW x \in Int
  PROVE  Total(Append(s, x)) = Total(s) + x
<1> DEFINE t == Append(s, x)
           n == Len(s)
           g == CHOOSE g : IsSum(g, s, n)
           h == CHOOSE h : IsSum(h, t, n + 1)
<1>1. n \in Nat /\ t \in Seq(Int) /\ Len(t) = n + 1 /\ t[n + 1] = x
      /\ \A i \in 1..n : t[i] = s[i]
  OBVIOUS
<1> HIDE DEF n, t
<1>2. /\ n + 1 \in Nat /\ n + 1 \in 1..(n + 1) /\ 1..n \subseteq 1..(n + 1)
      /\ 1..(n + 1) \ {n + 1} = 1..n
  <2>1. \A i : i \in 1..(n + 1) /\ i # n + 1 <=> i \in 1..n
    BY <1>1
  <2> QED
    BY <1>1, <2>1
<1>3. IsSum(g, s, n)
  BY <1>1, SumsExist, Zenon
<1>4. IsSum(h, t, n + 1)
  BY <1>2, SumsExist, Zenon
<1>5. Total(s) = g[1..n]
  BY TotalIsSum DEF n
<1>6. Total(t) = h[1..(n + 1)]
  BY <1>1, TotalIsSum
<1> HIDE DEF g, h
<1>7. g[1..n] = h[1..n]
  <2>1. Agree(s, t, n)
    BY <1>1 DEF Agree
  <2>2. n \in Nat
    BY <1>1
  <2> QED
    BY <1>3, <1>4, <2>1, <2>2, SumsAgree
<1>8. Max(1..(n + 1)) = n + 1
  BY <1>1, <1>2, MaxOfUpTo
<1>9. h[1..(n + 1)] = h[1..n] + t[n + 1]
  BY <1>2, <1>4, <1>8 DEF IsSum
<1> QED
  BY <1>1, <1>5, <1>6, <1>7, <1>9 DEF t

LEMMA TotalIsInt == \A s \in Seq(Int) : Total(s) \in Int
<1> DEFINE N == {n \in Nat : \A s \in Seq(Int) : Len(s) = n => Total(s) \in Int}
<1>1. 0 \in N
  <2>1. \A s \in Seq(Int) : Len(s) = 0 => s = <<>>
    OBVIOUS
  <2> QED
    BY <2>1, TotalOfNone
<1>2. ASSUME NEW n \in N PROVE n + 1 \in N
  <2>1. ASSUME NEW s \in Seq(Int), Len(s) = n + 1 PROVE Total(s) \in Int
    <3>0. n \in Nat
      OBVIOUS
    <3> DEFINE f == SubSeq(s, 1, n)
    <3>1. f \in Seq(Int) /\ Len(f) = n /\ \A i \in 1..n : f[i] = s[i]
      BY <2>1, <3>0
    <3>2. s[n + 1] \in Int
      BY <2>1, <3>0
    <3>3. s = Append(f, s[n + 1])
      <4> HIDE DEF f
      <4> QED
        BY <2>1, <3>0, <3>1, <3>2
    <3>4. Total(f) \in Int
      BY <1>2, <3>1
    <3> HIDE DEF f
    <3>5. Total(Append(f, s[n + 1])) = Total(f) + s[n + 1]
      BY <3>1, <3>2, TotalOfAppend
    <3>6. Total(s) = Total(f) + s[n + 1]
      BY <3>3, <3>5
    <3> QED
      BY <3>2, <3>4, <3>6
  <2> QED
    BY <2>1
<1>3. N \subseteq Nat
  OBVIOUS
<1>4. N = Nat
  <2> HIDE DEF N
  <2> QED
    BY <1>1, <1>2, <1>3, AllNumbers
<1>5. ASSUME NEW s \in Seq(Int) PROVE Total(s) \in Int
  <2>1. Len(s) \in N
    BY <1>4
  <2> QED
    BY <2>1
<1> QED
  BY <1>5

------------------------------------------------------------------------------
(* What a points file is worth *)

Tokens == Int \cup {Word, Slash}

LEMMA PointsOfLine ==
  ASSUME NEW line \in Seq(Tokens)
  PROVE  LinePoints(line) \in Int
<1>1. DOMAIN line = 1..Len(line) /\ \A i \in DOMAIN line : IsNumber(line[i]) => line[i] \in Int
  BY DEF IsNumber, Tokens
<1>2. NumbersTotal(line) \in Int
  <2> DEFINE s == [i \in DOMAIN line |-> IF IsNumber(line[i]) THEN line[i] ELSE 0]
  <2>1. s \in Seq(Int)
    BY <1>1
  <2> HIDE DEF s
  <2>2. Total(s) \in Int
    BY <2>1, TotalIsInt
  <2> QED
    BY <2>2 DEF NumbersTotal, s
<1>3. ASSUME BeforeSlash(line) # {} PROVE line[Min(BeforeSlash(line))] \in Int
  <2>1. BeforeSlash(line) \subseteq Nat /\ BeforeSlash(line) \subseteq Numbers(line)
    BY <1>1 DEF BeforeSlash, Numbers
  <2>2. Min(BeforeSlash(line)) \in Numbers(line)
    BY <1>3, <2>1, MinIsIn
  <2> QED
    BY <1>1, <2>2 DEF Numbers
<1> QED
  BY <1>2, <1>3 DEF LinePoints

LEMMA PointsOfLines ==
  ASSUME NEW file \in Seq(Seq(Tokens))
  PROVE  [i \in DOMAIN file |-> LinePoints(file[i])] \in Seq(Int)
<1>1. \A i \in DOMAIN file : LinePoints(file[i]) \in Int
  <2>1. \A i \in DOMAIN file : file[i] \in Seq(Tokens)
    OBVIOUS
  <2> QED
    BY <2>1, PointsOfLine
<1> QED
  BY <1>1

\* Any points file is worth a number, or is refused; and it is refused only for
\* a line that has text and no number.
THEOREM PointsAreNumbers ==
  ASSUME NEW file \in Seq(Seq(Tokens))
  PROVE  /\ FilePoints(file) \in Int \cup {NoScore}
         /\ FilePoints(file) = NoScore <=> \E i \in DOMAIN file : Unscored(file[i])
<1> DEFINE p == [i \in DOMAIN file |-> LinePoints(file[i])]
<1>1. Total(p) \in Int
  BY PointsOfLines, TotalIsInt
<1> HIDE DEF p
<1>2. NoScore \notin Int
  BY TokensAssumption
<1>3. FilePoints(file) = IF \E i \in DOMAIN file : Unscored(file[i]) THEN NoScore ELSE Total(p)
  BY DEF FilePoints, p
<1> QED
  BY <1>1, <1>2, <1>3

\* The fold is the loop of _parse_points_file: from 0, a line that is read adds
\* what it is worth to what the lines before it are.
THEOREM PointsAddUp ==
  ASSUME NEW file \in Seq(Seq(Tokens)), NEW line \in Seq(Tokens),
         FilePoints(Append(file, line)) # NoScore
  PROVE  /\ FilePoints(<<>>) = 0
         /\ FilePoints(Append(file, line)) = FilePoints(file) + LinePoints(line)
<1> DEFINE longer == Append(file, line)
           p == [i \in DOMAIN file |-> LinePoints(file[i])]
           q == [i \in DOMAIN longer |-> LinePoints(longer[i])]
<1>1. /\ longer \in Seq(Seq(Tokens)) /\ Len(longer) = Len(file) + 1
      /\ DOMAIN longer = 1..Len(longer) /\ DOMAIN file = 1..Len(file) /\ Len(file) \in Nat
      /\ \A i \in DOMAIN file : longer[i] = file[i]
      /\ longer[Len(file) + 1] = line
  OBVIOUS
<1> HIDE DEF longer
<1>2. p \in Seq(Int) /\ LinePoints(line) \in Int
  BY PointsOfLines, PointsOfLine
<1>3. q = Append(p, LinePoints(line))
  <2>1. q \in Seq(Int)
    BY <1>1, PointsOfLines
  <2>2. DOMAIN q = 1..(Len(file) + 1) /\ DOMAIN p = 1..Len(file)
    BY <1>1
  <2>3. \A i \in 1..Len(file) : i \in 1..(Len(file) + 1)
    BY <1>1
  <2>4. \A i \in 1..Len(file) : q[i] = p[i]
    <3> SUFFICES ASSUME NEW i \in 1..Len(file) PROVE q[i] = p[i]
      OBVIOUS
    <3>1. q[i] = LinePoints(longer[i]) /\ p[i] = LinePoints(file[i]) /\ longer[i] = file[i]
      BY <1>1, <2>3
    <3> QED
      BY <3>1
  <2>5. q[Len(file) + 1] = LinePoints(line)
    BY <1>1
  <2> HIDE DEF p, q
  <2> QED
    BY <1>1, <1>2, <2>1, <2>2, <2>4, <2>5
<1> HIDE DEF p, q
<1>4. Total(q) = Total(p) + LinePoints(line)
  BY <1>2, <1>3, TotalOfAppend
<1>5. \A i \in DOMAIN longer : ~Unscored(longer[i])
  BY DEF FilePoints, longer
<1>6. FilePoints(longer) = Total(q)
  BY <1>5 DEF FilePoints, q
<1>7. FilePoints(file) = Total(p)
  <2>1. \A i \in DOMAIN file : ~Unscored(file[i])
    BY <1>1, <1>5
  <2> QED
    BY <2>1 DEF FilePoints, p
<1>8. FilePoints(<<>>) = 0
  <2>1. DOMAIN <<>> = {} /\ [i \in DOMAIN <<>> |-> LinePoints(<<>>[i])] = <<>>
    OBVIOUS
  <2> QED
    BY <2>1, TotalOfNone DEF FilePoints
<1> QED
  BY <1>4, <1>6, <1>7, <1>8 DEF longer

LEMMA ScoreOfLine ==
  ASSUME NEW S, NEW line \in Seq(S), StatesScore(line)
  PROVE  /\ ~Unscored(line)
         /\ LinePoints(line) =
              IF line = <<>> THEN 0 ELSE CHOOSE x \in Scores(line) : TRUE
<1>1. CASE line = <<>>
  BY <1>1 DEF Unscored, LinePoints
<1>2. ASSUME line # <<>>
      PROVE  /\ Numbers(line) # {}
             /\ Slash \in ToSet(line) => \E i \in DOMAIN line : BeforeSlash(line) = {i}
  BY <1>2 DEF StatesScore
<1>3. CASE line # <<>> /\ Slash \notin ToSet(line)
  <2>1. Scores(line) = {NumbersTotal(line)}
    BY <1>3 DEF Scores
  <2>2. LinePoints(line) = NumbersTotal(line)
    BY <1>3 DEF LinePoints
  <2> HIDE DEF NumbersTotal
  <2> QED
    BY <1>2, <1>3, <2>1, <2>2 DEF Unscored
<1>4. CASE line # <<>> /\ Slash \in ToSet(line)
  <2>1. PICK i \in DOMAIN line : BeforeSlash(line) = {i}
    BY <1>2, <1>4
  <2>2. DOMAIN line = 1..Len(line) /\ Len(line) \in Nat
    OBVIOUS
  <2>3. i \in Numbers(line) /\ \A j \in 1..i : line[j] # Slash
    BY <2>1 DEF BeforeSlash
  <2>4. Min(BeforeSlash(line)) = i
    BY <2>1, <2>2 DEF Min
  <2>5. LinePoints(line) = line[i]
    BY <1>4, <2>1, <2>4 DEF LinePoints
  <2>6. ASSUME NEW j \in Numbers(line), \A k \in 1..(j - 1) : line[k] = Word
        PROVE  j = i
    <3>1. j \in 1..Len(line) /\ i \in 1..Len(line) /\ IsNumber(line[j]) /\ IsNumber(line[i])
      BY <2>2, <2>3 DEF Numbers
    <3>2. ~(i < j)
      <4>1. SUFFICES ASSUME i < j PROVE FALSE
        OBVIOUS
      <4>2. i \in 1..(j - 1)
        BY <3>1, <4>1, <2>2
      <4> QED
        BY <2>6, <3>1, <4>2 DEF IsNumber
    <3>3. ~(j < i)
      <4>1. SUFFICES ASSUME j < i PROVE FALSE
        OBVIOUS
      <4>2. \A k \in 1..j : k \in 1..i
        BY <3>1, <4>1, <2>2
      <4>3. j \in BeforeSlash(line)
        BY <2>3, <4>2 DEF BeforeSlash
      <4> QED
        BY <2>1, <4>1, <4>3, <3>1, <2>2
    <3> QED
      BY <3>1, <3>2, <3>3, <2>2
  <2>7. \A k \in 1..(i - 1) : line[k] = Word
    <3>1. TAKE k \in 1..(i - 1)
    <3>2. k \in DOMAIN line /\ k \in 1..i /\ i # k /\ \A j \in 1..k : j \in 1..i
      BY <2>2
    <3>3. k \notin Numbers(line)
      <4>1. SUFFICES ASSUME k \in Numbers(line) PROVE FALSE
        OBVIOUS
      <4>2. k \in BeforeSlash(line)
        BY <2>3, <3>2, <4>1 DEF BeforeSlash
      <4> QED
        BY <2>1, <3>2, <4>2
    <3> QED
      BY <2>3, <3>2, <3>3 DEF Numbers, IsNumber
  <2>8. {j \in Numbers(line) : \A k \in 1..(j - 1) : line[k] = Word} = {i}
    BY <2>3, <2>6, <2>7
  <2>9. Scores(line) = {line[i]}
    BY <1>4, <2>8 DEF Scores
  <2> QED
    BY <1>2, <1>4, <2>5, <2>9 DEF Unscored
<1> QED
  BY <1>1, <1>3, <1>4

LEMMA FileIsScores ==
  ASSUME NEW S, NEW files, files \subseteq Seq(Seq(S))
  PROVE  PointsAreTheScores(files)
<1> DEFINE Score(line) == IF line = <<>> THEN 0 ELSE CHOOSE x \in Scores(line) : TRUE
<1>1. SUFFICES ASSUME NEW f \in files, \A i \in DOMAIN f : StatesScore(f[i])
               PROVE  FilePoints(f) = Total([i \in DOMAIN f |-> Score(f[i])])
  BY DEF PointsAreTheScores
<1>2. \A i \in DOMAIN f : f[i] \in Seq(S)
  OBVIOUS
<1>3. \A i \in DOMAIN f : ~Unscored(f[i]) /\ LinePoints(f[i]) = Score(f[i])
  BY <1>1, <1>2, ScoreOfLine
<1> HIDE DEF Score
<1>4. [i \in DOMAIN f |-> LinePoints(f[i])] = [i \in DOMAIN f |-> Score(f[i])]
  BY <1>3
<1>5. FilePoints(f) = Total([i \in DOMAIN f |-> LinePoints(f[i])])
  BY <1>3 DEF FilePoints
<1> QED
  BY <1>4, <1>5

\* Whatever text, maximum or further numbers stand beside them, a points file
\* that states a score on each of its lines is worth the sum of these scores,
\* for files of any length.
THEOREM PointsRead == ReadOrRunSpec => []PointsAreScores
<1>1. ReadOrRun => lines \in PointsFilesToRead
  BY DEF ReadOrRun
<1>2. lines \in PointsFilesToRead /\ [RunOn]_<<vars, lines>> => (lines \in PointsFilesToRead)'
  BY DEF RunOn
<1>3. lines \in PointsFilesToRead => PointsAreScores
  BY FileIsScores, PointsFilesAssumption DEF PointsAreScores
<1> QED
  BY <1>1, <1>2, <1>3, PTL DEF ReadOrRunSpec

\* What is proved of a batch holds beside the parser too.
THEOREM ReadingIsRunning == ReadOrRunSpec => Spec
<1>1. ReadOrRun => Init
  BY DEF ReadOrRun
<1>2. [RunOn]_<<vars, lines>> => [Next]_vars
  BY DEF RunOn
<1> QED
  BY <1>1, <1>2, PTL DEF ReadOrRunSpec, Spec
=============================================================================
