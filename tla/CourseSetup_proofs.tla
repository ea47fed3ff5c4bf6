------------------------- MODULE CourseSetup_proofs -------------------------
(***************************************************************************)
(* Proofs about CourseSetup, for any setups, flow runs, assignments and    *)
(* work packages: a course block names a course that can be graded, setups *)
(* that find a block change nothing, pruning never empties a prefix, a     *)
(* flow run is given the package of the block it loaded, and the listing   *)
(* of CourseListing misses no course, for any documents and page size.     *)
(***************************************************************************)
EXTENDS CourseListing, NumberFacts, SequenceTheorems, TLAPS

------------------------------------------------------------------------------
(* Types *)

LEMMA PlanType ==
  ASSUME NEW given \in Given
  PROVE  ParseMappings(given) \in [Assignments -> Roots \cup {None}]
<1> SUFFICES ASSUME NEW a \in Assignments
             PROVE  ParseMappings(given)[a] \in Roots \cup {None}
  BY DEF ParseMappings
<1> DEFINE its == {i \in DOMAIN given : given[i] # Invalid /\ given[i][1] = a}
<1>1. CASE its = {}
  BY <1>1 DEF ParseMappings
<1>2. CASE its # {}
  <2>1. given \in Seq((Assignments \X Roots) \cup {Invalid})
    BY GivenAssumption
  <2>2. Len(given) \in Nat /\ DOMAIN given = 1..Len(given)
    BY <2>1
  <2>3. Max(its) \in its
    BY <1>2, <2>2, MaxIsIn
  <2>4. given[Max(its)] \in Assignments \X Roots
    BY <2>1, <2>2, <2>3
  <2>5. given[Max(its)][2] \in Roots
    BY <2>4
  <2>6. ParseMappings(given)[a] = given[Max(its)][2]
    BY <1>2 DEF ParseMappings
  <2> QED
    BY <2>5, <2>6
<1> QED
  BY <1>1, <1>2

LEMMA InitType == Init => TypeOK
<1> SUFFICES ASSUME Init PROVE TypeOK
  OBVIOUS
<1> USE DEF Init, NoAssets
<1>1. pkg \in [Setups -> Contents \cup {[w \in Roots |-> Missing]}]
  <2> DEFINE none == [w \in Roots |-> Missing]
  <2>1. pkg = [s \in Setups |-> none]
    OBVIOUS
  <2> HIDE DEF none
  <2> QED
    BY <2>1
<1>2. objects \in [Assignments -> [Files -> Setups \cup {None}]]
  OBVIOUS
<1>3. plan \in [Setups -> [Assignments -> Roots \cup {None}]]
  OBVIOUS
<1>4. pc \in [Setups -> {"idle", "done", "refused", "failed"} \cup Working]
  OBVIOUS
<1>5. got \in [Flows -> [Files -> Setups \cup {None}]]
  OBVIOUS
<1> QED
  BY <1>1, <1>2, <1>3, <1>4, <1>5 DEF TypeOK

\* The assignment whose turn it is, and its work package.
LEMMA TurnType ==
  ASSUME TypeOK, Queued, Provided, NEW s \in Setups, pc[s] \in Turning
  PROVE  /\ Turn(s) \in todo[s] /\ Turn(s) \in Mapped(s) /\ Turn(s) \in Assignments
         /\ Fresh(s) \subseteq Files
<1>1. todo[s] # {} /\ todo[s] \subseteq Mapped(s)
  BY DEF Queued, Shipping
<1>2. todo[s] \subseteq Assignments /\ todo[s] \subseteq Nat
  BY AssignmentsAssumption DEF TypeOK
<1>3. Turn(s) \in todo[s]
  BY <1>1, <1>2, MinIsIn DEF Turn
<1> QED
  BY <1>1, <1>2, <1>3 DEF Provided, Fresh
LEMMA StepType == TypeOK /\ Queued /\ Provided /\ [Next]_vars => TypeOK'
<1> SUFFICES ASSUME TypeOK, Queued, Provided, [Next]_vars PROVE TypeOK'
  OBVIOUS
<1> USE DEF TypeOK, At, GoTo, world, store, prefect, input, setupVars, flowVars
<1> DEFINE Points == {"idle", "done", "refused", "failed"} \cup Working
<1>0. {"refused", "failed", "done"} \subseteq Points /\ Working \subseteq Points
  OBVIOUS
<1> DEFINE Disks == Contents \cup {[w \in Roots |-> Missing]}
<1>1. ASSUME NEW s \in Setups, Refuse(s) PROVE TypeOK'
  BY <1>1 DEF Refuse
<1>2. ASSUME NEW s \in Setups, Begin(s) PROVE TypeOK'
  <2>1. PICK given \in Given, found \in Contents :
          /\ plan' = [plan EXCEPT ![s] = ParseMappings(given)]
          /\ pkg' = [pkg EXCEPT ![s] = found]
    BY <1>2 DEF Begin
  <2>2. plan' \in [Setups -> [Assignments -> Roots \cup {None}]]
    BY <2>1, PlanType
  <2>3. pkg' \in [Setups -> Disks]
    <3>1. found \in Disks /\ pkg \in [Setups -> Disks]
      OBVIOUS
    <3> HIDE DEF Disks
    <3> QED
      BY <2>1, <3>1
  <2>4. overlapped' \subseteq Setups
    BY <1>2 DEF Begin
  <2>5. pc' \in [Setups -> Points]
    BY <1>2 DEF Begin, Working
  <2> QED
    BY <1>2, <2>2, <2>3, <2>4, <2>5 DEF Begin
<1>3. ASSUME NEW s \in Setups, EnsureBlockAbsent(s) PROVE TypeOK'
  <2>1. {plan[s][a] : a \in Mapped(s)} \subseteq Roots
    BY DEF Mapped
  <2>2. left' \in [Setups -> SUBSET (Roots \cup Files)]
    BY <1>3, <2>1 DEF EnsureBlockAbsent
  <2>3. pc' \in [Setups -> Points]
    BY <1>3 DEF EnsureBlockAbsent, Working
  <2> QED
    BY <1>3, <2>2, <2>3 DEF EnsureBlockAbsent
<1>4. ASSUME NEW s \in Setups, NEW w \in Roots, SyncManifest(s, w) PROVE TypeOK'
  <2>1. manifest' \in [Roots -> SUBSET Assignments]
    BY <1>4 DEF SyncManifest, Mapped
  <2> QED
    BY <1>4, <2>1 DEF SyncManifest
<1>5. ASSUME NEW s \in Setups, ManifestsSynced(s) PROVE TypeOK'
  BY <1>5 DEF ManifestsSynced, Working
<1>6. ASSUME NEW s \in Setups, HeadBucket(s) PROVE TypeOK'
  <2>1. pc' \in [Setups -> Points]
    BY <1>6 DEF HeadBucket, Working
  <2> QED
    BY <1>6, <2>1 DEF HeadBucket
<1>7. ASSUME NEW s \in Setups, CreateBucket(s) PROVE TypeOK'
  BY <1>7 DEF CreateBucket, Working
<1>8. ASSUME NEW s \in Setups, SaveAssetsBlock(s) PROVE TypeOK'
  BY <1>8 DEF SaveAssetsBlock, Working, Mapped
<1>9. ASSUME NEW s \in Setups, NextPackage(s) PROVE TypeOK'
  <2>1. CASE todo[s] = {}
    BY <1>9, <2>1 DEF NextPackage, Working
  <2>2. CASE todo[s] # {}
    <3>1. todo[s] \subseteq Mapped(s) /\ Mapped(s) \subseteq Assignments
      BY <1>9 DEF NextPackage, Queued, Shipping, Mapped
    <3>2. Turn(s) \in todo[s]
      BY <2>2, <3>1, MinIsIn, AssignmentsAssumption DEF Turn
    <3>3. pkg[s][plan[s][Turn(s)]] \subseteq Files
      BY <3>1, <3>2 DEF Provided
    <3>4. left' \in [Setups -> SUBSET (Roots \cup Files)]
      BY <1>9, <2>2, <3>3 DEF NextPackage
    <3>5. pc' \in [Setups -> Points]
      BY <1>9, <2>2 DEF NextPackage, Working
    <3> QED
      BY <1>9, <3>4, <3>5 DEF NextPackage
  <2> QED
    BY <2>1, <2>2
<1>10. ASSUME NEW s \in Setups, NEW f \in Files, UploadFile(s, f) PROVE TypeOK'
  <2>1. Turn(s) \in Assignments
    BY <1>10, TurnType DEF UploadFile, Turning
  <2>2. objects' \in [Assignments -> [Files -> Setups \cup {None}]]
    BY <1>10, <2>1 DEF UploadFile
  <2> QED
    BY <1>10, <2>2 DEF UploadFile
<1>11. ASSUME NEW s \in Setups, Uploaded(s) PROVE TypeOK'
  BY <1>11 DEF Uploaded, Working
<1>12. ASSUME NEW s \in Setups, ListStale(s) PROVE TypeOK'
  <2>1. Stored(Turn(s)) \ Fresh(s) \subseteq Files
    BY DEF Stored
  <2> QED
    BY <1>12, <2>1 DEF ListStale, Working
<1>13. ASSUME NEW s \in Setups, DeleteStale(s) PROVE TypeOK'
  <2>1. Turn(s) \in Assignments
    BY <1>13, TurnType DEF DeleteStale, Turning
  <2>2. PICK gone \in SUBSET left[s] :
          /\ objects' = Deleted(s, gone)
          /\ IF gone = left[s]
             THEN GoTo(s, "package") /\ todo' = [todo EXCEPT ![s] = @ \ {Turn(s)}]
             ELSE GoTo(s, "failed") /\ todo' = [todo EXCEPT ![s] = {}]
    BY <1>13 DEF DeleteStale
  <2>3. objects' \in [Assignments -> [Files -> Setups \cup {None}]]
    BY <2>1, <2>2 DEF Deleted
  <2>4. pc' \in [Setups -> Points]
    BY <2>2 DEF Working
  <2>5. todo' \in [Setups -> SUBSET Assignments]
    <3>1. CASE todo' = [todo EXCEPT ![s] = @ \ {Turn(s)}]
      BY <3>1
    <3>2. CASE todo' = [todo EXCEPT ![s] = {}]
      BY <3>2
    <3> QED
      BY <2>2, <3>1, <3>2
  <2> QED
    BY <1>13, <2>3, <2>4, <2>5 DEF DeleteStale
<1>14. ASSUME NEW s \in Setups, VerifyAccess(s) PROVE TypeOK'
  BY <1>14 DEF VerifyAccess, Working
<1>15. ASSUME NEW s \in Setups, SaveCourseBlock(s) PROVE TypeOK'
  BY <1>15 DEF SaveCourseBlock
<1>16. ASSUME NEW s \in Setups, SetupFails(s) PROVE TypeOK'
  BY <1>16 DEF SetupFails
<1>17. ASSUME DeleteBlock PROVE TypeOK'
  BY <1>17 DEF DeleteBlock
<1>18. ASSUME NEW r \in Flows, LoadCourseBlock(r) PROVE TypeOK'
  BY <1>18 DEF LoadCourseBlock
<1>19. ASSUME NEW r \in Flows, ListAssets(r) PROVE TypeOK'
  <2>1. UNION {{b} \X Stored(b) : b \in Prefixed(loaded[r], of[r])}
          \subseteq Assignments \X Files
    <3>1. Prefixed(loaded[r], of[r]) \subseteq Assignments
      BY AssignmentsAssumption DEF Prefixed, Mapped
    <3>2. \A b \in Assignments : Stored(b) \subseteq Files
      BY DEF Stored
    <3> QED
      BY <3>1, <3>2
  <2> QED
    BY <1>19, <2>1 DEF ListAssets
<1>20. ASSUME NEW r \in Flows, NEW b \in Assignments, NEW f \in Files, ReadAsset(r, b, f)
       PROVE  TypeOK'
  <2>1. got' \in [Flows -> [Files -> Setups \cup {None}]]
    <3>1. CASE got' = got
      BY <3>1
    <3>2. CASE got' = [got EXCEPT ![r][f] = objects[b][f]]
      <4>1. objects[b][f] \in Setups \cup {None}
        OBVIOUS
      <4> QED
        BY <3>2, <4>1
    <3> QED
      BY <1>20, <3>1, <3>2 DEF ReadAsset
  <2> QED
    BY <1>20, <2>1 DEF ReadAsset
<1>21. ASSUME NEW r \in Flows, AssetsRead(r) \/ ReadFails(r) PROVE TypeOK'
  <2>1. CASE AssetsRead(r)
    BY <2>1 DEF AssetsRead
  <2>2. CASE ReadFails(r)
    BY <2>2 DEF ReadFails
  <2> QED
    BY <1>21, <2>1, <2>2
<1>22. CASE UNCHANGED vars
  BY <1>22 DEF vars
<1> QED
  BY <1>1, <1>2, <1>3, <1>4, <1>5, <1>6, <1>7, <1>8, <1>9, <1>10, <1>11, <1>12, <1>13,
     <1>14, <1>15, <1>16, <1>17, <1>18, <1>19, <1>20, <1>21, <1>22
  DEF Next, Setup, Download
------------------------------------------------------------------------------
(* Who is at work *)

\* A step of one setup leaves the others where they are, and none that is
\* through or under way has its plan changed.
LEMMA OthersStay ==
  ASSUME TypeOK, NEW s \in Setups, Setup(s), NEW t \in Setups, t # s
  PROVE  /\ pc'[t] = pc[t] /\ plan'[t] = plan[t] /\ pkg'[t] = pkg[t]
         /\ todo'[t] = todo[t] /\ left'[t] = left[t]
<1> USE DEF TypeOK, At, GoTo, world, store, prefect, input
<1>1. CASE Refuse(s) \/ Begin(s)
  BY <1>1 DEF Refuse, Begin
<1>2. CASE EnsureBlockAbsent(s)
  BY <1>2 DEF EnsureBlockAbsent
<1>3. CASE (\E w \in Roots : SyncManifest(s, w)) \/ ManifestsSynced(s) \/ HeadBucket(s)
  BY <1>3 DEF SyncManifest, ManifestsSynced, HeadBucket
<1>4. CASE CreateBucket(s) \/ SaveAssetsBlock(s)
  BY <1>4 DEF CreateBucket, SaveAssetsBlock
<1>5. CASE NextPackage(s)
  BY <1>5 DEF NextPackage
<1>6. CASE (\E f \in Files : UploadFile(s, f)) \/ Uploaded(s) \/ ListStale(s)
  BY <1>6 DEF UploadFile, Uploaded, ListStale
<1>7. CASE DeleteStale(s)
  BY <1>7 DEF DeleteStale
<1>8. CASE VerifyAccess(s) \/ SaveCourseBlock(s) \/ SetupFails(s)
  BY <1>8 DEF VerifyAccess, SaveCourseBlock, SetupFails
<1> QED
  BY <1>1, <1>2, <1>3, <1>4, <1>5, <1>6, <1>7, <1>8 DEF Setup

LEMMA OwnInputStays ==
  ASSUME TypeOK, NEW s \in Setups, Setup(s), pc[s] # "idle"
  PROVE  UNCHANGED <<plan, pkg, overlapped>>
  BY DEF Setup, Refuse, Begin, EnsureBlockAbsent, SyncManifest, ManifestsSynced, HeadBucket,
         CreateBucket, SaveAssetsBlock, NextPackage, UploadFile, Uploaded, ListStale,
         DeleteStale, VerifyAccess, SaveCourseBlock, SetupFails, At, input, world

LEMMA OverlapsGrow == TypeOK /\ [Next]_vars => overlapped \subseteq overlapped'
<1> SUFFICES ASSUME TypeOK, [Next]_vars PROVE overlapped \subseteq overlapped'
  OBVIOUS
<1>1. ASSUME NEW s \in Setups, Setup(s) PROVE overlapped \subseteq overlapped'
  <2>1. CASE pc[s] # "idle"
    BY <1>1, <2>1, OwnInputStays
  <2>2. CASE pc[s] = "idle"
    BY <1>1, <2>2 DEF Setup, Refuse, Begin, EnsureBlockAbsent, SyncManifest, ManifestsSynced,
      HeadBucket, CreateBucket, SaveAssetsBlock, NextPackage, UploadFile, Uploaded, ListStale,
      DeleteStale, VerifyAccess, SaveCourseBlock, SetupFails, At, input, world, Working
  <2> QED
    BY <2>1, <2>2
<1>2. CASE DeleteBlock \/ \E r \in Flows : Download(r)
  BY <1>2 DEF DeleteBlock, Download, LoadCourseBlock, ListAssets, ReadAsset, AssetsRead,
    ReadFails, setupVars, input
<1> QED
  BY <1>1, <1>2 DEF Next, vars, setupVars, input
LEMMA AtWorkBefore ==
  ASSUME TypeOK, NEW s \in Setups, Setup(s)
  PROVE  /\ pc[s] # "done"
         /\ pc'[s] \in Working => pc[s] \in Working \/ Begin(s)
<1>1. pc[s] \in {"idle"} \cup Working
  BY DEF Setup, Refuse, Begin, EnsureBlockAbsent, SyncManifest, ManifestsSynced, HeadBucket,
         CreateBucket, SaveAssetsBlock, NextPackage, UploadFile, Uploaded, ListStale,
         DeleteStale, VerifyAccess, SaveCourseBlock, SetupFails, At, Working
<1>2. CASE pc[s] = "idle"
  BY <1>2 DEF TypeOK, Setup, Refuse, Begin, EnsureBlockAbsent, SyncManifest, ManifestsSynced,
    HeadBucket, CreateBucket, SaveAssetsBlock, NextPackage, UploadFile, Uploaded, ListStale,
    DeleteStale, VerifyAccess, SaveCourseBlock, SetupFails, At, GoTo, Working
<1> QED
  BY <1>1, <1>2 DEF Working

\* The flow runs and the operator leave the setups alone.
LEMMA OthersLeaveSetups ==
  ASSUME DeleteBlock \/ (\E r \in Flows : Download(r)) \/ UNCHANGED vars
  PROVE  UNCHANGED <<pc, plan, pkg, todo, left, overlapped, objects, bucket, assets, manifest>>
  BY DEF DeleteBlock, Download, LoadCourseBlock, ListAssets, ReadAsset, AssetsRead, ReadFails,
         setupVars, input, world, store, prefect, vars

\* Only a setup that is through changes the block, other than to None.
LEMMA BlockSaved ==
  ASSUME TypeOK, NEW s \in Setups, Setup(s)
  PROVE  /\ loaded' = loaded
         /\ block' = block \/ (SaveCourseBlock(s) /\ block' = s /\ pc'[s] = "done")
<1> USE DEF TypeOK, At, GoTo, world, store, prefect, flowVars
<1>1. CASE SaveCourseBlock(s)
  BY <1>1 DEF SaveCourseBlock
<1>2. CASE ~SaveCourseBlock(s)
  BY <1>2 DEF Setup, Refuse, Begin, EnsureBlockAbsent, SyncManifest, ManifestsSynced,
    HeadBucket, CreateBucket, SaveAssetsBlock, NextPackage, UploadFile, Uploaded, ListStale,
    DeleteStale, VerifyAccess, SetupFails
<1> QED
  BY <1>1, <1>2

LEMMA AloneStep == TypeOK /\ Alone /\ [Next]_vars => Alone'
<1> SUFFICES ASSUME TypeOK, Alone, [Next]_vars,
                    NEW t \in Setups, NEW u \in Setups, t # u,
                    pc'[t] \in Working, pc'[u] \in Working
             PROVE  {t, u} \subseteq overlapped'
  BY DEF Alone
<1>1. overlapped \subseteq overlapped'
  BY OverlapsGrow
<1>2. ASSUME NEW s \in Setups, Setup(s) PROVE {t, u} \subseteq overlapped'
  <2>1. CASE pc[t] \in Working /\ pc[u] \in Working
    BY <1>1, <2>1 DEF Alone
  <2>2. \A v, w \in Setups :
          v # w /\ pc'[v] \in Working /\ pc'[w] \in Working /\ pc[v] \notin Working =>
            {v, w} \subseteq overlapped'
    <3> SUFFICES ASSUME NEW v \in Setups, NEW w \in Setups, v # w,
                        pc'[v] \in Working, pc'[w] \in Working, pc[v] \notin Working
                 PROVE  {v, w} \subseteq overlapped'
      OBVIOUS
    <3>1. v = s
      BY <1>2, OthersStay
    <3>2. Begin(s)
      BY <1>2, <3>1, AtWorkBefore
    <3>3. pc[w] \in Working
      BY <1>2, <3>1, OthersStay
    <3>4. w \in {x \in Setups : pc[x] \in Working}
      BY <3>3
    <3> QED
      BY <3>1, <3>2, <3>4 DEF Begin
  <2> QED
    BY <2>1, <2>2
<1>3. CASE DeleteBlock \/ (\E r \in Flows : Download(r)) \/ UNCHANGED vars
  BY <1>1, <1>3, OthersLeaveSetups DEF Alone
<1> QED
  BY <1>2, <1>3 DEF Next

LEMMA SettledStep == TypeOK /\ Settled /\ [Next]_vars => Settled'
<1> SUFFICES ASSUME TypeOK, Settled, [Next]_vars PROVE Settled'
  OBVIOUS
<1> USE DEF Settled, At
<1>1. ASSUME NEW s \in Setups, Setup(s) PROVE Settled'
  <2>1. \A t \in Setups : pc[t] = "done" => pc'[t] = "done"
    BY <1>1, OthersStay, AtWorkBefore
  <2>2. block' # None => pc'[block'] = "done"
    BY <1>1, <2>1, BlockSaved DEF TypeOK
  <2>3. \A r \in Flows : loaded'[r] # None => pc'[loaded'[r]] = "done"
    BY <1>1, <2>1, BlockSaved DEF TypeOK
  <2> QED
    BY <2>2, <2>3
<1>2. CASE DeleteBlock
  BY <1>2 DEF DeleteBlock, setupVars, flowVars
<1>3. ASSUME NEW r \in Flows, Download(r) PROVE Settled'
  <2>1. block' = block /\ pc' = pc
    BY <1>3 DEF Download, LoadCourseBlock, ListAssets, ReadAsset, AssetsRead, ReadFails,
      setupVars, world, prefect
  <2>2. loaded' = loaded \/ (loaded' = [loaded EXCEPT ![r] = block] /\ block # None)
    BY <1>3 DEF Download, LoadCourseBlock, ListAssets, ReadAsset, AssetsRead, ReadFails
  <2> QED
    BY <2>1, <2>2 DEF TypeOK
<1>4. CASE UNCHANGED vars
  BY <1>4 DEF vars, setupVars, flowVars, world, prefect
<1> QED
  BY <1>1, <1>2, <1>3, <1>4 DEF Next

LEMMA BlockedStep == TypeOK /\ Alone /\ Blocked /\ [Next]_vars => Blocked'
<1> SUFFICES ASSUME TypeOK, Alone, Blocked, [Next]_vars,
                    block' \notin overlapped' \cup {None},
                    NEW t \in Setups, pc'[t] \in Working
             PROVE  pc'[t] = "check"
  BY DEF Blocked, At
<1>1. overlapped \subseteq overlapped'
  BY OverlapsGrow
<1>2. ASSUME NEW s \in Setups, Setup(s), block' = block PROVE pc'[t] = "check"
  <2>1. CASE t # s
    BY <1>1, <1>2, <2>1, OthersStay DEF Blocked, At
  <2>2. CASE t = s /\ Begin(s)
    BY <2>2 DEF Begin, GoTo, TypeOK
  <2>3. CASE t = s /\ ~Begin(s)
    <3>1. pc[s] = "check"
      BY <1>1, <1>2, <2>3, AtWorkBefore DEF Blocked, At
    <3>2. EnsureBlockAbsent(s) \/ SetupFails(s)
      BY <1>2, <2>3, <3>1 DEF Setup, Refuse, SyncManifest, ManifestsSynced, HeadBucket,
        CreateBucket, SaveAssetsBlock, NextPackage, UploadFile, Uploaded, ListStale,
        DeleteStale, VerifyAccess, SaveCourseBlock, At
    <3>3. block # None
      BY <1>2
    <3>4. pc'[s] \in {"refused", "failed"}
      BY <3>2, <3>3 DEF EnsureBlockAbsent, SetupFails, GoTo, TypeOK
    <3> QED
      BY <2>3, <3>4 DEF Working
  <2> QED
    BY <2>1, <2>2, <2>3
<1>3. ASSUME NEW s \in Setups, Setup(s), SaveCourseBlock(s), block' = s
      PROVE  pc'[t] = "check"
  <2>1. pc[s] \in Working /\ pc'[s] \notin Working
    BY <1>3 DEF SaveCourseBlock, At, GoTo, TypeOK, Working
  <2>2. t # s /\ pc[t] \in Working
    BY <1>3, <2>1, OthersStay
  <2>3. s \in overlapped
    BY <2>1, <2>2 DEF Alone
  <2> QED
    BY <1>1, <1>3, <2>3
<1>4. CASE DeleteBlock
  BY <1>4 DEF DeleteBlock
<1>5. CASE (\E r \in Flows : Download(r)) \/ UNCHANGED vars
  <2>1. block' = block
    BY <1>5 DEF Download, LoadCourseBlock, ListAssets, ReadAsset, AssetsRead, ReadFails,
      world, prefect, vars
  <2> QED
    BY <1>1, <1>5, <2>1, OthersLeaveSetups DEF Blocked, At
<1> QED
  BY <1>2, <1>3, <1>4, <1>5, BlockSaved DEF Next
------------------------------------------------------------------------------
(* What a setup has put in place *)

LEMMA InputGiven ==
  ASSUME TypeOK, NEW s \in Setups, Setup(s)
  PROVE  Begin(s) \/ UNCHANGED <<plan, pkg>>
  BY DEF Setup, Refuse, EnsureBlockAbsent, SyncManifest, ManifestsSynced, HeadBucket,
         CreateBucket, SaveAssetsBlock, NextPackage, UploadFile, Uploaded, ListStale,
         DeleteStale, VerifyAccess, SaveCourseBlock, SetupFails, input

LEMMA ProvidedStep == TypeOK /\ Provided /\ [Next]_vars => Provided'
<1> SUFFICES ASSUME TypeOK, Provided, [Next]_vars,
                    NEW t \in Setups, NEW a \in Assignments, plan'[t][a] # None
             PROVE  pkg'[t][plan'[t][a]] \subseteq Files
  BY DEF Provided, Mapped
<1>1. ASSUME plan'[t] = plan[t], pkg'[t] = pkg[t]
      PROVE  pkg'[t][plan'[t][a]] \subseteq Files
  BY <1>1 DEF Provided, Mapped
<1>2. ASSUME Begin(t) PROVE pkg'[t][plan'[t][a]] \subseteq Files
  <2>1. PICK given \in Given, found \in Contents :
          /\ Resolved(ParseMappings(given), found)
          /\ plan' = [plan EXCEPT ![t] = ParseMappings(given)]
          /\ pkg' = [pkg EXCEPT ![t] = found]
    BY <1>2 DEF Begin
  <2>2. plan'[t] = ParseMappings(given) /\ pkg'[t] = found
    BY <2>1 DEF TypeOK
  <2>3. plan'[t][a] \in Roots
    BY <2>2, PlanType
  <2>4. found[plan'[t][a]] # Missing
    BY <2>1, <2>2 DEF Resolved
  <2>5. found[plan'[t][a]] \in (SUBSET Files) \cup {Missing}
    BY <2>3, ContentsAssumption
  <2> QED
    BY <2>2, <2>4, <2>5
<1>3. ASSUME NEW s \in Setups, Setup(s) PROVE pkg'[t][plan'[t][a]] \subseteq Files
  BY <1>1, <1>2, <1>3, OthersStay, InputGiven
<1>4. CASE DeleteBlock \/ (\E r \in Flows : Download(r)) \/ UNCHANGED vars
  BY <1>1, <1>4, OthersLeaveSetups
<1> QED
  BY <1>3, <1>4 DEF Next

LEMMA WorldGrows ==
  ASSUME TypeOK, [Next]_vars
  PROVE  /\ bucket => bucket'
         /\ assets => assets'
         /\ \A w \in Roots : manifest[w] \subseteq manifest'[w]
<1> USE DEF TypeOK, world, store, prefect
<1>1. ASSUME NEW s \in Setups, Setup(s)
      PROVE  /\ bucket => bucket'
             /\ assets => assets'
             /\ manifest' = manifest \/ \E w \in Roots : SyncManifest(s, w)
  BY <1>1 DEF Setup, Refuse, Begin, EnsureBlockAbsent, SyncManifest, ManifestsSynced, HeadBucket,
    CreateBucket, SaveAssetsBlock, NextPackage, UploadFile, Uploaded, ListStale,
    DeleteStale, VerifyAccess, SaveCourseBlock, SetupFails
<1>2. ASSUME NEW s \in Setups, NEW v \in Roots, SyncManifest(s, v)
      PROVE  \A w \in Roots : manifest[w] \subseteq manifest'[w]
  BY <1>2 DEF SyncManifest
<1>3. CASE DeleteBlock \/ (\E r \in Flows : Download(r)) \/ UNCHANGED vars
  BY <1>3, OthersLeaveSetups
<1> QED
  BY <1>1, <1>2, <1>3 DEF Next

LEMMA StagedStep == TypeOK /\ Staged /\ [Next]_vars => Staged'
<1> DEFINE Ready(t) ==
      /\ pc[t] \in {"assets", "done"} \cup Shipping => bucket
      /\ pc[t] \in {"done"} \cup Shipping => assets
      /\ At(t, "manifest") => \A a \in Mapped(t) : plan[t][a] \in left[t] \/ Recorded(t, a)
      /\ pc[t] \in {"bucket", "create", "assets", "done"} \cup Shipping =>
           \A a \in Mapped(t) : Recorded(t, a)
<1> SUFFICES ASSUME TypeOK, Staged, [Next]_vars, NEW t \in Setups PROVE Ready(t)'
  BY DEF Staged
<1>0. Ready(t)
  BY DEF Staged
<1> USE DEF At
<1>1. ASSUME pc'[t] = pc[t], plan'[t] = plan[t], left'[t] = left[t] PROVE Ready(t)'
  <2>1. Mapped(t)' = Mapped(t)
    BY <1>1 DEF Mapped
  <2>2. \A a \in Mapped(t) : Recorded(t, a) => Recorded(t, a)'
    BY <1>1, WorldGrows DEF Mapped, Recorded, TypeOK
  <2> QED
    BY <1>0, <1>1, <2>1, <2>2, WorldGrows
<1>2. ASSUME pc'[t] \in {"check", "refused", "failed"} PROVE Ready(t)'
  BY <1>2 DEF Shipping, Turning
<1>3. ASSUME Setup(t) PROVE Ready(t)'
  <2> USE DEF TypeOK, GoTo, world, store, prefect, input
  <2>1. CASE Refuse(t) \/ Begin(t) \/ SetupFails(t)
    BY <1>2, <2>1 DEF Refuse, Begin, SetupFails
  <2>2. CASE EnsureBlockAbsent(t)
    <3>1. CASE block # None
      BY <1>2, <2>2, <3>1 DEF EnsureBlockAbsent
    <3>2. CASE block = None
      <4>1. pc'[t] = "manifest" /\ left'[t] = {plan[t][a] : a \in Mapped(t)} /\ plan' = plan
        BY <2>2, <3>2 DEF EnsureBlockAbsent
      <4>2. \A a \in Mapped(t)' : plan'[t][a] \in left'[t]
        BY <4>1 DEF Mapped
      <4> QED
        BY <4>1, <4>2 DEF Shipping, Turning
    <3> QED
      BY <3>1, <3>2
  <2>3. ASSUME NEW w \in Roots, SyncManifest(t, w) PROVE Ready(t)'
    <3>1. /\ pc[t] = "manifest" /\ pc'[t] = "manifest" /\ plan' = plan
          /\ left'[t] = left[t] \ {w}
          /\ manifest' = [manifest EXCEPT ![w] = @ \cup {a \in Mapped(t) : plan[t][a] = w}]
      BY <2>3 DEF SyncManifest
    <3>2. ASSUME NEW a \in Mapped(t)
          PROVE  plan'[t][a] \in left'[t] \/ Recorded(t, a)'
      <4>1. plan[t][a] \in left[t] \/ Recorded(t, a)
        BY <1>0, <3>1
      <4>2. plan[t][a] \in Roots
        BY DEF Mapped
      <4>3. CASE plan[t][a] = w
        BY <3>1, <4>2, <4>3 DEF Recorded
      <4>4. CASE plan[t][a] # w
        BY <3>1, <4>1, <4>2, <4>4 DEF Recorded
      <4> QED
        BY <4>3, <4>4
    <3>3. Mapped(t)' = Mapped(t)
      BY <3>1 DEF Mapped
    <3> QED
      BY <3>1, <3>2, <3>3 DEF Shipping, Turning
  <2>4. CASE ManifestsSynced(t)
    <3>1. pc[t] = "manifest" /\ left[t] = {} /\ pc'[t] = "bucket" /\ UNCHANGED <<plan, manifest>>
      BY <2>4 DEF ManifestsSynced
    <3> QED
      BY <1>0, <3>1 DEF Shipping, Turning, Mapped, Recorded
  <2>5. CASE HeadBucket(t) \/ CreateBucket(t) \/ SaveAssetsBlock(t)
    <3>1. /\ pc[t] \in {"bucket", "create", "assets"}
          /\ UNCHANGED <<plan, manifest>>
          /\ pc'[t] \in {"create", "assets", "package"}
          /\ pc'[t] \in {"assets", "package"} => bucket'
          /\ pc'[t] = "package" => assets'
      <4>1. CASE HeadBucket(t)
        BY <4>1 DEF HeadBucket
      <4>2. CASE CreateBucket(t)
        BY <4>2 DEF CreateBucket
      <4>3. CASE SaveAssetsBlock(t)
        BY <1>0, <4>3 DEF SaveAssetsBlock
      <4> QED
        BY <2>5, <4>1, <4>2, <4>3
    <3> QED
      BY <1>0, <3>1 DEF Shipping, Turning, Mapped, Recorded
  <2>6. ASSUME pc[t] \in Shipping, pc'[t] \in Shipping \cup {"done"},
               UNCHANGED <<plan, manifest, bucket, assets>>
        PROVE  Ready(t)'
    BY <1>0, <2>6 DEF Shipping, Turning, Mapped, Recorded
  <2>7. CASE NextPackage(t)
    BY <2>6, <2>7 DEF NextPackage, Shipping, Turning
  <2>8. CASE (\E f \in Files : UploadFile(t, f)) \/ Uploaded(t) \/ ListStale(t)
    BY <2>6, <2>8 DEF UploadFile, Uploaded, ListStale, Shipping, Turning
  <2>9. CASE DeleteStale(t)
    <3>1. pc[t] = "delete" /\ UNCHANGED <<plan, manifest, bucket, assets>>
      BY <2>9 DEF DeleteStale
    <3>2. pc'[t] \in {"package", "failed"}
      BY <2>9 DEF DeleteStale
    <3> QED
      BY <1>2, <2>6, <3>1, <3>2 DEF Shipping, Turning
  <2>10. CASE VerifyAccess(t) \/ SaveCourseBlock(t)
    BY <2>6, <2>10 DEF VerifyAccess, SaveCourseBlock, Shipping, Turning
  <2> QED
    BY <1>3, <2>1, <2>2, <2>3, <2>4, <2>5, <2>7, <2>8, <2>9, <2>10 DEF Setup
<1>4. ASSUME NEW s \in Setups, Setup(s) PROVE Ready(t)'
  <2> HIDE DEF Ready
  <2> QED
    BY <1>1, <1>3, <1>4, OthersStay
<1>5. CASE DeleteBlock \/ (\E r \in Flows : Download(r)) \/ UNCHANGED vars
  <2> HIDE DEF Ready
  <2> QED
    BY <1>1, <1>5, OthersLeaveSetups
<1> HIDE DEF Ready
<1> QED
  BY <1>4, <1>5 DEF Next
LEMMA QueuedStep == TypeOK /\ Queued /\ [Next]_vars => Queued'
<1> DEFINE Waits(t) ==
      /\ pc[t] \in Shipping => todo[t] \subseteq Mapped(t)
      /\ pc[t] \in Turning => todo[t] # {}
      /\ pc[t] \in {"verify", "save"} => todo[t] = {}
<1> SUFFICES ASSUME TypeOK, Queued, [Next]_vars, NEW t \in Setups PROVE Waits(t)'
  BY DEF Queued
<1>0. Waits(t)
  BY DEF Queued
<1> USE DEF At, Shipping, Turning
<1>1. ASSUME pc'[t] = pc[t], plan'[t] = plan[t], todo'[t] = todo[t] PROVE Waits(t)'
  BY <1>0, <1>1 DEF Mapped
<1>2. ASSUME pc'[t] \notin Shipping PROVE Waits(t)'
  BY <1>2
<1>3. ASSUME Setup(t) PROVE Waits(t)'
  <2> USE DEF TypeOK, GoTo, input
  <2>1. CASE Refuse(t) \/ Begin(t) \/ ManifestsSynced(t) \/ SetupFails(t)
    BY <1>2, <2>1 DEF Refuse, Begin, ManifestsSynced, SetupFails
  <2>2. CASE EnsureBlockAbsent(t)
    <3>1. pc'[t] \in {"manifest", "refused"}
      BY <2>2 DEF EnsureBlockAbsent
    <3> QED
      BY <1>2, <3>1
  <2>3. CASE (\E w \in Roots : SyncManifest(t, w)) \/ (\E f \in Files : UploadFile(t, f))
    BY <1>1, <2>3 DEF SyncManifest, UploadFile
  <2>4. CASE HeadBucket(t) \/ CreateBucket(t)
    <3>1. pc'[t] \in {"assets", "create"}
      BY <2>4 DEF HeadBucket, CreateBucket
    <3> QED
      BY <1>2, <3>1
  <2>5. CASE SaveAssetsBlock(t)
    BY <2>5 DEF SaveAssetsBlock, Mapped
  <2>6. CASE NextPackage(t)
    <3>1. CASE todo[t] = {}
      BY <1>0, <2>6, <3>1 DEF NextPackage, Mapped
    <3>2. CASE todo[t] # {}
      BY <1>0, <2>6, <3>2 DEF NextPackage, Mapped
    <3> QED
      BY <3>1, <3>2
  <2>7. CASE Uploaded(t) \/ ListStale(t)
    BY <1>0, <2>7 DEF Uploaded, ListStale, Mapped
  <2>8. CASE DeleteStale(t)
    <3>1. pc[t] = "delete" /\ plan' = plan
      BY <2>8 DEF DeleteStale
    <3>2. \/ pc'[t] = "failed"
          \/ pc'[t] = "package" /\ todo'[t] = todo[t] \ {Turn(t)}
      BY <2>8 DEF DeleteStale
    <3> QED
      BY <1>0, <1>2, <3>1, <3>2 DEF Mapped
  <2>9. CASE VerifyAccess(t) \/ SaveCourseBlock(t)
    BY <1>0, <2>9 DEF VerifyAccess, SaveCourseBlock, Mapped
  <2> QED
    BY <1>3, <2>1, <2>2, <2>3, <2>4, <2>5, <2>6, <2>7, <2>8, <2>9 DEF Setup
<1> HIDE DEF Waits
<1>4. ASSUME NEW s \in Setups, Setup(s) PROVE Waits(t)'
  BY <1>1, <1>3, <1>4, OthersStay
<1>5. CASE DeleteBlock \/ (\E r \in Flows : Download(r)) \/ UNCHANGED vars
  BY <1>1, <1>5, OthersLeaveSetups
<1> QED
  BY <1>4, <1>5 DEF Next
------------------------------------------------------------------------------
(* What the store holds *)

LEMMA StoreChanges ==
  ASSUME NEW s \in Setups, Setup(s)
  PROVE  objects' = objects \/ (\E f \in Files : UploadFile(s, f)) \/ DeleteStale(s)
  BY DEF Setup, Refuse, Begin, EnsureBlockAbsent, SyncManifest, ManifestsSynced, HeadBucket,
         CreateBucket, SaveAssetsBlock, NextPackage, Uploaded, ListStale, VerifyAccess,
         SaveCourseBlock, SetupFails, world, store

\* Nobody touches the store of a setup that runs alone, or of one whose course
\* block is there.
LEMMA StoreKept ==
  ASSUME TypeOK, Alone, Blocked, NEW s \in Setups, Setup(s),
         NEW t \in Setups \ overlapped, t # s, pc[t] \in Working \/ block = t
  PROVE  objects' = objects
<1> SUFFICES ASSUME pc[s] \in {"upload", "delete"} PROVE FALSE
  BY StoreChanges DEF UploadFile, DeleteStale, At
<1>1. pc[s] \in Working /\ pc[s] # "check"
  BY DEF Working
<1>2. CASE pc[t] \in Working
  BY <1>1, <1>2 DEF Alone
<1>3. CASE block = t
  BY <1>1, <1>3, NoneAssumption DEF Blocked, At
<1> QED
  BY <1>2, <1>3

LEMMA OwnHeld ==
  ASSUME TypeOK, Queued, Provided, NEW t \in Setups, Held(t), Setup(t)
  PROVE  Held(t)'
<1> USE DEF TypeOK, At, GoTo, input, world, store, Shipping, Turning
<1>1. ASSUME pc'[t] \notin Shipping PROVE Held(t)'
  BY <1>1 DEF Held
<1>2. ASSUME UNCHANGED <<plan, pkg>>
      PROVE  Mapped(t)' = Mapped(t) /\ \A a \in Assignments : Package(t, a)' = Package(t, a)
  BY <1>2 DEF Mapped, Package
<1>3. ASSUME UNCHANGED <<plan, pkg>>, todo'[t] = todo[t]
      PROVE  Turn(t)' = Turn(t) /\ Fresh(t)' = Fresh(t)
  BY <1>3 DEF Turn, Fresh
<1>4. Mapped(t) \subseteq Assignments
  BY DEF Mapped
<1>5. CASE Refuse(t) \/ Begin(t) \/ (\E w \in Roots : SyncManifest(t, w)) \/ ManifestsSynced(t)
             \/ SetupFails(t) \/ CreateBucket(t) \/ SaveCourseBlock(t)
  BY <1>1, <1>5
  DEF Refuse, Begin, SyncManifest, ManifestsSynced, SetupFails, CreateBucket, SaveCourseBlock
<1>6. CASE EnsureBlockAbsent(t) \/ HeadBucket(t)
  <2>1. pc'[t] \in {"manifest", "refused", "assets", "create"}
    BY <1>6 DEF EnsureBlockAbsent, HeadBucket
  <2> QED
    BY <1>1, <2>1
<1>7. CASE SaveAssetsBlock(t)
  <2>1. pc'[t] = "package" /\ todo'[t] = Mapped(t) /\ UNCHANGED <<plan, pkg>>
    BY <1>7 DEF SaveAssetsBlock
  <2> QED
    BY <1>2, <2>1 DEF Held
<1>8. CASE NextPackage(t)
  <2>1. /\ pc[t] = "package" /\ todo'[t] = todo[t] /\ UNCHANGED <<plan, pkg, objects>>
        /\ \/ pc'[t] = "verify"
           \/ pc'[t] = "upload" /\ left'[t] = Fresh(t)
    BY <1>8 DEF NextPackage, Fresh
  <2>2. \A a \in Mapped(t) \ todo[t] : Placed(t, a)'
    BY <1>2, <1>4, <2>1 DEF Held, Placed
  <2> QED
    BY <1>2, <1>3, <2>1, <2>2 DEF Held
<1>9. ASSUME NEW f \in Files, UploadFile(t, f) PROVE Held(t)'
  <2>1. /\ pc[t] = "upload" /\ pc'[t] = "upload" /\ todo'[t] = todo[t]
        /\ UNCHANGED <<plan, pkg>>
        /\ left'[t] = left[t] \ {f}
        /\ objects' = [objects EXCEPT ![Turn(t)][f] = t]
    BY <1>9 DEF UploadFile
  <2>2. Turn(t) \in todo[t] /\ Turn(t) \in Assignments /\ Fresh(t) \subseteq Files
    BY <2>1, TurnType
  <2>3. ASSUME NEW a \in Mapped(t) \ todo[t] PROVE Placed(t, a)'
    <3>1. a # Turn(t) /\ a \in Assignments
      BY <1>4, <2>2
    <3>2. objects'[a] = objects[a]
      BY <2>1, <3>1
    <3> QED
      BY <1>2, <2>1, <3>1, <3>2 DEF Held, Placed
  <2>4. ASSUME NEW g \in Fresh(t) \ left'[t] PROVE Sent(t, g)'
    <3>1. objects'[Turn(t)][g] = t
      BY <2>1, <2>2 DEF Held, Sent
    <3> QED
      BY <1>3, <2>1, <3>1 DEF Sent
  <2> QED
    BY <1>2, <1>3, <2>1, <2>3, <2>4 DEF Held
<1>10. CASE Uploaded(t) \/ ListStale(t)
  <2>1. /\ todo'[t] = todo[t] /\ UNCHANGED <<plan, pkg, objects>>
        /\ \/ pc[t] = "upload" /\ left[t] = {} /\ pc'[t] = "list"
           \/ pc[t] = "list" /\ pc'[t] = "delete" /\ left'[t] = Stored(Turn(t)) \ Fresh(t)
    BY <1>10 DEF Uploaded, ListStale
  <2>2. \A a \in Mapped(t) \ todo[t] : Placed(t, a)'
    BY <1>2, <1>4, <2>1 DEF Held, Placed
  <2>3. \A f \in Fresh(t) : Sent(t, f)'
    BY <1>3, <2>1 DEF Held, Sent
  <2>4. Stored(Turn(t))' = Stored(Turn(t))
    BY <1>3, <2>1 DEF Stored
  <2> QED
    BY <1>2, <1>3, <2>1, <2>2, <2>3, <2>4 DEF Held
<1>11. CASE DeleteStale(t)
  <2>1. PICK gone \in SUBSET left[t] :
          /\ objects' = Deleted(t, gone)
          /\ IF gone = left[t]
             THEN GoTo(t, "package") /\ todo' = [todo EXCEPT ![t] = @ \ {Turn(t)}]
             ELSE GoTo(t, "failed") /\ todo' = [todo EXCEPT ![t] = {}]
    BY <1>11 DEF DeleteStale
  <2>2. pc[t] = "delete" /\ UNCHANGED <<plan, pkg>>
    BY <1>11 DEF DeleteStale
  <2>3. CASE gone # left[t]
    <3>1. pc'[t] = "failed"
      BY <2>1, <2>3
    <3> QED
      BY <1>1, <3>1
  <2>4. CASE gone = left[t]
    <3>1. pc'[t] = "package" /\ todo'[t] = todo[t] \ {Turn(t)}
      BY <2>1, <2>4
    <3>2. Turn(t) \in Mapped(t) /\ Turn(t) \in Assignments /\ Fresh(t) \subseteq Files
      BY <2>2, TurnType
    <3>3. \A f \in Fresh(t) : objects[Turn(t)][f] = t
      BY <2>2 DEF Held, Sent
    <3>4. gone = {f \in Files : objects[Turn(t)][f] # None} \ Fresh(t)
      BY <2>2, <2>4 DEF Held, Stored
    <3>5. objects' = [objects EXCEPT ![Turn(t)] =
                        [f \in Files |-> IF f \in gone THEN None ELSE objects[Turn(t)][f]]]
      BY <2>1 DEF Deleted
    <3>6. objects'[Turn(t)] = [f \in Files |-> IF f \in Fresh(t) THEN t ELSE None]
      <4>1. objects'[Turn(t)] =
              [f \in Files |-> IF f \in gone THEN None ELSE objects[Turn(t)][f]]
        BY <3>2, <3>5
      <4>2. \A f \in Files : (IF f \in gone THEN None ELSE objects[Turn(t)][f])
                                = (IF f \in Fresh(t) THEN t ELSE None)
        BY <3>3, <3>4
      <4> QED
        BY <4>1, <4>2
    <3>7. Package(t, Turn(t)) = [f \in Files |-> IF f \in Fresh(t) THEN t ELSE None]
      BY <3>2 DEF Package, Fresh, Mapped
    <3>8. ASSUME NEW a \in Mapped(t) \ todo'[t] PROVE Placed(t, a)'
      <4>1. a \in Assignments
        BY <1>4
      <4>2. CASE a = Turn(t)
        BY <1>2, <2>2, <3>6, <3>7, <4>1, <4>2 DEF Placed
      <4>3. CASE a # Turn(t)
        <5>1. objects'[a] = objects[a] /\ a \notin todo[t]
          BY <3>1, <3>5, <4>1, <4>3
        <5> QED
          BY <1>2, <2>2, <4>1, <5>1 DEF Held, Placed
      <4> QED
        BY <4>2, <4>3
    <3> QED
      BY <1>2, <2>2, <3>1, <3>8 DEF Held
  <2> QED
    BY <2>3, <2>4
<1>12. CASE VerifyAccess(t)
  <2>1. /\ pc[t] = "verify" /\ pc'[t] = "save" /\ todo'[t] = todo[t]
        /\ UNCHANGED <<plan, pkg, objects>>
    BY <1>12 DEF VerifyAccess
  <2>2. \A a \in Mapped(t) \ todo[t] : Placed(t, a)'
    BY <1>2, <1>4, <2>1 DEF Held, Placed
  <2> QED
    BY <1>2, <2>1, <2>2 DEF Held
<1> QED
  BY <1>5, <1>6, <1>7, <1>8, <1>9, <1>10, <1>11, <1>12 DEF Setup
LEMMA StockedStep ==
  ASSUME TypeOK, Alone, Settled, Blocked, Provided, Queued, Stocked, [Next]_vars
  PROVE  Stocked'
<1>0. overlapped \subseteq overlapped'
  BY OverlapsGrow
<1>1. ASSUME NEW t \in Setups, UNCHANGED <<plan, pkg>>, objects' = objects
      PROVE  /\ Mapped(t)' = Mapped(t)
             /\ \A a \in Assignments : Placed(t, a)' <=> Placed(t, a)
  BY <1>1 DEF Mapped, Package, Placed
<1>2. ASSUME NEW t \in Setups, Held(t), objects' = objects,
             pc'[t] = pc[t], plan'[t] = plan[t], pkg'[t] = pkg[t],
             todo'[t] = todo[t], left'[t] = left[t]
      PROVE  Held(t)'
  BY <1>2 DEF Held, At, Mapped, Placed, Package, Sent, Fresh, Turn, Stored
<1>3. ASSUME NEW t \in Setups \ overlapped' PROVE Held(t)'
  <2>1. t \notin overlapped /\ Held(t)
    BY <1>0 DEF Stocked
  <2>2. ASSUME NEW s \in Setups, Setup(s), s # t PROVE Held(t)'
    <3>1. CASE pc[t] \in Working
      <4>1. objects' = objects
        BY <2>1, <2>2, <3>1, StoreKept
      <4> QED
        BY <1>2, <2>1, <2>2, <4>1, OthersStay
    <3>2. CASE pc[t] \notin Working
      BY <2>2, <3>2, OthersStay DEF Held, At, Shipping, Turning, Working
    <3> QED
      BY <3>1, <3>2
  <2>3. ASSUME Setup(t) PROVE Held(t)'
    BY <2>1, <2>3, OwnHeld
  <2>4. CASE DeleteBlock \/ (\E r \in Flows : Download(r)) \/ UNCHANGED vars
    BY <1>2, <2>1, <2>4, OthersLeaveSetups
  <2> QED
    BY <2>2, <2>3, <2>4 DEF Next
<1>4. ASSUME NEW b \in Setups \ overlapped', block' = b, b # None,
             NEW a \in Assignments, plan'[b][a] # None
      PROVE  objects'[a] = Package(b, a)'
  <2>1. ASSUME UNCHANGED objects, plan'[b] = plan[b], pkg'[b] = pkg[b], Placed(b, a)
        PROVE  objects'[a] = Package(b, a)'
    BY <2>1 DEF Placed, Package
  <2>2. ASSUME block = b, plan'[b] = plan[b] PROVE Placed(b, a)
    BY <1>0, <1>4, <2>2 DEF Stocked, Mapped
  <2>3. ASSUME NEW s \in Setups, Setup(s), block' = block PROVE objects'[a] = Package(b, a)'
    <3>1. block = b /\ b \notin overlapped
      BY <1>0, <1>4, <2>3
    <3>2. b # s
      BY <1>4, <2>3, <3>1, AtWorkBefore DEF Settled, At
    <3>3. objects' = objects
      BY <2>3, <3>1, <3>2, StoreKept
    <3>4. plan'[b] = plan[b] /\ pkg'[b] = pkg[b]
      BY <2>3, <3>2, OthersStay
    <3> QED
      BY <2>1, <2>2, <3>1, <3>3, <3>4
  <2>4. ASSUME NEW s \in Setups, SaveCourseBlock(s), block' = s
        PROVE  objects'[a] = Package(b, a)'
    <3>1. pc[s] = "save" /\ UNCHANGED <<plan, pkg, overlapped, objects>> /\ s = b
      BY <1>4, <2>4 DEF SaveCourseBlock, At, input, world, store
    <3>2. a \in Mapped(b)
      BY <1>4, <3>1 DEF Mapped
    <3>3. Placed(b, a)
      BY <1>4, <3>1, <3>2 DEF Stocked, Held, Queued, Shipping
    <3> QED
      BY <2>1, <3>1, <3>3
  <2>5. CASE DeleteBlock
    BY <1>4, <2>5 DEF DeleteBlock
  <2>6. CASE (\E r \in Flows : Download(r)) \/ UNCHANGED vars
    <3>1. block' = block
      BY <2>6 DEF Download, LoadCourseBlock, ListAssets, ReadAsset, AssetsRead, ReadFails,
        world, prefect, vars
    <3>2. UNCHANGED <<plan, pkg, objects>>
      BY <2>6, OthersLeaveSetups
    <3> QED
      BY <1>4, <2>1, <2>2, <3>1, <3>2
  <2> QED
    BY <2>3, <2>4, <2>5, <2>6, BlockSaved DEF Next
<1>5. TypeOK'
  BY StepType
<1> QED
  BY <1>3, <1>4, <1>5 DEF Stocked, TypeOK, Mapped, Placed

------------------------------------------------------------------------------
(* What a flow run is given *)

LEMMA InputStays ==
  ASSUME TypeOK, [Next]_vars, NEW t \in Setups, pc[t] = "done"
  PROVE  plan'[t] = plan[t] /\ pkg'[t] = pkg[t]
<1>1. ASSUME NEW s \in Setups, Setup(s) PROVE plan'[t] = plan[t] /\ pkg'[t] = pkg[t]
  BY <1>1, OthersStay, AtWorkBefore
<1>2. CASE DeleteBlock \/ (\E r \in Flows : Download(r)) \/ UNCHANGED vars
  BY <1>2, OthersLeaveSetups
<1> QED
  BY <1>1, <1>2 DEF Next

Correct(r) ==
  fpc[r] = "ready" /\ loaded[r] \notin overlapped => got[r] = Package(loaded[r], of[r])

\* A flow run that makes no step is served as before, as long as the block it
\* reads by stays.
LEMMA WaitingServed ==
  ASSUME TypeOK, Settled, [Next]_vars, NEW r \in Flows, Reads(r), Correct(r),
         fpc'[r] = fpc[r], of'[r] = of[r], loaded'[r] = loaded[r],
         toRead'[r] = toRead[r], got'[r] = got[r],
         Reading(r) => block' = block
  PROVE  Reads(r)' /\ Correct(r)'
<1>0. overlapped \subseteq overlapped'
  BY OverlapsGrow
<1>1. CASE fpc[r] = "idle"
  BY <1>1 DEF Reads, Correct, Reading
<1>2. CASE fpc[r] # "idle"
  <2>1. /\ loaded[r] \in Setups /\ of[r] \in Assignments
        /\ pc[loaded[r]] = "done"
    BY <1>2 DEF TypeOK, Reads, Settled, At
  <2>2. /\ Package(loaded[r], of[r])' = Package(loaded[r], of[r])
        /\ Mapped(loaded[r])' = Mapped(loaded[r])
    <3>1. plan'[loaded[r]] = plan[loaded[r]] /\ pkg'[loaded[r]] = pkg[loaded[r]]
      BY <2>1, InputStays
    <3> QED
      BY <3>1 DEF Package, Mapped
  <2> QED
    BY <1>0, <1>2, <2>1, <2>2 DEF Reads, Correct, Reading
<1> QED
  BY <1>1, <1>2
LEMMA OwnServed ==
  ASSUME TypeOK, Stocked, NEW r \in Flows, Reads(r), Correct(r), Download(r)
  PROVE  Reads(r)' /\ Correct(r)'
<1> USE DEF TypeOK, Reading
<1>0. UNCHANGED <<block, plan, pkg, overlapped, objects>>
  <2>1. UNCHANGED block
    BY DEF Download, LoadCourseBlock, ListAssets, ReadAsset, AssetsRead, ReadFails, world, prefect
  <2> QED
    BY <2>1, OthersLeaveSetups
<1>1. \A t \in Setups, a \in Assignments : Package(t, a)' = Package(t, a)
  BY <1>0 DEF Package
<1>2. CASE LoadCourseBlock(r)
  <2>1. /\ fpc[r] = "idle" /\ fpc'[r] = "list" /\ block # None
        /\ loaded'[r] = block /\ of'[r] \in Assignments /\ got' = got
    BY <1>2 DEF LoadCourseBlock
  <2> QED
    BY <1>0, <2>1, NoneAssumption DEF Reads, Correct, NoAssets
<1>3. CASE ListAssets(r)
  <2>1. /\ fpc[r] = "list" /\ fpc'[r] = "read" /\ UNCHANGED <<of, loaded, got>>
        /\ toRead'[r] = UNION {{b} \X Stored(b) : b \in Prefixed(loaded[r], of[r])}
    BY <1>3 DEF ListAssets
  <2> DEFINE s == loaded[r]
             a == of[r]
  <2>2. s \in Setups /\ a \in Assignments /\ block = s /\ s # None
    BY <2>1 DEF Reads
  <2>3. ASSUME s \notin overlapped, NEW f \in Files
        PROVE  got'[r][f] = IF <<a, f>> \in toRead'[r] THEN None ELSE Package(s, a)[f]
    <3>1. got'[r][f] = None
      BY <2>1 DEF Reads, NoAssets
    <3>2. <<a, f>> \in toRead'[r] <=> a \in Prefixed(s, a) /\ f \in Stored(a)
      BY <2>1
    <3>3. CASE a \in Mapped(s)
      <4>1. objects[a] = Package(s, a)
        BY <2>2, <2>3, <3>3 DEF Stocked, Placed
      <4>2. a \in Prefixed(s, a)
        BY <2>2, <3>3, AssignmentsAssumption DEF Prefixed
      <4> QED
        BY <3>1, <3>2, <4>1, <4>2 DEF Stored
    <3>4. CASE a \notin Mapped(s)
      BY <2>2, <3>1, <3>4 DEF Package, Mapped
    <3> QED
      BY <3>3, <3>4
  <2>4. a \notin Mapped(s) => toRead'[r] = {}
    BY <2>1 DEF Prefixed
  <2>5. Mapped(s)' = Mapped(s)
    BY <1>0, <2>1 DEF Mapped
  <2> HIDE DEF s, a
  <2>6. Package(s, a)' = Package(s, a)
    BY <1>0, <2>1 DEF s, a, Package
  <2> QED
    BY <1>0, <2>1, <2>2, <2>3, <2>4, <2>5, <2>6 DEF Reads, Correct, s, a
<1>4. ASSUME NEW b \in Assignments, NEW f \in Files, ReadAsset(r, b, f)
      PROVE  Reads(r)' /\ Correct(r)'
  <2>1. /\ fpc[r] = "read" /\ <<b, f>> \in toRead[r] /\ UNCHANGED <<fpc, of, loaded>>
        /\ toRead'[r] = toRead[r] \ {<<b, f>>}
        /\ IF b = of[r] THEN got' = [got EXCEPT ![r][f] = objects[b][f]] ELSE UNCHANGED got
    BY <1>4 DEF ReadAsset
  <2>2. loaded[r] \in Setups /\ of[r] \in Assignments /\ block = loaded[r] /\ loaded[r] # None
    BY <2>1 DEF Reads
  <2>3. ASSUME loaded[r] \notin overlapped, NEW g \in Files
        PROVE  got'[r][g] = IF <<of[r], g>> \in toRead'[r] THEN None
                            ELSE Package(loaded[r], of[r])[g]
    <3>1. got[r][g] = IF <<of[r], g>> \in toRead[r] THEN None
                      ELSE Package(loaded[r], of[r])[g]
      BY <2>1, <2>3 DEF Reads
    <3>2. CASE b = of[r] /\ g = f
      <4>1. got'[r][g] = objects[of[r]][g] /\ <<of[r], g>> \notin toRead'[r]
        BY <2>1, <3>2
      <4>2. CASE of[r] \in Mapped(loaded[r])
        BY <2>2, <2>3, <4>1, <4>2 DEF Stocked, Placed
      <4>3. CASE of[r] \notin Mapped(loaded[r])
        BY <2>1, <4>3 DEF Reads
      <4> QED
        BY <4>2, <4>3
    <3>3. CASE b # of[r] \/ g # f
      <4>1. got'[r][g] = got[r][g] /\ (<<of[r], g>> \in toRead'[r] <=> <<of[r], g>> \in toRead[r])
        BY <2>1, <3>3
      <4> QED
        BY <3>1, <4>1
    <3> QED
      BY <3>2, <3>3
  <2>4. /\ Package(loaded[r], of[r])' = Package(loaded[r], of[r])
        /\ Mapped(loaded[r])' = Mapped(loaded[r])
    BY <1>0, <2>1 DEF Package, Mapped
  <2> QED
    BY <1>0, <2>1, <2>2, <2>3, <2>4 DEF Reads, Correct
<1>5. CASE AssetsRead(r)
  <2>1. /\ fpc[r] = "read" /\ toRead[r] = {} /\ fpc'[r] = "ready"
        /\ UNCHANGED <<of, loaded, toRead, got>>
    BY <1>5 DEF AssetsRead
  <2>2. loaded[r] \notin overlapped => got[r] = Package(loaded[r], of[r])
    <3>1. loaded[r] \notin overlapped => \A f \in Files : got[r][f] = Package(loaded[r], of[r])[f]
      BY <2>1 DEF Reads
    <3> QED
      BY <3>1 DEF Package
  <2>3. Package(loaded[r], of[r])' = Package(loaded[r], of[r])
    BY <1>0, <2>1 DEF Package
  <2> QED
    BY <1>0, <2>1, <2>2, <2>3 DEF Reads, Correct
<1>6. CASE ReadFails(r)
  BY <1>6 DEF ReadFails, Reads, Correct
<1> QED
  BY <1>2, <1>3, <1>4, <1>5, <1>6 DEF Download

LEMMA DisturbedGrows == [Next]_vars => disturbed \subseteq disturbed'
  BY DEF Next, Setup, Download, vars, flowVars, Refuse, Begin, EnsureBlockAbsent, SyncManifest,
     ManifestsSynced, HeadBucket, CreateBucket, SaveAssetsBlock, NextPackage, UploadFile,
     Uploaded, ListStale, DeleteStale, VerifyAccess, SaveCourseBlock, SetupFails, DeleteBlock,
     LoadCourseBlock, ListAssets, ReadAsset, AssetsRead, ReadFails

LEMMA ServingStep ==
  ASSUME TypeOK, Settled, Stocked, Serving, [Next]_vars
  PROVE  Serving'
<1> SUFFICES ASSUME NEW r \in Flows, r \notin disturbed' PROVE Reads(r)' /\ Correct(r)'
  BY DEF Serving, CorrectPackage, Correct
<1>0. disturbed \subseteq disturbed'
  BY DisturbedGrows
<1>1. Reads(r) /\ Correct(r)
  BY <1>0 DEF Serving, CorrectPackage, Correct
<1>2. ASSUME UNCHANGED <<fpc, of, loaded, toRead, got>>, Reading(r) => block' = block
      PROVE  Reads(r)' /\ Correct(r)'
  BY <1>1, <1>2, WaitingServed
<1>3. ASSUME NEW s \in Setups, Setup(s) PROVE Reads(r)' /\ Correct(r)'
  <2>1. UNCHANGED flowVars
    BY <1>3 DEF Setup, Refuse, Begin, EnsureBlockAbsent, SyncManifest, ManifestsSynced,
      HeadBucket, CreateBucket, SaveAssetsBlock, NextPackage, UploadFile, Uploaded, ListStale,
      DeleteStale, VerifyAccess, SaveCourseBlock, SetupFails
  <2>2. ASSUME Reading(r) PROVE block' = block
    <3>1. block # None
      BY <1>1, <2>2 DEF Reads, Reading
    <3> QED
      BY <1>3, <3>1, BlockSaved DEF SaveCourseBlock
  <2> QED
    BY <1>2, <2>1, <2>2 DEF flowVars
<1>4. CASE DeleteBlock
  <2>1. UNCHANGED <<fpc, of, loaded, toRead, got>> /\ ~Reading(r)
    BY <1>4 DEF DeleteBlock
  <2> QED
    BY <1>2, <2>1
<1>5. ASSUME NEW q \in Flows, Download(q) PROVE Reads(r)' /\ Correct(r)'
  <2>1. CASE q = r
    BY <1>1, <1>5, <2>1, OwnServed
  <2>2. CASE q # r
    <3>1. /\ fpc'[r] = fpc[r] /\ of'[r] = of[r] /\ loaded'[r] = loaded[r]
          /\ toRead'[r] = toRead[r] /\ got'[r] = got[r]
      BY <1>5, <2>2
      DEF TypeOK, Download, LoadCourseBlock, ListAssets, ReadAsset, AssetsRead, ReadFails
    <3>2. block' = block
      BY <1>5 DEF Download, LoadCourseBlock, ListAssets, ReadAsset, AssetsRead, ReadFails,
        world, prefect
    <3> QED
      BY <1>1, <3>1, <3>2, WaitingServed
  <2> QED
    BY <2>1, <2>2
<1>6. CASE UNCHANGED vars
  BY <1>2, <1>6 DEF vars, world, prefect, flowVars
<1> QED
  BY <1>3, <1>4, <1>5, <1>6 DEF Next

------------------------------------------------------------------------------
(* Theorems *)

LEMMA InitInv == Init => CourseInv
<1> SUFFICES ASSUME Init PROVE CourseInv
  OBVIOUS
<1>1. Alone /\ Settled /\ Blocked
  BY DEF Init, Alone, Settled, Blocked, Working
<1>2. \A s \in Setups : Mapped(s) = {}
  BY DEF Init, Mapped
<1>3. Provided /\ Staged /\ Queued
  BY <1>2 DEF Init, Provided, Staged, Queued, Shipping, Turning, At
<1>4. Stocked
  BY DEF Init, Stocked, Held, Shipping, Turning, At
<1>5. Serving
  BY DEF Init, Serving, CorrectPackage, Reads, Reading
<1> QED
  BY <1>1, <1>3, <1>4, <1>5 DEF CourseInv

LEMMA StepInv == TypeOK /\ CourseInv /\ [Next]_vars => TypeOK' /\ CourseInv'
  BY StepType, AloneStep, SettledStep, BlockedStep, ProvidedStep, StagedStep, QueuedStep,
     StockedStep, ServingStep
  DEF CourseInv

LEMMA CourseInvHolds == Spec => [](TypeOK /\ CourseInv)
<1>1. Init => TypeOK /\ CourseInv
  BY InitType, InitInv
<1>2. TypeOK /\ CourseInv /\ [Next]_vars => (TypeOK /\ CourseInv)'
  BY StepInv
<1> QED
  BY <1>1, <1>2, PTL DEF Spec

\* Everything the model keeps of setups, store, Prefect and flow runs stays within
\* its type; what a setup prunes is a set of files of one assignment, never the
\* listing's placeholder for the prefix (sync_directory_to_s3).
THEOREM TypeCorrect == Spec => []TypeOK
  BY CourseInvHolds, PTL

\* A course block names a course that can be graded, whatever setups failed or
\* were interrupted before it was saved.
THEOREM BlocksAreRunnable == Spec => []CourseIsRunnable
<1>1. TypeOK /\ CourseInv => CourseIsRunnable
  <2> SUFFICES ASSUME TypeOK, CourseInv, block \notin overlapped \cup {None}
               PROVE  /\ bucket /\ assets
                      /\ \A a \in Mapped(block) :
                           a \in manifest[plan[block][a]] /\ objects[a] = Package(block, a)
    BY DEF CourseIsRunnable
  <2>1. block \in Setups /\ pc[block] = "done"
    BY DEF TypeOK, CourseInv, Settled, At
  <2>2. bucket /\ assets /\ \A a \in Mapped(block) : Recorded(block, a)
    BY <2>1 DEF CourseInv, Staged
  <2>3. \A a \in Mapped(block) : Placed(block, a)
    BY DEF CourseInv, Stocked
  <2> QED
    BY <2>2, <2>3 DEF Recorded, Placed
<1> QED
  BY <1>1, CourseInvHolds, PTL

\* A flow run is given the package of the course block it loaded, unless that
\* block was deleted while it downloaded.
THEOREM PackagesAreCorrect == Spec => []CorrectPackage
<1>1. TypeOK /\ CourseInv => CorrectPackage
  BY DEF CourseInv, Serving
<1> QED
  BY <1>1, CourseInvHolds, PTL

\* A setup that finds a course block changes neither store nor manifests.
THEOREM BlockedMutateNothing == Spec => MutatedOnlyUnblocked
<1>1. TypeOK /\ CourseInv /\ [Next]_vars =>
        [<<objects, manifest>>' # <<objects, manifest>> => block \in overlapped \cup {None}]_vars
  <2> SUFFICES ASSUME TypeOK, CourseInv, [Next]_vars,
                      <<objects, manifest>>' # <<objects, manifest>>
               PROVE  block \in overlapped \cup {None}
    OBVIOUS
  <2>1. PICK s \in Setups : Setup(s)
    BY OthersLeaveSetups DEF Next
  <2>2. pc[s] \in {"manifest", "upload", "delete"}
    BY <2>1 DEF Setup, Refuse, Begin, EnsureBlockAbsent, SyncManifest, ManifestsSynced,
      HeadBucket, CreateBucket, SaveAssetsBlock, NextPackage, UploadFile, Uploaded, ListStale,
      DeleteStale, VerifyAccess, SaveCourseBlock, SetupFails, At, world, store
  <2> QED
    BY <2>2 DEF CourseInv, Blocked, At, Working
<1> QED
  BY <1>1, CourseInvHolds, PTL DEF Spec, MutatedOnlyUnblocked

\* A prefix loses its last object only to the pruning of that assignment by a
\* setup with an empty package, or one that ran alongside another.
THEOREM PruningLeavesAssets == Spec => NeverEmptied
<1> DEFINE Emptied(a) ==
      objects[a] # NoAssets /\ objects'[a] = NoAssets =>
        \E s \in Setups : At(s, "delete") /\ Turn(s) = a /\ (s \in overlapped \/ Fresh(s) = {})
<1>1. TypeOK /\ CourseInv /\ [Next]_vars => [\A a \in Assignments : Emptied(a)]_vars
  <2> SUFFICES ASSUME TypeOK, CourseInv, [Next]_vars, NEW a \in Assignments,
                      objects[a] # NoAssets, objects'[a] = NoAssets
               PROVE  \E s \in Setups :
                        At(s, "delete") /\ Turn(s) = a /\ (s \in overlapped \/ Fresh(s) = {})
    OBVIOUS
  <2>1. PICK s \in Setups : Setup(s)
    BY OthersLeaveSetups DEF Next
  <2>2. ASSUME NEW f \in Files, UploadFile(s, f) PROVE FALSE
    <3>1. Turn(s) \in Assignments
      BY <2>2, TurnType DEF UploadFile, At, Turning, CourseInv
    <3>2. objects' = [objects EXCEPT ![Turn(s)][f] = s]
      BY <2>2 DEF UploadFile
    <3>3. a = Turn(s)
      BY <3>1, <3>2 DEF TypeOK
    <3>4. objects'[a][f] = s
      BY <3>1, <3>2, <3>3 DEF TypeOK
    <3> QED
      BY <3>4, NoneAssumption DEF NoAssets
  <2>3. CASE DeleteStale(s)
    <3>1. PICK gone \in SUBSET left[s] : objects' = Deleted(s, gone)
      BY <2>3 DEF DeleteStale
    <3>2. At(s, "delete") /\ Turn(s) \in Assignments /\ Fresh(s) \subseteq Files
      BY <2>3, TurnType DEF DeleteStale, At, Turning, CourseInv
    <3>3. a = Turn(s)
      BY <3>1, <3>2 DEF TypeOK, Deleted
    <3>4. ASSUME s \notin overlapped, NEW f \in Fresh(s) PROVE FALSE
      <4>1. Held(s)
        BY <3>4 DEF CourseInv, Stocked
      <4>2. objects[a][f] = s /\ f \notin left[s]
        BY <3>2, <3>3, <3>4, <4>1 DEF Held, Sent, At
      <4>3. objects'[a][f] = s
        BY <3>1, <3>2, <3>3, <3>4, <4>2 DEF TypeOK, Deleted
      <4> QED
        BY <3>2, <3>4, <4>3, NoneAssumption DEF NoAssets
    <3> QED
      BY <3>2, <3>3, <3>4
  <2> QED
    BY <2>1, <2>2, <2>3, StoreChanges
<1> HIDE DEF Emptied
<1>2. Spec => [][\A a \in Assignments : Emptied(a)]_vars
  BY <1>1, CourseInvHolds, PTL DEF Spec
<1> QED
  BY <1>2 DEF NeverEmptied, Emptied

\* The listing only looks on: with it, the setups and the flow runs do what they
\* do without, and the theorems above hold of them.
THEOREM ListingOnlyLooks == ListingSpec => Spec
<1>1. ListingInit => Init
  BY DEF ListingInit
<1>2. [ListingNext]_<<vars, listing>> => [Next]_vars
  BY DEF ListingNext, CourseChanges, List, StartListing, ReadPage, LoadListed, ListingDone,
         ListingFails
<1> QED
  BY <1>1, <1>2, PTL DEF ListingSpec, Spec

------------------------------------------------------------------------------
(* The listing: what a page holds, and how a saved or deleted block moves it *)

LEMMA Removed ==
  /\ RemoveAt(Documents, Own) \in Seq(ToSet(Documents))
  /\ Len(RemoveAt(Documents, Own)) = Len(Documents) - 1
  /\ \A k \in 1..Len(Documents) - 1 :
       RemoveAt(Documents, Own)[k] = IF k < Own THEN Documents[k] ELSE Documents[k + 1]
<1> DEFINE D == ToSet(Documents)
           before == SubSeq(Documents, 1, Own - 1)
           after == SubSeq(Documents, Own + 1, Len(Documents))
<1>1. Documents \in Seq(D) /\ Own \in 1..Len(Documents) /\ Len(Documents) \in Nat
  BY DocumentsAssumption
<1>2. \A i \in 1..Len(Documents) : Documents[i] \in D
  BY <1>1
<1>3. /\ before \in Seq(D) /\ Len(before) = Own - 1
      /\ \A i \in 1..Own - 1 : before[i] = Documents[i]
  <2>1. \A i \in 1..Own - 1 : Documents[i] \in D
    BY <1>1, <1>2
  <2>2. /\ before \in Seq(D) /\ Len(before) = IF 1 <= Own - 1 THEN Own - 1 - 1 + 1 ELSE 0
        /\ \A i \in 1..Own - 1 - 1 + 1 : before[i] = Documents[1 + i - 1]
    <3> HIDE DEF D
    <3> QED
      BY <1>1, <2>1, SubSeqProperties
  <2> QED
    BY <1>1, <2>2
<1>4. /\ after \in Seq(D) /\ Len(after) = Len(Documents) - Own
      /\ \A i \in 1..Len(Documents) - Own : after[i] = Documents[Own + i]
  <2>1. \A i \in Own + 1..Len(Documents) : Documents[i] \in D
    BY <1>1, <1>2
  <2>2. /\ after \in Seq(D)
        /\ Len(after) = IF Own + 1 <= Len(Documents) THEN Len(Documents) - (Own + 1) + 1 ELSE 0
        /\ \A i \in 1..Len(Documents) - (Own + 1) + 1 : after[i] = Documents[Own + 1 + i - 1]
    <3> HIDE DEF D
    <3> QED
      BY <1>1, <2>1, SubSeqProperties
  <2> QED
    BY <1>1, <2>2
<1>5. /\ before \o after \in Seq(D) /\ Len(before \o after) = Len(before) + Len(after)
      /\ \A i \in 1..Len(before) + Len(after) :
           (before \o after)[i] =
             IF i <= Len(before) THEN before[i] ELSE after[i - Len(before)]
  <2> HIDE DEF D, before, after
  <2> QED
    BY <1>3, <1>4, ConcatProperties
<1>6. RemoveAt(Documents, Own) = before \o after
  BY DEF RemoveAt
<1> DEFINE Less == before \o after
<1>7. \A k \in 1..Len(Documents) - 1 :
        Less[k] = IF k < Own THEN Documents[k] ELSE Documents[k + 1]
  <2> HIDE DEF before, after
  <2> SUFFICES ASSUME NEW k \in 1..Len(Documents) - 1
               PROVE  Less[k] = IF k < Own THEN Documents[k] ELSE Documents[k + 1]
    OBVIOUS
  <2>1. Less[k] = IF k <= Len(before) THEN before[k] ELSE after[k - Len(before)]
    BY <1>1, <1>3, <1>4, <1>5
  <2>2. CASE k < Own
    BY <1>1, <1>3, <2>1, <2>2
  <2>3. CASE ~(k < Own)
    <3>1. k - Len(before) \in 1..Len(Documents) - Own /\ Own + (k - Len(before)) = k + 1
      BY <1>1, <1>3, <2>3
    <3>2. after[k - Len(before)] = Documents[k + 1]
      BY <1>4, <3>1
    <3> QED
      BY <1>1, <1>3, <2>1, <2>3, <3>2
  <2> QED
    BY <2>2, <2>3
<1>8. Len(Less) = Len(Documents) - 1
  <2>1. Own \in Int /\ Len(Documents) \in Nat
    BY <1>1
  <2>2. Len(before) = Own - 1 /\ Len(after) = Len(Documents) - Own
    BY <1>3, <1>4
  <2>3. Len(Less) = Len(before) + Len(after)
    BY <1>5
  <2> HIDE DEF before, after, Less
  <2> QED
    BY <2>1, <2>2, <2>3
<1> HIDE DEF before, after
<1> QED
  BY <1>5, <1>6, <1>7, <1>8

\* Nothing but the course's own document goes, and what is behind it moves up.
LEMMA Shifted ==
  /\ \A k \in DOMAIN RemoveAt(Documents, Own) : \E j \in DOMAIN Documents \ {Own} :
       j \in {k, k + 1} /\ Documents[j] = RemoveAt(Documents, Own)[k]
  /\ \A j \in DOMAIN Documents \ {Own} : \E k \in DOMAIN RemoveAt(Documents, Own) :
       k \in {j, j - 1} /\ RemoveAt(Documents, Own)[k] = Documents[j]
<1> DEFINE Less == RemoveAt(Documents, Own)
<1>1. /\ Own \in 1..Len(Documents) /\ Len(Documents) \in Nat
      /\ DOMAIN Documents = 1..Len(Documents)
  BY DocumentsAssumption
<1>2. DOMAIN Less = 1..Len(Documents) - 1
  BY <1>1, Removed
<1>3. \A k \in 1..Len(Documents) - 1 :
        Less[k] = IF k < Own THEN Documents[k] ELSE Documents[k + 1]
  BY Removed
<1> HIDE DEF Less
<1>4. ASSUME NEW k \in DOMAIN Less
      PROVE  \E j \in DOMAIN Documents \ {Own} : j \in {k, k + 1} /\ Documents[j] = Less[k]
  <2>1. CASE k < Own
    BY <1>1, <1>2, <1>3, <2>1
  <2>2. CASE ~(k < Own)
    BY <1>1, <1>2, <1>3, <2>2
  <2> QED
    BY <2>1, <2>2
<1>5. ASSUME NEW j \in DOMAIN Documents \ {Own}
      PROVE  \E k \in DOMAIN Less : k \in {j, j - 1} /\ Less[k] = Documents[j]
  <2>1. CASE j < Own
    BY <1>1, <1>2, <1>3, <2>1
  <2>2. CASE ~(j < Own)
    <3>1. j - 1 \in 1..Len(Documents) - 1 /\ ~(j - 1 < Own) /\ j - 1 + 1 = j
      BY <1>1, <2>2
    <3>2. Less[j - 1] = Documents[j]
      BY <1>3, <3>1
    <3> QED
      BY <1>2, <3>1, <3>2
  <2> QED
    BY <2>1, <2>2
<1> QED
  BY <1>4, <1>5 DEF Less

LEMMA PresentType ==
  /\ Present \in Seq(ToSet(Documents))
  /\ Len(Present) \in Nat /\ Len(Present) <= Len(Documents)
  /\ DOMAIN Present = 1..Len(Present)
  /\ \A i, j \in DOMAIN Present : Present[i] = Present[j] /\ Present[i] # Anonymous => i = j
<1>1. Documents \in Seq(ToSet(Documents)) /\ Len(Documents) \in Nat
  BY DocumentsAssumption
<1>2. CASE block # None
  BY <1>1, <1>2, DocumentsAssumption DEF Present
<1>3. CASE block = None
  <2> DEFINE Less == RemoveAt(Documents, Own)
  <2>1. Present = Less
    BY <1>3 DEF Present
  <2>2. /\ Less \in Seq(ToSet(Documents)) /\ Len(Less) = Len(Documents) - 1
        /\ Own \in 1..Len(Documents)
    BY Removed, DocumentsAssumption
  <2>3. \A k \in 1..Len(Documents) - 1 :
          Less[k] = IF k < Own THEN Documents[k] ELSE Documents[k + 1]
    BY Removed
  <2> HIDE DEF Less
  <2>4. ASSUME NEW i \in DOMAIN Less, NEW j \in DOMAIN Less, Less[i] = Less[j],
               Less[i] # Anonymous
        PROVE  i = j
    <3> DEFINE At0(k) == IF k < Own THEN k ELSE k + 1
    <3>1. i \in 1..Len(Documents) - 1 /\ j \in 1..Len(Documents) - 1
      BY <2>2
    <3>2. At0(i) \in DOMAIN Documents /\ At0(j) \in DOMAIN Documents
      BY <1>1, <2>2, <3>1
    <3>3. Documents[At0(i)] = Less[i] /\ Documents[At0(j)] = Less[j]
      BY <2>3, <3>1
    <3>4. At0(i) = At0(j)
      BY <2>4, <3>2, <3>3, DocumentsAssumption
    <3> QED
      BY <2>2, <3>1, <3>4
  <2> QED
    BY <1>1, <2>1, <2>2, <2>4
<1> QED
  BY <1>2, <1>3

LEMMA PageHolds ==
  ASSUME NEW o \in Nat, offset = o
  PROVE  /\ Page \in Seq(ToSet(Documents)) /\ Len(Page) \in Nat
         /\ \A i \in 1..Len(Page) : o + i \in DOMAIN Present /\ Page[i] = Present[o + i]
         /\ IsLast(Page) => Len(Present) <= o + Len(Page)
<1> DEFINE m == Min({o + PageSize, Len(Present)})
           D == ToSet(Documents)
<1>0. Present \in Seq(D) /\ DOMAIN Present = 1..Len(Present)
  BY PresentType
<1>1. Len(Present) \in Nat /\ PageSize \in Nat /\ PageSize > 0
  BY PresentType, PageSizeAssumption
<1>2. m \in {o + PageSize, Len(Present)} /\ m <= Len(Present) /\ m \in Nat
  <2>1. {o + PageSize, Len(Present)} \subseteq Nat
    BY <1>1
  <2>2. \E x \in {o + PageSize, Len(Present)} :
          \A y \in {o + PageSize, Len(Present)} : x <= y
    BY <1>1
  <2>3. /\ m \in {o + PageSize, Len(Present)}
        /\ \A y \in {o + PageSize, Len(Present)} : m <= y
    BY <2>2 DEF Min
  <2> QED
    BY <2>1, <2>3
<1>3. \A i \in o + 1..m : Present[i] \in D
  BY <1>0, <1>1, <1>2
<1>4. Page = SubSeq(Present, o + 1, m)
  BY DEF Page
<1> HIDE DEF m, D
<1>5. /\ Page \in Seq(D) /\ Len(Page) = IF o + 1 <= m THEN m - (o + 1) + 1 ELSE 0
      /\ \A i \in 1..m - (o + 1) + 1 : Page[i] = Present[o + 1 + i - 1]
  BY <1>2, <1>3, <1>4, SubSeqProperties
<1> HIDE DEF Page
<1>6. ASSUME NEW i \in 1..Len(Page)
      PROVE  o + i \in DOMAIN Present /\ Page[i] = Present[o + i]
  <2>1. o + 1 <= m
    BY <1>2, <1>5
  <2>2. i \in 1..m - (o + 1) + 1 /\ o + 1 + i - 1 = o + i /\ o + i \in 1..m
    BY <1>2, <1>5, <2>1
  <2>3. Page[i] = Present[o + 1 + i - 1]
    BY <1>5, <2>2
  <2>4. o + i \in 1..Len(Present)
    BY <1>1, <1>2, <2>2
  <2> QED
    BY <1>0, <2>2, <2>3, <2>4
<1>7. ASSUME IsLast(Page) PROVE Len(Present) <= o + Len(Page)
  <2>1. Len(Page) < PageSize
    BY <1>7 DEF IsLast
  <2>2. CASE o + 1 <= m
    <3>1. Len(Page) = m - o
      BY <1>2, <1>5, <2>2
    <3>2. m # o + PageSize
      BY <1>1, <1>2, <2>1, <3>1
    <3> QED
      BY <1>1, <1>2, <3>1, <3>2
  <2>3. CASE ~(o + 1 <= m)
    <3>1. Len(Page) = 0 /\ m # o + PageSize
      BY <1>1, <1>2, <1>5, <2>3
    <3> QED
      BY <1>1, <1>2, <2>3, <3>1
  <2> QED
    BY <2>2, <2>3
<1> QED
  BY <1>5, <1>6, <1>7 DEF D

\* A saved block moves no document to a page already read, a deleted one none to
\* a page to come.
LEMMA SavedBehind ==
  ASSUME block = None, block' # None, NEW o \in Nat, offset = o, offset' = o,
         NEW doc, Behind(doc)
  PROVE  Behind(doc)'
<1>1. Present = RemoveAt(Documents, Own) /\ Present' = Documents
  BY DEF Present
<1>2. PICK k \in DOMAIN RemoveAt(Documents, Own) :
        k > o /\ RemoveAt(Documents, Own)[k] = doc
  BY <1>1 DEF Behind
<1>3. k \in Nat
  BY <1>1, PresentType
<1>4. PICK j \in DOMAIN Documents \ {Own} :
        j \in {k, k + 1} /\ Documents[j] = RemoveAt(Documents, Own)[k]
  BY Shifted
<1>5. j > o
  BY <1>2, <1>3, <1>4
<1> QED
  BY <1>1, <1>2, <1>4, <1>5 DEF Behind

LEMMA DeletedBehind ==
  ASSUME block # None, block' = None, NEW o \in Nat, offset = o, offset' = o,
         NEW doc, Behind(doc)'
  PROVE  Behind(doc)
<1>1. Present = Documents /\ Present' = RemoveAt(Documents, Own)
  BY DEF Present
<1>2. PICK k \in DOMAIN RemoveAt(Documents, Own) :
        k > o /\ RemoveAt(Documents, Own)[k] = doc
  BY <1>1 DEF Behind
<1>3. DOMAIN RemoveAt(Documents, Own) = 1..Len(RemoveAt(Documents, Own))
  BY Removed
<1>4. k \in Nat
  BY <1>3, Removed
<1>5. PICK j \in DOMAIN Documents \ {Own} :
        j \in {k, k + 1} /\ Documents[j] = RemoveAt(Documents, Own)[k]
  BY Shifted
<1>6. j > o
  BY <1>2, <1>4, <1>5
<1> QED
  BY <1>1, <1>2, <1>5, <1>6 DEF Behind

\* The course's own document is there if and only if its block is saved, the
\* others always are.
LEMMA WhoIsPresent ==
  /\ Documents[Own] \in ToSet(Present) <=> block # None
  /\ \A doc \in ToSet(Documents) : doc = Documents[Own] \/ doc \in ToSet(Present)
<1>0. Own \in DOMAIN Documents
  BY DocumentsAssumption
<1>1. CASE block # None
  BY <1>0, <1>1 DEF Present, ToSet
<1>2. CASE block = None
  <2>1. Present = RemoveAt(Documents, Own)
    BY <1>2 DEF Present
  <2>2. \A k \in DOMAIN Present : \E j \in DOMAIN Documents \ {Own} : Documents[j] = Present[k]
    BY <2>1, Shifted
  <2>3. Documents[Own] \notin ToSet(Present)
    BY <1>0, <2>2, DocumentsAssumption DEF ToSet
  <2>4. \A j \in DOMAIN Documents \ {Own} : \E k \in DOMAIN Present : Present[k] = Documents[j]
    BY <2>1, Shifted
  <2>5. \A doc \in ToSet(Documents) : doc = Documents[Own] \/ doc \in ToSet(Present)
    BY <2>4 DEF ToSet
  <2> QED
    BY <1>2, <2>3, <2>5
<1> QED
  BY <1>1, <1>2

LEMMA PagesGrow ==
  ASSUME ListingTypeOK, ReadPage, NEW o \in Nat, offset = o
  PROVE  /\ pages' \in Seq(ToSet(Documents)) /\ Len(pages') = offset'
         /\ DOMAIN pages = 1..o /\ DOMAIN pages' = 1..offset'
         /\ offset' \in Nat /\ offset' >= o /\ offset' <= Len(Documents)
         /\ \A i \in 1..o : pages'[i] = pages[i]
         /\ \A i \in 1..offset' : i > o => i \in DOMAIN Present /\ pages'[i] = Present[i]
         /\ lpc' = "load" => Len(Present) <= offset'
         /\ Present' = Present
<1> DEFINE D == ToSet(Documents)
<1>1. /\ Page \in Seq(D) /\ Len(Page) \in Nat
      /\ \A i \in 1..Len(Page) : o + i \in DOMAIN Present /\ Page[i] = Present[o + i]
      /\ IsLast(Page) => Len(Present) <= o + Len(Page)
  BY PageHolds
<1>2. /\ pages \in Seq(D) /\ Len(pages) = o /\ DOMAIN pages = 1..o /\ o <= Len(Documents)
      /\ Len(Documents) \in Nat
  <2>1. pages \in Seq(D) /\ Len(pages) = o /\ o <= Len(Documents)
    BY DEF ListingTypeOK
  <2>2. Len(Documents) \in Nat
    BY DocumentsAssumption
  <2>3. DOMAIN pages = 1..Len(pages)
    BY <2>1
  <2> QED
    BY <2>1, <2>2, <2>3
<1>3. pages' = pages \o Page /\ offset' = o + Len(Page)
  BY DEF ReadPage
<1>4. /\ pages' \in Seq(D) /\ Len(pages') = o + Len(Page)
      /\ \A i \in 1..o + Len(Page) : pages'[i] = IF i <= o THEN pages[i] ELSE Page[i - o]
  <2> HIDE DEF D
  <2> QED
    BY <1>1, <1>2, <1>3, ConcatProperties
<1>5. offset' \in Nat /\ offset' >= o
  BY <1>1, <1>3
<1>6. \A i \in 1..o : pages'[i] = pages[i]
  BY <1>1, <1>4
<1>7. ASSUME NEW i \in 1..offset', i > o
      PROVE  i \in DOMAIN Present /\ pages'[i] = Present[i]
  <2>1. i - o \in 1..Len(Page) /\ o + (i - o) = i /\ ~(i <= o) /\ i \in 1..o + Len(Page)
    BY <1>1, <1>3, <1>7
  <2> QED
    BY <1>1, <1>4, <2>1
<1>8. offset' <= Len(Documents)
  <2>1. CASE Len(Page) = 0
    BY <1>2, <1>3, <2>1
  <2>2. CASE Len(Page) # 0
    <3>1. offset' \in 1..offset' /\ offset' > o
      BY <1>1, <1>3, <1>5, <2>2
    <3>2. offset' \in DOMAIN Present
      BY <1>7, <3>1
    <3> QED
      BY <1>2, <1>5, <3>2, PresentType
  <2> QED
    BY <2>1, <2>2
<1>9. lpc' = "load" => Len(Present) <= offset'
  BY <1>1, <1>3 DEF ReadPage
<1>10. Present' = Present
  BY DEF ReadPage, Present, vars, world, prefect
<1>11. DOMAIN pages' = 1..offset' /\ Len(pages') = offset'
  BY <1>3, <1>4
<1> QED
  BY <1>2, <1>4, <1>5, <1>6, <1>7, <1>8, <1>9, <1>10, <1>11

\* No step of the setups or flow runs replaces one block by another.
LEMMA BlockFree ==
  ASSUME Next
  PROVE  block' = block \/ block = None \/ block' = None
<1>1. ASSUME NEW s \in Setups, Setup(s) PROVE block' = block \/ block = None
  BY <1>1 DEF Setup, Refuse, Begin, EnsureBlockAbsent, SyncManifest, ManifestsSynced,
    HeadBucket, CreateBucket, SaveAssetsBlock, NextPackage, UploadFile, Uploaded, ListStale,
    DeleteStale, VerifyAccess, SaveCourseBlock, SetupFails, world, store, prefect
<1>2. ASSUME NEW r \in Flows, Download(r) PROVE block' = block
  BY <1>2 DEF Download, LoadCourseBlock, ListAssets, ReadAsset, AssetsRead, ReadFails,
    world, prefect
<1> QED
  BY <1>1, <1>2 DEF Next, DeleteBlock

LEMMA ListingType == ListingInv /\ [ListingNext]_<<vars, listing>> => ListingTypeOK'
<1> SUFFICES ASSUME ListingInv, [ListingNext]_<<vars, listing>> PROVE ListingTypeOK'
  OBVIOUS
<1> DEFINE D == ToSet(Documents)
<1>0. ListingTypeOK
  BY DEF ListingInv
<1>1. CASE UNCHANGED listing
  BY <1>0, <1>1 DEF ListingTypeOK, listing
<1>2. CASE CourseChanges
  BY <1>0, <1>2 DEF ListingTypeOK, CourseChanges
<1>3. CASE StartListing
  <2>1. \A i \in DOMAIN Present : Present[i] \in D
    BY PresentType
  <2>2. atStart' \subseteq D \ {Anonymous}
    BY <1>3, <2>1 DEF StartListing, Named
  <2> QED
    BY <1>0, <1>3, <2>2 DEF ListingTypeOK, StartListing
<1>4. CASE ReadPage
  <2> DEFINE o == offset
  <2>1. o \in Nat
    BY <1>0 DEF ListingTypeOK
  <2>2. /\ pages' \in Seq(D) /\ Len(pages') = offset'
        /\ DOMAIN pages = 1..o /\ DOMAIN pages' = 1..offset'
        /\ offset' \in Nat /\ offset' >= o /\ offset' <= Len(Documents)
        /\ \A i \in 1..o : pages'[i] = pages[i]
    BY <1>0, <1>4, <2>1, PagesGrow
  <2>3. {i \in DOMAIN pages : pages[i] # Anonymous}
          \subseteq {i \in DOMAIN pages' : pages'[i] # Anonymous}
    BY <2>1, <2>2
  <2>4. rows' = rows /\ atStart' = atStart /\ changes' = changes
        /\ lpc' \in {"page", "load"}
    BY <1>4 DEF ReadPage
  <2>5. rows' \subseteq {i \in DOMAIN pages' : pages'[i] # Anonymous} \X BOOLEAN
    BY <1>0, <2>3, <2>4 DEF ListingTypeOK
  <2> HIDE DEF D
  <2>6. atStart' \subseteq D \ {Anonymous} /\ changes' \subseteq {"saved", "deleted"}
    BY <1>0, <2>4 DEF ListingTypeOK, D
  <2> QED
    BY <2>2, <2>4, <2>5, <2>6 DEF ListingTypeOK, D
<1>5. ASSUME NEW i \in DOMAIN pages, LoadListed(i) PROVE ListingTypeOK'
  <2>1. i \in DOMAIN pages /\ pages[i] # Anonymous
    BY <1>5 DEF LoadListed, Named
  <2> DEFINE named == {j \in DOMAIN pages : pages[j] # Anonymous}
  <2>2. PICK valid \in BOOLEAN : rows' = rows \cup {<<i, valid>>}
    BY <1>5 DEF LoadListed
  <2>3. rows \subseteq named \X BOOLEAN /\ i \in named
    BY <1>0, <2>1 DEF ListingTypeOK
  <2> HIDE DEF named
  <2>4. rows' \subseteq named \X BOOLEAN
    BY <2>2, <2>3
  <2> QED
    BY <1>0, <1>5, <2>4 DEF ListingTypeOK, LoadListed, named
<1>6. CASE ListingDone \/ ListingFails
  BY <1>0, <1>6 DEF ListingTypeOK, ListingDone, ListingFails
<1> QED
  BY <1>1, <1>2, <1>3, <1>4, <1>5, <1>6 DEF ListingNext, List

\* What a step of the setups or the flow runs does to the listing's history.
LEMMA ChangesNoted ==
  ASSUME CourseChanges
  PROVE  /\ UNCHANGED <<lpc, offset, pages, rows, atStart>>
         /\ changes \subseteq changes'
         /\ Listing /\ block' # block =>
              \/ block # None /\ block' = None /\ "deleted" \in changes'
              \/ block = None /\ block' # None /\ "saved" \in changes'
  BY BlockFree DEF CourseChanges

LEMMA BehindSame ==
  ASSUME block' = block, offset' = offset
  PROVE  \A doc : Behind(doc)' <=> Behind(doc)
  BY DEF Behind, Present

LEMMA ToComeStep == ListingInv /\ [ListingNext]_<<vars, listing>> => ToCome'
<1> SUFFICES ASSUME ListingInv, [ListingNext]_<<vars, listing>>, "deleted" \notin changes'
             PROVE  /\ lpc' = "page" =>
                         \A doc \in atStart' : doc \in ToSet(pages') \/ Behind(doc)'
                    /\ lpc' \in {"load", "done"} => atStart' \subseteq ToSet(pages')
  BY DEF ToCome
<1>0. ListingTypeOK /\ ToCome /\ offset \in Nat
  BY DEF ListingInv, ListingTypeOK
<1>1. CASE UNCHANGED <<vars, listing>>
  <2>1. block' = block /\ UNCHANGED listing
    BY <1>1 DEF vars, world, prefect
  <2> QED
    BY <1>0, <2>1, BehindSame DEF ToCome, listing
<1>2. CASE CourseChanges
  <2>1. UNCHANGED <<lpc, offset, pages, rows, atStart>> /\ "deleted" \notin changes
    BY <1>2, ChangesNoted
  <2>2. CASE lpc # "page"
    BY <1>0, <2>1, <2>2 DEF ToCome
  <2>3. CASE lpc = "page"
    <3>1. block' = block \/ (block = None /\ block' # None)
      BY <1>2, <2>3, ChangesNoted DEF Listing
    <3>2. \A doc : Behind(doc) => Behind(doc)'
      BY <1>0, <2>1, <3>1, BehindSame, SavedBehind
    <3> QED
      BY <1>0, <2>1, <2>3, <3>2 DEF ToCome
  <2> QED
    BY <2>2, <2>3
<1>3. CASE StartListing
  <2>1. lpc = "idle" /\ lpc' = "page" /\ Present' = Present /\ offset' = 0
    BY <1>0, <1>3
      DEF StartListing, ListingInv, ListingTypeOK, vars, world, prefect, Present
  <2>2. ASSUME NEW doc \in atStart' PROVE Behind(doc)'
    <3>1. PICK k \in DOMAIN Present : Present[k] = doc
      BY <1>3 DEF StartListing, Named
    <3>2. k > 0
      BY PresentType
    <3> QED
      BY <2>1, <3>1, <3>2 DEF Behind
  <2> QED
    BY <2>1, <2>2
<1>4. CASE ReadPage
  <2> DEFINE o == offset
  <2>1. /\ DOMAIN pages = 1..o /\ DOMAIN pages' = 1..offset'
        /\ offset' \in Nat /\ offset' >= o
        /\ \A i \in 1..o : pages'[i] = pages[i]
        /\ \A i \in 1..offset' : i > o => i \in DOMAIN Present /\ pages'[i] = Present[i]
        /\ lpc' = "load" => Len(Present) <= offset'
        /\ Present' = Present
    BY <1>0, <1>4, PagesGrow
  <2>2. lpc = "page" /\ atStart' = atStart /\ changes' = changes /\ lpc' \in {"page", "load"}
    BY <1>4 DEF ReadPage
  <2>3. ASSUME NEW doc \in atStart
        PROVE  doc \in ToSet(pages') \/ (Behind(doc)' /\ lpc' = "page")
    <3>1. CASE doc \in ToSet(pages)
      <4>1. PICK i \in DOMAIN pages : pages[i] = doc
        BY <3>1 DEF ToSet
      <4>2. i \in DOMAIN pages' /\ pages'[i] = doc
        BY <1>0, <2>1, <4>1
      <4> QED
        BY <4>2 DEF ToSet
    <3>2. CASE Behind(doc)
      <4>1. PICK k \in DOMAIN Present : k > o /\ Present[k] = doc
        BY <3>2 DEF Behind
      <4>2. k \in Nat /\ k <= Len(Present) /\ Len(Present) \in Nat /\ k >= 1
        BY PresentType
      <4>3. CASE k <= offset'
        <5>1. k \in DOMAIN pages' /\ pages'[k] = doc
          BY <2>1, <4>1, <4>2, <4>3
        <5> QED
          BY <5>1 DEF ToSet
      <4>4. CASE ~(k <= offset')
        <5>1. k > offset' /\ lpc' # "load"
          BY <2>1, <4>2, <4>4
        <5> QED
          BY <2>1, <2>2, <4>1, <5>1 DEF Behind
      <4> QED
        BY <4>3, <4>4
    <3> QED
      BY <1>0, <2>2, <3>1, <3>2 DEF ToCome
  <2> QED
    BY <2>2, <2>3
<1>5. ASSUME NEW i \in DOMAIN pages, LoadListed(i)
      PROVE  lpc' = "load" /\ atStart' \subseteq ToSet(pages')
  BY <1>0, <1>5 DEF LoadListed, ToCome
<1>6. CASE ListingDone \/ ListingFails
  BY <1>0, <1>6 DEF ListingDone, ListingFails, ToCome
<1> QED
  BY <1>1, <1>2, <1>3, <1>4, <1>5, <1>6 DEF ListingNext, List

LEMMA ReadOnceStep == ListingInv /\ [ListingNext]_<<vars, listing>> => ReadOnce'
<1> SUFFICES ASSUME ListingInv, [ListingNext]_<<vars, listing>>, "saved" \notin changes'
             PROVE  /\ \A i, j \in Named(pages') : pages'[i] = pages'[j] => i = j
                    /\ lpc' = "page" => \A i \in Named(pages') : ~Behind(pages[i])'
  BY DEF ReadOnce
<1>0. ListingTypeOK /\ ReadOnce /\ offset \in Nat
  BY DEF ListingInv, ListingTypeOK
<1>1. CASE UNCHANGED <<vars, listing>>
  <2>1. block' = block /\ UNCHANGED listing
    BY <1>1 DEF vars, world, prefect
  <2> QED
    BY <1>0, <2>1 DEF ReadOnce, listing, Behind, Present
<1>2. CASE CourseChanges
  <2>1. UNCHANGED <<lpc, offset, pages, rows, atStart>> /\ "saved" \notin changes
    BY <1>2, ChangesNoted
  <2>2. \A i, j \in Named(pages) : pages[i] = pages[j] => i = j
    BY <1>0, <2>1 DEF ReadOnce
  <2>3. ASSUME lpc = "page", NEW i \in Named(pages), Behind(pages[i])' PROVE FALSE
    <3>1. block' = block \/ (block # None /\ block' = None)
      BY <1>2, <2>3, ChangesNoted DEF Listing
    <3>2. PICK doc : doc = pages[i]
      OBVIOUS
    <3>3. Behind(doc)'
      BY <2>1, <2>3, <3>2 DEF Behind
    <3>4. Behind(doc)
      BY <1>0, <2>1, <3>1, <3>3, BehindSame, DeletedBehind
    <3> QED
      BY <1>0, <2>1, <2>3, <3>2, <3>4 DEF ReadOnce
  <2> QED
    BY <2>1, <2>2, <2>3
<1>3. CASE StartListing
  <2>1. pages' = <<>>
    BY <1>3 DEF StartListing, ListingInv
  <2> QED
    BY <2>1 DEF Named
<1>4. CASE ReadPage
  <2> DEFINE o == offset
  <2>1. /\ DOMAIN pages = 1..o /\ DOMAIN pages' = 1..offset'
        /\ offset' \in Nat /\ offset' >= o
        /\ \A i \in 1..o : pages'[i] = pages[i]
        /\ \A i \in 1..offset' : i > o => i \in DOMAIN Present /\ pages'[i] = Present[i]
        /\ Present' = Present
    BY <1>0, <1>4, PagesGrow
  <2>2. lpc = "page" /\ changes' = changes
    BY <1>4 DEF ReadPage
  <2>3. /\ \A i, j \in Named(pages) : pages[i] = pages[j] => i = j
        /\ \A i \in Named(pages) : ~Behind(pages[i])
    BY <1>0, <2>2 DEF ReadOnce
  <2>4. ASSUME NEW i \in Named(pages'), NEW k \in DOMAIN Present, k > o, pages'[i] = Present[k]
        PROVE  i = k
    <3>1. i \in 1..offset' /\ pages'[i] # Anonymous
      BY <2>1 DEF Named
    <3>2. CASE i <= o
      <4>1. i \in Named(pages) /\ pages[i] = Present[k]
        BY <1>0, <2>1, <2>4, <3>1, <3>2 DEF Named
      <4> QED
        BY <2>3, <2>4, <4>1 DEF Behind
    <3>3. CASE ~(i <= o)
      <4>1. i \in DOMAIN Present /\ pages'[i] = Present[i]
        BY <1>0, <2>1, <3>1, <3>3
      <4> QED
        BY <2>4, <3>1, <4>1, PresentType
    <3> QED
      BY <3>2, <3>3
  <2>5. ASSUME NEW i \in Named(pages'), NEW j \in Named(pages'), pages'[i] = pages'[j]
        PROVE  i = j
    <3>1. i \in 1..offset' /\ j \in 1..offset' /\ pages'[i] # Anonymous
      BY <2>1 DEF Named
    <3>2. CASE i <= o /\ j <= o
      <4>1. i \in Named(pages) /\ j \in Named(pages) /\ pages[i] = pages[j]
        BY <1>0, <2>1, <2>5, <3>1, <3>2 DEF Named
      <4> QED
        BY <2>3, <4>1
    <3>3. CASE ~(i <= o)
      <4>1. i > o /\ i \in DOMAIN Present /\ pages'[i] = Present[i]
        BY <1>0, <2>1, <3>1, <3>3
      <4> QED
        BY <2>4, <2>5, <4>1
    <3>4. CASE ~(j <= o)
      <4>1. j > o /\ j \in DOMAIN Present /\ pages'[j] = Present[j]
        BY <1>0, <2>1, <3>1, <3>4
      <4> QED
        BY <2>4, <2>5, <4>1
    <3> QED
      BY <3>2, <3>3, <3>4
  <2>6. ASSUME NEW i \in Named(pages'), Behind(pages[i])' PROVE FALSE
    <3>1. PICK k \in DOMAIN Present : k > offset' /\ Present[k] = pages'[i]
      BY <2>1, <2>6 DEF Behind
    <3>2. k \in Nat /\ i \in 1..offset'
      BY <2>1, PresentType DEF Named
    <3>3. k > o
      BY <1>0, <2>1, <3>1, <3>2
    <3>4. i = k
      BY <2>4, <3>1, <3>3
    <3> QED
      BY <2>1, <3>1, <3>2, <3>4
  <2> QED
    BY <2>5, <2>6
<1>5. ASSUME NEW i \in DOMAIN pages, LoadListed(i)
      PROVE  /\ lpc' = "load"
             /\ \A k, j \in Named(pages') : pages'[k] = pages'[j] => k = j
  BY <1>0, <1>5 DEF LoadListed, ReadOnce
<1>6. CASE ListingDone \/ ListingFails
  BY <1>0, <1>6 DEF ListingDone, ListingFails, ReadOnce
<1> QED
  BY <1>1, <1>2, <1>3, <1>4, <1>5, <1>6 DEF ListingNext, List

LEMMA ListingInvInit == ListingInit => ListingInv
<1> SUFFICES ASSUME ListingInit PROVE ListingInv
  OBVIOUS
<1>1. /\ lpc = "idle" /\ offset = 0 /\ pages = <<>> /\ rows = {} /\ atStart = {}
      /\ changes = {}
  BY DEF ListingInit
<1>2. Len(Documents) \in Nat
  BY DocumentsAssumption
<1>3. ListingTypeOK
  BY <1>1, <1>2 DEF ListingTypeOK
<1>4. ToCome /\ ReadOnce
  BY <1>1 DEF ToCome, ReadOnce, Named
<1> QED
  BY <1>1, <1>3, <1>4 DEF ListingInv

LEMMA ListingInvStep == ListingInv /\ [ListingNext]_<<vars, listing>> => ListingInv'
<1> SUFFICES ASSUME ListingInv, [ListingNext]_<<vars, listing>> PROVE ListingInv'
  OBVIOUS
<1>1. (lpc = "idle" => pages = <<>> /\ rows = {} /\ changes = {})'
  BY DEF ListingInv, ListingNext, List, CourseChanges, StartListing, ReadPage, LoadListed,
         ListingDone, ListingFails, Listing, listing
<1>2. (lpc = "done" => Loaded = Named(pages))'
  BY DEF ListingInv, ListingNext, List, CourseChanges, StartListing, ReadPage, LoadListed,
         ListingDone, ListingFails, Listing, listing, Loaded, Named
<1> QED
  BY <1>1, <1>2, ListingType, ToComeStep, ReadOnceStep DEF ListingInv

LEMMA ListingInvHolds == ListingSpec => []ListingInv
  BY ListingInvInit, ListingInvStep, PTL DEF ListingSpec

\* What the listing has read and loaded is what there was to read: no document
\* is made up, none without a name is loaded, and its place is the number read.
THEOREM ListingTypeCorrect == ListingSpec => []ListingTypeOK
  BY ListingInvHolds, PTL DEF ListingInv

\* _list_block_document_names: however the blocks fall on the pages and whenever
\* setups save the course's block or an operator deletes it, the list is of every
\* course there was at its start unless a block was deleted meanwhile, has none
\* twice unless one was saved meanwhile, and each has a row in the end, whatever
\* loading the blocks raised.
THEOREM CoursesAreListed == ListingSpec => []EveryCourseListed
<1>1. ListingInv => EveryCourseListed
  BY DEF ListingInv, ToCome, ReadOnce, EveryCourseListed
<1> QED
  BY <1>1, ListingInvHolds, PTL
=============================================================================
