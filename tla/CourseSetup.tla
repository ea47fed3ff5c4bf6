----------------------------- MODULE CourseSetup -----------------------------
(***************************************************************************)
(* `ccc course setup` for one course: several setups, one after another or *)
(* at once, on one S3-compatible store and one Prefect server (both        *)
(* external), while flow runs of the course download the assets of their   *)
(* assignment.                                                             *)
(*                                                                         *)
(* A setup maps assignments to work packages on disk and uploads each      *)
(* package under the assignment's prefix, assignments/<id>.  An object of  *)
(* the store is known by the setup that uploaded it.  A setup may fail, or *)
(* be interrupted, after any of its steps.                                 *)
(***************************************************************************)
EXTENDS Integers, Sequences, SequencesExt

CONSTANTS
  Setups,      \* invocations of `ccc course setup`
  Flows,       \* flow runs that download assets
  Assignments, \* IDs of assignments
  Extends,     \* assignment -> those whose prefix begins, as text, with its own
  Roots,       \* work packages on disk
  Files,       \* names of assets in a work package
  Given,       \* what --work-package may say: sequences of <<assignment, root>>
               \* and Invalid
  Contents,    \* what setups may find on disk: root -> its assets, or Missing
  Invalid,     \* a mapping that cannot be parsed
  Missing,     \* no such work package, or one without an asset directory
  None

ASSUME AssignmentsAssumption ==
  /\ Assignments \subseteq Nat
  /\ Extends \in [Assignments -> SUBSET Assignments]
  /\ \A a \in Assignments : a \in Extends[a]
ASSUME GivenAssumption == Given \subseteq Seq((Assignments \X Roots) \cup {Invalid})
ASSUME ContentsAssumption == Contents \subseteq [Roots -> (SUBSET Files) \cup {Missing}]
ASSUME NoneAssumption == None \notin Setups \cup Roots /\ None \notin Assignments

VARIABLES
  objects,    \* store: assignment -> file -> setup that uploaded it, or None
  bucket,     \* store: does the bucket exist
  assets,     \* Prefect: is the assets block saved
  block,      \* Prefect: setup that saved the course block, or None
  manifest,   \* disk: root -> assignments its manifest records
  pc,         \* setup -> where it is
  plan,       \* setup -> assignment -> root, or None
  pkg,        \* setup -> root -> its assets
  todo,       \* setup -> assignments whose package is still to be uploaded
  left,       \* setup -> roots to record, then files to upload, then to delete
  overlapped, \* setups that ran alongside another (history)
  fpc,        \* flow run -> where it is
  of,         \* flow run -> its assignment
  loaded,     \* flow run -> setup whose course block it loaded
  toRead,     \* flow run -> objects to download
  got,        \* flow run -> file -> setup that uploaded what it downloaded
  disturbed   \* flow runs that were downloading when a course block was deleted
              \* (history)

store == <<objects, bucket>>
prefect == <<assets, block>>
world == <<store, prefect, manifest>>
input == <<plan, pkg, overlapped>>
setupVars == <<pc, input, todo, left>>
flowVars == <<fpc, of, loaded, toRead, got, disturbed>>
vars == <<world, setupVars, flowVars>>

Working == {"check", "manifest", "bucket", "create", "assets", "package", "upload",
            "list", "delete", "verify", "save"}
NoAssets == [f \in Files |-> None]

\* What belongs under the prefix of a once s has uploaded its work package.
Package(s, a) ==
  [f \in Files |-> IF plan[s][a] # None /\ f \in pkg[s][plan[s][a]] THEN s ELSE None]

TypeOK ==
  /\ objects \in [Assignments -> [Files -> Setups \cup {None}]]
  /\ bucket \in BOOLEAN /\ assets \in BOOLEAN
  /\ block \in Setups \cup {None}
  /\ manifest \in [Roots -> SUBSET Assignments]
  /\ pc \in [Setups -> {"idle", "done", "refused", "failed"} \cup Working]
  /\ plan \in [Setups -> [Assignments -> Roots \cup {None}]]
  /\ pkg \in [Setups -> Contents \cup {[w \in Roots |-> Missing]}]
  /\ todo \in [Setups -> SUBSET Assignments]
  /\ left \in [Setups -> SUBSET (Roots \cup Files)]
  /\ overlapped \subseteq Setups
  /\ fpc \in [Flows -> {"idle", "list", "read", "ready", "failed"}]
  /\ of \in [Flows -> Assignments \cup {None}]
  /\ loaded \in [Flows -> Setups \cup {None}]
  /\ toRead \in [Flows -> SUBSET (Assignments \X Files)]
  /\ got \in [Flows -> [Files -> Setups \cup {None}]]
  /\ disturbed \subseteq Flows

Init ==
  /\ objects = [a \in Assignments |-> NoAssets] /\ bucket = FALSE
  /\ assets = FALSE /\ block = None
  /\ manifest = [w \in Roots |-> {}]
  /\ pc = [s \in Setups |-> "idle"]
  /\ plan = [s \in Setups |-> [a \in Assignments |-> None]]
  /\ pkg = [s \in Setups |-> [w \in Roots |-> Missing]]
  /\ todo = [s \in Setups |-> {}] /\ left = [s \in Setups |-> {}]
  /\ overlapped = {}
  /\ fpc = [r \in Flows |-> "idle"] /\ of = [r \in Flows |-> None]
  /\ loaded = [r \in Flows |-> None]
  /\ toRead = [r \in Flows |-> {}]
  /\ got = [r \in Flows |-> NoAssets]
  /\ disturbed = {}

At(s, point) == pc[s] = point
GoTo(s, point) == pc' = [pc EXCEPT ![s] = point]
Reading(r) == fpc[r] \in {"list", "read"}

------------------------------------------------------------------------------
(* course_setup_command *)

\* Mappings that cannot be parsed are skipped; of several for an assignment the
\* last is kept.
ParseMappings(given) ==
  [a \in Assignments |->
     LET its == {i \in DOMAIN given : given[i] # Invalid /\ given[i][1] = a}
     IN  IF its = {} THEN None ELSE given[Max(its)][2]]

Mapped(s) == {a \in Assignments : plan[s][a] # None}

\* An option, the credential or the course is not accepted, or the operator
\* does not confirm the summary.
Refuse(s) ==
  /\ At(s, "idle")
  /\ GoTo(s, "refused")
  /\ UNCHANGED <<world, input, todo, left, flowVars>>

\* Every work package mapped must be there and have its assets.
Resolved(planned, found) ==
  \A a \in Assignments : planned[a] # None => found[planned[a]] # Missing

\* _build_course_setup_config; with what is not, the setup is refused.
Begin(s) ==
  LET others == {t \in Setups : pc[t] \in Working}
  IN  /\ At(s, "idle")
      /\ \E given \in Given, found \in Contents :
           /\ Resolved(ParseMappings(given), found)
           /\ plan' = [plan EXCEPT ![s] = ParseMappings(given)]
           /\ pkg' = [pkg EXCEPT ![s] = found]
      /\ overlapped' = IF others = {} THEN overlapped ELSE overlapped \cup others \cup {s}
      /\ GoTo(s, "check")
      /\ UNCHANGED <<world, todo, left, flowVars>>

\* Mutant: a block that exists is left to _save_course_block to find.
EnsureBlockAbsent_Later(s) ==
  /\ At(s, "check")
  /\ left' = [left EXCEPT ![s] = {plan[s][a] : a \in Mapped(s)}]
  /\ GoTo(s, "manifest")
  /\ UNCHANGED <<world, input, todo, flowVars>>

EnsureBlockAbsent(s) ==
  /\ At(s, "check")
  /\ IF block = None
     THEN /\ left' = [left EXCEPT ![s] = {plan[s][a] : a \in Mapped(s)}]
          /\ GoTo(s, "manifest")
     ELSE GoTo(s, "refused") /\ UNCHANGED left
  /\ UNCHANGED <<world, input, todo, flowVars>>

\* The manifest of one work package: read, merged and written.
SyncManifest(s, w) ==
  /\ At(s, "manifest") /\ w \in left[s]
  /\ manifest' = [manifest EXCEPT ![w] = @ \cup {a \in Mapped(s) : plan[s][a] = w}]
  /\ left' = [left EXCEPT ![s] = @ \ {w}]
  /\ UNCHANGED <<store, prefect, pc, input, todo, flowVars>>

ManifestsSynced(s) ==
  /\ At(s, "manifest") /\ left[s] = {}
  /\ GoTo(s, "bucket")
  /\ UNCHANGED <<world, input, todo, left, flowVars>>

HeadBucket(s) ==
  /\ At(s, "bucket")
  /\ GoTo(s, IF bucket THEN "assets" ELSE "create")
  /\ UNCHANGED <<world, input, todo, left, flowVars>>

\* The store refuses a bucket that exists by now.
CreateBucket(s) ==
  /\ At(s, "create") /\ ~bucket
  /\ bucket' = TRUE
  /\ GoTo(s, "assets")
  /\ UNCHANGED <<objects, prefect, manifest, input, todo, left, flowVars>>

\* overwrite=True.
SaveAssetsBlock(s) ==
  /\ At(s, "assets")
  /\ assets' = TRUE
  /\ todo' = [todo EXCEPT ![s] = Mapped(s)]
  /\ GoTo(s, "package")
  /\ UNCHANGED <<store, block, manifest, input, left, flowVars>>

\* The plans are in the order of their assignments.
Turn(s) == Min(todo[s])

NextPackage(s) ==
  /\ At(s, "package")
  /\ IF todo[s] = {} THEN GoTo(s, "verify") /\ UNCHANGED left
     ELSE /\ left' = [left EXCEPT ![s] = pkg[s][plan[s][Turn(s)]]]
          /\ GoTo(s, "upload")
  /\ UNCHANGED <<world, input, todo, flowVars>>

UploadFile(s, f) ==
  /\ At(s, "upload") /\ f \in left[s]
  /\ objects' = [objects EXCEPT ![Turn(s)][f] = s]
  /\ left' = [left EXCEPT ![s] = @ \ {f}]
  /\ UNCHANGED <<bucket, prefect, manifest, pc, input, todo, flowVars>>

Uploaded(s) ==
  /\ At(s, "upload") /\ left[s] = {}
  /\ GoTo(s, "list")
  /\ UNCHANGED <<world, input, todo, left, flowVars>>

Stored(a) == {f \in Files : objects[a][f] # None}
Fresh(s) == pkg[s][plan[s][Turn(s)]]

\* Mutant: the keys to keep are compared without their prefix, so none is kept.
ListStale_AllKeys(s) ==
  /\ At(s, "list")
  /\ left' = [left EXCEPT ![s] = Stored(Turn(s))]
  /\ GoTo(s, "delete")
  /\ UNCHANGED <<world, input, todo, flowVars>>

\* Mutant: the listing's placeholder for the prefix itself is taken for an asset.
ListStale_Placeholder(s) ==
  /\ At(s, "list")
  /\ left' = [left EXCEPT ![s] = (Stored(Turn(s)) \ Fresh(s)) \cup {"/"}]
  /\ GoTo(s, "delete")
  /\ UNCHANGED <<world, input, todo, flowVars>>

\* The prefix is listed with a slash at its end: no other assignment's objects.
ListStale(s) ==
  /\ At(s, "list")
  /\ left' = [left EXCEPT ![s] = Stored(Turn(s)) \ Fresh(s)]
  /\ GoTo(s, "delete")
  /\ UNCHANGED <<world, input, todo, flowVars>>

\* Deleted(s, gone): the store without them.
Deleted(s, gone) ==
  [objects EXCEPT ![Turn(s)] = [f \in Files |-> IF f \in gone THEN None ELSE @[f]]]

\* Mutant: the errors of the store's answer are not looked at.
DeleteStale_IgnoreErrors(s) ==
  /\ At(s, "delete")
  /\ \E gone \in SUBSET left[s] : objects' = Deleted(s, gone)
  /\ todo' = [todo EXCEPT ![s] = @ \ {Turn(s)}]
  /\ left' = [left EXCEPT ![s] = {}]
  /\ GoTo(s, "package")
  /\ UNCHANGED <<bucket, prefect, manifest, input, flowVars>>

\* delete_objects may delete some of the keys and report errors for the rest.
DeleteStale(s) ==
  /\ At(s, "delete")
  /\ \E gone \in SUBSET left[s] :
       /\ objects' = Deleted(s, gone)
       /\ IF gone = left[s]
          THEN GoTo(s, "package") /\ todo' = [todo EXCEPT ![s] = @ \ {Turn(s)}]
          ELSE GoTo(s, "failed") /\ todo' = [todo EXCEPT ![s] = {}]
  /\ left' = [left EXCEPT ![s] = {}]
  /\ UNCHANGED <<bucket, prefect, manifest, input, flowVars>>

VerifyAccess(s) ==
  /\ At(s, "verify") /\ bucket
  /\ GoTo(s, "save")
  /\ UNCHANGED <<world, input, todo, left, flowVars>>

\* overwrite=False.
SaveCourseBlock(s) ==
  /\ At(s, "save") /\ block = None
  /\ block' = s
  /\ GoTo(s, "done")
  /\ UNCHANGED <<store, assets, manifest, input, todo, left, flowVars>>

\* Any call fails, or the operator interrupts it.
SetupFails(s) ==
  /\ pc[s] \in Working
  /\ todo' = [todo EXCEPT ![s] = {}] /\ left' = [left EXCEPT ![s] = {}]
  /\ GoTo(s, "failed")
  /\ UNCHANGED <<world, input, flowVars>>

\* `prefect block delete`, which setup asks for before it is run again, and
\* which nothing keeps from happening while flow runs download.
DeleteBlock ==
  /\ block # None
  /\ block' = None
  /\ disturbed' = disturbed \cup {r \in Flows : Reading(r)}
  /\ UNCHANGED <<store, assets, manifest, setupVars, fpc, of, loaded, toRead, got>>

------------------------------------------------------------------------------
(* A flow run, up to the assets of its workspace *)

LoadCourseBlock(r) ==
  /\ fpc[r] = "idle" /\ block # None
  /\ loaded' = [loaded EXCEPT ![r] = block]
  /\ \E a \in Assignments : of' = [of EXCEPT ![r] = a]
  /\ fpc' = [fpc EXCEPT ![r] = "list"]
  /\ UNCHANGED <<world, setupVars, toRead, got, disturbed>>

\* Mutant: an assignment without a mapping falls back to the whole bucket.
Prefixed_EmptyFallback(s, a) == IF a \in Mapped(s) THEN Extends[a] ELSE Assignments

\* _resolve_assignment_asset_prefix, and whose objects have a key that begins
\* with the prefix: it goes to the store without a slash at its end.  Setup
\* uploads nothing under the course's own prefix, the fallback.
Prefixed(s, a) == IF a \in Mapped(s) THEN Extends[a] ELSE {}

ListAssets(r) ==
  /\ fpc[r] = "list"
  /\ toRead' = [toRead EXCEPT ![r] =
       UNION {{b} \X Stored(b) : b \in Prefixed(loaded[r], of[r])}]
  /\ fpc' = [fpc EXCEPT ![r] = "read"]
  /\ UNCHANGED <<world, setupVars, of, loaded, got, disturbed>>

\* A file lands at its path relative to the prefix: for another assignment's,
\* outside the assets directory.
ReadAsset(r, b, f) ==
  /\ fpc[r] = "read" /\ <<b, f>> \in toRead[r] /\ objects[b][f] # None
  /\ IF b = of[r] THEN got' = [got EXCEPT ![r][f] = objects[b][f]] ELSE UNCHANGED got
  /\ toRead' = [toRead EXCEPT ![r] = @ \ {<<b, f>>}]
  /\ UNCHANGED <<world, setupVars, fpc, of, loaded, disturbed>>

AssetsRead(r) ==
  /\ fpc[r] = "read" /\ toRead[r] = {}
  /\ fpc' = [fpc EXCEPT ![r] = "ready"]
  /\ UNCHANGED <<world, setupVars, of, loaded, toRead, got, disturbed>>

\* Mutant: a download that breaks off leaves what it has to the grader.
ReadFails_Partial(r) ==
  /\ Reading(r)
  /\ fpc' = [fpc EXCEPT ![r] = "ready"]
  /\ UNCHANGED <<world, setupVars, of, loaded, toRead, got, disturbed>>

\* An object has gone since it was listed, or the store does not answer.
ReadFails(r) ==
  /\ Reading(r)
  /\ fpc' = [fpc EXCEPT ![r] = "failed"]
  /\ UNCHANGED <<world, setupVars, of, loaded, toRead, got, disturbed>>

Setup(s) ==
  \/ Refuse(s) \/ Begin(s) \/ EnsureBlockAbsent(s)
  \/ (\E w \in Roots : SyncManifest(s, w)) \/ ManifestsSynced(s)
  \/ HeadBucket(s) \/ CreateBucket(s) \/ SaveAssetsBlock(s) \/ NextPackage(s)
  \/ (\E f \in Files : UploadFile(s, f)) \/ Uploaded(s)
  \/ ListStale(s) \/ DeleteStale(s)
  \/ VerifyAccess(s) \/ SaveCourseBlock(s) \/ SetupFails(s)

Download(r) ==
  \/ LoadCourseBlock(r) \/ ListAssets(r)
  \/ (\E a \in Assignments, f \in Files : ReadAsset(r, a, f))
  \/ AssetsRead(r) \/ ReadFails(r)

Next == (\E s \in Setups : Setup(s)) \/ DeleteBlock \/ (\E r \in Flows : Download(r))

Spec == Init /\ [][Next]_vars

------------------------------------------------------------------------------
(* Properties *)

\* A course block names a course that can be graded: its bucket and assets block
\* exist, and for every assignment it maps the manifest records it and the prefix
\* holds the package of the setup that saved the block and nothing of the setups
\* before, those that failed half way included.  Of a setup that ran alongside
\* another nothing is promised.
CourseIsRunnable ==
  block \notin overlapped \cup {None} =>
    /\ bucket /\ assets
    /\ \A a \in Mapped(block) :
         a \in manifest[plan[block][a]] /\ objects[a] = Package(block, a)

\* "a failed upload never empties an assignment's live assets": a prefix loses
\* its last object only to the pruning of that very assignment, by a setup whose
\* package is empty, or one that ran alongside another.
NeverEmptied ==
  [][\A a \in Assignments :
       objects[a] # NoAssets /\ objects'[a] = NoAssets =>
         \E s \in Setups :
           At(s, "delete") /\ Turn(s) = a /\ (s \in overlapped \/ Fresh(s) = {})]_vars

\* "runtime downloads the correct package": a flow run is given exactly the
\* package its assignment has in the course block it loaded, not parts of two
\* setups, and nothing of another assignment's, whose ID may begin with its own;
\* unless the block was deleted under its download, when the next setup may
\* change the assets as it reads them.
CorrectPackage ==
  \A r \in Flows \ disturbed :
    fpc[r] = "ready" /\ loaded[r] \notin overlapped => got[r] = Package(loaded[r], of[r])

\* "Fail before any S3 or manifest mutation if the course block already
\* exists": the store and the manifests change only while there is no block.
MutatedOnlyUnblocked ==
  [][<<objects, manifest>>' # <<objects, manifest>> => block \in overlapped \cup {None}]_vars
------------------------------------------------------------------------------
(* The inductive invariant *)

Turning == {"upload", "list", "delete"}
Shipping == {"package", "verify", "save"} \cup Turning

\* A setup that runs alone is the only one at work.
Alone ==
  \A s, t \in Setups :
    s # t /\ pc[s] \in Working /\ pc[t] \in Working => {s, t} \subseteq overlapped

\* A block, kept or loaded, was saved by a setup that is through.
Settled ==
  /\ block # None => At(block, "done")
  /\ \A r \in Flows : loaded[r] # None => At(loaded[r], "done")

\* While there is a block, whoever is at work has yet to look for it.
Blocked ==
  block \notin overlapped \cup {None} =>
    \A s \in Setups : pc[s] \in Working => At(s, "check")

\* What is mapped is there.
Provided == \A s \in Setups : \A a \in Mapped(s) : pkg[s][plan[s][a]] \subseteq Files

Recorded(s, a) == a \in manifest[plan[s][a]]

\* What a setup has put in place by the time it comes this far.
Staged ==
  \A s \in Setups :
    /\ pc[s] \in {"assets", "done"} \cup Shipping => bucket
    /\ pc[s] \in {"done"} \cup Shipping => assets
    /\ At(s, "manifest") => \A a \in Mapped(s) : plan[s][a] \in left[s] \/ Recorded(s, a)
    /\ pc[s] \in {"bucket", "create", "assets", "done"} \cup Shipping =>
         \A a \in Mapped(s) : Recorded(s, a)

\* Which packages are still to be uploaded.
Queued ==
  \A s \in Setups :
    /\ pc[s] \in Shipping => todo[s] \subseteq Mapped(s)
    /\ pc[s] \in Turning => todo[s] # {}
    /\ pc[s] \in {"verify", "save"} => todo[s] = {}

Placed(s, a) == objects[a] = Package(s, a)
Sent(s, f) == objects[Turn(s)][f] = s

\* What the store holds of a setup that runs alone.
Held(s) ==
  /\ pc[s] \in Shipping => \A a \in Mapped(s) \ todo[s] : Placed(s, a)
  /\ At(s, "upload") => \A f \in Fresh(s) \ left[s] : Sent(s, f)
  /\ pc[s] \in {"list", "delete"} => \A f \in Fresh(s) : Sent(s, f)
  /\ At(s, "delete") => left[s] = Stored(Turn(s)) \ Fresh(s)

\* ... and of the one whose course block is there.
Stocked ==
  /\ \A s \in Setups \ overlapped : Held(s)
  /\ block \notin overlapped \cup {None} => \A a \in Mapped(block) : Placed(block, a)

\* What a flow run has so far, if the block it loaded stays.
Reads(r) ==
  /\ fpc[r] # "idle" => loaded[r] # None /\ of[r] # None
  /\ Reading(r) => block = loaded[r]
  /\ fpc[r] \in {"idle", "list"} => got[r] = NoAssets
  /\ fpc[r] = "read" /\ of[r] \notin Mapped(loaded[r]) => toRead[r] = {}
  /\ fpc[r] = "read" /\ loaded[r] \notin overlapped =>
       \A f \in Files :
         got[r][f] = IF <<of[r], f>> \in toRead[r] THEN None ELSE Package(loaded[r], of[r])[f]

Serving == CorrectPackage /\ \A r \in Flows \ disturbed : Reads(r)

CourseInv == Alone /\ Settled /\ Blocked /\ Provided /\ Staged /\ Queued /\ Stocked /\ Serving
=============================================================================
