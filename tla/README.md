# Canvas Code Correction: TLA+ models, checks and proofs

Canvas Code Correction (CCC) takes Canvas webhooks or a command line, has Prefect
run a correction flow per submission, grades the student's files in a Docker
container, and posts feedback and a grade back to Canvas. This directory models
the parts of it where the order of steps, failures and overlapping runs decide
whether the result is right. Paths are relative to the repository root; the
package is `src/canvas_code_correction/` (below: `pkg/`).

## 1. The system

| Component | Code | State it keeps | Operations | Talks to |
|---|---|---|---|---|
| Webhook server, run gate | `pkg/webhooks/server.py`, `handler.py` | runtime state on `app.state`: rate limiter, delivery keys with expiry | load settings, find or build the state, limit, verify, reserve, release, answer | Canvas (HTTP in), Prefect (HTTP out) |
| Prefect hand-off | `pkg/webhooks/deployments.py`, `flows.py` | deployments and flow runs, in Prefect | ensure deployment, run deployment | Prefect |
| Verification | `pkg/webhooks/auth.py`, `models.py` | a PyJWT client per key URL, with its cache of signing keys, shared by all worker threads | four modes, payload parsing, claims | Canvas, its key set |
| Correction flow | `pkg/flows/correction.py` | local variables of a flow run | metadata, download, workspace, execute, collect, upload | all of the below |
| Canvas uploader | `pkg/flows/uploader.py` | the submission object it fetched | duplicate check, upload comment, post grade | Canvas |
| Grader executor | `pkg/flows/runner.py` | the container handle | pull, run, wait, stop, logs, remove | Docker daemon |
| Result collector | `pkg/flows/collector.py` | files of the workspace | find and parse points, build the feedback zip | workspace |
| Workspace | `pkg/flows/workspace.py` | a directory per flow run | make directories, copy submission files, download assets | disk, object store |
| Assignment batch | `pkg/cli_course.py` (`course run`) | loop, list of failures, download directory | run the flow on one or all submissions | correction flow |
| Course setup and list | `pkg/cli_course.py` (`course setup`, `course list`), `pkg/storage/rustfs_provisioning.py` | manifest, bucket, objects, assets block, course block | check, sync, create, upload, prune, verify, save | disk, object store, Prefect |
| Canvas resources | `pkg/clients/canvas_resources.py` | none | resolve a submission by its ID | Canvas |
| Bootstrap, configuration | `pkg/bootstrap.py`, `config.py`, `prefect_blocks/` | course blocks, in Prefect | load settings, list blocks, choose the auth mode | Prefect |
| CLI entry points, wrappers, scripts | `pkg/cli.py`, `cli_system.py`, `pkg/{uploader,runner,collector,workspace}.py`, `scripts/` | none | arguments, re-exports, development helpers | |

Canvas, Prefect, the Docker daemon, the object store, students, teachers and the
operator are external. They are modelled from how the code uses them, and the
definitions for them are marked external.

### What is hard about it

- Requests of the webhook server run their dependencies on worker threads and
  await Prefect in the middle of the handler; Canvas resends what it has no
  answer for, while the first attempt may still be under way.
- Every write to Canvas, Prefect or Docker can succeed and lose its answer.
- Flow runs of one submission overlap each other, the student's resubmissions
  and the teacher's grading. Nothing in CCC serialises them.
- A process may die between any two steps, and the state of the server is in memory.
- Course setup is a sequence of changes to three systems without a transaction.
- Canvas, Prefect and the store answer with what they have at that moment: lists that
  come in pages, sets of keys that rotate, prefixes whose objects are being replaced.

What makes each component correct is stated by its properties, below; the
hazards behind them are listed, line by line, in `PROJECT.json`.

## 2. Modules

| Module | Models | Composes |
|---|---|---|
| `DeliveryLease` | what the run gate promises: a lease per delivery key | |
| `WebhookIntake` | webhook server, run gate, hand-off to Prefect | implements `DeliveryLease` |
| `CanvasRecords` | Canvas (external): the submission records of an assignment | |
| `WebhookAuth` | verification of a posted event in each of its modes | extends `CanvasRecords` |
| `SubmissionLookup` | finding a submission by its record ID | extends `CanvasRecords` |
| `CanvasAccess` | both of these before one Canvas, which changes its records and keys under them | extends `WebhookAuth`, `SubmissionLookup` |
| `CanvasUploader` | `upload_feedback` and `post_grade` of several runs on one submission | |
| `CorrectionFlow` | the whole flow of several runs on one submission | extends `CanvasUploader` |
| `GraderExecutor` | `GraderExecutor.execute` of several runs on one Docker daemon | |
| `ResultCollector` | which files are the grader's results, what a points file is worth | |
| `AssignmentBatch` | `ccc course run`: pages of submissions, the way of the files into and out of the workspace | extends `ResultCollector`, `CanvasRecords` |
| `PointsReading` | the parser of points files, on any file, beside a batch | extends `AssignmentBatch` |
| `CourseSetup` | `ccc course setup`, and flow runs reading the assets it manages | |
| `CourseListing` | `ccc course list` meanwhile | extends `CourseSetup` |
| `MC...` | instances for TLC; `MCAssignmentBatch` is of `PointsReading`, `MCCourseSetup` of `CourseListing` | |
| `..._proofs` | theorems about the module of that name, checked by TLAPS | `CorrectionFlow_proofs` extends `CanvasUploader_proofs`, `AssignmentBatch_proofs` is about `PointsReading` |
| `NumberFacts` | what the proofs need to know of numbers: induction, least and greatest elements | |

Operators named like an action with a suffix (`Accept_Releasing`) and commented
"Mutant" are not part of a model. They are plausible bugs, one at least for each
property, and the property fails when one takes the place of the original:
evidence that the property depends on the code.

### WebhookIntake

A request is a slot `r` with a program point `pc[r]`, its delivery `del[r]` and the
runtime state `st[r]` its dependency gave it. A runtime state is named after the
request that built it; `cached` is `app.state.webhook_runtime_state`. The actions
are the route's dependencies in the order FastAPI resolves them (`LoadSettings`,
`FindRuntimeState`, `CreateRuntimeState`, `PassLimiter`, `Verify`), then the handler
(`IgnoreUnsupported`, `Acquire`, `RefuseDuplicate`), the hand-off (`EnsureDeployment`,
`SubmitRun`, `Accept`) and its two kinds of failure: `FailTrigger` for
`PrefectException` and `OSError`, which releases the key and answers 502, and
`CrashTrigger` for all others, which answers 500 and releases nothing. Test and
reservation of the gate are one step because no `await` separates them. The two
halves of `ensure_webhook_runtime_state` are two steps because it is a synchronous
dependency and runs on a thread.

Time is counted in rate-limit windows: a gate entry holds the time left, `age[r]` how
long a hand-off has taken. `MaxFlight` bounds the latter. The moving window of the limiter is taken as
one that starts afresh at each tick; that a moving window refuses longer is covered,
because a request may be refused at that point anyhow (`RefuseDisabled`). An event may
leave the window in which its time is accepted (`GrowOld`), from when on verification
refuses it.

### WebhookAuth

A request is where it is in `validate_webhook` (`step`) and what it posted. A post is
abstract: a signed body has a key ID, a header that is acceptable or not, a
signature that is genuine or not, and registered claims (`exp`, `nbf`, `iat`, `aud`) that
hold or not (`timely`), which `jwt.decode` checks unasked; any other body has its JSON, a
bearer token and MACs, "good" if made with the course's secret, or not ASCII, for which
`hmac.compare_digest` raises (`MacVerdict`). `EffectiveMode` is `effective_auth_mode`, and
the settings are any `WebhookSettings` whatever. Of the modes without Canvas's signature the
body is parsed first, as the code does, then one of `CheckBearer`, `CheckMac`,
`AskCanvas` or `RejectUnconfigured` applies.

The signed mode is a protocol with a shared cache. PyJWT's client is external and
modelled from the arguments and calls of `auth.py`: `get_signing_key` takes the key set
of the cache if it has not expired (`UseCache`), asks Canvas otherwise (`AskKeys`), and asks
once more for a key ID that is not in the set (`RefreshKeys`). Question, answer and
storing of the answer (`AskKeys`, `KeysAnswered`, `StoreKeys`) are three steps, so that
an older answer may overwrite a newer one; `functools.cache` may build two clients for
two first requests, which is why `StoreKeys` may also leave the cache alone. Canvas
publishes and withdraws keys at any time, never the last. When it cannot be reached the
request is answered 502, and 500 when its answer is no JSON (`FetchFails`). JSON that is
no usable key set is another matter (`KeysGarbled`, an empty set here): the client
may keep it before anybody looks at it, and whoever has it in hand raises a
`PyJWTError`, which is answered 401 (`RejectKeySet`). Time is counted in half
hours, `Lifespan` is that of the cache. `gone` is the age of a key's withdrawal and
`garbled` that of the last such answer, histories that only properties read; so is `kept`.

### SubmissionLookup

Each call of `resolve_submission_for_assignment` to Canvas is a step: the direct lookup
(`FindDirectly`, `FallBack`), each page of the scan (`ReadPage`, then `PickCandidate`,
`NextPage` or `GiveUp`) and the fetch by user (`FetchCandidate`). Users join and leave
between any two (`Reassign`), which shifts the pages that are still to come. `steady`, a
history variable, says that the record asked for was there from the beginning and
that nobody has left since.

### CanvasUploader

`comments` and `grade` are Canvas. A write to Canvas is two steps, the write and its
answer, so an error may come before or after the effect. An upload that takes effect only after
its call has already failed is not modelled. `upload_comment` of canvasapi returns
`(False, ...)`, without raising, when Canvas does not take the file, and nobody looks at what
it returns: `UploadRefused` reports the feedback as posted, and `refused`, a history
variable, remembers the run. `shown[r]` is a history variable: has Canvas
shown the run's points since its `post_grade` fetched the submission. A grade is the text
`str(points)`; `Rendered` are those that Canvas returns unchanged, so that "85.0",
returned as "85", never compares equal. `overlapped`, a history variable, holds the
runs that were at work while another one was.

### CorrectionFlow

The stages before the uploads, with `CanvasUploader` extended for these: its `Begin` is
part of `CollectResults`. An attempt is a number. Points are whatever the points file in
the workspace says, the grader's or one the student handed in, so `CollectResults` takes any;
without one the flow run fails (`StageFails`). `gradedFor`, a history variable, is the attempt
that the run which posted the last grade had graded. A feedback file is the pair of
the attempt and the run that built it, since `create_feedback_zip` writes the time
of collection into it. `ExecuteGrader` has no outcome, because the flow looks at neither exit
code nor time-out. Start of a run and its first upload step both count as its being at
work, so that `overlapped` is about flow runs here.

### GraderExecutor

One action per Docker call. `DockerFails` is a `DockerException` (exit code 1),
`ClientFails` any other exception, both at any call and both before the `finally`
clause (`Finish`, `RemoveFails`). The variable `faults` is the kind of daemon, chosen
initially: one that fails to start containers, or to remove them, and whether workers
die. `handle[r]` says whether the variable `container` is
set, which is what the removal depends on. The exit statuses 0, 1 and 3 stand
for success, the status a Docker error is also reported with, and any other.

### ResultCollector

Pure operators. `PointsFiles` and `CommentsFiles` are the files the globs of
`_find_points_file` and `_find_comments_file` match; which of several is first is the
directory's choice. A line of a points file is a sequence of tokens, numbers, slashes
and words; `LinePoints` is `_sum_numbers_from_line`, `FilePoints` `_parse_points_file`.
A single number is a line whose total it is, so that the first of the three forms the
code tries needs no case of its own. Numbers are integers. What a line is meant to be worth is
defined apart from the parser, by where its numbers, words and slashes stand
(`Scores`, `StatesScore`); `PointsReading` puts a file `lines` beside the processes,
either to be parsed or, empty, to leave them to run.

### AssignmentBatch

The download directory maps a file name to the attachment its content is, the workspace
to an attachment or to the submission whose grader wrote the file. An attachment has
the names Canvas gives for it; `NameOf` takes the first there is, and two attachments
may have the same. (`docs/reference/04-api-clients.md:34-35` says that `display_name` is
preferred; `_resolve_attachment_name` prefers `filename`, which the instance follows.) The grader may write any of its
files, also over those of the student (`Grade`), `Collect` finds them. `SubmissionFails` is one of
`BATCH_SUBMISSION_EXCEPTIONS`, `Abort` anything else (also a failing page of submissions,
or any exception of a single run).

A batch goes through the list with one directory, and never holds the list: the
`PaginatedList` it iterates asks Canvas for the next page (`FetchPage`) when the last
submission of the one in hand has been graded, which may be hours later. Users come and go
meanwhile (`Reassign`), the pages are those of `CanvasRecords`. Two histories say what
a batch should have covered: `stayed[p]`, the users there since before its first page,
and `due[p]`, those of them before whom in the list nobody has left. The order
within a page is left open.

`tree` counts the directories above a workspace that exist, `SharedDirs` of them:
`workspace.root` and the directory of the assignment. `EnsureSafeDirectory` looks, and
`MakeDirectory` makes the next one missing; with one that has appeared meanwhile only
the failures are left. The workspace itself has a name of its own and is always new.

### CourseSetup and CourseListing

An object in the store is known by the setup that uploaded it. What `--work-package`
says is a sequence of mappings (`ParseMappings`), each work package on disk is found with
some assets or not at all (`Resolved`), and the packages are uploaded and pruned one after the other in
the order of their assignments (`Turn`). `DeleteStale` may delete some keys and fail for
the rest, `SetupFails` may come after any step. The local asset directory is taken not
to change while a setup runs. A flow run lists objects by the text of its
assignment's prefix, which other assignments' keys may begin with too (`Extends`):
`ReadAsset` then writes them outside the assets directory. `overlapped` is as in
`CanvasUploader`, for setups; `disturbed`, another history variable, holds the flow runs
that were downloading when the operator deleted a course block.

`CourseListing` pages through Prefect's block documents by offset while all of that goes
on. `Present` is what there is to read, `pages` what has been read, nameless documents
included, `rows` the table; `atStart` and `changes` are histories of what the list should
have. The code sorts the names before it loads the blocks, so that nothing can be said of
the order of `pages` by then: `LoadListed` takes any that is left. Its row may be an error
also when the block is there, because `load_course_block` turns whatever is raised, by
Prefect or by a block that does not validate, into a `CourseBlockLoadError`. Block documents of one
type with a name have different names (`DocumentsAssumption`), which is Prefect's doing.

## 3. Runs

Sizes are what TLC reports for the state space, up to symmetry where the run has one.

| Run | Checks | Shows |
|---|---|---|
| `intake_gate` | `TypeOK`, `ExclusiveTrigger`, `LeasePromise`, `OnlyFailureFrees` | 2 requests, a genuine and a forged delivery, TTL 3, hand-offs of at most two windows. The gate excludes concurrent hand-offs of a delivery, implements the lease, and gives a reservation up only by expiry, restart or the failure of its holder. About 295,000 states. |
| `intake_live` | `AckedMeansStarted`, `EventuallyRun` | A submission event and one of another type, rate limit 1, restarts, lost answers of Prefect and events that grow too old: no genuine submission event is acknowledged without a run, and under fairness each gets one or is too old. About 50,000 states. |
| `canvas_access` | `AuthTypeOK`, `GenuineGetsThrough`, `UnsignedNeedsFallback`, `KeysExpire`, `LookupTypeOK`, `FoundIsAsked`, `MissingIsGone` | All settings without an explicit signed mode, and one with it, which forbids the fallback and sets everything that the mode takes precedence over; posts of every kind; 2 requests sharing the key cache, 2 keys of which one is for RS256, answers that are no key set; 4 users whose IDs and record IDs coincide in every way, in 2 pages. About 460,000 states. |
| `upload_concurrent` | `TypeOK`, `FeedbackDelivered`, `GradeReportHonest`, `AtMostOneCopy`, `WritesAllowed` | 2 runs, overlapping or in turn, 2 files, the default configuration, each single departure from it and a dry run without duplicate check, lost answers, files Canvas does not take, crashes, a teacher. About 2.6 million states. |
| `grader_faults` | `TypeOK`, `VerdictIsTheGraders`, `NoContainerLeft`, `ExecuteEnds` | 2 executions, daemons with any of the faults, grader programs that may never end. About 167,000 states. |
| `flow_concurrent` | `FlowTypeOK`, `GradesMoveForward` | 2 runs, overlapping or in turn, 2 attempts, 2 grades. About 658,000 states. |
| `batch_files` | `TypeOK`, `GradedOnOwnFiles`, `ResultsAreTheGraders`, `ReportComplete`, `PointsAreScores` | 2 processes, 2 submissions of 2 attachments each, with names that clash within a submission, between submissions and with the collector's globs; one user directory, used by one process at a time. `PointsAreScores` is about a points file read on its own (`PointsReading`), and compares the parser with a definition of a points file's meaning on every line of up to four tokens, alone or before another line. For `ReportComplete`, 1 process, batch or single, and 3 users who come and go, 2 to a page. About 2.3 million states. |
| `course_blocks` | `TypeOK`, `CourseIsRunnable`, `CorrectPackage`, `NeverEmptied`, `MutatedOnlyUnblocked`, `ListingTypeOK`, `EveryCourseListed` | 2 setups, overlapping or in turn, of assignments 1 and 12 with 2 work packages, mapped in three ways, one of them empty or absent; 2 files, 1 flow run, and a listing with 2 documents to a page, which the other documents fill exactly. A flow run is followed until a block is deleted under its download (`Followed`). About 2.8 million states. |

Why these bounds are enough to be of use: every conflict in this code is between two
actors over one thing (a key, a comment, a file, a prefix, a cache), and both runs one after
another and runs at once are in the same state space, told apart by a history variable.
A TTL of 3 with hand-offs of 2 lets an entry be fresh, partly spent, about to expire and
expired; a `Lifespan` of one half hour does the same for a key set; two attempts suffice to go back
from one to the other; two pages suffice for a user to move from one to the next; and
IDs 1 and 12 are prefixes of each other as text.

In `MCCanvasAccess` requests that share nothing run one at a time, keys rotate only where the
mode looks at keys, and users come and go only where Canvas is asked: with one Canvas
but otherwise disjoint variables, the interleavings left out differ in nothing a
property could see. Nor do keys rotate while an answer that was no key set may still
have an effect; the theorems have no such restriction.

`MCAssignmentBatch` has two kinds of behaviour (`SteadyOrChanging`): either two students
stay, hand in files, and two processes may be at work; or three come and go, hand in nothing,
and one process at a time is at work. The files do not depend on who comes and goes, nor the
report on what is in the files or on other processes. Again the theorems make no
such distinction.

`course_blocks` has the state constraint `Followed`: a flow run that was downloading when
the operator deleted the course's block is not followed further. `CorrectPackage` promises
nothing of it, and a flow run changes nothing that the setups or the listing read, so what
they do from there on they also do in the states where the flow run is idle. For the same
reason nothing is followed once the listing has ended (`NotListed`): it changes nothing that
the others read, and they do the same where it has not begun. The theorems have no such
constraint.

### Where the code departs from what the repository says

These runs end with a counterexample. Each checks one statement of a document, a
docstring or a comment of the repository.

| Run | Statement | What happens |
|---|---|---|
| `intake_unexpected` | a non-2xx answer makes Canvas retry after a hand-off failure | an unexpected exception keeps the key, the retry is acknowledged as a duplicate, there is no run |
| `flow_rerun` | feedback is posted idempotently | the feedback file contains the time it was built |
| `batch_skips` | "Batch mode: processing all submissions", "Batch processing completed!" | a user leaves while the first page is graded, the next page begins one place too late, and a submission that was there all along is never graded; exit status 0 |
| `batch_directories` | `_ensure_safe_directory` ensures that a directory exists | of two flow runs that find it missing, the second to make it fails |

Others are behaviours of the models without a run of their own; where a property is
named, add it to the run named and TLC shows the behaviour.

- `upload_comment` of canvasapi says in what it returns that Canvas did not take the file.
  Nobody looks, and the run reports "Feedback uploaded successfully"
  (`flows/uploader.py:251`): `PostedIsAttached` in `upload_concurrent`.
- `docs/reference/03-configuration.md:82` says that `canvas-api` authentication "only checks
  that the submission exists in Canvas". The endpoint asked is keyed by user: an existing
  submission is refused, or another passes: `ApiVerdictIsExistence` in `canvas_access`.
- A container that cannot be started is not removed, because `containers.run` raises before
  its handle is assigned, although `docs/reference/01-architecture.md:207-208` says a grader
  container "is removed after execution": `RemovedAfterExecution` in `grader_faults`.
- An upload that fails lets the flow run complete, although line 203 of that document says
  "Failures surface through Prefect".
- `docs/reference/04-api-clients.md:34-35` on names, above.

The passing runs show on what the other properties depend. Change one constant and
TLC finds the interleaving that breaks them:

- `intake_live` with `"timeout"` among the faults: a resend is acknowledged as a
  duplicate while the first hand-off is in flight, which then fails
  (`AckedMeansStarted`). With a forged delivery in the place of the second one and
  a rate limit of one, its attempts may use up every window (`EventuallyRun`).
- `batch_files` with `Shared = TRUE`: two processes given the same `--download-dir`
  at once mix students' files (`GradedOnOwnFiles`).

Others name in the property itself when it holds:

- `AtMostOneCopy` and `GradesMoveForward` are about runs that did not overlap: check and
  upload of two interleaved runs both upload the file.
- `CourseIsRunnable`, `CorrectPackage`, `NeverEmptied` and `MutatedOnlyUnblocked` promise
  nothing of setups that ran alongside each other: both find no course block, and the
  slower one changes the store after the faster one has saved its block.
- `CorrectPackage` is about flow runs during whose download nobody deleted a course
  block: others may get files of two packages.
- `FeedbackDelivered` exempts a run whose own file Canvas did not take without an error
  (`refused`, above).
- `GenuineGetsThrough` exempts the lifetime of an answer that was no key set (`garbled`):
  until the cache expires, such an answer may have genuine events refused with 401.
- `ReportComplete` is, for a batch, about the submissions before which in the list nobody
  has left (`due`); those behind one who left may be skipped (the run `batch_skips`).
- `MissingIsGone` is about lookups during which nobody leaves: one who does shifts the
  record asked for to a page already read.
- `ResultsAreTheGraders` exempts submissions with a file of the student that the
  collector takes for a result: such a file is taken.

Deadlock is checked for the webhook server and for the uploader, which always have
something to do (a teacher may grade). Executions, batches and setups end, so
their runs say `CHECK_DEADLOCK FALSE`.

### Fairness

- `WebhookIntake`: weak fairness of the server's steps on a request, of Canvas sending
  what is not acknowledged and reading answers, and of time: the event loop and the
  threads run, and Canvas retries. Strong fairness of the favourable outcome of
  loading, limiting, verifying and both Prefect calls: no dependency fails for ever
  if it is tried for ever; and restarts end. Of an event that has grown too old nothing
  is assumed. No fairness of failures. Without time-outs, because with them an event may
  be lost, and without duplicates, which could use up the rate limit for ever.
- `GraderExecutor`: weak fairness of each execution's own steps. The time-out is one of
  them, the end of the grader program is not.

## 4. Proofs

TLC checks the instances above. The theorems below hold for every value of the
constants that satisfies the modules' assumptions: any number of requests, runs,
setups, files and so on. Where a property needs more, the theorem says of which
behaviours it holds (`Spec /\ []Timely => ...`), and a second one, where there is a
constant that rules the others out, gives the case the runs check. An invariant
that is part of a proof stands in the module it is about, after the properties, with a
comment on why it is needed; each was first checked by TLC in that module's run.

### WebhookIntake_proofs

| Theorem | States |
|---|---|
| `TypeCorrect` | `Spec => []TypeOK` |
| `RunGateExcludes` | `Spec /\ []Timely => []ExclusiveTrigger` |
| `EachDeliveryExcludes` | for each delivery `d`, `Spec /\ []TimelyFor(d) => []ExclusiveFor(d)` |
| `GateImplementsLease` | `Spec /\ []Timely => LeasePromise`, the refinement of `DeliveryLease` |
| `ReservationsLast` | `Spec /\ []Timely => OnlyFailureFrees` |
| `BoundedGateIsSafe` | `MaxFlight < TTL` implies `Spec => []ExclusiveTrigger /\ LeasePromise /\ OnlyFailureFrees` |
| `OnlyMishapsLose` | `Spec /\ [][~Mishap]_vars => []AckedMeansStarted` |
| `AcknowledgedIsStarted` | without `"timeout"` and `"unexpected"` among the faults, `Spec => []AckedMeansStarted` |

`Timely` says that no hand-off to Prefect under way has lasted as long as its reservation of
300 seconds. The code does not enforce it, so it is a hypothesis of the theorems and
no assumption of the module; without it a late failure would release the
reservation of another request. In the instance `MaxFlight < TTL` makes it true. The invariant
is preserved for each delivery by itself (`StepLease`), so that hand-offs of a delivery that are in
time exclude each other however slow those of others are (`EachDeliveryExcludes`).
`ExclusiveTrigger` is not inductive. The invariant `IInv` adds
three facts: a request past the state dependency has a state and a delivery (`SlotInv`);
a state about to be built is unused by anyone, so building one does not reset a gate
in use (`StateInv`); and the reservation of a hand-off has exactly `TTL` less its age left
(`LeaseInv`). The last is the heart of it: while ages are less than `TTL`, the entry
of a request in flight is positive, so `try_acquire` refuses everyone else.
`OnlyFailureFrees` knows the holder of a reservation by it too: the request whose hand-off is
as old as the reservation is spent. Without `Timely` it is false, because `release`
removes a key whoever holds it: in `intake_gate` with `MaxFlight = 4` TLC finds a late
failure that frees the reservation of the request that came next.

The refinement maps a key of the lease to a runtime state and a delivery, its holder to
the request in flight for that key. Who holds a lease is a `CHOOSE` in the mapping, which
`ExclusiveTrigger` makes unique (`LeaseIsTable`). `Acquire` is the abstract grant
(`AcquireGrants`); `Accept` and the unexpected failure end in a sealed key
(`LandingSeals`); every other step leaves a lease as it is or opens it again
(`OthersReopen`): an expiry, a failure, a restart, or a step that does not touch the gate.

`OnlyMishapsLose` says how an event is lost at all: before there is a run for it, an
unexpected exception ends its hand-off (`intake_unexpected`), or a second copy is
answered as a duplicate of a hand-off that then fails (below the runs). `Mishap` is a step of one of
these two kinds; in a behaviour without such a step nothing is acknowledged without a run, under all
other faults and however long hand-offs take. Its invariant `AckInv` says that a request answered
with success has a run behind it (`StartedInv`), and that a reserved key has a run already
unless its holder is still at work (`ReservedInv`), which is what makes the
acknowledgement of a duplicate truthful. Without time-outs no two requests carry one
delivery (`SoleInv`), which excludes the second kind (`AcknowledgedIsStarted`).

### CanvasUploader_proofs and CorrectionFlow_proofs

| Theorem | States |
|---|---|
| `TypeCorrect` | `Spec => []TypeOK` |
| `FeedbackReportsTrue` | `Spec => []FeedbackDelivered` |
| `GradeReportsTrue` | `Spec => []GradeReportHonest` |
| `OnlyAllowedWrites` | `Spec => WritesAllowed` |
| `CopiesAreExcused` | `Spec => []AtMostOneCopy` |
| `FlowTypeCorrect` | `FlowSpec => []FlowTypeOK` |
| `UploadPromisesKept` | `FlowSpec => [](FeedbackDelivered /\ GradeReportHonest /\ AtMostOneCopy)` |
| `GradesGoForward` | `FlowSpec => GradesMoveForward` |

The inductive invariant is `CanvasUploader!IInv`. What a run saw as an attachment is still
there, because comments only grow (`Delivering`); a run about to compare its grade with
an equal one, or that has edited it, has seen it shown (`Grading`); a run on its way to
a write has a configuration that allows it (`Permitted`). None of these needs the runs
to be serial. `Copying`, for `AtMostOneCopy`, does: two runs at work know of each other
(`overlapped`), a run that checks and is alone has seen all there is, and a second copy
is charged to an excused run once that has passed its upload, so that the count of the
copies is at most one more than the cardinality of a set that only grows (`Spent`). Each
part is preserved on its own, with a lemma for each.

The lemmas are about `Step`, a step of the uploader whose runs may begin with any
results and may join at any time. `Next` is one (`NextIsStep`), and so is every step of
`CorrectionFlow`; that is how the uploader's theorems hold of the whole flow
(`UploadPromisesKept`) with one proof. `FlowInv` adds that a run past its download has
files of an attempt (`Fetched`); that it uploads in its upload stage only (`Staged`);
and that a run working alone has files no older than any grade posted (`Forward`), from which an edit
of the grade by it can only go forward.

### GraderExecutor_proofs

| Theorem | States |
|---|---|
| `TypeCorrect` | `Spec => []TypeOK` |
| `ContainersAreRemoved` | `Spec => []NoContainerLeft` |
| `VerdictsAreTheGraders` | `Spec => []VerdictIsTheGraders` |

`HandleInv`: on a daemon that starts what it creates, a run without a handle has no
container, because the handle is set in the step that starts it. `VerdictInv`: an exit
code that can only be the program's was read when its container had exited, and a
container does not exit twice.

### AssignmentBatch_proofs

| Theorem | States |
|---|---|
| `TypeCorrect` | `Spec => []TypeOK` |
| `EachProcessOwnFiles` | for each process `p`, `Spec /\ []SeparateOf(p) => []OwnFilesOf(p)` |
| `GradersGetOwnFiles` | `~Shared` implies `Spec => []GradedOnOwnFiles` |
| `ResultsStayTheGraders` | `Spec => []ResultsAreTheGraders` |
| `ReportsAreComplete` | `Spec => []ReportComplete` |
| `OnlyRacesAreRefused` | `Spec /\ []OneMakes => []NotRefusedForExisting` |
| `PointsRead` | `ReadOrRunSpec => []PointsAreScores` |
| `PointsAreNumbers` | a points file is worth an integer, or refused exactly for a line of text without a number |
| `PointsAddUp` | what a file is worth is the sum the loop of `_parse_points_file` builds line by line |
| `ReadingIsRunning` | `ReadOrRunSpec => Spec`: the run is of `ReadOrRunSpec`, so what is proved of `Spec` holds of it |

With one directory given to two processes at once, `GradedOnOwnFiles` is false. It is so for
those two only: a process whose directory nobody else is given while it runs (`SeparateOf`) grades on its
submissions' files (`OwnFilesOf`), whatever others share. `~Shared` grants it to all (`Separate`). Then what has been
downloaded under a name of the submission is one of its attachments of that name until it has
been copied (`Placed`). Names that are not the submission's are empty in the
workspace until the grader writes them (`NothingElse`), which is the reason that the
results are the grader's even with a directory shared. For the report, each submission
that is due is on the page in hand, in hand itself, graded or failed, or on a page to come
(`Accounted`): while nobody before a user leaves, that user's place in the list can only
grow (`PlaceGrows`), so the pages already read have not missed it.

`OnlyRacesAreRefused` is the other side of `batch_directories`: as long as two flow runs are
not at the directories above their workspaces at once (`OneMakes`), whatever is
there already and however many processes there are, none is refused a directory that exists.

`PointsRead` is about files and lines of any length. `Total` is a fold, which takes
the numbers of a sequence by a recursive function over sets of positions. That such a function
exists (`SumsExist`), that two of them agree (`SumsAgree`) and that totals are integers
(`TotalIsInt`) are inductions, done with `NumberFacts!AllNumbers`, which states induction
as a fact about a set of numbers and not of an operator. The rest is about where the tokens of
a line stand (`ScoreOfLine`): where a line states a score, the numbers before its slash are one,
and the parser takes that.

### CourseSetup_proofs

| Theorem | States |
|---|---|
| `TypeCorrect` | `Spec => []TypeOK` |
| `BlocksAreRunnable` | `Spec => []CourseIsRunnable` |
| `BlockedMutateNothing` | `Spec => MutatedOnlyUnblocked` |
| `PruningLeavesAssets` | `Spec => NeverEmptied` |
| `PackagesAreCorrect` | `Spec => []CorrectPackage` |
| `ListingOnlyLooks` | `ListingSpec => Spec`: the run is of `ListingSpec`, so what is proved of `Spec` holds of it |
| `ListingTypeCorrect` | `ListingSpec => []ListingTypeOK` |
| `CoursesAreListed` | `ListingSpec => []EveryCourseListed` |

`CourseInv` is the invariant. A setup that runs alone is the only one at work
(`Alone`), and while there is a block of such a setup, whoever is at work has not yet looked
for it (`Blocked`): together they say that nobody else touches the store of a setup that runs
alone, or of one whose block is there (lemma `StoreKept`). `Staged` says what is in place by
the time a setup comes so far: bucket, assets block, manifests. `Queued` and `Provided` say which
packages are left and that their files are there. `Held` follows one package through
upload, listing and pruning, and says that the packages that are no longer to do are exactly in the
store. `Reads` follows a flow run: what it has is its package less what it is still to
read. `Turn` is the least of a set of numbers and a mapping given twice counts by its last, so
the module begins with the existence of both, from the well-foundedness of the naturals
(`HasLeast`, `MinIsIn`, `MaxIsIn` of `NumberFacts`).

`ListingInv` is the listing's, for any documents and page size. A course of the start has
been read or is on a page to come (`ToCome`), and one that has been read is on no page to come
(`ReadOnce`): a deleted block moves documents to pages already read, a saved one to pages to
come, and neither does the other (`DeletedBehind`, `SavedBehind`, from what `RemoveAt` does to
the places of a sequence, `Shifted`). `PagesGrow` puts together what one
page adds, and that a short page is the last.

### CanvasAccess_proofs

| Theorem | States |
|---|---|
| `AuthTypeCorrect` | `AuthSpec => []AuthTypeOK` |
| `WithdrawnKeysExpire` | `AuthSpec => KeysExpire` |
| `GenuineIsNotRefused` | `AuthSpec => GenuineGetsThrough` |
| `NobodyPassesUnasked` | `AuthSpec => []UnsignedNeedsFallback` |
| `LookupTypeCorrect` | `LookupSpec => []LookupTypeOK` |
| `LookupFindsAsked` | `LookupSpec => []FoundIsAsked` |
| `LookupMissesOnlyTheGone` | `LookupSpec => []MissingIsGone` |
| `AccessIsBoth` | `AccessSpec => AuthSpec /\ LookupSpec` |
| `AccessIsSafe` | `AccessSpec` keeps all the safety properties of both |

For verification four invariants, each for itself. `CacheInv`: a key set gets out of date by no more
than its age in the cache and the one half hour its answer may have been under way, for
every request that has one in hand. `GarbledInv` says the same of an answer that is no key
set. `KeptInv`: a key that has been published since a
request began is in every key set the request asked for itself, so that a set without it can only
come from the cache, and then `RefreshKeys` is possible where `RejectSignature` is not.
`PassInv`: a request on its way to an acceptance has shown
what allows it, the header before a key set is asked for, the signature before the
claims, the consent before Canvas is. `AnsweringStep` and `AnsweringShows` gather what
the many steps that only answer a request have in common.

For the lookup, neither property is inductive; `LookupInv` is. While nobody has left, the record asked
for is on the page in hand or behind it, since a user's place in the list can
only grow (`PlaceGrows`, on cardinalities of finite sets), and the candidate of the scan is the
user of the record asked for.

The two modules share one variable, the records of Canvas. A step of verification leaves them as
they are or only reads them (`AuthKeepsRecords`), so does a step of the lookup
(`LookupKeepsRecords`), and a change of the records by Canvas is a step of both. So both specifications
hold of the composition (`AccessIsBoth`), and with them all that is proved of each.

### Only model-checked

- Liveness, `EventuallyRun` and `ExecuteEnds`: fairness and `ENABLED` are beyond the prover.
- The properties of the runs that end with a counterexample, which are false.

## 5. Not modelled

- Contents of messages, tables and JSON; prompts, slugs and names; the resolution of the
  credential and of the course in `course setup`, which ends in `Refuse` or goes on.
- The validators of Pydantic models, among them the payload's: valid or not.
- The translation of a course block into settings, `to_flow_payload`, the parameters of a
  deployment and their coercion in `webhooks/flows.py`: data that is passed on.
- `seed_ambient_storage_env`, which copies environment variables in one process.
- Container limits, mounts and users.
- Prefect's own scheduling, workers and retries: a flow run starts or does not.
- `UploadConfig.verbose`, which only logs; `upload_feedback_and_grade`, which tests call.
- `validate_result`, whose issues are reported and decide nothing.
- Points in forms that only `float` reads ("nan", "inf", "1e3"), and the rounding of sums.
- `pkg/cli.py` declares arguments and calls the commands modelled. `pkg/cli_system.py`
  prints a status and makes one deployment; `scripts/setup_rustfs.py` provisions a local
  store by straight-line calls; block schemas, wrappers and the example grader have no
  state. None of them has an order of steps that could go wrong.

## 6. Plan

The modules of section 2 are done, and every safety property of the passing runs is
proved. What could still be done is the liveness of section 3, if a prover for it is at hand, and
the components of section 5 should they come to keep state.
