---------------------------- MODULE WebhookIntake ----------------------------
(***************************************************************************)
(* The webhook server: Canvas (external) posts deliveries, FastAPI runs    *)
(* each request through its dependencies (settings, lazily built runtime   *)
(* state, rate limit, verification), the handler reserves the delivery key *)
(* in the run gate and hands the submission to Prefect (external).         *)
(*                                                                         *)
(* A request is a slot reused by later attempts.  Everything before the    *)
(* gate runs on worker threads or awaits, so requests interleave at every  *)
(* step; the handler's gate test and reservation is one step because no    *)
(* await separates them.                                                   *)
(*                                                                         *)
(* Time is counted in rate-limit windows.  The gate stores expiry instants *)
(* and compares them with the clock; here an entry is the time it has      *)
(* left, and 0 stands for an expired or an absent entry, which try_acquire *)
(* does not tell apart because it prunes first.                            *)
(***************************************************************************)
EXTENDS Naturals, FiniteSets

CONSTANTS
  Deliveries,   \* events Canvas has to deliver, each with its own delivery key
  Requests,     \* concurrent HTTP requests the server may be working on
  None,         \* no delivery, no runtime state
  Genuine,      \* the deliveries whose signature is Canvas's
  Supported,    \* the deliveries of an event type the handler acts on
  TTL,          \* WebhookRunGate.ttl_seconds
  MaxFlight,    \* longest time one hand-off to Prefect takes
  RateLimit,    \* requests a course may make in a window
  Faults        \* which of AllFaults the environment shows

\* timeout: Canvas gives up on an attempt, or loses its answer, and resends.
\* duplicate: Canvas resends a delivery it already has an answer for.
\* restart: the server process is replaced.
\* lost: Prefect creates the run, then reports an error the code expects.
\* unexpected: an exception outside (PrefectException, OSError) escapes.
\* late: an event gets older than the verification accepts.
AllFaults == {"timeout", "duplicate", "restart", "lost", "unexpected", "late"}

ASSUME NoneAssumption == None \notin Requests \cup Deliveries
ASSUME DeliveriesAssumption == Genuine \subseteq Deliveries /\ Supported \subseteq Deliveries
ASSUME TimeAssumption == TTL \in Nat \ {0} /\ MaxFlight \in Nat /\ RateLimit \in Nat \ {0}
ASSUME FaultsAssumption == Faults \subseteq AllFaults

VARIABLES
  event,    \* Canvas: is the delivery still to be sent, or acknowledged by a 2xx
  stale,    \* deliveries whose event_time is too long ago to be accepted for certain
  pc,       \* request slot -> where the request is, or the answer it got
  del,      \* request slot -> the delivery it carries
  st,       \* request slot -> the runtime state it was given
  age,      \* request slot -> time it has been handing over to Prefect
  cached,   \* app.state.webhook_runtime_state: the request that built it, or None
  gate,     \* runtime state -> delivery key -> time left of its reservation
  hits,     \* runtime state -> requests let through in this window
  runs      \* Prefect: flow runs of a delivery, 2 standing for two or more

canvas == <<event, stale>>
slots == <<pc, del, st, age>>
server == <<cached, gate, hits>>
vars == <<canvas, slots, server, runs>>

\* Flow runs are counted up to here.
MaxRuns == 2

FlightPoints == {"ensure", "trigger", "created"}
Answered2xx  == {"accepted", "duplicate", "ignored"}
Answers      == Answered2xx \cup {"refused", "failed", "crashed"}
Points       == {"idle", "load", "state", "create", "limit", "verify", "gate"}
                  \cup FlightPoints \cup Answers

TypeOK ==
  /\ event \in [Deliveries -> {"pending", "acked"}]
  /\ stale \subseteq Deliveries
  /\ pc \in [Requests -> Points]
  /\ del \in [Requests -> Deliveries \cup {None}]
  /\ st \in [Requests -> Requests \cup {None}]
  /\ age \in [Requests -> 0..MaxFlight]
  /\ cached \in Requests \cup {None}
  /\ gate \in [Requests -> [Deliveries -> 0..TTL]]
  /\ hits \in [Requests -> 0..RateLimit]
  /\ runs \in [Deliveries -> 0..MaxRuns]

EmptyGate == [d \in Deliveries |-> 0]

Init ==
  /\ event = [d \in Deliveries |-> "pending"]
  /\ stale = {}
  /\ pc = [r \in Requests |-> "idle"]
  /\ del = [r \in Requests |-> None]
  /\ st = [r \in Requests |-> None]
  /\ age = [r \in Requests |-> 0]
  /\ cached = None
  /\ gate = [r \in Requests |-> EmptyGate]
  /\ hits = [r \in Requests |-> 0]
  /\ runs = [d \in Deliveries |-> 0]

At(r, point) == pc[r] = point
InFlight(r) == pc[r] \in FlightPoints

\* The request moves on and keeps its delivery, its state and its age.
GoTo(r, point) == pc' = [pc EXCEPT ![r] = point] /\ UNCHANGED <<del, st, age>>

\* The hand-off is over and the request has its answer.
Land(r, answer) ==
  /\ pc' = [pc EXCEPT ![r] = answer]
  /\ age' = [age EXCEPT ![r] = 0]
  /\ UNCHANGED <<del, st>>

\* The slot is free for another request.
Close(r) ==
  /\ pc' = [pc EXCEPT ![r] = "idle"]
  /\ del' = [del EXCEPT ![r] = None]
  /\ st' = [st EXCEPT ![r] = None]
  /\ UNCHANGED age

------------------------------------------------------------------------------
(* Canvas, external *)

\* Canvas posts a delivery: a first attempt, a retry of one not acknowledged,
\* or, as a fault, a second copy.
Send(r, d) ==
  /\ At(r, "idle")
  /\ \/ event[d] = "pending"
     \/ "duplicate" \in Faults
  /\ \/ \A q \in Requests : del[q] # d
     \/ "timeout" \in Faults
  /\ pc' = [pc EXCEPT ![r] = "load"]
  /\ del' = [del EXCEPT ![r] = d]
  /\ UNCHANGED <<canvas, st, age, server, runs>>

\* Canvas reads the answer; any 2xx ends its retries.
Receive(r) ==
  /\ pc[r] \in Answers
  /\ event' = IF pc[r] \in Answered2xx
              THEN [event EXCEPT ![del[r]] = "acked"] ELSE event
  /\ Close(r)
  /\ UNCHANGED <<stale, server, runs>>

\* Canvas had stopped waiting: nobody reads the answer.
AnswerLost(r) ==
  /\ "timeout" \in Faults
  /\ pc[r] \in Answers
  /\ Close(r)
  /\ UNCHANGED <<canvas, server, runs>>

------------------------------------------------------------------------------
(* Dependencies of the route, in the order FastAPI resolves them *)

\* load_settings_or_404: the course block loads, or 404 / 500.
LoadSettings(r) ==
  /\ At(r, "load")
  /\ \/ GoTo(r, "state")
     \/ GoTo(r, "refused")
  /\ UNCHANGED <<canvas, server, runs>>

\* ensure_webhook_runtime_state, its test: use the cached state if there is one.
FindRuntimeState(r) ==
  /\ At(r, "state")
  /\ pc' = [pc EXCEPT ![r] = IF cached = None THEN "create" ELSE "limit"]
  /\ st' = [st EXCEPT ![r] = cached]
  /\ UNCHANGED <<del, age>>
  /\ UNCHANGED <<canvas, server, runs>>

\* ... and its consequence: build a state with an empty gate and an unused
\* limiter, and cache it over whatever another thread cached meanwhile.
CreateRuntimeState(r) ==
  /\ At(r, "create")
  /\ pc' = [pc EXCEPT ![r] = "limit"]
  /\ st' = [st EXCEPT ![r] = r]
  /\ cached' = r
  /\ gate' = [gate EXCEPT ![r] = EmptyGate]
  /\ hits' = [hits EXCEPT ![r] = 0]
  /\ UNCHANGED <<canvas, del, age, runs>>

\* Mutant: the answer of limiter.hit is not looked at.
PassLimiter_Unchecked(r) ==
  /\ At(r, "limit")
  /\ hits' = [hits EXCEPT ![st[r]] = @ + 1]
  /\ GoTo(r, "verify")
  /\ UNCHANGED <<canvas, cached, gate, runs>>

\* get_rate_limited_settings for an enabled course: 429 once the window is full.
PassLimiter(r) ==
  /\ At(r, "limit")
  /\ hits[st[r]] < RateLimit
  /\ hits' = [hits EXCEPT ![st[r]] = @ + 1]
  /\ GoTo(r, "verify")
  /\ UNCHANGED <<canvas, cached, gate, runs>>

ExceedLimiter(r) ==
  /\ At(r, "limit")
  /\ hits[st[r]] >= RateLimit
  /\ GoTo(r, "refused")
  /\ UNCHANGED <<canvas, server, runs>>

\* A course whose webhook is disabled skips the limiter and is answered 403.
RefuseDisabled(r) ==
  /\ At(r, "limit")
  /\ GoTo(r, "refused")
  /\ UNCHANGED <<canvas, server, runs>>

\* validate_webhook: payload and signature, on a worker thread.  A genuine
\* delivery can still be refused (its key set cannot be fetched, its event is
\* too old, its API check fails); a forged one always is.
Verify(r) ==
  /\ At(r, "verify")
  /\ \/ del[r] \in Genuine /\ GoTo(r, "gate")
     \/ GoTo(r, "refused")
  /\ UNCHANGED <<canvas, server, runs>>

------------------------------------------------------------------------------
(* process_webhook_orchestration *)

\* Mutant: events are ignored whatever their type.
IgnoreUnsupported_AnyEvent(r) ==
  /\ At(r, "gate")
  /\ GoTo(r, "ignored")
  /\ UNCHANGED <<canvas, server, runs>>

IgnoreUnsupported(r) ==
  /\ At(r, "gate")
  /\ del[r] \notin Supported
  /\ GoTo(r, "ignored")
  /\ UNCHANGED <<canvas, server, runs>>

\* Mutant: pruning drops an entry one window before it expires.
IsFree_Early(s, d) == gate[s][d] <= 1

\* try_acquire after pruning: the key is absent or its time has passed.
IsFree(s, d) == gate[s][d] = 0

\* Mutant: the entry is stored with the current instant as its expiry.
ReserveKey_NoTTL(s, d) == gate' = [gate EXCEPT ![s][d] = 0]

ReserveKey(s, d) == gate' = [gate EXCEPT ![s][d] = TTL]

\* Mutant: a failed trigger keeps its key.
ReleaseKey_Forgotten(s, d) == UNCHANGED gate

ReleaseKey(s, d) == gate' = [gate EXCEPT ![s][d] = 0]

Acquire(r) ==
  /\ At(r, "gate")
  /\ del[r] \in Supported
  /\ IsFree(st[r], del[r])
  /\ ReserveKey(st[r], del[r])
  /\ GoTo(r, "ensure")
  /\ UNCHANGED <<canvas, cached, hits, runs>>

RefuseDuplicate(r) ==
  /\ At(r, "gate")
  /\ del[r] \in Supported
  /\ ~IsFree(st[r], del[r])
  /\ GoTo(r, "duplicate")
  /\ UNCHANGED <<canvas, server, runs>>

\* ensure_deployment returned ensured=True.
EnsureDeployment(r) ==
  /\ At(r, "ensure")
  /\ GoTo(r, "trigger")
  /\ UNCHANGED <<canvas, server, runs>>

\* run_deployment reached Prefect, which created a flow run.
SubmitRun(r) ==
  /\ At(r, "trigger")
  /\ runs' = [runs EXCEPT ![del[r]] = IF @ < MaxRuns THEN @ + 1 ELSE @]
  /\ GoTo(r, "created")
  /\ UNCHANGED <<canvas, cached, gate, hits>>

\* Mutant: the release is done in a finally clause.
Accept_Releasing(r) ==
  /\ At(r, "created")
  /\ Land(r, "accepted")
  /\ ReleaseKey(st[r], del[r])
  /\ UNCHANGED <<canvas, cached, hits, runs>>

\* ... and its answer arrived: 202, the key stays reserved until it expires.
Accept(r) ==
  /\ At(r, "created")
  /\ Land(r, "accepted")
  /\ UNCHANGED <<canvas, server, runs>>

\* An expected error in either stage becomes success=False: release and 502.
FailTrigger(r) ==
  /\ \/ pc[r] \in {"ensure", "trigger"}
     \/ At(r, "created") /\ "lost" \in Faults
  /\ ReleaseKey(st[r], del[r])
  /\ Land(r, "failed")
  /\ UNCHANGED <<canvas, cached, hits, runs>>

\* Any other exception leaves the handler above the release: FastAPI's 500.
CrashTrigger(r) ==
  /\ "unexpected" \in Faults
  /\ InFlight(r)
  /\ Land(r, "crashed")
  /\ UNCHANGED <<canvas, server, runs>>

------------------------------------------------------------------------------
(* The environment *)

\* A window passes.  A hand-off that has taken MaxFlight windows is due.
Tick ==
  /\ \A r \in Requests : InFlight(r) => age[r] < MaxFlight
  /\ age' = [r \in Requests |-> IF InFlight(r) THEN age[r] + 1 ELSE age[r]]
  /\ gate' = [s \in Requests |-> [d \in Deliveries |->
               IF gate[s][d] > 0 THEN gate[s][d] - 1 ELSE 0]]
  /\ hits' = [s \in Requests |-> 0]
  /\ UNCHANGED <<canvas, pc, del, st, cached, runs>>

\* The process dies with its memory and its connections, and comes back.
Restart ==
  /\ "restart" \in Faults
  /\ pc' = [r \in Requests |-> "idle"]
  /\ del' = [r \in Requests |-> None]
  /\ st' = [r \in Requests |-> None]
  /\ age' = [r \in Requests |-> 0]
  /\ cached' = None
  /\ gate' = [s \in Requests |-> EmptyGate]
  /\ hits' = [s \in Requests |-> 0]
  /\ UNCHANGED <<canvas, runs>>

\* The event's time leaves the window in which signed events are accepted.
GrowOld(d) ==
  /\ "late" \in Faults
  /\ d \notin stale
  /\ stale' = stale \cup {d}
  /\ UNCHANGED <<event, slots, server, runs>>

\* One step of the server on a request.
Serve(r) ==
  \/ LoadSettings(r) \/ FindRuntimeState(r) \/ CreateRuntimeState(r)
  \/ PassLimiter(r) \/ ExceedLimiter(r) \/ RefuseDisabled(r) \/ Verify(r)
  \/ IgnoreUnsupported(r) \/ Acquire(r) \/ RefuseDuplicate(r)
  \/ EnsureDeployment(r) \/ SubmitRun(r) \/ Accept(r)
  \/ FailTrigger(r) \/ CrashTrigger(r)

Next ==
  \/ \E r \in Requests, d \in Deliveries : Send(r, d)
  \/ \E r \in Requests : Receive(r) \/ AnswerLost(r) \/ Serve(r)
  \/ \E d \in Deliveries : GrowOld(d)
  \/ Tick
  \/ Restart

Spec == Init /\ [][Next]_vars

------------------------------------------------------------------------------
(* What the fairness stands for: Canvas retries and reads answers, the       *)
(* event loop and the threads run, time passes; and no dependency fails      *)
(* forever (the course block loads, the course is enabled, verification and  *)
(* both Prefect calls succeed again and again when tried again and again),   *)
(* and the process is not restarted for ever.  Of an event out of its window *)
(* nothing is assumed.                                                       *)

Progress(r) ==
  /\ WF_vars(Serve(r)) /\ WF_vars(Receive(r))
  /\ SF_vars(LoadSettings(r) /\ pc'[r] = "state")
  /\ SF_vars(PassLimiter(r))
  /\ SF_vars(Verify(r) /\ del[r] \notin stale /\ pc'[r] = "gate")
  /\ SF_vars(EnsureDeployment(r)) /\ SF_vars(SubmitRun(r)) /\ SF_vars(Accept(r))

Fairness ==
  /\ \A r \in Requests : Progress(r)
  /\ \A d \in Deliveries : WF_vars(\E r \in Requests : Send(r, d))
  /\ WF_vars(Tick)
  /\ <>[][~Restart]_vars

FairSpec == Spec /\ Fairness

------------------------------------------------------------------------------
(* Properties *)

\* One gate never lets two requests hand the same delivery to Prefect at the
\* same time (WebhookRunGate: "Track in-flight webhook deliveries to suppress
\* duplicate runs"), as long as a hand-off ends before its reservation does.
ExclusiveTrigger ==
  \A r, q \in Requests :
    r # q /\ InFlight(r) /\ InFlight(q) /\ st[r] = st[q]
      => del[r] # del[q]

\* Why it holds: a slot past the state dependency has a delivery and a state;
\* a state is new to everyone when it is built; and a hand-off started with a
\* full reservation, of which exactly its own duration is gone.
SlotInv ==
  \A r \in Requests :
    /\ pc[r] # "idle" => del[r] \in Deliveries
    /\ pc[r] \in {"limit", "verify", "gate"} \cup FlightPoints => st[r] \in Requests
    /\ ~InFlight(r) => age[r] = 0

StateInv ==
  /\ cached = None => /\ \A r \in Requests : st[r] = None
                      /\ \A s \in Requests : gate[s] = EmptyGate
  /\ \A r \in Requests : At(r, "create") =>
       /\ cached # r /\ gate[r] = EmptyGate
       /\ \A q \in Requests : st[q] # r

LeaseInv ==
  \A r \in Requests : InFlight(r) => gate[st[r]][del[r]] = TTL - age[r]

IInv == TypeOK /\ SlotInv /\ StateInv /\ LeaseInv /\ ExclusiveTrigger

\* A reservation as the abstract gate sees it: held by the request handing
\* it over, sealed while an accepted (or abandoned) one is still running
\* down, free otherwise.
Lease == [k \in Requests \X Deliveries |->
  IF \E r \in Requests : InFlight(r) /\ <<st[r], del[r]>> = k
  THEN CHOOSE r \in Requests : InFlight(r) /\ <<st[r], del[r]>> = k
  ELSE IF gate[k[1]][k[2]] > 0 THEN "sealed" ELSE "free"]

Gate == INSTANCE DeliveryLease WITH
  Keys <- Requests \X Deliveries, Holders <- Requests,
  Free <- "free", Sealed <- "sealed", lease <- Lease

\* The run gate with its handler implements the lease: a key passes from one
\* request to the next only after a failure or its expiry freed it, so a
\* delivery accepted by a gate starts no other run through it before then.
LeasePromise == Gate!Spec

\* A reservation that still had time left disappears only because the process
\* was replaced or because the request that holds it failed, whose hand-off has
\* taken just the time that is gone of it.  Neither success, nor building a second
\* state, nor the late failure of a hand-off that was there before frees it.
FreedOnlyByFailure ==
  \A s \in Requests, d \in Deliveries :
    gate[s][d] > 1 /\ gate'[s][d] = 0
      => \/ cached' = None
         \/ \E r \in Requests :
              /\ InFlight(r) /\ st[r] = s /\ del[r] = d
              /\ age[r] = TTL - gate[s][d] /\ pc'[r] = "failed"

OnlyFailureFrees == [][FreedOnlyByFailure]_vars

\* Canvas stops retrying a genuine submission event only once Prefect has a
\* run for it: an acknowledged event is never lost.
AckedMeansStarted ==
  \A d \in Genuine \cap Supported : event[d] = "acked" => runs[d] > 0

\* Why, when nothing unexpected happens: a request answered with success has a
\* run behind it, and a reserved key has its run already unless its holder is
\* still at work on it ...
StartedInv ==
  \A r \in Requests :
    /\ pc[r] \in {"created", "accepted", "duplicate"} => runs[del[r]] > 0
    /\ At(r, "ignored") => del[r] \notin Supported

ReservedInv ==
  \A s \in Requests, d \in Deliveries : gate[s][d] > 0 =>
    runs[d] > 0 \/ \E r \in Requests : InFlight(r) /\ st[r] = s /\ del[r] = d

\* ... who is not, when another request finds the key reserved, if Canvas sends
\* an event again only after it has read an answer: no two requests carry one.
SoleInv ==
  \A r, q \in Requests : r # q /\ del[r] = del[q] => del[r] = None

AckInv == TypeOK /\ SlotInv /\ StartedInv /\ ReservedInv /\ AckedMeansStarted

\* A genuine submission event Canvas keeps posting gets its correction run, as
\* long as no event has grown too old meanwhile: one that has can be refused
\* for ever, and its retries use up the rate limit of the others.
EventuallyRun ==
  \A d \in Genuine \cap Supported : <>(runs[d] > 0 \/ stale # {})
==============================================================================
