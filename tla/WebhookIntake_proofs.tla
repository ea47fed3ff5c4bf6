------------------------ MODULE WebhookIntake_proofs ------------------------
(***************************************************************************)
(* Proofs about WebhookIntake: its type invariant; in every behaviour in   *)
(* which no hand-off to Prefect outlives its reservation, the exclusion of *)
(* the run gate and the lease it implements; and what an answer to Canvas  *)
(* stands for.                                                             *)
(***************************************************************************)
EXTENDS WebhookIntake, TLAPS

USE NoneAssumption, DeliveriesAssumption, TimeAssumption

\* Writing one entry of the gate, or one counter, keeps its type.
LEMMA GateEntry ==
  ASSUME gate \in [Requests -> [Deliveries -> 0..TTL]], NEW s, NEW d, NEW v \in 0..TTL
  PROVE  [gate EXCEPT ![s][d] = v] \in [Requests -> [Deliveries -> 0..TTL]]
<1>1. CASE s \in Requests
  <2>1. [gate[s] EXCEPT ![d] = v] \in [Deliveries -> 0..TTL]
    BY <1>1
  <2> QED
    BY <1>1, <2>1
<1>2. CASE s \notin Requests
  BY <1>2
<1> QED
  BY <1>1, <1>2

\* Counting one up below its bound keeps a table of counters in its type.
LEMMA CountUp ==
  ASSUME NEW S, NEW n \in Nat, NEW f \in [S -> 0..n], NEW k, f[k] < n
  PROVE  [f EXCEPT ![k] = f[k] + 1] \in [S -> 0..n]
<1>1. CASE k \in S
  <2>1. f[k] + 1 \in 0..n
    BY <1>1
  <2> QED
    BY <1>1, <2>1
<1>2. CASE k \notin S
  BY <1>2
<1> QED
  BY <1>1, <1>2

LEMMA InitType == Init => TypeOK
  BY DEF Init, TypeOK, EmptyGate, Points, FlightPoints, Answers, Answered2xx, MaxRuns

LEMMA StepType == TypeOK /\ [Next]_vars => TypeOK'
<1> SUFFICES ASSUME TypeOK, [Next]_vars PROVE TypeOK'
  OBVIOUS
<1> USE DEF TypeOK, Points, FlightPoints, Answers, Answered2xx, MaxRuns,
            EmptyGate, At, Land, Close, canvas, slots, server, GoTo, InFlight
<1>1. ASSUME NEW r \in Requests, NEW d \in Deliveries, Send(r, d) PROVE TypeOK'
  BY <1>1 DEF Send
<1>2. ASSUME NEW r \in Requests, Receive(r) PROVE TypeOK'
  BY <1>2 DEF Receive
<1>3. ASSUME NEW r \in Requests, AnswerLost(r) PROVE TypeOK'
  BY <1>3 DEF AnswerLost
<1>4. ASSUME NEW r \in Requests, Serve(r) PROVE TypeOK'
  <2>1. CASE LoadSettings(r)
    BY <2>1 DEF LoadSettings
  <2>2. CASE FindRuntimeState(r)
    BY <2>2 DEF FindRuntimeState
  <2>3. CASE CreateRuntimeState(r)
    BY <2>3 DEF CreateRuntimeState
  <2>4. CASE PassLimiter(r)
    <3>1. hits' \in [Requests -> 0..RateLimit]
      BY <2>4, CountUp DEF PassLimiter
    <3> QED
      BY <2>4, <3>1 DEF PassLimiter
  <2>5. CASE ExceedLimiter(r) \/ RefuseDisabled(r)
    BY <2>5 DEF ExceedLimiter, RefuseDisabled
  <2>6. CASE Verify(r)
    BY <2>6 DEF Verify
  <2>7. CASE IgnoreUnsupported(r) \/ RefuseDuplicate(r)
    BY <2>7 DEF IgnoreUnsupported, RefuseDuplicate
  <2>8. CASE Acquire(r)
    <3>1. gate' \in [Requests -> [Deliveries -> 0..TTL]]
      BY <2>8, GateEntry, TTL \in 0..TTL DEF Acquire, ReserveKey
    <3> QED
      BY <2>8, <3>1 DEF Acquire
  <2>9. CASE EnsureDeployment(r)
    BY <2>9 DEF EnsureDeployment
  <2>10. CASE SubmitRun(r)
    <3>1. CASE runs[del[r]] < MaxRuns
      <4>1. runs' = [runs EXCEPT ![del[r]] = runs[del[r]] + 1]
        BY <2>10, <3>1 DEF SubmitRun
      <4>2. runs' \in [Deliveries -> 0..2]
        BY <3>1, <4>1, CountUp
      <4> QED
        BY <2>10, <4>2 DEF SubmitRun
    <3>2. CASE ~(runs[del[r]] < MaxRuns)
      BY <2>10, <3>2 DEF SubmitRun
    <3> QED
      BY <3>1, <3>2
  <2>11. CASE Accept(r)
    BY <2>11 DEF Accept
  <2>12. CASE FailTrigger(r)
    <3>1. gate' \in [Requests -> [Deliveries -> 0..TTL]]
      BY <2>12, GateEntry, 0 \in 0..TTL DEF FailTrigger, ReleaseKey
    <3>2. Land(r, "failed") /\ UNCHANGED <<canvas, cached, hits, runs>>
      BY <2>12 DEF FailTrigger
    <3> QED
      BY <3>1, <3>2
  <2>13. CASE CrashTrigger(r)
    BY <2>13 DEF CrashTrigger
  <2> QED
    BY <1>4, <2>1, <2>2, <2>3, <2>4, <2>5, <2>6, <2>7, <2>8, <2>9, <2>10,
       <2>11, <2>12, <2>13 DEF Serve
<1>5. CASE Tick
  BY <1>5 DEF Tick
<1>6. CASE Restart
  BY <1>6 DEF Restart
<1>7. ASSUME NEW d \in Deliveries, GrowOld(d) PROVE TypeOK'
  BY <1>7 DEF GrowOld
<1>8. CASE UNCHANGED vars
  BY <1>8 DEF vars
<1> QED
  BY <1>1, <1>2, <1>3, <1>4, <1>5, <1>6, <1>7, <1>8 DEF Next

\* Every variable keeps its type: the server is always in one of the states
\* the model names, whatever the faults.
THEOREM TypeCorrect == Spec => []TypeOK
  BY InitType, StepType, PTL DEF Spec

------------------------------------------------------------------------------

\* No hand-off under way has lasted as long as a reservation: what the gate's
\* TTL presumes of Prefect, whatever the bound on a hand-off.
Timely == \A r \in Requests : InFlight(r) => age[r] < TTL

\* The same of one delivery, with the parts of the invariant that are about it.
TimelyFor(d) == \A r \in Requests : InFlight(r) /\ del[r] = d => age[r] < TTL

LeaseFor(d) == \A r \in Requests : InFlight(r) /\ del[r] = d => gate[st[r]][d] = TTL - age[r]

ExclusiveFor(d) ==
  \A r, q \in Requests :
    r # q /\ InFlight(r) /\ InFlight(q) /\ st[r] = st[q] => ~(del[r] = d /\ del[q] = d)

LEMMA InitInv == Init => IInv
  BY InitType DEF Init, IInv, SlotInv, StateInv, LeaseInv, ExclusiveTrigger,
                  InFlight, FlightPoints, At, EmptyGate

\* A request past the state dependency has a delivery and a state.
LEMMA StepSlot == TypeOK /\ SlotInv /\ [Next]_vars => SlotInv'
<1> SUFFICES ASSUME TypeOK, SlotInv, [Next]_vars PROVE SlotInv'
  OBVIOUS
<1> USE DEF TypeOK, FlightPoints, Answers, Answered2xx, At, GoTo, Land, Close,
            InFlight, slots, SlotInv
<1>1. ASSUME NEW r \in Requests, NEW d \in Deliveries, Send(r, d) PROVE SlotInv'
  BY <1>1 DEF Send
<1>2. ASSUME NEW r \in Requests, Receive(r) \/ AnswerLost(r) PROVE SlotInv'
  BY <1>2 DEF Receive, AnswerLost
<1>3. ASSUME NEW r \in Requests, Serve(r) PROVE SlotInv'
  <2>1. CASE LoadSettings(r) \/ FindRuntimeState(r) \/ CreateRuntimeState(r)
    BY <2>1 DEF LoadSettings, FindRuntimeState, CreateRuntimeState
  <2>2. CASE PassLimiter(r) \/ ExceedLimiter(r) \/ RefuseDisabled(r) \/ Verify(r)
    BY <2>2 DEF PassLimiter, ExceedLimiter, RefuseDisabled, Verify
  <2>3. CASE IgnoreUnsupported(r) \/ Acquire(r) \/ RefuseDuplicate(r)
    BY <2>3 DEF IgnoreUnsupported, Acquire, RefuseDuplicate
  <2>4. CASE EnsureDeployment(r) \/ SubmitRun(r)
    BY <2>4 DEF EnsureDeployment, SubmitRun
  <2>5. CASE Accept(r) \/ FailTrigger(r) \/ CrashTrigger(r)
    BY <2>5 DEF Accept, FailTrigger, CrashTrigger
  <2> QED
    BY <1>3, <2>1, <2>2, <2>3, <2>4, <2>5 DEF Serve
<1>4. CASE Tick \/ Restart
  BY <1>4 DEF Tick, Restart
<1>5. CASE UNCHANGED slots
  BY <1>5
<1> QED
  BY <1>1, <1>2, <1>3, <1>4, <1>5 DEF Next, GrowOld, vars

\* While no state is cached nobody has one and every gate is empty, and a state
\* being built is new to everyone.
LEMMA StepState == TypeOK /\ SlotInv /\ StateInv /\ [Next]_vars => StateInv'
<1> SUFFICES ASSUME TypeOK, SlotInv, StateInv, [Next]_vars PROVE StateInv'
  OBVIOUS
<1> USE DEF TypeOK, FlightPoints, Answers, Answered2xx, At, GoTo, Land, Close,
            InFlight, slots, server, EmptyGate
<1>1. ASSUME NEW r \in Requests, NEW d \in Deliveries, Send(r, d) PROVE StateInv'
  BY <1>1 DEF Send, StateInv
<1>2. ASSUME NEW r \in Requests, Receive(r) \/ AnswerLost(r) PROVE StateInv'
  <2>1. /\ pc' = [pc EXCEPT ![r] = "idle"]
        /\ st' = [st EXCEPT ![r] = None]
        /\ UNCHANGED <<gate, cached>>
    BY <1>2 DEF Receive, AnswerLost
  <2> QED
    BY <2>1 DEF StateInv
<1>3. ASSUME NEW r \in Requests, Serve(r) PROVE StateInv'
  <2>1. CASE LoadSettings(r)
    BY <2>1 DEF LoadSettings, StateInv
  <2>2. CASE FindRuntimeState(r)
    BY <2>2 DEF FindRuntimeState, StateInv
  <2>3. CASE CreateRuntimeState(r)
    BY <2>3 DEF CreateRuntimeState, StateInv
  <2>4. CASE PassLimiter(r) \/ ExceedLimiter(r) \/ RefuseDisabled(r)
    BY <2>4 DEF PassLimiter, ExceedLimiter, RefuseDisabled, StateInv
  <2>5. CASE Verify(r) \/ IgnoreUnsupported(r) \/ RefuseDuplicate(r)
    BY <2>5 DEF Verify, IgnoreUnsupported, RefuseDuplicate, StateInv
  <2>6. CASE Acquire(r)
    BY <2>6 DEF Acquire, IsFree, ReserveKey, StateInv, SlotInv
  <2>7. CASE EnsureDeployment(r) \/ SubmitRun(r)
    BY <2>7 DEF EnsureDeployment, SubmitRun, StateInv
  <2>8. CASE Accept(r) \/ CrashTrigger(r)
    BY <2>8 DEF Accept, CrashTrigger, StateInv
  <2>9. CASE FailTrigger(r)
    BY <2>9 DEF FailTrigger, ReleaseKey, StateInv
  <2> QED
    BY <1>3, <2>1, <2>2, <2>3, <2>4, <2>5, <2>6, <2>7, <2>8, <2>9 DEF Serve
<1>4. CASE Tick
  BY <1>4 DEF Tick, StateInv
<1>5. CASE Restart
  BY <1>5 DEF Restart, StateInv
<1>6. CASE UNCHANGED <<slots, server>>
  BY <1>6 DEF StateInv
<1> QED
  BY <1>1, <1>2, <1>3, <1>4, <1>5, <1>6 DEF Next, GrowOld, vars

\* The lease of one delivery is kept while its own hand-offs are in time.
LEMMA StepLease ==
  ASSUME NEW e \in Deliveries, TimelyFor(e), TypeOK, SlotInv, StateInv, LeaseFor(e),
         ExclusiveFor(e), [Next]_vars
  PROVE  LeaseFor(e)' /\ ExclusiveFor(e)'
<1> USE DEF TypeOK, FlightPoints, Answers, Answered2xx, At, GoTo, Land, Close,
            InFlight, slots, server, EmptyGate
<1>1. ASSUME NEW r \in Requests,
             \/ \E d \in Deliveries : Send(r, d)
             \/ Receive(r) \/ AnswerLost(r) \/ Serve(r)
      PROVE  LeaseFor(e)' /\ ExclusiveFor(e)'
  <2>1. CASE \E d \in Deliveries : Send(r, d)
    <3>1. LeaseFor(e)'
      BY <2>1 DEF Send, LeaseFor
    <3>2. ExclusiveFor(e)'
      BY <2>1 DEF Send, ExclusiveFor
    <3> QED
      BY <3>1, <3>2
  <2>2. CASE Receive(r) \/ AnswerLost(r)
    <3>1. LeaseFor(e)'
      BY <2>2 DEF Receive, AnswerLost, LeaseFor
    <3>2. ExclusiveFor(e)'
      <4>1. pc' = [pc EXCEPT ![r] = "idle"]
        BY <2>2 DEF Receive, AnswerLost
      <4>2. \A q \in Requests : q # r => del'[q] = del[q] /\ st'[q] = st[q]
        BY <2>2 DEF Receive, AnswerLost
      <4> QED
        BY <4>1, <4>2 DEF ExclusiveFor
    <3> QED
      BY <3>1, <3>2
  <2>3. CASE LoadSettings(r)
    <3>1. LeaseFor(e)'
      BY <2>3 DEF LoadSettings, LeaseFor
    <3>2. ExclusiveFor(e)'
      BY <2>3 DEF LoadSettings, ExclusiveFor
    <3> QED
      BY <3>1, <3>2
  <2>4. CASE FindRuntimeState(r)
    <3>1. LeaseFor(e)'
      BY <2>4 DEF FindRuntimeState, LeaseFor
    <3>2. ExclusiveFor(e)'
      BY <2>4 DEF FindRuntimeState, ExclusiveFor
    <3> QED
      BY <3>1, <3>2
  <2>5. CASE CreateRuntimeState(r)
    <3>1. LeaseFor(e)'
      BY <2>5 DEF CreateRuntimeState, LeaseFor, StateInv, SlotInv
    <3>2. ExclusiveFor(e)'
      BY <2>5 DEF CreateRuntimeState, ExclusiveFor
    <3> QED
      BY <3>1, <3>2
  <2>6. CASE PassLimiter(r) \/ ExceedLimiter(r) \/ RefuseDisabled(r)
    <3>1. LeaseFor(e)'
      BY <2>6 DEF PassLimiter, ExceedLimiter, RefuseDisabled, LeaseFor
    <3>2. ExclusiveFor(e)'
      BY <2>6 DEF PassLimiter, ExceedLimiter, RefuseDisabled, ExclusiveFor
    <3> QED
      BY <3>1, <3>2
  <2>7. CASE Verify(r) \/ IgnoreUnsupported(r) \/ RefuseDuplicate(r)
    <3>1. LeaseFor(e)'
      BY <2>7 DEF Verify, IgnoreUnsupported, RefuseDuplicate, LeaseFor
    <3>2. ExclusiveFor(e)'
      BY <2>7 DEF Verify, IgnoreUnsupported, RefuseDuplicate, ExclusiveFor
    <3> QED
      BY <3>1, <3>2
  <2>8. CASE Acquire(r)
    <3>0. \A q \in Requests : InFlight(q) /\ del[q] = e =>
            <<st[q], del[q]>> # <<st[r], del[r]>>
      <4>1. gate[st[r]][del[r]] = 0
        BY <2>8 DEF Acquire, IsFree
      <4>2. \A q \in Requests : InFlight(q) /\ del[q] = e => gate[st[q]][del[q]] > 0
        BY DEF LeaseFor, TimelyFor
      <4> QED
        BY <4>1, <4>2
    <3>1. LeaseFor(e)'
      <4>1. /\ pc' = [pc EXCEPT ![r] = "ensure"]
            /\ gate' = [gate EXCEPT ![st[r]][del[r]] = TTL]
            /\ UNCHANGED <<del, st, age>>
        BY <2>8 DEF Acquire, ReserveKey
      <4>2. st[r] \in Requests /\ del[r] \in Deliveries /\ age[r] = 0
        BY <2>8 DEF Acquire, SlotInv
      <4>3. gate'[st[r]][del[r]] = TTL - age[r]
        BY <4>1, <4>2
      <4>4. ASSUME NEW q \in Requests, InFlight(q), del[q] = e, q # r
            PROVE  gate'[st[q]][del[q]] = gate[st[q]][del[q]]
        BY <3>0, <4>1, <4>2, <4>4 DEF SlotInv
      <4> QED
        BY <4>1, <4>3, <4>4 DEF LeaseFor
    <3>2. ExclusiveFor(e)'
      BY <2>8, <3>0 DEF Acquire, ExclusiveFor
    <3> QED
      BY <3>1, <3>2
  <2>9. CASE EnsureDeployment(r) \/ SubmitRun(r)
    <3>1. LeaseFor(e)'
      BY <2>9 DEF EnsureDeployment, SubmitRun, LeaseFor
    <3>2. ExclusiveFor(e)'
      BY <2>9 DEF EnsureDeployment, SubmitRun, ExclusiveFor
    <3> QED
      BY <3>1, <3>2
  <2>10. CASE Accept(r) \/ CrashTrigger(r)
    <3>1. LeaseFor(e)'
      BY <2>10 DEF Accept, CrashTrigger, LeaseFor
    <3>2. ExclusiveFor(e)'
      BY <2>10 DEF Accept, CrashTrigger, ExclusiveFor
    <3> QED
      BY <3>1, <3>2
  <2>11. CASE FailTrigger(r)
    <3>1. LeaseFor(e)'
      <4>1. /\ pc' = [pc EXCEPT ![r] = "failed"]
            /\ age' = [age EXCEPT ![r] = 0]
            /\ gate' = [gate EXCEPT ![st[r]][del[r]] = 0]
            /\ UNCHANGED <<del, st>>
        BY <2>11 DEF FailTrigger, ReleaseKey
      <4>2. InFlight(r)
        BY <2>11 DEF FailTrigger
      <4>3. ASSUME NEW q \in Requests, InFlight(q), del[q] = e, q # r
            PROVE  gate'[st[q]][del[q]] = gate[st[q]][del[q]]
        BY <4>1, <4>2, <4>3 DEF ExclusiveFor, SlotInv
      <4> QED
        BY <4>1, <4>3 DEF LeaseFor
    <3>2. ExclusiveFor(e)'
      BY <2>11 DEF FailTrigger, ReleaseKey, ExclusiveFor
    <3> QED
      BY <3>1, <3>2
  <2> QED
    BY <1>1, <2>1, <2>2, <2>3, <2>4, <2>5, <2>6, <2>7, <2>8, <2>9, <2>10, <2>11
       DEF Serve
<1>2. CASE Tick
  <2>1. LeaseFor(e)'
    BY <1>2 DEF Tick, LeaseFor, SlotInv, TimelyFor
  <2>2. ExclusiveFor(e)'
    BY <1>2 DEF Tick, ExclusiveFor
  <2> QED
    BY <2>1, <2>2
<1>3. CASE Restart
  BY <1>3 DEF Restart, LeaseFor, ExclusiveFor
<1>4. CASE UNCHANGED <<slots, server>>
  BY <1>4 DEF LeaseFor, ExclusiveFor
<1> QED
  BY <1>1, <1>2, <1>3, <1>4 DEF Next, GrowOld, vars

\* The inductive invariant takes all deliveries together.
LEMMA InvForAll ==
  ASSUME SlotInv
  PROVE  /\ LeaseInv <=> \A d \in Deliveries : LeaseFor(d)
         /\ ExclusiveTrigger <=> \A d \in Deliveries : ExclusiveFor(d)
         /\ Timely <=> \A d \in Deliveries : TimelyFor(d)
<1>1. \A r \in Requests : InFlight(r) => del[r] \in Deliveries
  BY DEF SlotInv, InFlight, FlightPoints
<1> QED
  BY <1>1 DEF LeaseInv, LeaseFor, ExclusiveTrigger, ExclusiveFor, Timely, TimelyFor

LEMMA StepInv ==
  ASSUME Timely, IInv, [Next]_vars
  PROVE  IInv'
<1>1. TypeOK /\ SlotInv /\ StateInv /\ LeaseInv /\ ExclusiveTrigger
  BY DEF IInv
<1>2. TypeOK' /\ SlotInv' /\ StateInv'
  BY <1>1, StepType, StepSlot, StepState
<1>3. \A d \in Deliveries : LeaseFor(d)' /\ ExclusiveFor(d)'
  BY <1>1, InvForAll, StepLease
<1>4. LeaseInv' /\ ExclusiveTrigger'
  <2>1. \A r \in Requests : InFlight(r)' => del'[r] \in Deliveries
    BY <1>2 DEF SlotInv, InFlight, FlightPoints
  <2> QED
    BY <1>3, <2>1 DEF LeaseInv, LeaseFor, ExclusiveTrigger, ExclusiveFor
<1> QED
  BY <1>2, <1>4 DEF IInv

\* A gate never has two requests handing over the same delivery as long as no
\* hand-off of this delivery lasts as long as its reservation: slow ones of other
\* deliveries, and what their late failures release, are not in its way.
THEOREM EachDeliveryExcludes ==
  ASSUME NEW d \in Deliveries
  PROVE  Spec /\ []TimelyFor(d) => []ExclusiveFor(d)
<1> DEFINE Inv == TypeOK /\ SlotInv /\ StateInv /\ LeaseFor(d) /\ ExclusiveFor(d)
<1>1. Init => Inv
  BY InitInv, InvForAll DEF IInv
<1>2. Inv /\ TimelyFor(d) /\ [Next]_vars => Inv'
  BY StepType, StepSlot, StepState, StepLease
<1>3. Inv => ExclusiveFor(d)
  OBVIOUS
<1> QED
  BY <1>1, <1>2, <1>3, PTL DEF Spec

\* One gate never has two requests handing over the same delivery, for any
\* number of requests and deliveries, in every behaviour in which no hand-off
\* lasts as long as a reservation.
THEOREM RunGateExcludes == Spec /\ []Timely => []ExclusiveTrigger
<1>1. IInv /\ Timely /\ [Next]_vars => IInv'
  BY StepInv
<1>2. IInv => ExclusiveTrigger
  BY DEF IInv
<1> QED
  BY InitInv, <1>1, <1>2, PTL DEF Spec

\* A running reservation disappears only with its process or by the failure of
\* the request that holds it, for any number of requests and deliveries, in every
\* behaviour in which no hand-off lasts as long as a reservation.  Where one does,
\* its late failure frees the reservation of the request that came next.
THEOREM ReservationsLast == Spec /\ []Timely => OnlyFailureFrees
<1> DEFINE Freed(s, d) == gate[s][d] > 1 /\ gate'[s][d] = 0
           ByHolder(s, d) == \E r \in Requests :
             /\ InFlight(r) /\ st[r] = s /\ del[r] = d
             /\ age[r] = TTL - gate[s][d] /\ pc'[r] = "failed"
<1>1. ASSUME IInv, [Next]_vars, NEW s \in Requests, NEW d \in Deliveries, Freed(s, d)
      PROVE  cached' = None \/ ByHolder(s, d)
  <2>0. TypeOK /\ SlotInv /\ StateInv /\ LeaseInv
    BY <1>1 DEF IInv
  <2> USE <1>1, <2>0, TimeAssumption DEF TypeOK
  <2>1. ASSUME gate' = gate PROVE FALSE
    BY <2>1
  <2>2. ASSUME NEW r \in Requests, CreateRuntimeState(r) PROVE FALSE
    BY <2>2 DEF CreateRuntimeState, StateInv, EmptyGate, At
  <2>3. ASSUME NEW r \in Requests, Acquire(r) PROVE FALSE
    BY <2>3 DEF Acquire, ReserveKey
  <2>4. ASSUME NEW r \in Requests, FailTrigger(r) PROVE ByHolder(s, d)
    <3>1. gate' = [gate EXCEPT ![st[r]][del[r]] = 0] /\ pc' = [pc EXCEPT ![r] = "failed"]
      BY <2>4 DEF FailTrigger, ReleaseKey, Land
    <3>2. InFlight(r)
      BY <2>4 DEF FailTrigger, InFlight, FlightPoints, At
    <3>3. st[r] = s /\ del[r] = d
      BY <3>1
    <3>4. age[r] = TTL - gate[s][d]
      BY <3>2, <3>3 DEF LeaseInv
    <3> QED
      BY <3>1, <3>2, <3>3, <3>4
  <2>5. CASE Tick
    BY <2>5 DEF Tick
  <2>6. CASE Restart
    BY <2>6 DEF Restart
  <2>7. ASSUME NEW r \in Requests, NEW e \in Deliveries, Send(r, e) PROVE gate' = gate
    BY <2>7 DEF Send, server
  <2>8. ASSUME NEW r \in Requests,
               Receive(r) \/ AnswerLost(r) \/ LoadSettings(r) \/ FindRuntimeState(r)
                 \/ PassLimiter(r) \/ ExceedLimiter(r) \/ RefuseDisabled(r) \/ Verify(r)
                 \/ IgnoreUnsupported(r) \/ RefuseDuplicate(r) \/ EnsureDeployment(r)
                 \/ SubmitRun(r) \/ Accept(r) \/ CrashTrigger(r)
        PROVE  gate' = gate
    BY <2>8 DEF Receive, AnswerLost, LoadSettings, FindRuntimeState, PassLimiter,
       ExceedLimiter, RefuseDisabled, Verify, IgnoreUnsupported, RefuseDuplicate,
       EnsureDeployment, SubmitRun, Accept, CrashTrigger, server
  <2>9. CASE UNCHANGED server
    BY <2>1, <2>9 DEF server
  <2> QED
    BY <2>1, <2>2, <2>3, <2>4, <2>5, <2>6, <2>7, <2>8, <2>9
       DEF Next, Serve, GrowOld, vars
<1>2. IInv /\ [Next]_vars => [FreedOnlyByFailure]_vars
  BY <1>1 DEF FreedOnlyByFailure
<1>3. IInv /\ Timely /\ [Next]_vars => IInv'
  BY StepInv
<1> QED
  BY InitInv, <1>2, <1>3, PTL DEF Spec, OnlyFailureFrees

------------------------------------------------------------------------------

\* A step of the server leaves the request its delivery, and Canvas's events alone.
LEMMA ServeKeeps ==
  ASSUME NEW r \in Requests, Serve(r)
  PROVE  del' = del /\ event' = event
  BY DEF Serve, LoadSettings, FindRuntimeState, CreateRuntimeState, PassLimiter,
         ExceedLimiter, RefuseDisabled, Verify, IgnoreUnsupported, Acquire,
         RefuseDuplicate, EnsureDeployment, SubmitRun, Accept, FailTrigger,
         CrashTrigger, GoTo, Land, canvas

\* A run that has been started stays started.
LEMMA RunsStay ==
  ASSUME TypeOK, [Next]_vars, NEW d \in Deliveries, runs[d] > 0
  PROVE  runs'[d] > 0
<1>1. ASSUME NEW r \in Requests, SubmitRun(r) PROVE runs'[d] > 0
  BY <1>1 DEF SubmitRun, TypeOK, MaxRuns
<1>2. CASE runs' = runs
  BY <1>2
<1> QED
  BY <1>1, <1>2
     DEF Next, Send, Receive, AnswerLost, Serve, LoadSettings, FindRuntimeState,
         CreateRuntimeState, PassLimiter, ExceedLimiter, RefuseDisabled, Verify,
         IgnoreUnsupported, Acquire, RefuseDuplicate, EnsureDeployment, Accept,
         FailTrigger, CrashTrigger, Tick, Restart, GrowOld, vars

\* While Canvas waits for its answers, no two requests carry the same event.
LEMMA StepSole ==
  ASSUME "timeout" \notin Faults, TypeOK, SoleInv, [Next]_vars
  PROVE  SoleInv'
<1> USE DEF TypeOK, SoleInv
<1>1. ASSUME NEW r \in Requests, NEW d \in Deliveries, Send(r, d) PROVE SoleInv'
  BY <1>1 DEF Send
<1>2. ASSUME NEW r \in Requests, Receive(r) \/ AnswerLost(r) PROVE SoleInv'
  BY <1>2 DEF Receive, AnswerLost, Close
<1>3. ASSUME NEW r \in Requests, Serve(r) PROVE SoleInv'
  BY <1>3, ServeKeeps
<1>4. CASE Tick \/ Restart
  BY <1>4 DEF Tick, Restart
<1>5. CASE UNCHANGED slots
  BY <1>5 DEF slots
<1> QED
  BY <1>1, <1>2, <1>3, <1>4, <1>5 DEF Next, GrowOld, vars

\* While there is no run for it yet, a request that is handing an event over ends
\* with an unexpected exception, or another one for that event is answered that it
\* is a duplicate.
Mishap == \E r \in Requests :
  /\ runs[del[r]] = 0
  /\ \/ CrashTrigger(r)
     \/ RefuseDuplicate(r) /\ \E q \in Requests : InFlight(q) /\ del[q] = del[r]

LEMMA MishapIsStep ==
  ASSUME TypeOK, Mishap
  PROVE  pc' # pc
<1>1. PICK r \in Requests : CrashTrigger(r) \/ RefuseDuplicate(r)
  BY DEF Mishap
<1>2. CASE CrashTrigger(r)
  BY <1>2 DEF CrashTrigger, Land, InFlight, FlightPoints, TypeOK
<1>3. CASE RefuseDuplicate(r)
  BY <1>3 DEF RefuseDuplicate, GoTo, At, TypeOK
<1> QED
  BY <1>1, <1>2, <1>3

\* Neither happens where Canvas waits for its answers and nothing unexpected does.
LEMMA NoMishap ==
  ASSUME "unexpected" \notin Faults, TypeOK, SlotInv, SoleInv
  PROVE  ~Mishap
<1>1. ASSUME NEW r \in Requests, RefuseDuplicate(r), NEW q \in Requests, InFlight(q),
             del[q] = del[r]
      PROVE  FALSE
  <2>1. q # r /\ del[r] \in Deliveries
    BY <1>1 DEF RefuseDuplicate, At, InFlight, FlightPoints, SlotInv
  <2> QED
    BY <1>1, <2>1 DEF SoleInv
<1> QED
  BY <1>1 DEF Mishap, CrashTrigger

\* A reserved key without a run is being worked on: whoever stops working on one
\* without a run frees it.
LEMMA StepReserved ==
  ASSUME ~Mishap, TypeOK, SlotInv, StartedInv, ReservedInv, [Next]_vars
  PROVE  ReservedInv'
<1> USE DEF TypeOK, FlightPoints, At, GoTo, Land, Close, InFlight, slots, server
<1> DEFINE Holds(r, s, d) == InFlight(r) /\ st[r] = s /\ del[r] = d
<1>1. \A d \in Deliveries : runs[d] > 0 => runs'[d] > 0
  BY RunsStay
<1>2. ASSUME \A s \in Requests, d \in Deliveries : gate'[s][d] > 0 => gate[s][d] > 0,
             \A r \in Requests : InFlight(r) =>
               InFlight(r)' /\ st'[r] = st[r] /\ del'[r] = del[r]
      PROVE  ReservedInv'
  <2> SUFFICES ASSUME NEW s \in Requests, NEW d \in Deliveries, gate[s][d] > 0
               PROVE  runs'[d] > 0 \/ \E r \in Requests : Holds(r, s, d)'
    BY <1>2 DEF ReservedInv
  <2>1. CASE runs[d] > 0
    BY <1>1, <2>1
  <2>2. ASSUME NEW r \in Requests, Holds(r, s, d) PROVE Holds(r, s, d)'
    BY <1>2, <2>2
  <2> QED
    BY <2>1, <2>2 DEF ReservedInv
<1>3. ASSUME NEW r \in Requests, NEW d \in Deliveries, Send(r, d) PROVE ReservedInv'
  BY <1>2, <1>3 DEF Send
<1>4. ASSUME NEW r \in Requests, Receive(r) \/ AnswerLost(r) PROVE ReservedInv'
  BY <1>2, <1>4 DEF Receive, AnswerLost, Answers, Answered2xx
<1>5. ASSUME NEW r \in Requests, Serve(r) PROVE ReservedInv'
  <2>1. CASE LoadSettings(r) \/ FindRuntimeState(r) \/ ExceedLimiter(r)
             \/ RefuseDisabled(r) \/ Verify(r) \/ IgnoreUnsupported(r)
             \/ RefuseDuplicate(r)
    BY <1>2, <2>1 DEF LoadSettings, FindRuntimeState, ExceedLimiter, RefuseDisabled,
                      Verify, IgnoreUnsupported, RefuseDuplicate
  <2>2. CASE CreateRuntimeState(r)
    BY <1>2, <2>2 DEF CreateRuntimeState, EmptyGate
  <2>3. CASE PassLimiter(r) \/ EnsureDeployment(r)
    BY <1>2, <2>3 DEF PassLimiter, EnsureDeployment
  <2>4. CASE Acquire(r)
    <3>1. /\ gate' = [gate EXCEPT ![st[r]][del[r]] = TTL]
          /\ pc' = [pc EXCEPT ![r] = "ensure"] /\ UNCHANGED <<del, st>>
      BY <2>4 DEF Acquire, ReserveKey
    <3> SUFFICES ASSUME NEW s \in Requests, NEW d \in Deliveries, gate'[s][d] > 0
                 PROVE  runs'[d] > 0 \/ \E q \in Requests : Holds(q, s, d)'
      BY DEF ReservedInv
    <3>2. CASE s = st[r] /\ d = del[r]
      BY <3>1, <3>2
    <3>3. CASE ~(s = st[r] /\ d = del[r])
      <4>1. gate[s][d] > 0
        BY <3>1, <3>3
      <4>2. ASSUME NEW q \in Requests, Holds(q, s, d) PROVE Holds(q, s, d)'
        BY <3>1, <4>2
      <4> QED
        BY <1>1, <4>1, <4>2 DEF ReservedInv
    <3> QED
      BY <3>2, <3>3
  <2>5. CASE SubmitRun(r)
    BY <1>2, <2>5 DEF SubmitRun
  <2>6. CASE Accept(r)
    <3>1. runs[del[r]] > 0
      BY <2>6 DEF Accept, StartedInv
    <3>2. /\ pc' = [pc EXCEPT ![r] = "accepted"] /\ UNCHANGED <<del, st, gate, runs>>
      BY <2>6 DEF Accept
    <3> SUFFICES ASSUME NEW s \in Requests, NEW d \in Deliveries,
                        gate[s][d] > 0, ~(runs[d] > 0)
                 PROVE  \E q \in Requests : Holds(q, s, d)'
      BY <3>2 DEF ReservedInv
    <3>3. PICK q \in Requests : Holds(q, s, d)
      BY DEF ReservedInv
    <3> QED
      BY <3>1, <3>2, <3>3
  <2>7. CASE FailTrigger(r)
    <3>1. /\ gate' = [gate EXCEPT ![st[r]][del[r]] = 0]
          /\ pc' = [pc EXCEPT ![r] = "failed"] /\ UNCHANGED <<del, st, runs>>
      BY <2>7 DEF FailTrigger, ReleaseKey
    <3> SUFFICES ASSUME NEW s \in Requests, NEW d \in Deliveries,
                        gate'[s][d] > 0, ~(runs[d] > 0)
                 PROVE  \E q \in Requests : Holds(q, s, d)'
      BY <3>1 DEF ReservedInv
    <3>2. gate[s][d] > 0 /\ ~(s = st[r] /\ d = del[r])
      BY <3>1
    <3>3. PICK q \in Requests : Holds(q, s, d)
      BY <3>2 DEF ReservedInv
    <3> QED
      BY <3>1, <3>2, <3>3
  <2>8. CASE CrashTrigger(r)
    <3>1. runs[del[r]] > 0
      <4>1. runs[del[r]] \in 0..2 /\ runs[del[r]] # 0
        BY <2>8 DEF CrashTrigger, SlotInv, Mishap, MaxRuns
      <4> QED
        BY <4>1
    <3>2. /\ pc' = [pc EXCEPT ![r] = "crashed"] /\ UNCHANGED <<del, st, gate, runs>>
      BY <2>8 DEF CrashTrigger
    <3> SUFFICES ASSUME NEW s \in Requests, NEW d \in Deliveries,
                        gate[s][d] > 0, ~(runs[d] > 0)
                 PROVE  \E q \in Requests : Holds(q, s, d)'
      BY <3>2 DEF ReservedInv
    <3>3. PICK q \in Requests : Holds(q, s, d)
      BY DEF ReservedInv
    <3> QED
      BY <3>1, <3>2, <3>3
  <2> QED
    BY <1>5, <2>1, <2>2, <2>3, <2>4, <2>5, <2>6, <2>7, <2>8 DEF Serve
<1>6. CASE Tick
  BY <1>2, <1>6 DEF Tick
<1>7. CASE Restart
  BY <1>7 DEF Restart, EmptyGate, ReservedInv
<1>8. CASE UNCHANGED <<slots, server>>
  BY <1>2, <1>8
<1> QED
  BY <1>3, <1>4, <1>5, <1>6, <1>7, <1>8 DEF Next, GrowOld, vars

\* ... so a key found reserved was reserved for a run there is by now, unless it
\* is still on its way, which is the other mishap.
LEMMA StepStarted ==
  ASSUME ~Mishap, TypeOK, SlotInv, StartedInv, ReservedInv, [Next]_vars
  PROVE  StartedInv'
<1> USE DEF TypeOK, FlightPoints, Answers, Answered2xx, At, GoTo, Land, Close,
            slots, server, StartedInv
<1>1. ASSUME NEW r \in Requests, NEW d \in Deliveries, Send(r, d) PROVE StartedInv'
  BY <1>1 DEF Send
<1>2. ASSUME NEW r \in Requests, Receive(r) \/ AnswerLost(r) PROVE StartedInv'
  BY <1>2 DEF Receive, AnswerLost
<1>3. ASSUME NEW r \in Requests, Serve(r) PROVE StartedInv'
  <2>1. CASE LoadSettings(r) \/ FindRuntimeState(r) \/ CreateRuntimeState(r)
    BY <2>1 DEF LoadSettings, FindRuntimeState, CreateRuntimeState
  <2>2. CASE PassLimiter(r) \/ ExceedLimiter(r) \/ RefuseDisabled(r) \/ Verify(r)
    BY <2>2 DEF PassLimiter, ExceedLimiter, RefuseDisabled, Verify
  <2>3. CASE IgnoreUnsupported(r) \/ Acquire(r) \/ EnsureDeployment(r)
    BY <2>3 DEF IgnoreUnsupported, Acquire, EnsureDeployment
  <2>4. CASE RefuseDuplicate(r)
    <3>1. runs[del[r]] > 0
      <4>1. gate[st[r]][del[r]] > 0 /\ st[r] \in Requests /\ del[r] \in Deliveries
        BY <2>4 DEF RefuseDuplicate, IsFree, SlotInv
      <4>2. runs[del[r]] = 0 => \A q \in Requests : InFlight(q) => del[q] # del[r]
        BY <2>4 DEF Mishap
      <4>3. runs[del[r]] \in 0..2
        BY <4>1 DEF MaxRuns
      <4> QED
        BY <4>1, <4>2, <4>3 DEF ReservedInv
    <3> QED
      BY <2>4, <3>1 DEF RefuseDuplicate
  <2>5. CASE SubmitRun(r)
    <3>1. runs'[del[r]] > 0 /\ del[r] \in Deliveries
      BY <2>5 DEF SubmitRun, SlotInv, MaxRuns
    <3>2. \A q \in Requests : del[q] \in Deliveries /\ runs[del[q]] > 0 => runs'[del[q]] > 0
      BY RunsStay
    <3>3. pc' = [pc EXCEPT ![r] = "created"] /\ del' = del
      BY <2>5 DEF SubmitRun
    <3> QED
      BY <3>1, <3>2, <3>3 DEF SlotInv
  <2>6. CASE Accept(r) \/ FailTrigger(r) \/ CrashTrigger(r)
    BY <2>6 DEF Accept, FailTrigger, CrashTrigger
  <2> QED
    BY <1>3, <2>1, <2>2, <2>3, <2>4, <2>5, <2>6 DEF Serve
<1>4. CASE Tick \/ Restart
  BY <1>4 DEF Tick, Restart
<1>5. CASE UNCHANGED <<slots, runs>>
  BY <1>5
<1> QED
  BY <1>1, <1>2, <1>3, <1>4, <1>5 DEF Next, GrowOld, vars

LEMMA StepAcked ==
  ASSUME TypeOK, SlotInv, StartedInv, AckedMeansStarted, [Next]_vars
  PROVE  AckedMeansStarted'
<1> SUFFICES ASSUME NEW d \in Genuine \cap Supported, event'[d] = "acked", ~(runs[d] > 0)
             PROVE  FALSE
  BY RunsStay, DeliveriesAssumption DEF AckedMeansStarted, TypeOK
<1>1. event[d] # "acked"
  BY DEF AckedMeansStarted
<1>2. ASSUME NEW r \in Requests, Receive(r) PROVE FALSE
  <2>1. pc[r] \in Answered2xx /\ del[r] = d
    BY <1>1, <1>2 DEF Receive, TypeOK
  <2> QED
    BY <2>1 DEF StartedInv, At, Answered2xx
<1>3. CASE event' = event
  BY <1>1, <1>3
<1> QED
  BY <1>2, <1>3, ServeKeeps
     DEF Next, Send, AnswerLost, Tick, Restart, GrowOld, vars, canvas

\* There are two ways only in which a genuine submission event is acknowledged and
\* gets no run, for any number of requests and deliveries: before there is a run
\* an unexpected exception is raised, or a second copy is called a duplicate.
\* Restarts, expired reservations, lost answers of Prefect, resends of any other
\* time and the exceptions the code expects do no harm.
THEOREM OnlyMishapsLose == Spec /\ [][~Mishap]_vars => []AckedMeansStarted
<1>1. Init => AckInv
  BY InitType DEF Init, AckInv, SlotInv, StartedInv, ReservedInv, AckedMeansStarted,
                  InFlight, FlightPoints, At, EmptyGate
<1>2. AckInv /\ [Next]_vars /\ [~Mishap]_vars => AckInv'
  <2> SUFFICES ASSUME AckInv, [Next]_vars, [~Mishap]_vars PROVE AckInv'
    OBVIOUS
  <2>1. ~Mishap
    BY MishapIsStep DEF AckInv, vars, slots
  <2> QED
    BY <2>1, StepType, StepSlot, StepStarted, StepReserved, StepAcked DEF AckInv
<1>3. AckInv => AckedMeansStarted
  BY DEF AckInv
<1> QED
  BY <1>1, <1>2, <1>3, PTL DEF Spec

\* So it loses none where Canvas waits for its answers and only expected exceptions
\* are raised.
THEOREM AcknowledgedIsStarted ==
  ASSUME "timeout" \notin Faults, "unexpected" \notin Faults
  PROVE  Spec => []AckedMeansStarted
<1>1. Init => SlotInv /\ SoleInv
  BY DEF Init, SlotInv, SoleInv, InFlight, FlightPoints
<1>2. TypeOK /\ SlotInv /\ SoleInv /\ [Next]_vars => (SlotInv /\ SoleInv)'
  BY StepSlot, StepSole
<1>3. TypeOK /\ SlotInv /\ SoleInv => [~Mishap]_vars
  BY NoMishap
<1> QED
  BY <1>1, <1>2, <1>3, TypeCorrect, OnlyMishapsLose, PTL DEF Spec

------------------------------------------------------------------------------
(* The run gate implements the lease *)

Key(r) == <<st[r], del[r]>>

\* The lease as a table without CHOOSE: the holder of a key in flight, and else
\* what the gate says.
LeaseTable ==
  /\ Lease \in [Requests \X Deliveries -> Requests \cup {"free", "sealed"}]
  /\ \A r \in Requests : InFlight(r) =>
       Key(r) \in Requests \X Deliveries /\ Lease[Key(r)] = r
  /\ \A s \in Requests, d \in Deliveries :
       (\A r \in Requests : InFlight(r) => Key(r) # <<s, d>>) =>
         Lease[<<s, d>>] = IF gate[s][d] > 0 THEN "sealed" ELSE "free"

\* Because a key has one holder, there is but one to choose.
LEMMA LeaseIsTable == IInv => LeaseTable
<1> SUFFICES ASSUME TypeOK, SlotInv, ExclusiveTrigger PROVE LeaseTable
  BY DEF IInv
<1>1. ASSUME NEW r \in Requests, InFlight(r)
      PROVE  Key(r) \in Requests \X Deliveries
  BY <1>1 DEF SlotInv, Key, InFlight, FlightPoints
<1>2. ASSUME NEW r \in Requests, NEW q \in Requests,
             InFlight(r), InFlight(q), Key(q) = Key(r)
      PROVE  q = r
  BY <1>2 DEF ExclusiveTrigger, Key
<1>3. ASSUME NEW r \in Requests, InFlight(r) PROVE Lease[Key(r)] = r
  <2>1. (CHOOSE q \in Requests : InFlight(q) /\ <<st[q], del[q]>> = Key(r)) = r
    BY <1>2, <1>3 DEF Key
  <2> QED
    BY <1>1, <1>3, <2>1 DEF Lease, Key
<1>4. ASSUME NEW s \in Requests, NEW d \in Deliveries,
             \A r \in Requests : InFlight(r) => Key(r) # <<s, d>>
      PROVE  Lease[<<s, d>>] = IF gate[s][d] > 0 THEN "sealed" ELSE "free"
  BY <1>4 DEF Lease, Key
<1>5. Lease \in [Requests \X Deliveries -> Requests \cup {"free", "sealed"}]
  <2>1. ASSUME NEW k \in Requests \X Deliveries
        PROVE  Lease[k] \in Requests \cup {"free", "sealed"}
    <3>1. PICK s \in Requests, d \in Deliveries : k = <<s, d>>
      OBVIOUS
    <3>2. CASE \E r \in Requests : InFlight(r) /\ Key(r) = k
      BY <1>3, <3>2
    <3>3. CASE ~\E r \in Requests : InFlight(r) /\ Key(r) = k
      BY <1>4, <3>1, <3>3
    <3> QED
      BY <3>2, <3>3
  <2> QED
    BY <2>1 DEF Lease
<1> QED
  BY <1>1, <1>3, <1>4, <1>5 DEF LeaseTable

\* Whatever lets holders go only with a free key, and reserves none, reopens.
LEMMA Reopening ==
  ASSUME LeaseTable, LeaseTable',
         \A s \in Requests, d \in Deliveries : gate'[s][d] > 0 => gate[s][d] > 0,
         \A r \in Requests : InFlight(r)' => InFlight(r) /\ Key(r)' = Key(r),
         \A r \in Requests : InFlight(r) /\ ~InFlight(r)' =>
           ~(gate'[st[r]][del[r]] > 0)
  PROVE  Gate!Reopen
<1>1. ASSUME NEW s \in Requests, NEW d \in Deliveries
      PROVE  Lease'[<<s, d>>] \in {Lease[<<s, d>>], "free"}
  <2>1. CASE \E r \in Requests : InFlight(r)' /\ Key(r)' = <<s, d>>
    <3>1. PICK r \in Requests : InFlight(r)' /\ Key(r)' = <<s, d>>
      BY <2>1
    <3>2. InFlight(r) /\ Key(r) = <<s, d>>
      BY <3>1
    <3>3. Lease[<<s, d>>] = r
      BY <3>2 DEF LeaseTable
    <3>4. Lease'[<<s, d>>] = r
      <4>1. Lease'[Key(r)'] = r
        BY <3>1 DEF LeaseTable
      <4> QED
        BY <4>1, <3>1
    <3> QED
      BY <3>3, <3>4
  <2>2. CASE ~\E r \in Requests : InFlight(r)' /\ Key(r)' = <<s, d>>
    <3>1. Lease'[<<s, d>>] = IF gate'[s][d] > 0 THEN "sealed" ELSE "free"
      BY <2>2 DEF LeaseTable
    <3>2. CASE ~(gate'[s][d] > 0)
      BY <3>1, <3>2
    <3>3. CASE gate'[s][d] > 0
      <4>1. \A r \in Requests : InFlight(r) => Key(r) # <<s, d>>
        BY <2>2, <3>3 DEF Key
      <4> QED
        BY <3>1, <3>3, <4>1 DEF LeaseTable
    <3> QED
      BY <3>2, <3>3
  <2> QED
    BY <2>1, <2>2
<1> QED
  BY <1>1 DEF LeaseTable, Gate!Reopen

\* A step of one request in which the gate changes at its own key at most
\* leaves every other lease alone.
LEMMA OtherLeases ==
  ASSUME LeaseTable, LeaseTable', NEW r \in Requests, NEW holder,
         Key(r) \in Requests \X Deliveries, st' = st, del' = del,
         \A s \in Requests, d \in Deliveries :
           <<s, d>> # Key(r) => gate'[s][d] = gate[s][d],
         \A q \in Requests \ {r} : InFlight(q)' = InFlight(q),
         Lease'[Key(r)] = holder
  PROVE  Lease' = [Lease EXCEPT ![Key(r)] = holder]
<1>1. ASSUME NEW s \in Requests, NEW d \in Deliveries, <<s, d>> # Key(r)
      PROVE  Lease'[<<s, d>>] = Lease[<<s, d>>]
  <2>1. \A q \in Requests : Key(q)' = Key(q)
    BY DEF Key
  <2>2. CASE \E q \in Requests : InFlight(q) /\ Key(q) = <<s, d>>
    <3>1. PICK q \in Requests : InFlight(q) /\ Key(q) = <<s, d>>
      BY <2>2
    <3>2. InFlight(q)' /\ Key(q)' = <<s, d>>
      BY <1>1, <2>1, <3>1
    <3>3. Lease[<<s, d>>] = q
      BY <3>1 DEF LeaseTable
    <3>4. Lease'[Key(q)'] = q
      BY <3>2 DEF LeaseTable
    <3> QED
      BY <3>2, <3>3, <3>4
  <2>3. CASE ~\E q \in Requests : InFlight(q) /\ Key(q) = <<s, d>>
    <3>1. \A q \in Requests : InFlight(q) => Key(q) # <<s, d>>
      BY <2>3
    <3>2. \A q \in Requests : InFlight(q)' => Key(q)' # <<s, d>>
      BY <1>1, <2>1, <3>1
    <3>3. Lease[<<s, d>>] = IF gate[s][d] > 0 THEN "sealed" ELSE "free"
      BY <3>1 DEF LeaseTable
    <3>4. Lease'[<<s, d>>] = IF gate'[s][d] > 0 THEN "sealed" ELSE "free"
      BY <3>2 DEF LeaseTable
    <3> QED
      BY <1>1, <3>3, <3>4
  <2> QED
    BY <2>2, <2>3
<1>2. /\ Lease \in [Requests \X Deliveries -> Requests \cup {"free", "sealed"}]
      /\ Lease' \in [Requests \X Deliveries -> Requests \cup {"free", "sealed"}]
  BY DEF LeaseTable
<1>3. ASSUME NEW k \in Requests \X Deliveries, k # Key(r) PROVE Lease'[k] = Lease[k]
  BY <1>1, <1>3
<1> QED
  BY <1>2, <1>3

LEMMA LeaseInit == Init => Gate!Init
  BY DEF Init, Gate!Init, Lease, InFlight, FlightPoints, EmptyGate

\* Taking a key grants its lease.
LEMMA AcquireGrants ==
  ASSUME IInv, LeaseTable, LeaseTable', Timely, NEW r \in Requests, Acquire(r)
  PROVE  Gate!Grant(Key(r), r) /\ Key(r) \in Requests \X Deliveries
<1> USE TimeAssumption DEF IInv
<1>1. st[r] \in Requests /\ del[r] \in Deliveries /\ ~InFlight(r)
  BY DEF Acquire, SlotInv, At, InFlight, FlightPoints
<1>2. Lease[Key(r)] = "free"
  <2>1. gate[st[r]][del[r]] = 0
    BY DEF Acquire, IsFree
  <2>2. \A q \in Requests : InFlight(q) => Key(q) # <<st[r], del[r]>>
    <3> SUFFICES ASSUME NEW q \in Requests, InFlight(q), Key(q) = <<st[r], del[r]>>
                 PROVE  FALSE
      OBVIOUS
    <3>1. gate[st[r]][del[r]] = TTL - age[q]
      BY DEF LeaseInv, Key
    <3>2. age[q] \in Nat /\ age[q] < TTL
      BY DEF TypeOK, Timely
    <3> QED
      BY <2>1, <3>1, <3>2
  <2> QED
    BY <1>1, <2>1, <2>2 DEF LeaseTable, Key
<1>3. Lease'[Key(r)] = r
  <2>1. InFlight(r)' /\ Key(r)' = Key(r)
    BY DEF Acquire, GoTo, TypeOK, InFlight, FlightPoints, Key
  <2>2. Lease'[Key(r)'] = r
    BY <2>1 DEF LeaseTable
  <2> QED
    BY <2>1, <2>2
<1>4. \A q \in Requests \ {r} : InFlight(q)' = InFlight(q)
  BY DEF Acquire, GoTo, TypeOK, InFlight
<1>5. \A s \in Requests, d \in Deliveries :
        <<s, d>> # Key(r) => gate'[s][d] = gate[s][d]
  BY DEF Acquire, ReserveKey, TypeOK, Key
<1>6. Lease' = [Lease EXCEPT ![Key(r)] = r]
  BY <1>1, <1>3, <1>4, <1>5, OtherLeases DEF Acquire, GoTo, Key
<1> QED
  BY <1>1, <1>2, <1>6 DEF Gate!Grant, Key

\* A hand-off that ends without releasing its key seals the lease, since the
\* reservation outlives the hand-off.
LEMMA LandingSeals ==
  ASSUME IInv, LeaseTable, LeaseTable', Timely, NEW r \in Requests,
         InFlight(r), Accept(r) \/ CrashTrigger(r)
  PROVE  Gate!Seal(Key(r)) /\ Key(r) \in Requests \X Deliveries
<1> USE TimeAssumption DEF IInv
<1>1. /\ UNCHANGED <<del, st, gate>>
      /\ pc' = [pc EXCEPT ![r] = "accepted"] \/ pc' = [pc EXCEPT ![r] = "crashed"]
  BY DEF Accept, CrashTrigger, Land, server
<1>2. ~InFlight(r)' /\ \A q \in Requests \ {r} : InFlight(q)' = InFlight(q)
  BY <1>1 DEF TypeOK, InFlight, FlightPoints
<1>3. Key(r) \in Requests \X Deliveries /\ Lease[Key(r)] = r
  BY DEF LeaseTable
<1>4. Lease'[Key(r)] = "sealed"
  <2>1. gate'[st[r]][del[r]] > 0
    <3>1. gate[st[r]][del[r]] = TTL - age[r] /\ age[r] \in Nat /\ age[r] < TTL
      BY DEF LeaseInv, TypeOK, Timely
    <3> QED
      BY <1>1, <3>1
  <2>2. \A q \in Requests : InFlight(q)' => Key(q)' # <<st[r], del[r]>>
    BY <1>1, <1>2 DEF ExclusiveTrigger, Key
  <2>3. st[r] \in Requests /\ del[r] \in Deliveries
    BY <1>3 DEF Key
  <2> QED
    BY <2>1, <2>2, <2>3 DEF LeaseTable, Key
<1>5. Lease' = [Lease EXCEPT ![Key(r)] = "sealed"]
  BY <1>1, <1>2, <1>3, <1>4, OtherLeases
<1> QED
  BY <1>3, <1>5 DEF Gate!Seal

\* Every other step hands no key over: it can only free some.
LEMMA OthersReopen ==
  ASSUME IInv, [Next]_vars,
         \A r \in Requests : ~Acquire(r) /\ ~(InFlight(r) /\ (Accept(r) \/ CrashTrigger(r)))
  PROVE  /\ \A s \in Requests, d \in Deliveries : gate'[s][d] > 0 => gate[s][d] > 0
         /\ \A r \in Requests : InFlight(r)' => InFlight(r) /\ Key(r)' = Key(r)
         /\ \A r \in Requests : InFlight(r) /\ ~InFlight(r)' =>
              ~(gate'[st[r]][del[r]] > 0)
<1> USE DEF IInv, Key
<1> DEFINE Frees == \A s \in Requests, d \in Deliveries : gate'[s][d] > 0 => gate[s][d] > 0
<1> DEFINE Keeps == \A r \in Requests : InFlight(r)' => InFlight(r) /\ Key(r)' = Key(r)
<1> DEFINE Empties == \A r \in Requests : InFlight(r) /\ ~InFlight(r)' =>
                        ~(gate'[st[r]][del[r]] > 0)
<1>1. ASSUME NEW q \in Requests, gate' = gate, ~InFlight(q), ~InFlight(q)',
             \A r \in Requests \ {q} :
               pc'[r] = pc[r] /\ del'[r] = del[r] /\ st'[r] = st[r]
      PROVE  Frees /\ Keeps /\ Empties
  BY <1>1 DEF InFlight
<1>2. ASSUME NEW q \in Requests, NEW d \in Deliveries, Send(q, d)
      PROVE  Frees /\ Keeps /\ Empties
  <2>1. ~InFlight(q) /\ ~InFlight(q)'
    BY <1>2 DEF Send, At, TypeOK, InFlight, FlightPoints
  <2> QED
    BY <1>1, <1>2, <2>1 DEF Send, server, TypeOK
<1>3. ASSUME NEW q \in Requests, Receive(q) \/ AnswerLost(q)
      PROVE  Frees /\ Keeps /\ Empties
  <2>1. ~InFlight(q) /\ ~InFlight(q)'
    BY <1>3 DEF Receive, AnswerLost, Close, TypeOK, InFlight, FlightPoints, Answers, Answered2xx
  <2> QED
    BY <1>1, <1>3, <2>1 DEF Receive, AnswerLost, Close, server, TypeOK
<1>4. ASSUME NEW q \in Requests, Serve(q)
      PROVE  Frees /\ Keeps /\ Empties
  <2>1. CASE \/ LoadSettings(q) \/ PassLimiter(q) \/ ExceedLimiter(q) \/ RefuseDisabled(q)
             \/ Verify(q) \/ IgnoreUnsupported(q) \/ RefuseDuplicate(q)
    <3>1. ~InFlight(q) /\ ~InFlight(q)'
      BY <2>1 DEF LoadSettings, PassLimiter, ExceedLimiter, RefuseDisabled, Verify,
           IgnoreUnsupported, RefuseDuplicate, At, GoTo, TypeOK, InFlight, FlightPoints
    <3>2. gate' = gate
      BY <2>1 DEF LoadSettings, PassLimiter, ExceedLimiter, RefuseDisabled, Verify,
           IgnoreUnsupported, RefuseDuplicate, server
    <3>3. \A r \in Requests \ {q} : pc'[r] = pc[r] /\ del'[r] = del[r] /\ st'[r] = st[r]
      BY <2>1 DEF LoadSettings, PassLimiter, ExceedLimiter, RefuseDisabled, Verify,
           IgnoreUnsupported, RefuseDuplicate, GoTo, TypeOK
    <3> QED
      BY <1>1, <3>1, <3>2, <3>3
  <2>2. CASE FindRuntimeState(q)
    <3>1. ~InFlight(q) /\ ~InFlight(q)'
      BY <2>2 DEF FindRuntimeState, At, TypeOK, InFlight, FlightPoints
    <3> QED
      BY <1>1, <2>2, <3>1 DEF FindRuntimeState, server, TypeOK
  <2>3. CASE CreateRuntimeState(q)
    <3>1. ~InFlight(q) /\ ~InFlight(q)'
      BY <2>3 DEF CreateRuntimeState, At, TypeOK, InFlight, FlightPoints
    <3>2. gate' = gate
      BY <2>3 DEF CreateRuntimeState, StateInv, TypeOK
    <3> QED
      BY <1>1, <2>3, <3>1, <3>2 DEF CreateRuntimeState, TypeOK
  <2>4. CASE EnsureDeployment(q) \/ SubmitRun(q)
    <3>1. gate' = gate /\ st' = st /\ del' = del
      BY <2>4 DEF EnsureDeployment, SubmitRun, GoTo, server
    <3>2. \A r \in Requests : InFlight(r)' = InFlight(r)
      BY <2>4 DEF EnsureDeployment, SubmitRun, GoTo, At, TypeOK, InFlight, FlightPoints
    <3> QED
      BY <3>1, <3>2
  <2>5. CASE FailTrigger(q)
    <3>1. st[q] \in Requests /\ del[q] \in Deliveries
      BY <2>5 DEF FailTrigger, SlotInv, At, FlightPoints
    <3>2. gate' = [gate EXCEPT ![st[q]][del[q]] = 0] /\ st' = st /\ del' = del
      BY <2>5 DEF FailTrigger, ReleaseKey, Land
    <3>3. ~InFlight(q)' /\ \A r \in Requests \ {q} : InFlight(r)' = InFlight(r)
      BY <2>5 DEF FailTrigger, Land, TypeOK, InFlight, FlightPoints
    <3>4. gate'[st[q]][del[q]] = 0 /\ Frees
      BY <3>1, <3>2 DEF TypeOK
    <3>5. Keeps
      BY <3>2, <3>3
    <3>6. Empties
      BY <3>3, <3>4
    <3> QED
      BY <3>4, <3>5, <3>6
  <2>6. ~Acquire(q) /\ ~Accept(q) /\ ~CrashTrigger(q)
    BY DEF Accept, CrashTrigger, At, InFlight, FlightPoints
  <2> QED
    BY <1>4, <2>1, <2>2, <2>3, <2>4, <2>5, <2>6 DEF Serve
<1>5. CASE Tick
  <2>1. Frees
    BY <1>5 DEF Tick, TypeOK
  <2>2. Keeps /\ Empties
    BY <1>5 DEF Tick, InFlight
  <2> QED
    BY <2>1, <2>2
<1>6. CASE Restart
  <2>1. \A s \in Requests, d \in Deliveries : gate'[s][d] = 0
    BY <1>6 DEF Restart, EmptyGate
  <2>2. \A r \in Requests : ~InFlight(r)'
    BY <1>6 DEF Restart, InFlight, FlightPoints
  <2>3. \A r \in Requests : InFlight(r) => st[r] \in Requests /\ del[r] \in Deliveries
    BY DEF SlotInv, InFlight, FlightPoints
  <2> QED
    BY <2>1, <2>2, <2>3
<1>7. CASE UNCHANGED <<slots, gate>>
  BY <1>7 DEF slots, InFlight
<1> QED
  BY <1>2, <1>3, <1>4, <1>5, <1>6, <1>7 DEF Next, GrowOld, vars, server

LEMMA LeaseStep ==
  ASSUME IInv, LeaseTable, LeaseTable', Timely, [Next]_vars
  PROVE  [Gate!Next]_Lease
<1>1. ASSUME NEW r \in Requests, Acquire(r) PROVE Gate!Next
  BY <1>1, AcquireGrants DEF Gate!Next
<1>2. ASSUME NEW r \in Requests, InFlight(r), Accept(r) \/ CrashTrigger(r)
      PROVE  Gate!Next
  BY <1>2, LandingSeals DEF Gate!Next
<1>3. CASE \A r \in Requests :
             ~Acquire(r) /\ ~(InFlight(r) /\ (Accept(r) \/ CrashTrigger(r)))
  BY <1>3, OthersReopen, Reopening DEF Gate!Next
<1> QED
  BY <1>1, <1>2, <1>3

\* The run gate and the handler around it implement the lease for any number
\* of requests and deliveries and under every fault, in every behaviour in which
\* a reservation outlives its hand-off: between two holders, and between an
\* accepted run and the next holder, a key is free.
THEOREM GateImplementsLease == Spec /\ []Timely => LeasePromise
<1>1. Init => Gate!Init
  BY LeaseInit
<1>2. IInv /\ Timely /\ LeaseTable /\ LeaseTable' /\ [Next]_vars => [Gate!Next]_Lease
  BY LeaseStep
<1>3. IInv /\ Timely /\ [Next]_vars => IInv'
  BY StepInv
<1>4. IInv => LeaseTable
  BY LeaseIsTable
<1> QED
  BY InitInv, <1>1, <1>2, <1>3, <1>4, PTL DEF Spec, LeasePromise, Gate!Spec

\* Where Prefect answers, or is given up on, before a reservation expires, the
\* gate is exclusive, keeps its lease and its reservations in every behaviour.
THEOREM BoundedGateIsSafe ==
  ASSUME MaxFlight < TTL
  PROVE  Spec => []ExclusiveTrigger /\ LeasePromise /\ OnlyFailureFrees
<1>1. TypeOK => Timely
  BY DEF TypeOK, Timely
<1> QED
  BY <1>1, TypeCorrect, RunGateExcludes, GateImplementsLease, ReservationsLast, PTL
=============================================================================
