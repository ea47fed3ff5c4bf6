------------------------ MODULE GraderExecutor_proofs ------------------------
(***************************************************************************)
(* Proofs about GraderExecutor, for any number of executions on a daemon:  *)
(* its type invariant, that no container is left, and that a verdict is    *)
(* the grader program's own.                                               *)
(***************************************************************************)
EXTENDS GraderExecutor, TLAPS

USE FaultsAssumption

\* What the steps are made of.
USE DEF Statuses, NoCode, ExitCodes, Working, Ended, daemon, result,
        At, GoTo, SetBox, Up, Result, Leave, Remove

LEMMA InitInv == Init => IInv
  BY DEF Init, IInv, TypeOK, HandleInv, VerdictInv

LEMMA StepType == TypeOK /\ [Next]_vars => TypeOK'
<1> SUFFICES ASSUME TypeOK, [Next]_vars PROVE TypeOK'
  OBVIOUS
<1> USE DEF TypeOK
<1>1. ASSUME NEW r \in Runs, Begin(r) \/ GraderExits(r) PROVE TypeOK'
  BY <1>1 DEF Begin, GraderExits
<1>2. ASSUME NEW r \in Runs, Execute(r) PROVE TypeOK'
  <2>1. CASE InspectImage(r)
    BY <2>1 DEF InspectImage
  <2>2. CASE PullImage(r)
    BY <2>2 DEF PullImage
  <2>3. CASE RunContainer(r)
    BY <2>3 DEF RunContainer
  <2>4. CASE WaitEnds(r)
    BY <2>4 DEF WaitEnds
  <2>5. CASE WaitTimesOut(r) \/ ReadLogs(r)
    BY <2>5 DEF WaitTimesOut, ReadLogs
  <2>6. CASE StopContainer(r)
    BY <2>6 DEF StopContainer
  <2>7. CASE Finish(r)
    BY <2>7 DEF Finish
  <2> QED
    BY <1>2, <2>1, <2>2, <2>3, <2>4, <2>5, <2>6, <2>7 DEF Execute
<1>3. ASSUME NEW r \in Runs, Fail(r) PROVE TypeOK'
  <2>1. CASE StartFails(r)
    <3>1. box' \in [Runs -> {"none", "created", "running", "exited", "killed", "removed"}]
      BY <2>1 DEF StartFails
    <3>2. \/ exitCode' = exitCode /\ timedOut' = timedOut
          \/ Result(r, 1, FALSE)
      BY <2>1 DEF StartFails
    <3>3. exitCode' \in [Runs -> ExitCodes] /\ timedOut' \in [Runs -> BOOLEAN]
      <4>1. CASE exitCode' = exitCode /\ timedOut' = timedOut
        BY <4>1
      <4>2. CASE Result(r, 1, FALSE)
        BY <4>2
      <4> QED
        BY <3>2, <4>1, <4>2
    <3>4. GoTo(r, "return") \/ GoTo(r, "raise")
      BY <2>1 DEF StartFails
    <3>5. image' = TRUE /\ UNCHANGED <<faults, status, handle>>
      BY <2>1 DEF StartFails
    <3> QED
      BY <3>1, <3>3, <3>4, <3>5
  <2>2. CASE DockerFails(r)
    BY <2>2 DEF DockerFails
  <2>3. CASE ClientFails(r) \/ RemoveFails(r) \/ Crash(r)
    BY <2>3 DEF ClientFails, RemoveFails, Crash
  <2> QED
    BY <1>3, <2>1, <2>2, <2>3 DEF Fail
<1>4. CASE PruneImage
  BY <1>4 DEF PruneImage
<1>5. CASE UNCHANGED vars
  BY <1>5 DEF vars
<1> QED
  BY <1>1, <1>2, <1>3, <1>4, <1>5 DEF Next

\* A daemon keeps the faults it has.
LEMMA FaultsStay == [Next]_vars => faults' = faults
  BY DEF Next, Execute, Fail, Begin, GraderExits, InspectImage, PullImage,
         RunContainer, WaitEnds, WaitTimesOut, StopContainer, ReadLogs, Finish,
         StartFails, DockerFails, ClientFails, RemoveFails, Crash, PruneImage, vars

\* A container without a handle is no container.
LEMMA StepHandle == TypeOK /\ HandleInv /\ [Next]_vars => HandleInv'
<1> SUFFICES ASSUME TypeOK, HandleInv, [Next]_vars,
                    Obedient
             PROVE  HandleInv'
  BY FaultsStay DEF HandleInv, Obedient
<1> USE DEF TypeOK, HandleInv
<1>1. ASSUME NEW r \in Runs, Begin(r) \/ GraderExits(r) PROVE HandleInv'
  BY <1>1 DEF Begin, GraderExits
<1>2. ASSUME NEW r \in Runs, Execute(r) PROVE HandleInv'
  <2>1. CASE InspectImage(r) \/ PullImage(r) \/ RunContainer(r)
    BY <2>1 DEF InspectImage, PullImage, RunContainer
  <2>2. CASE WaitEnds(r) \/ WaitTimesOut(r) \/ ReadLogs(r)
    BY <2>2 DEF WaitEnds, WaitTimesOut, ReadLogs
  <2>3. CASE StopContainer(r)
    BY <2>3 DEF StopContainer
  <2>4. CASE Finish(r)
    BY <2>4 DEF Finish
  <2> QED
    BY <1>2, <2>1, <2>2, <2>3, <2>4 DEF Execute
<1>3. ASSUME NEW r \in Runs, Fail(r) PROVE HandleInv'
  <2>1. ~StartFails(r) /\ ~RemoveFails(r)
    BY DEF StartFails, RemoveFails, Obedient
  <2> QED
    BY <1>3, <2>1 DEF Fail, DockerFails, ClientFails, Crash
<1>4. CASE PruneImage
  BY <1>4 DEF PruneImage
<1>5. CASE UNCHANGED vars
  BY <1>5 DEF vars
<1> QED
  BY <1>1, <1>2, <1>3, <1>4, <1>5 DEF Next

\* A verdict that has been read stays what the program said.
LEMMA StepVerdict == TypeOK /\ VerdictInv /\ [Next]_vars => VerdictInv'
<1> SUFFICES ASSUME TypeOK, VerdictInv, [Next]_vars PROVE VerdictInv'
  OBVIOUS
<1> USE DEF TypeOK, VerdictInv
<1>1. ASSUME NEW r \in Runs, Begin(r) \/ GraderExits(r) PROVE VerdictInv'
  BY <1>1 DEF Begin, GraderExits
<1>2. ASSUME NEW r \in Runs, Execute(r) PROVE VerdictInv'
  <2>1. CASE InspectImage(r) \/ PullImage(r) \/ RunContainer(r)
    BY <2>1 DEF InspectImage, PullImage, RunContainer
  <2>2. CASE WaitEnds(r) \/ WaitTimesOut(r) \/ ReadLogs(r)
    BY <2>2 DEF WaitEnds, WaitTimesOut, ReadLogs
  <2>3. CASE StopContainer(r)
    BY <2>3 DEF StopContainer
  <2>4. CASE Finish(r)
    BY <2>4 DEF Finish
  <2> QED
    BY <1>2, <2>1, <2>2, <2>3, <2>4 DEF Execute
<1>3. ASSUME NEW r \in Runs, Fail(r) PROVE VerdictInv'
  BY <1>3 DEF Fail, StartFails, DockerFails, ClientFails, RemoveFails, Crash
<1>4. CASE PruneImage
  BY <1>4 DEF PruneImage
<1>5. CASE UNCHANGED vars
  BY <1>5 DEF vars
<1> QED
  BY <1>1, <1>2, <1>3, <1>4, <1>5 DEF Next

LEMMA Invariance == Spec => []IInv
<1>1. IInv /\ [Next]_vars => IInv'
  BY StepType, StepHandle, StepVerdict DEF IInv
<1> QED
  BY InitInv, <1>1, PTL DEF Spec

\* Every variable keeps its type, whatever fails.
THEOREM TypeCorrect == Spec => []TypeOK
<1>1. IInv => TypeOK
  BY DEF IInv
<1> QED
  BY <1>1, Invariance, PTL

\* On a daemon that starts and removes what it is told to, execute leaves no
\* container behind: any number of executions, any call failing at any point.
THEOREM ContainersAreRemoved == Spec => []NoContainerLeft
<1>1. IInv => NoContainerLeft
  BY DEF IInv, HandleInv, NoContainerLeft, RemovedAfterExecution
<1> QED
  BY <1>1, Invariance, PTL

\* An exit code that only the grader program can have is the one it ended with,
\* and no timeout is reported with it.
THEOREM VerdictsAreTheGraders == Spec => []VerdictIsTheGraders
<1>1. IInv => VerdictIsTheGraders
  BY DEF IInv, VerdictInv, VerdictIsTheGraders
<1> QED
  BY <1>1, Invariance, PTL
=============================================================================
