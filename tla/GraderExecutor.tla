--------------------------- MODULE GraderExecutor ---------------------------
(***************************************************************************)
(* GraderExecutor.execute: several runs on one Docker daemon (external),   *)
(* each pulling the grader image if it is missing, starting a container,   *)
(* waiting for it with a timeout, reading its logs and removing it.        *)
(*                                                                         *)
(* Every call to Docker may fail in two ways: with a DockerException, which*)
(* execute turns into exit code 1, or with an exception of the HTTP client *)
(* underneath, which leaves execute unless the wait expects it.  In both   *)
(* cases the finally clause runs.                                          *)
(***************************************************************************)
EXTENDS Naturals

CONSTANTS
  Runs,     \* executions in flight on the daemon
  Faults    \* which of AllFaults a daemon may show

\* start: a container is created and its start fails, or its answer is lost.
\* remove: removing the container fails.
\* crash: the worker process dies.
AllFaults == {"start", "remove", "crash"}

ASSUME FaultsAssumption == Faults \subseteq AllFaults

VARIABLES
  faults,     \* the faults this daemon shows, the same throughout
  image,      \* daemon: is the grader image there
  box,        \* daemon: run -> its container
  status,     \* daemon: run -> exit status of the grader program
  pc,         \* run -> where it is
  handle,     \* run -> is the local variable container set
  exitCode,   \* run -> exit_code of the result, or NoCode
  timedOut    \* run -> timed_out of the result

daemon == <<faults, image, box, status>>
result == <<exitCode, timedOut>>
vars == <<daemon, pc, handle, result>>

\* The program ends with 0 or with a failure status of its own.
Statuses == {0, 1, 3}
NoCode == 999
ExitCodes == Statuses \cup {124, NoCode}

Working == {"inspect", "pull", "run", "wait", "stop", "logs"}
Ended == {"returned", "raised"}

TypeOK ==
  /\ faults \subseteq Faults
  /\ image \in BOOLEAN
  /\ box \in [Runs -> {"none", "created", "running", "exited", "killed", "removed"}]
  /\ status \in [Runs -> ExitCodes]
  /\ pc \in [Runs -> {"idle"} \cup Working \cup {"return", "raise"} \cup Ended \cup {"dead"}]
  /\ handle \in [Runs -> BOOLEAN]
  /\ exitCode \in [Runs -> ExitCodes]
  /\ timedOut \in [Runs -> BOOLEAN]

Init ==
  /\ faults \in SUBSET Faults
  /\ image \in BOOLEAN
  /\ box = [r \in Runs |-> "none"]
  /\ status = [r \in Runs |-> NoCode]
  /\ pc = [r \in Runs |-> "idle"]
  /\ handle = [r \in Runs |-> FALSE]
  /\ exitCode = [r \in Runs |-> NoCode]
  /\ timedOut = [r \in Runs |-> FALSE]

At(r, point) == pc[r] = point
GoTo(r, point) == pc' = [pc EXCEPT ![r] = point]
SetBox(r, state) == box' = [box EXCEPT ![r] = state]
Up(r) == box[r] = "running"

Result(r, code, late) ==
  /\ exitCode' = [exitCode EXCEPT ![r] = code]
  /\ timedOut' = [timedOut EXCEPT ![r] = late]

------------------------------------------------------------------------------
(* The daemon and the grader program, external *)

\* The program ends by itself; one that loops never does.
GraderExits(r) ==
  /\ Up(r)
  /\ \E s \in Statuses : status' = [status EXCEPT ![r] = s]
  /\ SetBox(r, "exited")
  /\ UNCHANGED <<faults, image, pc, handle, result>>

\* Someone cleans the daemon's images up.
PruneImage ==
  /\ image /\ image' = FALSE
  /\ UNCHANGED <<faults, box, status, pc, handle, result>>

------------------------------------------------------------------------------
(* execute *)

Begin(r) ==
  /\ At(r, "idle")
  /\ GoTo(r, "inspect")
  /\ UNCHANGED <<daemon, handle, result>>

InspectImage(r) ==
  /\ At(r, "inspect")
  /\ GoTo(r, IF image THEN "run" ELSE "pull")
  /\ UNCHANGED <<daemon, handle, result>>

PullImage(r) ==
  /\ At(r, "pull")
  /\ image' = TRUE
  /\ GoTo(r, "run")
  /\ UNCHANGED <<faults, box, status, handle, result>>

\* containers.run(detach=True): create, pulling an image that has gone since
\* it was inspected, then start.
RunContainer(r) ==
  /\ At(r, "run")
  /\ image' = TRUE
  /\ SetBox(r, "running")
  /\ handle' = [handle EXCEPT ![r] = TRUE]
  /\ GoTo(r, "wait")
  /\ UNCHANGED <<faults, status, result>>

\* ... raising before it returned the container it had created, or had started
\* even, when only the answer was lost.
StartFails(r) ==
  /\ "start" \in faults
  /\ At(r, "run")
  /\ image' = TRUE
  /\ SetBox(r, "created") \/ SetBox(r, "running")
  /\ \/ Result(r, 1, FALSE) /\ GoTo(r, "return")
     \/ UNCHANGED result /\ GoTo(r, "raise")
  /\ UNCHANGED <<faults, status, handle>>

WaitEnds(r) ==
  /\ At(r, "wait") /\ box[r] = "exited"
  /\ Result(r, status[r], FALSE)
  /\ GoTo(r, "logs")
  /\ UNCHANGED <<daemon, handle>>

\* Mutant: the wait is given no timeout, it only comes back with the container.
WaitTimesOut_Never(r) ==
  /\ At(r, "wait") /\ ~Up(r)
  /\ GoTo(r, "stop")
  /\ UNCHANGED <<daemon, handle, result>>

\* The timeout passed, or the connection broke, which is taken for it.
WaitTimesOut(r) ==
  /\ At(r, "wait")
  /\ GoTo(r, "stop")
  /\ UNCHANGED <<daemon, handle, result>>

\* Mutant: the result carries the status of the signal that stopped it.
StopContainer_Signal(r) ==
  /\ At(r, "stop")
  /\ SetBox(r, IF Up(r) THEN "killed" ELSE box[r])
  /\ Result(r, 137, TRUE)
  /\ GoTo(r, "logs")
  /\ UNCHANGED <<faults, image, status, handle>>

\* stop(timeout=2); the program may have ended by itself meanwhile.
StopContainer(r) ==
  /\ At(r, "stop")
  /\ SetBox(r, IF Up(r) THEN "killed" ELSE box[r])
  /\ Result(r, 124, TRUE)
  /\ GoTo(r, "logs")
  /\ UNCHANGED <<faults, image, status, handle>>

ReadLogs(r) ==
  /\ At(r, "logs")
  /\ GoTo(r, "return")
  /\ UNCHANGED <<daemon, handle, result>>

\* Mutant: the exit code is initialised before the calls, and a Docker error
\* reports the initial one.
DockerFails_DefaultZero(r) ==
  /\ pc[r] \in Working
  /\ Result(r, 0, FALSE)
  /\ GoTo(r, "return")
  /\ UNCHANGED <<daemon, handle>>

\* A call raises a DockerException: the result says exit code 1.
DockerFails(r) ==
  /\ pc[r] \in Working
  /\ Result(r, 1, FALSE)
  /\ GoTo(r, "return")
  /\ UNCHANGED <<daemon, handle>>

\* A call raises anything else; the wait expects such a timeout or broken
\* connection and no other call does.
ClientFails(r) ==
  /\ pc[r] \in Working
  /\ GoTo(r, "raise")
  /\ UNCHANGED <<daemon, handle, result>>

\* Mutant: the container is removed on the way to a result only.
Remove_OnReturn(r) ==
  IF handle[r] /\ At(r, "return") THEN SetBox(r, "removed") ELSE UNCHANGED box

\* The finally clause: remove(force=True), which stops it first.
Remove(r) == IF handle[r] THEN SetBox(r, "removed") ELSE UNCHANGED box

Leave(r) == GoTo(r, IF At(r, "return") THEN "returned" ELSE "raised")

Finish(r) ==
  /\ pc[r] \in {"return", "raise"}
  /\ Remove(r)
  /\ Leave(r)
  /\ UNCHANGED <<faults, image, status, handle, result>>

\* remove fails: a DockerException is suppressed, any other one replaces
\* whatever was on its way.
RemoveFails(r) ==
  /\ "remove" \in faults
  /\ pc[r] \in {"return", "raise"} /\ handle[r]
  /\ Leave(r) \/ GoTo(r, "raised")
  /\ UNCHANGED <<daemon, handle, result>>

Crash(r) ==
  /\ "crash" \in faults
  /\ pc[r] \in Working \cup {"return", "raise"}
  /\ GoTo(r, "dead")
  /\ UNCHANGED <<daemon, handle, result>>

Execute(r) ==
  \/ InspectImage(r) \/ PullImage(r) \/ RunContainer(r)
  \/ WaitEnds(r) \/ WaitTimesOut(r) \/ StopContainer(r) \/ ReadLogs(r) \/ Finish(r)

Fail(r) ==
  \/ StartFails(r) \/ DockerFails(r) \/ ClientFails(r) \/ RemoveFails(r) \/ Crash(r)

Next ==
  \/ \E r \in Runs : Begin(r) \/ Execute(r) \/ Fail(r) \/ GraderExits(r)
  \/ PruneImage

Spec == Init /\ [][Next]_vars

\* The worker's thread runs, Docker answers, and the wait's timeout passes; the
\* grader program is not assumed to end, nor any call to fail.
FairSpec == Spec /\ \A r \in Runs : WF_vars(Execute(r))

------------------------------------------------------------------------------
(* Properties *)

\* "removed after execution": however execute ended, its container is gone.
RemovedAfterExecution ==
  \A r \in Runs : pc[r] \in Ended => box[r] \in {"none", "removed"}

\* A daemon that starts what it creates and removes what it is told to.
Obedient == faults \cap {"start", "remove"} = {}

\* ... which such a daemon keeps for every other failure: whichever call of
\* Docker raised whatever, in whatever order with the timeout and the end of the
\* grader program.
NoContainerLeft == Obedient => RemovedAfterExecution

\* A result with exit code 0, or any status but 1 and 124, is the status the
\* grader program itself ended with: a timeout or a Docker error at any point,
\* even after the program ended, never passes for such a verdict.  (1 and 124
\* also stand for a Docker error and a timeout.)
VerdictIsTheGraders ==
  \A r \in Runs : At(r, "returned") /\ exitCode[r] \in Statuses \ {1}
    => status[r] = exitCode[r] /\ ~timedOut[r]

\* Why it holds.  A container this run has no handle for was never there, unless
\* a start failed: the handle is set in the step that starts it.
HandleInv ==
  Obedient => \A r \in Runs :
    /\ ~handle[r] => box[r] = "none"
    /\ pc[r] \in Ended => box[r] \in {"none", "removed"}

\* Nothing is known of the exit code before the wait; a code that can only be the
\* program's was read when its container had exited, which it cannot do again.
VerdictInv ==
  \A r \in Runs :
    /\ pc[r] \in {"idle", "inspect", "pull", "run", "wait", "stop"} => exitCode[r] = NoCode
    /\ exitCode[r] \in Statuses \ {1} =>
         status[r] = exitCode[r] /\ ~timedOut[r] /\ box[r] \in {"exited", "removed"}

IInv == TypeOK /\ HandleInv /\ VerdictInv

\* execute comes back even when the grader program never ends, unless its own
\* process dies.
ExecuteEnds == \A r \in Runs : At(r, "inspect") ~> pc[r] \in Ended \cup {"dead"}
=============================================================================
