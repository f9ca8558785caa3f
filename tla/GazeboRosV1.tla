----------------------------- MODULE GazeboRosV1 -----------------------------
(***************************************************************************)
(* The Gazebo provider of the legacy run: host/src/plugins/gazebo-ros-v1.  *)
(* It starts the containers of one Compose project, and later removes the  *)
(* project when the Engine shows that everything in it belongs to the run. *)
(* The control point `host' is shared with LegacyFinalization: the host    *)
(* program runs start, the measurement, the four completion hooks, the     *)
(* cleanup and the qualification one after the other.                      *)
(***************************************************************************)
EXTENDS Naturals, FiniteSets

CONSTANTS Recorders,     \* collectorService and recorderServices
          Payloads       \* the entries of the inventory, "result" and "log" among them

\* The plan names a service for each role, and result and log are always retained.
ASSUME RolesAssumption == Recorders \cap {"simulation", "stepper", "instrument", "observer"} = {}
ASSUME PayloadsAssumption == {"result", "log"} \subseteq Payloads

VARIABLES box,           \* the containers of the project, by service
          foreign,       \* a container with the project's label and another run's
          acquired,      \* this.acquired
          simId,         \* this.simulationContainerId is bound
          startupReady,  \* this.startupReady
          outcome,       \* what the tracked resource reports: released, cleanupError
          source,        \* the payloads in the run's volume
          host           \* where the host program is, and what it holds

providerVars == <<acquired, simId, startupReady, outcome>>

Services == {"simulation", "stepper", "instrument", "observer"} \cup Recorders
BoxState == {"none", "running", "exit0", "exit1", "broken"}

\* A service shares the network namespace of the simulation (network_mode service:simulation).
Children == Services \ {"simulation"}

Gone == 0                \* no such file
NoDoc == [p \in Payloads |-> Gone]

Running(s) == box[s] = "running"

Goto(l) == host' = [host EXCEPT !.pc = l]

\* A hook that throws: RunOwner keeps the run and remembers the error.
Retained == [host EXCEPT !.pc = "retained", !.failed = TRUE, !.todo = {}, !.inv = NoDoc,
                         !.seen = NoDoc, !.late = FALSE]
Throws == host' = Retained

\* compose up of the services S: any of them may come up, and the job succeeds only if all did.
Up(S, next) ==
    \E T \in SUBSET S :
        /\ box' = [s \in Services |-> IF s \in T THEN "running" ELSE box[s]]
        /\ \/ T = S /\ Goto(next)
           \/ Throws

------------------------------------------------------------------------------
\* start(): the version and the Engine are looked at before anything is acquired.
Connect ==
    /\ host.pc = "start"
    /\ \/ Throws /\ UNCHANGED acquired
       \/ acquired' = TRUE /\ Goto("up")
    /\ UNCHANGED <<box, foreign, simId, startupReady, outcome, source>>

ApplicationStart ==
    /\ host.pc = "up"
    /\ Up({"simulation"}, "bind")
    /\ UNCHANGED <<foreign, providerVars, source>>

\* The exact container is bound only after its metadata is complete.
BindSimulation ==
    /\ host.pc = "bind"
    /\ \/ box["simulation"] # "none" /\ simId' = TRUE /\ Goto("prepare")
       \/ Throws /\ UNCHANGED simId
    /\ UNCHANGED <<box, foreign, acquired, startupReady, outcome, source>>

\* The entity, its canonical links and the jobs before the clock: each is an exec in the simulation.
Prepare ==
    /\ host.pc = "prepare"
    /\ \/ Running("simulation") /\ Goto("clock")
       \/ Throws
    /\ UNCHANGED <<box, foreign, providerVars, source>>

ClockOwner ==
    /\ host.pc = "clock"
    /\ Up({"stepper"}, "stepper")
    /\ UNCHANGED <<foreign, providerVars, source>>

\* The stepper is inspected before the clock and the robot are observed, and again after it.
StepperRuns ==
    /\ host.pc = "stepper"
    /\ \/ Running("stepper") /\ Goto("readiness")
       \/ Throws
    /\ UNCHANGED <<box, foreign, providerVars, source>>

ClockOwnership ==
    /\ host.pc = "readiness"
    /\ \/ Running("simulation") /\ Goto("again")
       \/ Throws
    /\ UNCHANGED <<box, foreign, providerVars, source>>

StepperRunsStill ==
    /\ host.pc = "again"
    /\ \/ Running("stepper") /\ startupReady' = TRUE /\ Goto("begin")
       \/ Throws /\ UNCHANGED startupReady
    /\ UNCHANGED <<box, foreign, acquired, simId, outcome, source>>

Start == \/ Connect \/ ApplicationStart \/ BindSimulation \/ Prepare
         \/ ClockOwner \/ StepperRuns \/ ClockOwnership \/ StepperRunsStill

------------------------------------------------------------------------------
\* The tracked cleanup.  A failure of it is kept as the cleanupError of the outcome.
CleanupThrows == /\ outcome' = [outcome EXCEPT !.error = TRUE]
                 /\ Goto("verify")

\* bindPartialStartupParent: a simulation of an interrupted start is bound from its metadata.
BindParent ==
    /\ host.pc = "cleanup"
    /\ \/ /\ ~acquired
          /\ Goto("verify")
          /\ UNCHANGED <<simId, outcome>>
       \/ /\ acquired /\ (simId \/ box["simulation"] = "none")
          /\ Goto("owned")
          /\ UNCHANGED <<simId, outcome>>
       \/ /\ acquired /\ ~simId /\ box["simulation"] # "none"
          /\ simId' = TRUE
          /\ Goto("owned")
          /\ UNCHANGED outcome
       \/ acquired /\ CleanupThrows /\ UNCHANGED simId
    /\ UNCHANGED <<box, foreign, acquired, startupReady, source>>

\* Mutant: a container with the project's label counts as the run's.
OwnershipByLabel == (\E s \in Children : box[s] # "none") => simId /\ box["simulation"] # "none"

\* projectOwnership: complete when every labelled resource is this run's and every
\* container in another's namespace is in that of the bound simulation.
OwnershipComplete ==
    /\ foreign = "none"
    /\ (\E s \in Children : box[s] # "none") => simId /\ box["simulation"] # "none"

ObserveOwnership ==
    /\ host.pc = "owned"
    /\ \/ OwnershipComplete /\ Goto("down") /\ UNCHANGED outcome
       \/ CleanupThrows
    /\ UNCHANGED <<box, foreign, acquired, simId, startupReady, source>>

\* compose down --volumes --remove-orphans takes everything with the project's label.
Down ==
    /\ host.pc = "down"
    /\ \/ /\ box' = [s \in Services |-> "none"]
          /\ foreign' = "none"
          /\ source' = NoDoc
          /\ Goto("verify")
          /\ UNCHANGED outcome
       \/ /\ \E S \in {{}, {"simulation"}, Services} : box' = [s \in Services |-> IF s \in S THEN "none" ELSE box[s]]
          /\ foreign' \in {foreign, "none"}
          /\ source' \in {source, NoDoc}
          /\ CleanupThrows
    /\ UNCHANGED <<acquired, simId, startupReady>>

\* verifyCleanup, whatever became of the cleanup: nothing of the project or the run is left.
Remains == foreign # "none" \/ \E s \in Services : box[s] # "none"

VerifyCleanup ==
    /\ host.pc = "verify"
    /\ \E seen \in {~Remains, FALSE} :      \* FALSE: the Engine could not be read
           outcome' = [outcome EXCEPT !.released = seen]
    /\ Goto("completed")
    /\ UNCHANGED <<box, foreign, acquired, simId, startupReady, source>>

Cleanup == BindParent \/ ObserveOwnership \/ Down \/ VerifyCleanup

------------------------------------------------------------------------------
\* The Engine: a container ends on its own, another program uses the project's label.  Both
\* happen at any time; they are taken where the host looks at the container, or at the label,
\* afterwards.
LookedAt(s) ==
    CASE s = "simulation" -> {"prepare", "readiness", "begin", "look", "source", "marker", "last"}
      [] s = "stepper"    -> {"stepper", "readiness", "again"}
      [] s \in Recorders  -> {"drain"}

Ends(s) ==
    /\ Running(s) /\ host.pc \in LookedAt(s)
    /\ box' = [box EXCEPT ![s] = "broken"]
    /\ UNCHANGED <<foreign, providerVars, source, host>>

ForeignAppears ==
    /\ foreign = "none" /\ host.pc \in {"cleanup", "owned", "down", "verify"}
    /\ foreign' = IF host.pc = "down" THEN "late" ELSE "there"
    /\ UNCHANGED <<box, providerVars, source, host>>

==============================================================================
