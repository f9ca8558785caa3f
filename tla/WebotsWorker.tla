---------------------------- MODULE WebotsWorker ----------------------------
(***************************************************************************)
(* The finite Webots worker and the host that uses it.                     *)
(*                                                                         *)
(* In the container, the launcher (workers/webots/launcher.py) owns three  *)
(* process groups, Xvfb, Webots and the controller, and the controller     *)
(* (workers/webots/native_controller.py) is the only one that steps the    *)
(* world.  They share an output directory with the host's provider         *)
(* (host/src/plugins/webots-provider/index.ts) and with the operations     *)
(* measure and cancel, which put markers there; every document appears     *)
(* atomically (write_json).                                                *)
(*                                                                         *)
(* A group outlives its root: Webots and the controller are started by     *)
(* wrappers, and the process that steps the world is a child.  What is     *)
(* measured is left out, except for how many steps were taken.             *)
(***************************************************************************)
EXTENDS Naturals

CONSTANTS
  Steps,    \* --steps
  None

Statuses == {"completed", "canceled", "error"}

ASSUME StepsAssumption == Steps \in Nat \ {0} /\ None \notin Statuses

Groups == {"xvfb", "webots", "controller"}

\* The order in which they are started.
Order == [xvfb |-> 1, webots |-> 2, controller |-> 3]

VARIABLES
  launcher,   \* where the launcher is, and its result so far
  group,      \* group[g]: not started, with its root, without it, or gone
  control,    \* the controller: where it is, its steps, its report's status
  stopping,   \* stopping[q]: the flag that a signal sets, of launcher and controller
  expired,    \* the deadline of launcher and controller has passed
  quit,       \* Webots was asked to quit
  ready, measure, cancel, measurement,   \* the files of these names are there
  native,     \* controller-result.json: its status
  result,     \* worker-result.json
  host,       \* where the provider's call is
  \* history
  forestalled,  \* there was a cancel marker before there was a measure marker
  faulty        \* a process has died by itself

fileVars == <<ready, measure, cancel, measurement, native, result>>
vars == <<launcher, group, control, stopping, expired, quit, ready, measure, cancel,
          measurement, native, result, host, forestalled, faulty>>

\* The root runs; some process of the group runs.
RootRuns(g) == group[g] = "running"
GroupExists(g) == group[g] \in {"running", "orphans"}

Controls == control.pc \notin {"off", "dead"}

PutCancel ==
  /\ cancel' = TRUE
  /\ forestalled' = (forestalled \/ ~measure)

-----------------------------------------------------------------------------
(* The launcher. *)

At(pc) == launcher.pc = pc
Goto(pc) == launcher' = [launcher EXCEPT !.pc = pc]

\* spawn: each child gets a session, and so a group, of its own.
SpawnDisplay ==
  /\ At("display") /\ Goto("await")
  /\ group' = [group EXCEPT !["xvfb"] = "running"]
  /\ UNCHANGED <<control, stopping, expired, quit, fileVars, host, forestalled, faulty>>

SpawnWebots ==
  /\ At("await") /\ Goto("webots")
  /\ group' = [group EXCEPT !["webots"] = "running"]
  /\ UNCHANGED <<control, stopping, expired, quit, fileVars, host, forestalled, faulty>>

SpawnController ==
  /\ At("webots") /\ Goto("loop")
  /\ group' = [group EXCEPT !["controller"] = "running"]
  /\ control' = [control EXCEPT !.pc = "boot"]
  /\ UNCHANGED <<stopping, expired, quit, fileVars, host, forestalled, faulty>>

\* The children that were started.
Started == {g \in Groups : group[g] # "none"}

\* The except branch: the controller's report is taken if it is there.
Fails(status) ==
  launcher' = [launcher EXCEPT !.pc = "reap", !.status = status,
                               !.exported = @ \/ native # None, !.left = Started]

\* Xvfb does not come up, glxinfo or a copy fails, or a spawn does.
StartupFails ==
  /\ launcher.pc \in {"display", "await", "webots"}
  /\ Fails("error")
  /\ UNCHANGED <<group, control, stopping, expired, quit, fileVars, host, forestalled,
                 faulty>>

\* Mutant: the deadline is left to the controller.
CancelOnSignal ==
  /\ At("loop") /\ RootRuns("controller")
  /\ stopping["launcher"]
  /\ PutCancel
  /\ stopping' = [stopping EXCEPT !["controller"] = TRUE]
  /\ Goto("grace")
  /\ UNCHANGED <<group, control, expired, quit, ready, measure, measurement, native,
                 result, host, faulty>>

\* while controller.poll() is None: a signal or the deadline.
CancelController ==
  /\ At("loop") /\ RootRuns("controller")
  /\ stopping["launcher"] \/ expired
  /\ PutCancel
  /\ stopping' = [stopping EXCEPT !["controller"] = TRUE]
  /\ Goto("grace")
  /\ UNCHANGED <<group, control, expired, quit, ready, measure, measurement, native,
                 result, host, faulty>>

\* The controller's root has ended, or the second that it is given has passed.
GraceOver ==
  /\ At("grace")
  /\ Fails("canceled")
  /\ UNCHANGED <<group, control, stopping, expired, quit, fileVars, host, forestalled,
                 faulty>>

WebotsEndedFirst ==
  /\ At("loop") /\ RootRuns("controller")
  /\ ~stopping["launcher"] /\ ~expired
  /\ ~RootRuns("webots")
  /\ Fails("error")
  /\ UNCHANGED <<group, control, stopping, expired, quit, fileVars, host, forestalled,
                 faulty>>

\* The controller has ended; no report is an error.  Webots gets two seconds.
ReadReport ==
  /\ At("loop") /\ ~RootRuns("controller")
  /\ Fails(IF native = None THEN "error" ELSE native)
  /\ UNCHANGED <<group, control, stopping, expired, quit, fileVars, host, forestalled,
                 faulty>>

\* A group that is killed; the controller may be in it.
KillGroup(g) ==
  /\ group' = [group EXCEPT ![g] = "gone"]
  /\ control' = IF g = "controller" /\ Controls THEN [control EXCEPT !.pc = "dead"]
                                                ELSE control

\* The children are reaped latest first.
IsNext(g) == g \in launcher.left /\ \A h \in launcher.left : Order[h] <= Order[g]

\* One is done with, and the launcher goes on to the next.
Reaped(g) == launcher' = [launcher EXCEPT !.pc = "reap", !.left = @ \ {g}]

\* Mutant: a group whose root has ended is passed over.
SignalRoot ==
  /\ At("reap")
  /\ \E g \in Groups :
       /\ IsNext(g)
       /\ IF RootRuns(g)
            THEN /\ Goto("term")
                 /\ stopping' = IF g = "controller"
                                  THEN [stopping EXCEPT !["controller"] = TRUE]
                                  ELSE stopping
            ELSE Reaped(g) /\ UNCHANGED stopping
  /\ UNCHANGED <<group, control, expired, quit, fileVars, host, forestalled, faulty>>

\* reap: SIGTERM to the group, whether or not its root has ended.
SignalGroup ==
  /\ At("reap")
  /\ \E g \in Groups :
       /\ IsNext(g)
       /\ IF GroupExists(g)
            THEN /\ Goto("term")
                 /\ stopping' = IF g = "controller"
                                  THEN [stopping EXCEPT !["controller"] = TRUE]
                                  ELSE stopping
            ELSE Reaped(g) /\ UNCHANGED stopping
  /\ UNCHANGED <<group, control, expired, quit, fileVars, host, forestalled, faulty>>

\* Two seconds later, SIGKILL to what is left; it may fail to end it in time.
KillRemaining ==
  /\ At("term")
  /\ \E g \in Groups :
       /\ IsNext(g)
       /\ \/ ~GroupExists(g) /\ Reaped(g) /\ UNCHANGED <<group, control>>
          \/ GroupExists(g) /\ Reaped(g) /\ KillGroup(g)
          \/ /\ GroupExists(g)
             /\ launcher' = [launcher EXCEPT !.pc = "reap", !.left = @ \ {g},
                                             !.reaped = FALSE]
             /\ UNCHANGED <<group, control>>
  /\ UNCHANGED <<stopping, expired, quit, fileVars, host, forestalled, faulty>>

\* worker-result.json.  The launcher's exit ends the container; what was left in
\* it ends as a group does.
PublishResult ==
  /\ At("reap") /\ launcher.left = {}
  /\ result' = [status |-> IF launcher.reaped THEN launcher.status ELSE "error",
                exported |-> launcher.exported, reaped |-> launcher.reaped]
  /\ Goto("over")
  /\ UNCHANGED <<group, control, stopping, expired, quit, ready, measure, cancel,
                 measurement, native, host, forestalled, faulty>>

-----------------------------------------------------------------------------
(* The controller. *)

ControlAt(pc) == control.pc = pc
Report(status) == control' = [control EXCEPT !.pc = "report", !.status = status]

ControlUnchanged ==
  UNCHANGED <<launcher, group, stopping, expired, quit, host, forestalled, faulty>>

\* The native world is what it should be; nothing was stepped.
PublishReady ==
  /\ ControlAt("boot")
  /\ ready' = TRUE
  /\ control' = [control EXCEPT !.pc = "wait"]
  /\ UNCHANGED <<measure, cancel, measurement, native, result>>
  /\ ControlUnchanged

\* The wait looks for measure, then for a cancel, then at the clock.
AwaitMeasure ==
  /\ ControlAt("wait")
  /\ control' = [control EXCEPT !.pc = IF measure THEN "step" ELSE "look"]
  /\ UNCHANGED fileVars /\ ControlUnchanged

LookForCancel ==
  /\ ControlAt("look")
  /\ IF stopping["controller"] \/ cancel THEN Report("canceled")
     ELSE IF expired THEN Report("error")
     ELSE control' = [control EXCEPT !.pc = "wait"]
  /\ UNCHANGED fileVars /\ ControlUnchanged

\* Mutant: the markers were looked at before the measurement was opened.
StepUnchecked ==
  /\ ControlAt("step") /\ control.steps < Steps
  /\ IF ~GroupExists("webots") THEN Report("canceled")
     ELSE control' = [control EXCEPT !.steps = @ + 1]
  /\ UNCHANGED fileVars /\ ControlUnchanged

\* One step, after a look for a cancel and at the clock.
Step ==
  /\ ControlAt("step") /\ control.steps < Steps
  /\ IF stopping["controller"] \/ cancel THEN Report("canceled")
     ELSE IF expired THEN Report("error")
     ELSE IF ~GroupExists("webots") THEN Report("canceled")
     ELSE control' = [control EXCEPT !.steps = @ + 1]
  /\ UNCHANGED fileVars /\ ControlUnchanged

\* The last state, the capture and the measurement; a reset is tried after that.
RetainMeasurement ==
  /\ ControlAt("step") /\ control.steps = Steps
  /\ measurement' = TRUE
  /\ Report("completed")
  /\ UNCHANGED <<ready, measure, cancel, native, result>>
  /\ ControlUnchanged

\* One of the exceptions that are reported; after the measurement, of the reset.
ControlFails ==
  /\ control.pc \in {"boot", "wait", "look", "step"}
  /\ \E m \in {measurement, control.pc = "step" /\ control.steps = Steps} :
       measurement' = m
  /\ Report("error")
  /\ UNCHANGED <<ready, measure, cancel, native, result>>
  /\ ControlUnchanged

\* The report is exported, then Webots is asked to quit.
PublishReport ==
  /\ ControlAt("report")
  /\ native' = control.status
  /\ control' = [control EXCEPT !.pc = "quit"]
  /\ UNCHANGED <<ready, measure, cancel, measurement, result>>
  /\ ControlUnchanged

RequestQuit ==
  /\ ControlAt("quit")
  /\ quit' = TRUE
  /\ control' = [control EXCEPT !.pc = "exit"]
  /\ UNCHANGED <<launcher, group, stopping, expired, fileVars, host, forestalled, faulty>>

\* The interpreter and its wrapper end; a child of theirs may stay.
ControlExits ==
  /\ ControlAt("exit")
  /\ control' = [control EXCEPT !.pc = "dead"]
  /\ \E s \in {"gone", "orphans"} : group' = [group EXCEPT !["controller"] = s]
  /\ UNCHANGED <<launcher, stopping, expired, quit, fileVars, host, forestalled, faulty>>

-----------------------------------------------------------------------------
(* The environment of the worker. *)

\* Webots does as it was asked.
WebotsQuits ==
  /\ quit /\ GroupExists("webots")
  /\ \E s \in {"gone", "orphans"} : group' = [group EXCEPT !["webots"] = s]
  /\ UNCHANGED <<launcher, control, stopping, expired, quit, fileVars, host, forestalled,
                 faulty>>

\* A group ends, or loses its root, by itself or after a signal.
GroupEnds(g) ==
  /\ GroupExists(g)
  /\ \/ KillGroup(g)
     \/ group' = [group EXCEPT ![g] = "orphans"] /\ UNCHANGED control
  /\ faulty' = TRUE
  /\ UNCHANGED <<launcher, stopping, expired, quit, fileVars, host, forestalled>>

Deadline ==
  /\ ~expired /\ ~At("over")
  /\ expired' = TRUE
  /\ UNCHANGED <<launcher, group, control, stopping, quit, fileVars, host, forestalled,
                 faulty>>

\* The operation cancel of the launcher, run by anybody with the owner's name.
OperateCancel ==
  /\ ~cancel
  /\ PutCancel
  /\ UNCHANGED <<launcher, group, control, stopping, expired, quit, ready, measure,
                 measurement, native, result, host, faulty>>

-----------------------------------------------------------------------------
(* The provider. *)

HostAt(pc) == host.pc = pc
HostGoto(pc) == host' = [host EXCEPT !.pc = pc]

HostUnchanged ==
  UNCHANGED <<group, control, expired, quit, ready, cancel, measurement, native, result,
              forestalled, faulty>>

\* start: the container was seen running before ready.json is waited for.
HostReady ==
  /\ HostAt("start") /\ ready
  /\ HostGoto("ready")
  /\ UNCHANGED <<launcher, stopping, measure>> /\ HostUnchanged

\* measure: the one-shot service webots-signal puts the marker.
HostMeasure ==
  /\ HostAt("ready")
  /\ measure' = TRUE
  /\ HostGoto("await")
  /\ UNCHANGED <<launcher, stopping>> /\ HostUnchanged

HostResult ==
  /\ HostAt("await") /\ result # None
  /\ HostGoto(IF result.status = "completed" /\ result.reaped /\ result.exported
                THEN "measured" ELSE "failed")
  /\ UNCHANGED <<launcher, stopping, measure>> /\ HostUnchanged

\* exportEvidence, after a measurement that may have failed.
HostExport ==
  /\ host.pc \in {"measured", "failed"} /\ result # None
  /\ HostGoto(IF result.exported /\ measurement THEN "exported" ELSE "refused")
  /\ UNCHANGED <<launcher, stopping, measure>> /\ HostUnchanged

\* The signal or the deadline ends the call.
HostAborts ==
  /\ host.pc \in {"start", "ready", "await"}
  /\ HostGoto("failed")
  /\ UNCHANGED <<launcher, stopping, measure>> /\ HostUnchanged

\* The tracked cleanup: compose stop sends SIGTERM.
HostStops ==
  /\ ~host.stopped /\ host.pc \notin {"start", "ready", "await"}
  /\ host' = [host EXCEPT !.stopped = TRUE]
  /\ stopping' = [stopping EXCEPT !["launcher"] = @ \/ ~At("over")]
  /\ UNCHANGED <<launcher, measure>> /\ HostUnchanged

\* Three seconds later the container is killed, with everything in it.
HostKills ==
  /\ host.stopped /\ launcher.pc \notin {"over", "killed"}
  /\ launcher' = [launcher EXCEPT !.pc = "killed"]
  /\ group' = [g \in Groups |-> IF group[g] = "none" THEN "none" ELSE "gone"]
  /\ control' = IF Controls THEN [control EXCEPT !.pc = "dead"] ELSE control
  /\ UNCHANGED <<stopping, expired, quit, fileVars, host, forestalled, faulty>>

-----------------------------------------------------------------------------
Init ==
  /\ launcher = [pc |-> "display", status |-> "error", exported |-> FALSE,
                 reaped |-> TRUE, left |-> {}]
  /\ group = [g \in Groups |-> "none"]
  /\ control = [pc |-> "off", steps |-> 0, status |-> "error"]
  /\ stopping = [q \in {"launcher", "controller"} |-> FALSE]
  /\ expired = FALSE /\ quit = FALSE
  /\ ready = FALSE /\ measure = FALSE /\ cancel = FALSE /\ measurement = FALSE
  /\ native = None /\ result = None
  /\ host = [pc |-> "start", stopped |-> FALSE]
  /\ forestalled = FALSE /\ faulty = FALSE

LauncherStep ==
  \/ SpawnDisplay \/ SpawnWebots \/ SpawnController \/ StartupFails
  \/ CancelController \/ GraceOver \/ WebotsEndedFirst \/ ReadReport
  \/ SignalGroup \/ KillRemaining \/ PublishResult

ControllerStep ==
  \/ PublishReady \/ AwaitMeasure \/ LookForCancel \/ Step \/ RetainMeasurement
  \/ ControlFails \/ PublishReport \/ RequestQuit \/ ControlExits

HostStep ==
  \/ HostReady \/ HostMeasure \/ HostResult \/ HostExport \/ HostAborts
  \/ HostStops \/ HostKills

Next ==
  \/ LauncherStep \/ ControllerStep \/ HostStep
  \/ WebotsQuits \/ (\E g \in Groups : GroupEnds(g)) \/ Deadline \/ OperateCancel

Spec == Init /\ [][Next]_vars

\* The launcher runs and its deadline passes; of the others nothing is assumed.
FairSpec == Spec /\ WF_vars(LauncherStep) /\ WF_vars(Deadline)

-----------------------------------------------------------------------------
(* Properties. *)

Launcher == [pc : {"display", "await", "webots", "loop", "grace", "reap", "term", "over",
                   "killed"},
             status : Statuses, exported : BOOLEAN, reaped : BOOLEAN, left : SUBSET Groups]
Controller == [pc : {"off", "boot", "wait", "look", "step", "report", "quit", "exit", "dead"},
               steps : 0 .. Steps, status : Statuses]
Result == [status : Statuses, exported : BOOLEAN, reaped : BOOLEAN]
Host == [pc : {"start", "ready", "await", "measured", "failed", "exported", "refused"},
         stopped : BOOLEAN]

TypeOK ==
  /\ launcher \in Launcher
  /\ group \in [Groups -> {"none", "running", "orphans", "gone"}]
  /\ control \in Controller
  /\ stopping \in [{"launcher", "controller"} -> BOOLEAN]
  /\ expired \in BOOLEAN /\ quit \in BOOLEAN
  /\ ready \in BOOLEAN /\ measure \in BOOLEAN /\ cancel \in BOOLEAN
  /\ measurement \in BOOLEAN
  /\ native \in Statuses \cup {None}
  /\ result \in Result \cup {None}
  /\ host \in Host
  /\ forestalled \in BOOLEAN /\ faulty \in BOOLEAN

\* A measurement that the host accepts has taken every step, is retained, was not
\* cancelled before it was opened, and has left no process behind.
MeasuredTrue ==
  host.pc = "measured" =>
    /\ control.steps = Steps /\ measurement /\ native = "completed"
    /\ ~forestalled
    /\ \A g \in Groups : ~GroupExists(g)

\* A cancel that was there first wins: not one step is taken, although the
\* controller looks for the two markers one after the other.
ForestalledNoStep == forestalled => control.steps = 0

\* A result that calls its processes reaped is right about every group, also
\* about those whose root had ended before.
ReapedTrue == result # None /\ result.reaped => \A g \in Groups : ~GroupExists(g)

\* What the provider accepts as measured and what the launcher calls reaped is so;
\* nothing leaves its kind.
ResultTrue ==
  /\ TypeOK
  /\ MeasuredTrue
  /\ ReapedTrue

\* Whatever its children do, the launcher ends, with a result unless it is killed.
WorkerEnds == <>(result # None \/ launcher.pc = "killed")
=============================================================================
