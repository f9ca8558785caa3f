-------------------------- MODULE WebotsWorkerProofs --------------------------
(***************************************************************************)
(* What holds of the Webots worker for any number of steps: a cancel that  *)
(* came first stops every step, and what the provider accepts and the      *)
(* launcher calls reaped is so.                                            *)
(***************************************************************************)
EXTENDS WebotsWorker, TLAPS

-----------------------------------------------------------------------------
(* Types. *)

\* The initial state is well typed.
LEMMA InitTyped == Init => TypeOK
<1> SUFFICES ASSUME Init PROVE TypeOK
  OBVIOUS
<1>1. launcher \in Launcher /\ host \in Host
  BY DEF Init, Launcher, Host, Statuses
<1>2. control \in Controller
  BY StepsAssumption DEF Init, Controller, Statuses
<1> QED BY <1>1, <1>2 DEF Init, TypeOK

\* A kill leaves groups and controller well typed.
LEMMA KillTyped ==
  ASSUME TypeOK, NEW g \in Groups, KillGroup(g)
  PROVE  /\ group' \in [Groups -> {"none", "running", "orphans", "gone"}]
         /\ control' \in Controller
  BY DEF KillGroup, TypeOK, Controller

\* A failing launcher stays well typed.
LEMMA FailsTyped ==
  ASSUME TypeOK, NEW status \in Statuses, Fails(status)
  PROVE  launcher' \in Launcher
  BY DEF Fails, Started, TypeOK, Launcher

\* The launcher's steps.
LEMMA LauncherTyped ==
  ASSUME TypeOK, LauncherStep
  PROVE  TypeOK'
<1>1. CASE SpawnDisplay \/ SpawnWebots \/ SpawnController
  <2>1. launcher' \in Launcher /\ control' \in Controller
    BY <1>1 DEF SpawnDisplay, SpawnWebots, SpawnController, Goto, TypeOK, Launcher, Controller
  <2>2. group' \in [Groups -> {"none", "running", "orphans", "gone"}]
    BY <1>1 DEF SpawnDisplay, SpawnWebots, SpawnController, TypeOK
  <2> QED BY <1>1, <2>1, <2>2 DEF SpawnDisplay, SpawnWebots, SpawnController, TypeOK, fileVars
<1>2. CASE StartupFails \/ GraceOver \/ WebotsEndedFirst
  <2>1. "error" \in Statuses /\ "canceled" \in Statuses
    BY DEF Statuses
  <2>2. launcher' \in Launcher
    BY <1>2, <2>1, FailsTyped DEF StartupFails, GraceOver, WebotsEndedFirst
  <2> QED BY <1>2, <2>2 DEF StartupFails, GraceOver, WebotsEndedFirst, TypeOK, fileVars
<1>3. CASE ReadReport
  <2>1. (IF native = None THEN "error" ELSE native) \in Statuses
    BY DEF TypeOK, Statuses
  <2>2. launcher' \in Launcher
    BY <1>3, <2>1, FailsTyped DEF ReadReport
  <2> QED BY <1>3, <2>2 DEF ReadReport, TypeOK, fileVars
<1>4. CASE CancelController
  <2>1. launcher' \in Launcher
    BY <1>4 DEF CancelController, Goto, TypeOK, Launcher
  <2> QED BY <1>4, <2>1 DEF CancelController, PutCancel, TypeOK
<1>5. CASE SignalGroup
  <2>1. launcher' \in Launcher
    <3>1. PICK g \in Groups : Goto("term") \/ Reaped(g)
      BY <1>5 DEF SignalGroup
    <3> QED BY <3>1, ZenonT(60) DEF Goto, Reaped, TypeOK, Launcher
  <2>2. stopping' \in [{"launcher", "controller"} -> BOOLEAN]
    BY <1>5 DEF SignalGroup, TypeOK
  <2> QED BY <1>5, <2>1, <2>2 DEF SignalGroup, TypeOK, fileVars
<1>6. CASE KillRemaining
  <2>1. launcher' \in Launcher
    <3>1. PICK g \in Groups :
            \/ Reaped(g)
            \/ launcher' = [launcher EXCEPT !.pc = "reap", !.left = @ \ {g},
                                            !.reaped = FALSE]
      BY <1>6 DEF KillRemaining
    <3>2. launcher \in Launcher
      BY DEF TypeOK
    <3>3. CASE Reaped(g)
      BY <3>2, <3>3 DEF Reaped, Launcher
    <3>4. CASE launcher' = [launcher EXCEPT !.pc = "reap", !.left = @ \ {g},
                                            !.reaped = FALSE]
      BY <3>2, <3>4 DEF Launcher
    <3> QED BY <3>1, <3>3, <3>4
  <2>2. /\ group' \in [Groups -> {"none", "running", "orphans", "gone"}]
        /\ control' \in Controller
    <3>1. \E g \in Groups : UNCHANGED <<group, control>> \/ KillGroup(g)
      BY <1>6 DEF KillRemaining
    <3> QED BY <3>1, KillTyped DEF TypeOK
  <2> QED BY <1>6, <2>1, <2>2 DEF KillRemaining, TypeOK, fileVars
<1>7. CASE PublishResult
  <2>1. launcher' \in Launcher /\ result' \in Result
    BY <1>7 DEF PublishResult, Goto, TypeOK, Launcher, Result, Statuses
  <2> QED BY <1>7, <2>1 DEF PublishResult, TypeOK
<1> QED BY <1>1, <1>2, <1>3, <1>4, <1>5, <1>6, <1>7 DEF LauncherStep

\* The controller's steps.
LEMMA ControllerTyped ==
  ASSUME TypeOK, ControllerStep
  PROVE  TypeOK'
<1>1. control' \in Controller
  <2>1. CASE PublishReady \/ AwaitMeasure \/ LookForCancel \/ RetainMeasurement
             \/ ControlFails \/ PublishReport \/ RequestQuit \/ ControlExits
    BY <2>1 DEF PublishReady, AwaitMeasure, LookForCancel, RetainMeasurement, ControlFails,
       PublishReport, RequestQuit, ControlExits, Report, TypeOK, Controller, Statuses
  <2>2. CASE Step
    <3>1. control.steps < Steps => control.steps + 1 \in 0 .. Steps
      BY StepsAssumption DEF TypeOK, Controller
    <3> QED BY <2>2, <3>1 DEF Step, Report, TypeOK, Controller, Statuses
  <2> QED BY <2>1, <2>2 DEF ControllerStep
<1>2. group' \in [Groups -> {"none", "running", "orphans", "gone"}]
  BY DEF ControllerStep, PublishReady, AwaitMeasure, LookForCancel, Step, RetainMeasurement,
     ControlFails, PublishReport, RequestQuit, ControlExits, ControlUnchanged, TypeOK
<1>3. /\ ready' \in BOOLEAN /\ measurement' \in BOOLEAN /\ quit' \in BOOLEAN
      /\ native' \in Statuses \cup {None}
  BY DEF ControllerStep, PublishReady, AwaitMeasure, LookForCancel, Step, RetainMeasurement,
     ControlFails, PublishReport, RequestQuit, ControlExits, ControlUnchanged, TypeOK,
     fileVars, Controller
<1>4. UNCHANGED <<launcher, stopping, expired, measure, cancel, result, host, forestalled,
                  faulty>>
  BY DEF ControllerStep, PublishReady, AwaitMeasure, LookForCancel, Step, RetainMeasurement,
     ControlFails, PublishReport, RequestQuit, ControlExits, ControlUnchanged, fileVars
<1> QED BY <1>1, <1>2, <1>3, <1>4 DEF TypeOK

\* The provider's steps.
LEMMA HostTyped ==
  ASSUME TypeOK, HostStep
  PROVE  TypeOK'
<1>1. CASE HostReady \/ HostMeasure \/ HostResult \/ HostExport \/ HostAborts
  <2>1. host' \in Host /\ measure' \in BOOLEAN
    BY <1>1 DEF HostReady, HostMeasure, HostResult, HostExport, HostAborts, HostGoto,
                TypeOK, Host
  <2> QED BY <1>1, <2>1 DEF HostReady, HostMeasure, HostResult, HostExport, HostAborts,
                            HostUnchanged, TypeOK
<1>2. CASE HostStops
  <2>1. host' \in Host /\ stopping' \in [{"launcher", "controller"} -> BOOLEAN]
    BY <1>2 DEF HostStops, TypeOK, Host, At
  <2> QED BY <1>2, <2>1 DEF HostStops, HostUnchanged, TypeOK
<1>3. CASE HostKills
  <2>1. launcher' \in Launcher /\ control' \in Controller
    BY <1>3 DEF HostKills, TypeOK, Launcher, Controller
  <2>2. group' \in [Groups -> {"none", "running", "orphans", "gone"}]
    BY <1>3 DEF HostKills
  <2> QED BY <1>3, <2>1, <2>2 DEF HostKills, TypeOK, fileVars
<1> QED BY <1>1, <1>2, <1>3 DEF HostStep

\* Every step keeps TypeOK.
LEMMA NextTyped == TypeOK /\ [Next]_vars => TypeOK'
<1> SUFFICES ASSUME TypeOK, [Next]_vars PROVE TypeOK'
  OBVIOUS
<1>1. CASE WebotsQuits
  BY <1>1 DEF WebotsQuits, TypeOK, fileVars, Groups
<1>2. ASSUME NEW g \in Groups, GroupEnds(g) PROVE TypeOK'
  BY <1>2, KillTyped DEF GroupEnds, TypeOK, fileVars
<1>3. CASE Deadline \/ OperateCancel
  BY <1>3 DEF Deadline, OperateCancel, PutCancel, TypeOK, fileVars
<1>4. CASE UNCHANGED vars
  BY <1>4 DEF vars, TypeOK
<1> QED BY <1>1, <1>2, <1>3, <1>4, LauncherTyped, ControllerTyped, HostTyped DEF Next

\* Every variable keeps its kind.
THEOREM TypeCorrect == Spec => []TypeOK
  BY InitTyped, NextTyped, PTL DEF Spec

-----------------------------------------------------------------------------
(* A cancel that came first.  The controller steps only after it has seen  *)
(* the measure marker, so while that is missing nothing was stepped; and   *)
(* the cancel marker stays, and is looked for before every step.           *)

MarkersInv ==
  /\ control.pc = "step" \/ control.steps > 0 => measure
  /\ forestalled => cancel /\ control.steps = 0

\* Every step keeps MarkersInv.
LEMMA NextMarkers == TypeOK /\ MarkersInv /\ [Next]_vars => MarkersInv'
<1> SUFFICES ASSUME TypeOK, MarkersInv, [Next]_vars PROVE MarkersInv'
  OBVIOUS
<1>1. CASE AwaitMeasure
  BY <1>1 DEF AwaitMeasure, ControlUnchanged, fileVars, MarkersInv, TypeOK, Controller
<1>2. CASE Step
  BY <1>2 DEF Step, Report, ControlUnchanged, fileVars, ControlAt, MarkersInv, TypeOK, Controller
<1>3. ASSUME PutCancel, UNCHANGED <<control, measure>> PROVE MarkersInv'
  BY <1>3 DEF PutCancel, MarkersInv, TypeOK, Controller
<1>4. CASE CancelController \/ OperateCancel
  BY <1>3, <1>4 DEF CancelController, OperateCancel
<1>5. CASE HostMeasure
  BY <1>5 DEF HostMeasure, HostUnchanged, MarkersInv
<1>6. ASSUME UNCHANGED <<measure, cancel, forestalled>>,
             control'.steps = control.steps, control'.pc = "step" => control.pc = "step"
      PROVE  MarkersInv'
  BY <1>6 DEF MarkersInv
<1>7. ASSUME NEW g \in Groups, KillGroup(g)
      PROVE  control'.steps = control.steps /\ control'.pc \in {control.pc, "dead"}
  BY <1>7 DEF KillGroup, TypeOK, Controller
<1>8. CASE LauncherStep /\ ~CancelController
  <2>1. CASE SpawnController
    BY <1>6, <2>1 DEF SpawnController, fileVars, TypeOK, Controller
  <2>2. CASE KillRemaining
    <3>1. \E g \in Groups : UNCHANGED control \/ KillGroup(g)
      BY <2>2 DEF KillRemaining
    <3> QED BY <1>6, <1>7, <2>2, <3>1 DEF KillRemaining, fileVars
  <2>3. CASE ~SpawnController /\ ~KillRemaining
    BY <1>6, <1>8, <2>3 DEF LauncherStep, SpawnDisplay, SpawnWebots, StartupFails,
       GraceOver, WebotsEndedFirst, ReadReport, SignalGroup, PublishResult, fileVars
  <2> QED BY <2>1, <2>2, <2>3
<1>9. CASE ControllerStep /\ ~AwaitMeasure /\ ~Step
  <2>1. UNCHANGED <<measure, cancel, forestalled>>
    BY <1>9 DEF ControllerStep, PublishReady, LookForCancel, RetainMeasurement,
     ControlFails, PublishReport, RequestQuit, ControlExits, ControlUnchanged, fileVars
  <2>2. control \in Controller
    BY DEF TypeOK
  <2>3. control'.steps = control.steps /\ control'.pc # "step"
    BY <1>9, <2>2 DEF ControllerStep, PublishReady, LookForCancel, RetainMeasurement,
     ControlFails, PublishReport, RequestQuit, ControlExits, Report, Controller
  <2> QED BY <1>6, <2>1, <2>3
<1>10. CASE HostStep /\ ~HostMeasure
  BY <1>6, <1>10 DEF HostStep, HostReady, HostResult, HostExport, HostAborts, HostStops,
     HostKills, HostUnchanged, fileVars, TypeOK, Controller
<1>11. ASSUME NEW g \in Groups, GroupEnds(g) PROVE MarkersInv'
  BY <1>6, <1>7, <1>11 DEF GroupEnds, fileVars
<1>12. CASE WebotsQuits \/ Deadline \/ UNCHANGED vars
  BY <1>6, <1>12 DEF WebotsQuits, Deadline, vars, fileVars
<1> QED BY <1>1, <1>2, <1>4, <1>5, <1>8, <1>9, <1>10, <1>11, <1>12 DEF Next

LEMMA InitMarkers == Init => MarkersInv
  BY DEF Init, MarkersInv

\* A cancel marker that is there before the measure marker keeps the controller
\* from every step, although it looks for the two one after the other.
THEOREM ForestalledNeverSteps == Spec => []ForestalledNoStep
<1>1. Spec => []MarkersInv
  BY TypeCorrect, InitMarkers, NextMarkers, PTL DEF Spec
<1>2. MarkersInv => ForestalledNoStep
  BY DEF MarkersInv, ForestalledNoStep
<1> QED BY <1>1, <1>2, PTL

-----------------------------------------------------------------------------
(* The report.  A controller reports completion after all steps and the    *)
(* measurement, and reports once.                                          *)

Reported == {"quit", "exit", "dead"}
Starting == {"display", "await", "webots"}

Complete == control.steps = Steps /\ measurement

ReportInv ==
  /\ control.pc = "report" /\ control.status = "completed" => Complete
  /\ native # None => control.pc \in Reported
  /\ native = "completed" => Complete
  /\ launcher.pc \in Starting => control.pc = "off"

\* A step that leaves controller and reports alone keeps ReportInv.
LEMMA ReportFrame ==
  ASSUME ReportInv, UNCHANGED <<control, measurement, native>>,
         launcher'.pc \in Starting => launcher.pc \in Starting
  PROVE  ReportInv'
  BY DEF ReportInv, Complete

\* So does one that kills the controller.
LEMMA ReportKilled ==
  ASSUME TypeOK, ReportInv, UNCHANGED <<measurement, native>>, Controls,
         control' = [control EXCEPT !.pc = "dead"],
         launcher'.pc \in Starting => launcher.pc \in Starting
  PROVE  ReportInv'
  BY DEF ReportInv, Complete, TypeOK, Controller, Controls, Reported

\* And a step of the controller.
LEMMA ControllerReports ==
  ASSUME TypeOK, ReportInv, ControllerStep
  PROVE  ReportInv'
<1>1. control \in Controller /\ native \in Statuses \cup {None} /\ measurement \in BOOLEAN
  BY DEF TypeOK
<1>2. launcher' = launcher
  BY DEF ControllerStep, PublishReady, AwaitMeasure, LookForCancel, Step, RetainMeasurement,
     ControlFails, PublishReport, RequestQuit, ControlExits, ControlUnchanged
<1>3. launcher.pc \notin Starting
  BY DEF ControllerStep, PublishReady, AwaitMeasure, LookForCancel, Step, RetainMeasurement,
     ControlFails, PublishReport, RequestQuit, ControlExits, ControlAt, ReportInv
<1>4. CASE control.pc \in {"boot", "wait", "look", "step"}
  <2>1. native = None
    BY <1>4 DEF ReportInv, Reported
  <2>2. native' = native
    BY <1>4 DEF ControllerStep, PublishReady, AwaitMeasure, LookForCancel, Step,
       RetainMeasurement, ControlFails, PublishReport, RequestQuit, ControlExits, ControlAt,
       ControlUnchanged, fileVars
  <2>3. control'.pc = "report" /\ control'.status = "completed" => Complete'
    BY <1>1, <1>4 DEF ControllerStep, PublishReady, AwaitMeasure, LookForCancel, Step,
       RetainMeasurement, ControlFails, PublishReport, RequestQuit, ControlExits, ControlAt,
       Report, Controller, Complete
  <2> QED BY <1>2, <1>3, <2>1, <2>2, <2>3, StepsAssumption DEF ReportInv, Statuses
<1>5. CASE PublishReport
  BY <1>1, <1>2, <1>3, <1>5 DEF PublishReport, ControlAt, ReportInv, Complete, Controller,
                               Reported
<1>6. CASE RequestQuit \/ ControlExits
  BY <1>1, <1>2, <1>3, <1>6 DEF RequestQuit, ControlExits, ControlAt, ReportInv, Complete,
                               Controller, Reported, fileVars
<1> QED BY <1>4, <1>5, <1>6 DEF ControllerStep, PublishReady, AwaitMeasure, LookForCancel,
           Step, RetainMeasurement, ControlFails, ControlAt

\* Every step keeps ReportInv.
LEMMA NextReport == TypeOK /\ ReportInv /\ [Next]_vars => ReportInv'
<1> SUFFICES ASSUME TypeOK, ReportInv, [Next]_vars PROVE ReportInv'
  OBVIOUS
<1>1. launcher \in Launcher /\ control \in Controller
  BY DEF TypeOK
<1>2. CASE SpawnController
  <2>1. control.pc = "off" /\ native = None
    BY <1>2 DEF SpawnController, At, ReportInv, Starting, Reported
  <2>2. control'.pc = "boot" /\ native' = None /\ launcher'.pc = "loop"
    BY <1>1, <1>2, <2>1 DEF SpawnController, Goto, Controller, Launcher, fileVars
  <2> QED BY <2>2, StepsAssumption DEF ReportInv, Starting, Statuses
<1>3. ASSUME NEW g \in Groups, KillGroup(g), UNCHANGED <<measurement, native>>,
             launcher'.pc \in Starting => launcher.pc \in Starting
      PROVE  ReportInv'
  <2>1. CASE Controls /\ g = "controller"
    BY <1>3, <2>1, ReportKilled DEF KillGroup
  <2>2. CASE ~(Controls /\ g = "controller")
    BY <1>3, <2>2, ReportFrame DEF KillGroup
  <2> QED BY <2>1, <2>2
<1>4. CASE LauncherStep /\ ~SpawnController
  <2>1. UNCHANGED <<measurement, native>>
    BY <1>4 DEF LauncherStep, SpawnDisplay, SpawnWebots, StartupFails, CancelController,
       GraceOver, WebotsEndedFirst, ReadReport, SignalGroup, KillRemaining, PublishResult,
       fileVars
  <2>2. launcher'.pc \in Starting => launcher.pc \in Starting
    BY <1>1, <1>4 DEF LauncherStep, SpawnDisplay, SpawnWebots, StartupFails, CancelController,
       GraceOver, WebotsEndedFirst, ReadReport, SignalGroup, KillRemaining, PublishResult,
       Fails, Goto, Reaped, At, Launcher, Starting
  <2>3. UNCHANGED control \/ \E g \in Groups : KillGroup(g)
    BY <1>4 DEF LauncherStep, SpawnDisplay, SpawnWebots, StartupFails, CancelController,
       GraceOver, WebotsEndedFirst, ReadReport, SignalGroup, KillRemaining, PublishResult
  <2> QED BY <1>3, <2>1, <2>2, <2>3, ReportFrame
<1>5. CASE HostStep
  <2>1. CASE HostKills
    <3>1. UNCHANGED <<measurement, native>> /\ launcher'.pc = "killed"
      BY <1>1, <2>1 DEF HostKills, Launcher, fileVars
    <3>2. CASE Controls
      BY <2>1, <3>1, <3>2, ReportKilled DEF HostKills, Starting
    <3>3. CASE ~Controls
      BY <2>1, <3>1, <3>3, ReportFrame DEF HostKills, Starting
    <3> QED BY <3>2, <3>3
  <2>2. CASE ~HostKills
    <3>1. UNCHANGED <<launcher, control, measurement, native>>
      BY <1>5, <2>2 DEF HostStep, HostReady, HostMeasure, HostResult, HostExport, HostAborts,
         HostStops, HostUnchanged
    <3> QED BY <3>1, ReportFrame
  <2> QED BY <2>1, <2>2
<1>6. ASSUME NEW g \in Groups, GroupEnds(g) PROVE ReportInv'
  BY <1>3, <1>6, ReportFrame DEF GroupEnds, fileVars
<1>7. CASE WebotsQuits \/ Deadline \/ OperateCancel \/ UNCHANGED vars
  <2>1. UNCHANGED <<launcher, control, measurement, native>>
    BY <1>7 DEF WebotsQuits, Deadline, OperateCancel, vars, fileVars
  <2> QED BY <2>1, ReportFrame
<1> QED BY <1>2, <1>4, <1>5, <1>6, <1>7, ControllerReports DEF Next

LEMMA InitReport == Init => ReportInv
  BY StepsAssumption DEF Init, ReportInv, Starting, Statuses

\* A report stays what it is.
LEMMA ReportStays ==
  ASSUME TypeOK, ReportInv, [Next]_vars, native # None
  PROVE  native' = native
<1>1. control.pc \in Reported
  BY DEF ReportInv
<1>2. ~PublishReport
  BY <1>1 DEF PublishReport, ControlAt, Reported
<1>3. CASE LauncherStep
  BY <1>3 DEF LauncherStep, SpawnDisplay, SpawnWebots, SpawnController, StartupFails,
     CancelController, GraceOver, WebotsEndedFirst, ReadReport, SignalGroup, KillRemaining,
     PublishResult, fileVars
<1>4. CASE ControllerStep
  BY <1>2, <1>4 DEF ControllerStep, PublishReady, AwaitMeasure, LookForCancel, Step,
     RetainMeasurement, ControlFails, RequestQuit, ControlExits, fileVars
<1>5. CASE HostStep
  BY <1>5 DEF HostStep, HostReady, HostMeasure, HostResult, HostExport, HostAborts, HostStops,
     HostKills, HostUnchanged, fileVars
<1>6. CASE WebotsQuits \/ (\E g \in Groups : GroupEnds(g)) \/ Deadline \/ OperateCancel
           \/ UNCHANGED vars
  BY <1>6 DEF WebotsQuits, GroupEnds, Deadline, OperateCancel, vars, fileVars
<1> QED BY <1>3, <1>4, <1>5, <1>6 DEF Next

-----------------------------------------------------------------------------
(* The process groups.  From the first reap on, a group that exists is     *)
(* still to be reaped, or the launcher says that one was left.             *)

Reaping == {"reap", "term", "over"}

ReapInv ==
  /\ Controls => GroupExists("controller")
  /\ launcher.pc \in Reaping /\ launcher.reaped =>
       \A g \in Groups : GroupExists(g) => g \in launcher.left
  /\ launcher.pc = "over" => launcher.left = {}

\* A step outside the launcher brings no group back.
LEMMA ReapFrame ==
  ASSUME ReapInv, UNCHANGED launcher,
         \A g \in Groups : GroupExists(g)' => GroupExists(g),
         Controls' => GroupExists("controller")'
  PROVE  ReapInv'
  BY DEF ReapInv

\* A kill ends one group, and the controller with its own.
LEMMA KillReaps ==
  ASSUME TypeOK, ReapInv, NEW g \in Groups, KillGroup(g)
  PROVE  /\ \A h \in Groups : GroupExists(h)' => GroupExists(h) /\ h # g
         /\ Controls' => GroupExists("controller")'
<1>1. group \in [Groups -> {"none", "running", "orphans", "gone"}] /\ control \in Controller
  BY DEF TypeOK
<1>2. \A h \in Groups : GroupExists(h)' => GroupExists(h) /\ h # g
  BY <1>1 DEF KillGroup, GroupExists
<1>3. CASE g = "controller"
  BY <1>1, <1>2, <1>3 DEF KillGroup, Controls, Controller
<1>4. CASE g # "controller"
  BY <1>1, <1>4 DEF KillGroup, Controls, ReapInv, GroupExists
<1> QED BY <1>2, <1>3, <1>4

\* A launcher that fails has every group still to reap.
LEMMA FailsReaps ==
  ASSUME TypeOK, ReapInv, NEW status, Fails(status), UNCHANGED <<group, control>>
  PROVE  ReapInv'
<1>1. launcher'.left = Started /\ launcher'.pc = "reap"
  BY DEF Fails, TypeOK, Launcher
<1>2. \A g \in Groups : GroupExists(g) => g \in Started
  BY DEF GroupExists, Started
<1> QED BY <1>1, <1>2 DEF ReapInv, GroupExists, Controls

\* A step of the launcher keeps ReapInv.
LEMMA LauncherReaps ==
  ASSUME TypeOK, ReapInv, LauncherStep
  PROVE  ReapInv'
<1>1. /\ launcher \in Launcher /\ control \in Controller
      /\ group \in [Groups -> {"none", "running", "orphans", "gone"}]
  BY DEF TypeOK
<1>2. CASE SpawnDisplay \/ SpawnWebots
  <2>1. /\ launcher'.pc \in Starting /\ control' = control
        /\ group'["controller"] = group["controller"]
    BY <1>1, <1>2 DEF SpawnDisplay, SpawnWebots, Goto, Launcher, Starting, Groups
  <2> QED BY <2>1 DEF ReapInv, Starting, Reaping, Controls, GroupExists
<1>3. CASE SpawnController
  <2>1. launcher'.pc = "loop" /\ group'["controller"] = "running"
    BY <1>1, <1>3 DEF SpawnController, Goto, Launcher, Groups
  <2> QED BY <2>1 DEF ReapInv, Reaping, GroupExists
<1>4. CASE StartupFails \/ GraceOver \/ WebotsEndedFirst \/ ReadReport
  BY <1>4, FailsReaps DEF StartupFails, GraceOver, WebotsEndedFirst, ReadReport
<1>5. CASE CancelController
  <2>1. launcher'.pc = "grace" /\ UNCHANGED <<group, control>>
    BY <1>1, <1>5 DEF CancelController, Goto, Launcher
  <2> QED BY <2>1 DEF ReapInv, Reaping, Controls, GroupExists
<1>6. CASE SignalGroup
  <2>1. PICK g \in Groups : Goto("term") \/ (~GroupExists(g) /\ Reaped(g))
    BY <1>6 DEF SignalGroup
  <2>2. launcher.pc = "reap" /\ UNCHANGED <<group, control>>
    BY <1>6 DEF SignalGroup, At
  <2>3. /\ launcher'.pc \in {"reap", "term"} /\ launcher'.reaped = launcher.reaped
        /\ launcher'.left = launcher.left
           \/ (launcher'.left = launcher.left \ {g} /\ ~GroupExists(g))
    BY <1>1, <2>1 DEF Goto, Reaped, Launcher
  <2> QED BY <2>2, <2>3 DEF ReapInv, Reaping, Controls, GroupExists
<1>7. CASE KillRemaining
  <2>1. PICK g \in Groups :
          \/ ~GroupExists(g) /\ Reaped(g) /\ UNCHANGED <<group, control>>
          \/ GroupExists(g) /\ Reaped(g) /\ KillGroup(g)
          \/ launcher' = [launcher EXCEPT !.pc = "reap", !.left = @ \ {g}, !.reaped = FALSE]
             /\ UNCHANGED <<group, control>>
    BY <1>7 DEF KillRemaining
  <2>2. launcher.pc = "term"
    BY <1>7 DEF KillRemaining, At
  <2>3. CASE ~GroupExists(g) /\ Reaped(g) /\ UNCHANGED <<group, control>>
    <3>1. /\ launcher'.pc = "reap" /\ launcher'.reaped = launcher.reaped
          /\ launcher'.left = launcher.left \ {g}
      BY <1>1, <2>3 DEF Reaped, Launcher
    <3> QED BY <2>2, <2>3, <3>1 DEF ReapInv, Reaping, Controls, GroupExists
  <2>4. CASE GroupExists(g) /\ Reaped(g) /\ KillGroup(g)
    <3>1. /\ launcher'.pc = "reap" /\ launcher'.reaped = launcher.reaped
          /\ launcher'.left = launcher.left \ {g}
      BY <1>1, <2>4 DEF Reaped, Launcher
    <3>2. /\ \A h \in Groups : GroupExists(h)' => GroupExists(h) /\ h # g
          /\ Controls' => GroupExists("controller")'
      BY <2>4, KillReaps
    <3>3. launcher.reaped => \A h \in Groups : GroupExists(h) => h \in launcher.left
      BY <2>2 DEF ReapInv, Reaping
    <3> QED BY <3>1, <3>2, <3>3 DEF ReapInv
  <2>5. CASE launcher' = [launcher EXCEPT !.pc = "reap", !.left = @ \ {g}, !.reaped = FALSE]
             /\ UNCHANGED <<group, control>>
    <3>1. launcher'.pc = "reap" /\ ~launcher'.reaped
      BY <1>1, <2>5 DEF Launcher
    <3> QED BY <2>5, <3>1 DEF ReapInv, Controls, GroupExists
  <2> QED BY <2>1, <2>3, <2>4, <2>5
<1>8. CASE PublishResult
  <2>1. /\ launcher.pc = "reap" /\ launcher.left = {} /\ UNCHANGED <<group, control>>
        /\ launcher' = [launcher EXCEPT !.pc = "over"]
    BY <1>8 DEF PublishResult, At, Goto
  <2> QED BY <1>1, <2>1 DEF ReapInv, Reaping, Controls, GroupExists, Launcher
<1> QED BY <1>2, <1>3, <1>4, <1>5, <1>6, <1>7, <1>8 DEF LauncherStep

\* Every step keeps ReapInv.
LEMMA NextReaps == TypeOK /\ ReapInv /\ [Next]_vars => ReapInv'
<1> SUFFICES ASSUME TypeOK, ReapInv, [Next]_vars PROVE ReapInv'
  OBVIOUS
<1>1. /\ launcher \in Launcher /\ control \in Controller
      /\ group \in [Groups -> {"none", "running", "orphans", "gone"}]
  BY DEF TypeOK
<1>2. CASE ControlExits
  <2>1. Controls
    BY <1>2 DEF ControlExits, ControlAt, Controls
  <2>2. GroupExists("controller")
    BY <2>1 DEF ReapInv
  <2>3. ~Controls' /\ UNCHANGED launcher
    BY <1>1, <1>2 DEF ControlExits, Controls, Controller
  <2>4. \A g \in Groups : GroupExists(g)' => GroupExists(g)
    BY <1>1, <1>2, <2>2 DEF ControlExits, GroupExists, Groups
  <2> QED BY <2>3, <2>4, ReapFrame
<1>3. CASE ControllerStep /\ ~ControlExits
  <2>1. UNCHANGED <<launcher, group>>
    BY <1>3 DEF ControllerStep, PublishReady, AwaitMeasure, LookForCancel, Step,
       RetainMeasurement, ControlFails, PublishReport, RequestQuit, ControlUnchanged
  <2>2. Controls
    BY <1>3 DEF ControllerStep, PublishReady, AwaitMeasure, LookForCancel, Step,
       RetainMeasurement, ControlFails, PublishReport, RequestQuit, ControlAt, Controls
  <2> QED BY <2>1, <2>2, ReapFrame DEF ReapInv, GroupExists
<1>4. CASE HostKills
  <2>1. launcher'.pc = "killed" /\ ~Controls'
    BY <1>1, <1>4 DEF HostKills, Controls, Controller, Launcher
  <2> QED BY <2>1 DEF ReapInv, Reaping
<1>5. ASSUME NEW g \in Groups, GroupEnds(g) PROVE ReapInv'
  <2>1. UNCHANGED launcher
    BY <1>5 DEF GroupEnds
  <2>2. CASE KillGroup(g)
    BY <2>1, <2>2, KillReaps, ReapFrame
  <2>3. CASE group' = [group EXCEPT ![g] = "orphans"] /\ UNCHANGED control
    <3>1. \A h \in Groups : GroupExists(h)' <=> GroupExists(h)
      BY <1>1, <1>5, <2>3 DEF GroupEnds, GroupExists
    <3>2. Controls' <=> Controls
      BY <2>3 DEF Controls
    <3> QED BY <2>1, <3>1, <3>2, ReapFrame DEF ReapInv, Groups
  <2> QED BY <1>5, <2>2, <2>3 DEF GroupEnds
<1>6. CASE WebotsQuits
  <2>1. UNCHANGED <<launcher, control>>
    BY <1>6 DEF WebotsQuits
  <2>2. /\ \A h \in Groups : GroupExists(h)' => GroupExists(h)
        /\ group'["controller"] = group["controller"]
    BY <1>1, <1>6 DEF WebotsQuits, GroupExists, Groups
  <2> QED BY <2>1, <2>2, ReapFrame DEF ReapInv, Controls, GroupExists
<1>7. CASE (HostStep /\ ~HostKills) \/ Deadline \/ OperateCancel \/ UNCHANGED vars
  <2>1. UNCHANGED <<launcher, control, group>>
    BY <1>7 DEF HostStep, HostReady, HostMeasure, HostResult, HostExport, HostAborts,
       HostStops, HostUnchanged, Deadline, OperateCancel, vars
  <2> QED BY <2>1 DEF ReapInv, Controls, GroupExists
<1> QED BY <1>2, <1>3, <1>4, <1>5, <1>6, <1>7, LauncherReaps DEF Next, HostStep

LEMMA InitReaps == Init => ReapInv
  BY DEF Init, ReapInv, Controls, Reaping

-----------------------------------------------------------------------------
(* The claims.  The launcher's status repeats the controller's report, the *)
(* result the launcher's status, and the provider believes the result.     *)

ClaimsInv ==
  /\ launcher.status = "completed" => native = "completed"
  /\ result # None =>
       /\ launcher.pc = "over"
       /\ result.status = "completed" => native = "completed"
       /\ result.reaped => launcher.reaped
  /\ host.pc = "measured" => result # None /\ result.status = "completed" /\ result.reaped

\* Every step keeps ClaimsInv.
LEMMA NextClaims == TypeOK /\ ReportInv /\ ClaimsInv /\ [Next]_vars => ClaimsInv'
<1> SUFFICES ASSUME TypeOK, ReportInv, ClaimsInv, [Next]_vars PROVE ClaimsInv'
  OBVIOUS
<1>1. /\ launcher \in Launcher /\ host \in Host /\ native \in Statuses \cup {None}
      /\ native = "completed" => native' = "completed"
  BY ReportStays, StepsAssumption DEF TypeOK, Statuses
<1>2. CASE PublishResult
  <2>1. /\ launcher'.pc = "over" /\ launcher'.status = launcher.status
        /\ launcher'.reaped = launcher.reaped /\ host' = host
        /\ result' = [status |-> IF launcher.reaped THEN launcher.status ELSE "error",
                      exported |-> launcher.exported, reaped |-> launcher.reaped]
        /\ launcher.pc = "reap"
    BY <1>1, <1>2 DEF PublishResult, At, Goto, Launcher
  <2>2. result = None
    BY <2>1 DEF ClaimsInv
  <2> QED BY <1>1, <2>1, <2>2 DEF ClaimsInv
<1>3. CASE LauncherStep /\ ~PublishResult
  <2>1. UNCHANGED <<result, host>>
    BY <1>3 DEF LauncherStep, SpawnDisplay, SpawnWebots, SpawnController, StartupFails,
     CancelController, GraceOver, WebotsEndedFirst, ReadReport, SignalGroup, KillRemaining,
     fileVars
  <2>2. launcher.pc # "over"
    BY <1>3 DEF LauncherStep, SpawnDisplay, SpawnWebots, SpawnController, StartupFails,
     CancelController, GraceOver, WebotsEndedFirst, ReadReport, SignalGroup, KillRemaining, At
  <2>3. launcher'.status = "completed" =>
          launcher.status = "completed" \/ native = "completed"
    <3>1. CASE StartupFails \/ GraceOver \/ WebotsEndedFirst \/ ReadReport
      BY <1>1, <3>1 DEF StartupFails, GraceOver, WebotsEndedFirst, ReadReport, Fails, Launcher
    <3>2. CASE SpawnDisplay \/ SpawnWebots \/ SpawnController \/ CancelController
      BY <1>1, <3>2 DEF SpawnDisplay, SpawnWebots, SpawnController, CancelController, Goto,
                        Launcher
    <3>3. CASE SignalGroup \/ KillRemaining
      BY <1>1, <3>3 DEF SignalGroup, KillRemaining, Goto, Reaped, Launcher
    <3> QED BY <1>3, <3>1, <3>2, <3>3 DEF LauncherStep
  <2> QED BY <1>1, <2>1, <2>2, <2>3 DEF ClaimsInv
<1>4. CASE HostStep
  <2>1. CASE HostKills
    <3>1. /\ launcher.pc # "over" /\ launcher'.status = launcher.status
          /\ UNCHANGED <<result, host>>
      BY <1>1, <2>1 DEF HostKills, Launcher, fileVars
    <3> QED BY <1>1, <3>1 DEF ClaimsInv
  <2>2. CASE ~HostKills
    <3>1. UNCHANGED <<launcher, result>>
      BY <1>4, <2>2 DEF HostStep, HostReady, HostMeasure, HostResult, HostExport, HostAborts,
       HostStops, HostUnchanged
    <3>2. host'.pc = "measured" =>
            \/ host.pc = "measured"
            \/ result # None /\ result.status = "completed" /\ result.reaped
      BY <1>1, <1>4, <2>2 DEF HostStep, HostReady, HostMeasure, HostResult, HostExport,
         HostAborts, HostStops, HostGoto, Host
    <3> QED BY <1>1, <3>1, <3>2 DEF ClaimsInv
  <2> QED BY <2>1, <2>2
<1>5. CASE ControllerStep \/ WebotsQuits \/ (\E g \in Groups : GroupEnds(g)) \/ Deadline
           \/ OperateCancel \/ UNCHANGED vars
  <2>1. UNCHANGED <<launcher, result, host>>
    BY <1>5 DEF ControllerStep, PublishReady, AwaitMeasure, LookForCancel, Step,
       RetainMeasurement, ControlFails, PublishReport, RequestQuit, ControlExits,
       ControlUnchanged, WebotsQuits, GroupEnds, Deadline, OperateCancel, vars, fileVars
  <2> QED BY <1>1, <2>1 DEF ClaimsInv
<1> QED BY <1>2, <1>3, <1>4, <1>5 DEF Next

LEMMA InitClaims == Init => ClaimsInv
  BY DEF Init, ClaimsInv

\* An accepted measurement has taken every step, is retained and came before any
\* cancel; and processes that worker-result.json calls reaped are gone, also when
\* their root had ended before.
THEOREM ResultAlwaysTrue == Spec => []ResultTrue
<1>1. Spec => []MarkersInv
  BY TypeCorrect, InitMarkers, NextMarkers, PTL DEF Spec
<1>2. Spec => []ReportInv
  BY TypeCorrect, InitReport, NextReport, PTL DEF Spec
<1>3. Spec => []ReapInv
  BY TypeCorrect, InitReaps, NextReaps, PTL DEF Spec
<1>4. Spec => []ClaimsInv
  BY <1>2, TypeCorrect, InitClaims, NextClaims, PTL DEF Spec
<1>5. ReapInv /\ ClaimsInv => ReapedTrue
  BY DEF ReapInv, ClaimsInv, ReapedTrue, Reaping
<1>6. TypeOK /\ MarkersInv /\ ReportInv /\ ClaimsInv /\ ReapedTrue => MeasuredTrue
  <2> SUFFICES ASSUME MarkersInv, ReportInv, ClaimsInv, ReapedTrue, host.pc = "measured"
               PROVE  /\ control.steps = Steps /\ measurement /\ native = "completed"
                      /\ ~forestalled
                      /\ \A g \in Groups : ~GroupExists(g)
    BY DEF MeasuredTrue
  <2>1. native = "completed" /\ \A g \in Groups : ~GroupExists(g)
    BY DEF ClaimsInv, ReapedTrue
  <2>2. control.steps = Steps /\ measurement
    BY <2>1 DEF ReportInv, Complete
  <2>3. ~forestalled
    BY <2>2, StepsAssumption DEF MarkersInv
  <2> QED BY <2>1, <2>2, <2>3
<1> QED BY <1>1, <1>2, <1>3, <1>4, <1>5, <1>6, TypeCorrect, PTL DEF ResultTrue
=============================================================================
