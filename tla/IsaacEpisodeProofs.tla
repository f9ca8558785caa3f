-------------------------- MODULE IsaacEpisodeProofs --------------------------
(***************************************************************************)
(* What holds of an Isaac episode for any number of steps: the world steps *)
(* only after it was seen, a cancel that came first wins and one that came *)
(* too early is not lost, and a cleanup without errors was one.            *)
(***************************************************************************)
EXTENDS IsaacEpisode, TLAPS

\* What the worker's process does, and what the host does.
WorkerActs == WorkerStep \/ WorkloadFails \/ WorkerKilled
HostActs == \/ \E c \in {"ready", "measure", "export"} : Call(c)
            \/ HostStep \/ Abort \/ RequestCancel \/ BeginCleanup

Gone == {"exited", "removed"}

-----------------------------------------------------------------------------
(* Who changes what. *)

\* What a step of the worker comes to, field by field.
Facts == <<ready, paused, result, error>>
Moves(pc) == /\ worker'.pc = pc /\ worker'.phase = worker.phase
             /\ worker'.step = worker.step /\ worker'.exit = worker.exit
Exits(e) == /\ worker'.pc = "exited" /\ worker'.exit = e
            /\ worker'.phase = worker.phase /\ worker'.step = worker.step

Boots == /\ worker.pc = "boot" /\ \A a \in Actions : marker[a] = "absent"
         /\ worker'.pc = "update" /\ worker'.phase = "ready"
         /\ worker'.step = worker.step /\ worker'.exit = worker.exit
         /\ ready' = TRUE /\ UNCHANGED <<paused, result, error>>
Observes == /\ worker.pc = "update" /\ Moves("cancel")
            /\ paused' = [phase |-> worker.phase, first |-> FALSE]
            /\ UNCHANGED <<ready, result, error>>
Fails == /\ worker.pc # "boot" /\ Exits(1) /\ error' = TRUE
         /\ UNCHANGED <<ready, paused, result>>
Quits == /\ \/ Exits(2) /\ worker.pc = "boot"
            \/ Exits(137)
            \/ /\ worker.pc = "action" /\ worker.phase # "ready"
               /\ \E e \in {0, 1} : Exits(e)
         /\ UNCHANGED Facts
Polls == /\ \/ worker.pc = "cancel" /\ Moves("action") /\ marker["cancel"] = "absent"
            \/ worker.pc = "action" /\ Moves("early")
            \/ worker.pc = "early" /\ Moves("update")
         /\ UNCHANGED Facts
Starts == /\ worker.pc = "action" /\ worker.phase = "ready" /\ marker["start"] = "whole"
          /\ Moves("step") /\ UNCHANGED Facts
Advances == /\ worker.pc = "step" /\ marker["cancel"] = "absent"
            /\ worker'.step = worker.step + 1
            /\ worker'.pc = IF worker.step + 1 = Steps THEN "retain" ELSE "step"
            /\ worker'.phase = worker.phase /\ worker'.exit = worker.exit
            /\ UNCHANGED Facts
Retains == /\ worker.pc = "retain" /\ worker'.pc = "update" /\ worker'.phase = "measured"
           /\ worker'.step = worker.step /\ worker'.exit = worker.exit
           /\ result' = TRUE /\ UNCHANGED <<ready, paused, error>>

Effect == Boots \/ Observes \/ Fails \/ Quits \/ Polls \/ Starts \/ Advances \/ Retains

Fields == [pc |-> worker'.pc, phase |-> worker'.phase, step |-> worker'.step,
           exit |-> worker'.exit]

\* The record of the worker is changed where the action says.
LEMMA GoMoves ==
  ASSUME worker \in Worker, NEW c, Go(c)
  PROVE  Moves(c) /\ worker' = Fields
  BY DEF Go, Worker, Moves, Fields

LEMMA ExitExits ==
  ASSUME worker \in Worker, NEW e, worker' = [worker EXCEPT !.pc = "exited", !.exit = e]
  PROVE  Exits(e) /\ worker' = Fields
  BY DEF Worker, Exits, Fields

\* Every step of the worker has one of these effects, and no other.
LEMMA WorkerEffect ==
  ASSUME worker \in Worker, WorkerActs
  PROVE  Effect /\ worker' = Fields
<1>1. ASSUME Fail, worker.pc # "boot", UNCHANGED <<ready, paused, result>>
      PROVE  Fails /\ worker' = Fields
  BY <1>1, ExitExits DEF Fail, Fails
<1>2. CASE Boot
  <2>1. CASE worker' = [worker EXCEPT !.pc = "exited", !.exit = 2] /\ UNCHANGED ready
    BY <1>2, <2>1, ExitExits DEF Boot, Quits, Facts, Effect
  <2>2. CASE /\ \A a \in Actions : marker[a] = "absent"
             /\ worker' = [worker EXCEPT !.pc = "update", !.phase = "ready"]
             /\ ready' = TRUE
    <3>1. /\ worker' = Fields /\ worker'.pc = "update" /\ worker'.phase = "ready"
          /\ worker'.step = worker.step /\ worker'.exit = worker.exit
      BY <2>2 DEF Worker, Fields
    <3> QED BY <1>2, <2>2, <3>1 DEF Boot, Boots, Effect
  <2> QED BY <1>2, <2>1, <2>2 DEF Boot
<1>3. CASE ObservePaused
  BY <1>3, GoMoves DEF ObservePaused, Observes, Effect
<1>4. CASE CheckCancel
  <2>1. CASE marker["cancel"] = "absent"
    BY <1>4, <2>1, GoMoves DEF CheckCancel, Polls, Effect, Facts
  <2>2. CASE marker["cancel"] # "absent"
    BY <1>1, <1>4, <2>2 DEF CheckCancel, Effect
  <2> QED BY <2>1, <2>2
<1>5. CASE CheckAction
  <2>1. CASE Go("early") /\ UNCHANGED error
    BY <1>5, <2>1, GoMoves DEF CheckAction, Polls, Effect, Facts
  <2>2. CASE Fail
    BY <1>1, <1>5, <2>2 DEF CheckAction, Effect
  <2>3. CASE /\ worker.phase = "ready" /\ marker["start"] = "whole" /\ Go("step")
             /\ UNCHANGED error
    BY <1>5, <2>3, GoMoves DEF CheckAction, Starts, Effect, Facts
  <2>4. CASE /\ worker.phase # "ready"
             /\ \E e \in {0, 1} : worker' = [worker EXCEPT !.pc = "exited", !.exit = e]
             /\ UNCHANGED error
    <3>1. PICK e \in {0, 1} : worker' = [worker EXCEPT !.pc = "exited", !.exit = e]
      BY <2>4
    <3> QED BY <1>5, <2>4, <3>1, ExitExits DEF CheckAction, Quits, Effect, Facts
  <2> QED BY <1>5, <2>1, <2>2, <2>3, <2>4 DEF CheckAction
<1>6. CASE CheckEarlyRelease
  <2>1. CASE Fail
    BY <1>1, <1>6, <2>1 DEF CheckEarlyRelease, Effect
  <2>2. CASE Go("update") /\ UNCHANGED error
    BY <1>6, <2>2, GoMoves DEF CheckEarlyRelease, Polls, Effect, Facts
  <2> QED BY <1>6, <2>1, <2>2 DEF CheckEarlyRelease
<1>7. CASE TakeStep
  <2>1. CASE marker["cancel"] # "absent"
    BY <1>1, <1>7, <2>1 DEF TakeStep, Effect
  <2>2. CASE marker["cancel"] = "absent"
    <3>1. /\ worker' = Fields /\ worker'.phase = worker.phase /\ worker'.exit = worker.exit
          /\ worker'.step = worker.step + 1
          /\ worker'.pc = IF worker.step + 1 = Steps THEN "retain" ELSE "step"
      BY <1>7, <2>2 DEF TakeStep, Worker, Fields
    <3> QED BY <1>7, <2>2, <3>1 DEF TakeStep, Advances, Effect, Facts
  <2> QED BY <2>1, <2>2
<1>8. CASE RetainResult
  <2>1. /\ worker' = Fields /\ worker'.pc = "update" /\ worker'.phase = "measured"
        /\ worker'.step = worker.step /\ worker'.exit = worker.exit
    BY <1>8 DEF RetainResult, Worker, Fields
  <2> QED BY <1>8, <2>1 DEF RetainResult, Retains, Effect
<1>9. CASE WorkloadFails
  BY <1>1, <1>9 DEF WorkloadFails, Effect
<1>10. CASE WorkerKilled
  BY <1>10, ExitExits DEF WorkerKilled, Quits, Effect, Facts, fileVars
<1> QED BY <1>2, <1>3, <1>4, <1>5, <1>6, <1>7, <1>8, <1>9, <1>10 DEF WorkerActs, WorkerStep

\* The worker changes nothing of the host's, and stays a process or exits.
LEMMA WorkerFrame ==
  ASSUME worker \in Worker, WorkerActs
  PROVE  /\ UNCHANGED <<hostVars, dir, marker, seen, forestalled>>
         /\ worker.pc \notin {"none"} \cup Gone
         /\ worker'.pc \notin {"none", "boot", "removed"}
<1>1. worker.pc \notin {"none"} \cup Gone
  BY DEF WorkerActs, WorkerStep, Boot, ObservePaused, CheckCancel, CheckAction,
     CheckEarlyRelease, TakeStep, RetainResult, WorkloadFails, WorkerKilled, Running, Gone
<1>2. UNCHANGED <<hostVars, dir, marker, seen, forestalled>>
  BY DEF WorkerActs, WorkerStep, Boot, ObservePaused, CheckCancel, CheckAction,
     CheckEarlyRelease, TakeStep, RetainResult, WorkloadFails, WorkerKilled, fileVars
<1>3. worker'.pc \notin {"none", "boot", "removed"}
  BY WorkerEffect DEF Effect, Boots, Observes, Fails, Quits, Polls, Starts, Advances, Retains,
     Moves, Exits
<1> QED BY <1>1, <1>2, <1>3

\* The host leaves the worker's facts alone, and the worker but for compose.
LEMMA HostFrame ==
  ASSUME HostActs
  PROVE  /\ UNCHANGED <<ready, result, error>>
         /\ ComposeUp \/ ComposeDown \/ UNCHANGED worker
<1>1. CASE \/ \E c \in {"ready", "measure", "export"} : Call(c)
           \/ Abort \/ RequestCancel \/ BeginCleanup
  BY <1>1 DEF Call, Abort, RequestCancel, BeginCleanup, fileVars
<1>2. CASE \/ Admit \/ MakeDirectory \/ ComposeUp \/ IdentifyWorker \/ PassCancelOn
           \/ WorkerFailed({"first", "fresh", "result"}) \/ ReadFirst \/ ReadFresh
  BY <1>2 DEF Admit, MakeDirectory, ComposeUp, IdentifyWorker, PassCancelOn, WorkerFailed,
              ReadFirst, ReadFresh, fileVars
<1>3. CASE \/ ObserveLive \/ WriteStart \/ ReadResult \/ WriteCancel
           \/ WriteRelease \/ AwaitClose \/ GracefulCloseFails \/ ComposeDown
  BY <1>3 DEF ObserveLive, WriteStart, ReadResult, WriteCancel, WriteRelease, AwaitClose,
              GracefulCloseFails, ComposeDown, fileVars
<1> QED BY <1>1, <1>2, <1>3 DEF HostActs, HostStep

\* There is no other step.
LEMMA NextIs == [Next]_vars <=> (WorkerActs \/ HostActs \/ UNCHANGED vars)
  BY DEF Next, WorkerActs, HostActs

-----------------------------------------------------------------------------
(* Types, with where the host and the worker can be together.              *)

\* Before the container is asked for there is none; the directory is there
\* from the moment it is tracked, and the cleanup begins between calls.
LaunchInv ==
  /\ main \in {"admit", "mkdir", "up"} => phase = "unstarted" /\ worker.pc = "none"
  /\ main = "idle" /\ phase = "unstarted" => worker.pc = "none" /\ ~dir
  /\ main = "up" \/ phase # "unstarted" => dir
  /\ main \in {"cancel", "cancelling", "first", "fresh", "live", "start", "starting",
               "result"} => phase # "unstarted"
  /\ main = "identify" => dir
  /\ cleanup # "no" => main \in {"idle", "failed"} /\ dir
  /\ worker.pc = "removed" => cleanup = "over"

\* The worker steps between ready and measured only.
StepInv ==
  /\ worker.pc \in {"none", "boot"} => worker.phase = "boot"
  /\ worker.pc \in {"update", "cancel", "action", "early"} =>
       worker.phase \in {"ready", "measured"}
  /\ worker.phase # "measured" /\ worker.pc \notin {"step", "retain"} \cup Gone =>
       worker.step = 0
  /\ worker.pc = "step" => worker.phase = "ready" /\ worker.step < Steps

TypeInv == TypeOK /\ LaunchInv /\ StepInv

\* The worker keeps its kind and its steps.
LEMMA WorkerTyped ==
  ASSUME TypeInv, WorkerActs
  PROVE  /\ worker' \in Worker /\ paused' \in Observation \cup {None}
         /\ ready' \in BOOLEAN /\ result' \in BOOLEAN /\ error' \in BOOLEAN
         /\ StepInv'
<1>1. worker \in Worker /\ StepInv /\ TypeOK
  BY DEF TypeInv, TypeOK
<1>2. Effect /\ worker' = Fields
  BY <1>1, WorkerEffect
<1>3. ready' \in BOOLEAN /\ result' \in BOOLEAN /\ error' \in BOOLEAN
  BY <1>1, <1>2 DEF Effect, Boots, Observes, Fails, Quits, Polls, Starts, Advances, Retains, Facts,
     TypeOK
<1>4. paused' \in Observation \cup {None}
  <2>1. CASE Observes
    <3>1. worker.phase \in {"ready", "measured"}
      BY <1>1, <2>1 DEF Observes, StepInv
    <3> QED BY <2>1, <3>1 DEF Observes, Observation
  <2>2. CASE ~Observes
    BY <1>1, <1>2, <2>2 DEF Effect, Boots, Fails, Quits, Polls, Starts, Advances, Retains, Facts,
       TypeOK
  <2> QED BY <2>1, <2>2
<1>5. worker'.pc \in {"boot", "update", "cancel", "action", "early", "step", "retain", "exited"}
  BY <1>2 DEF Effect, Boots, Observes, Fails, Quits, Polls, Starts, Advances, Retains, Moves, Exits
<1>6. worker'.phase \in {"boot", "ready", "measured"} /\ worker'.exit \in {0, 1, 2, 137}
  BY <1>1, <1>2 DEF Effect, Boots, Observes, Fails, Quits, Polls, Starts, Advances, Retains, Moves,
     Exits, Worker
<1>7. worker'.step \in 0 .. Steps
  <2>1. CASE Advances
    BY <1>1, <2>1, StepsAssumption DEF Advances, StepInv, Worker
  <2>2. CASE ~Advances
    BY <1>1, <1>2, <2>2 DEF Effect, Boots, Observes, Fails, Quits, Polls, Starts, Retains, Moves,
       Exits, Worker
  <2> QED BY <2>1, <2>2
<1>8. StepInv'
  <2>1. CASE Advances
    BY <1>1, <1>7, <2>1, StepsAssumption DEF Advances, StepInv, Worker, Gone
  <2>2. CASE Starts
    BY <1>1, <2>2, StepsAssumption DEF Starts, Moves, StepInv, Worker, Gone
  <2>3. CASE Boots \/ Retains
    BY <1>1, <2>3 DEF Boots, Retains, StepInv, Gone
  <2>4. CASE Observes \/ Polls
    BY <1>1, <2>4 DEF Observes, Polls, Moves, StepInv, Gone
  <2>5. CASE Fails \/ Quits
    BY <1>1, <2>5 DEF Fails, Quits, Exits, StepInv, Gone
  <2> QED BY <1>2, <2>1, <2>2, <2>3, <2>4, <2>5 DEF Effect
<1>9. worker' \in Worker
  BY <1>2, <1>5, <1>6, <1>7 DEF Fields, Worker
<1> QED BY <1>3, <1>4, <1>8, <1>9

\* A marker that is set keeps the markers' kind.
LEMMA SetMarkerTyped ==
  ASSUME TypeOK, NEW a \in Actions, NEW v \in {"empty", "whole"}, SetMarker(a, v)
  PROVE  marker' \in [Actions -> {"absent", "empty", "whole"}] /\ forestalled' \in BOOLEAN
  BY DEF SetMarker, TypeOK

\* The host keeps everything's kind.
LEMMA HostTyped ==
  ASSUME TypeInv, HostActs
  PROVE  TypeOK' /\ StepInv'
<1>1. worker \in Worker /\ StepInv /\ TypeOK /\ LaunchInv
  BY DEF TypeInv, TypeOK
<1>2. worker' \in Worker /\ StepInv'
  <2>1. CASE ComposeUp
    BY <1>1, <2>1 DEF ComposeUp, LaunchInv, Worker, StepInv, Gone
  <2>2. CASE ComposeDown
    BY <1>1, <2>2 DEF ComposeDown, Worker, StepInv, Gone
  <2>3. CASE UNCHANGED worker
    BY <1>1, <2>3 DEF StepInv
  <2> QED BY <2>1, <2>2, <2>3, HostFrame
<1>3. marker' \in [Actions -> {"absent", "empty", "whole"}] /\ forestalled' \in BOOLEAN
  <2>1. \/ UNCHANGED <<marker, forestalled>>
        \/ \E a \in Actions, v \in {"empty", "whole"} : SetMarker(a, v)
    BY DEF HostActs, HostStep, Call, Abort, RequestCancel, BeginCleanup, Admit, MakeDirectory,
       ComposeUp, IdentifyWorker, PassCancelOn, WorkerFailed, ReadFirst, ReadFresh,
       ObserveLive, WriteStart, ReadResult, WriteCancel, WriteRelease, AwaitClose,
       GracefulCloseFails, ComposeDown, fileVars, Actions
  <2> QED BY <1>1, <2>1, SetMarkerTyped DEF TypeOK
<1>4. paused' \in Observation \cup {None}
  <2>1. CASE ReadFirst
    BY <1>1, <2>1 DEF ReadFirst, TypeOK, Observation
  <2>2. CASE ~ReadFirst
    BY <1>1, <2>2 DEF HostActs, HostStep, Call, Abort, RequestCancel, BeginCleanup, Admit,
       MakeDirectory, ComposeUp, IdentifyWorker, PassCancelOn, WorkerFailed, ReadFresh,
       ObserveLive, WriteStart, ReadResult, WriteCancel, WriteRelease, AwaitClose,
       GracefulCloseFails, ComposeDown, fileVars, TypeOK
  <2> QED BY <2>1, <2>2
<1>5. /\ phase' \in {"unstarted", "paused", "measuring", "measured", "released"}
      /\ call' \in {"ready", "measure", "export", None}
  BY <1>1 DEF HostActs, HostStep, Call, Abort, RequestCancel, BeginCleanup, Admit, MakeDirectory,
     ComposeUp, IdentifyWorker, PassCancelOn, WorkerFailed, ReadFirst, ReadFresh,
     ObserveLive, WriteStart, ReadResult, WriteCancel, WriteRelease, AwaitClose,
     GracefulCloseFails, ComposeDown, TypeOK
<1>6. main' \in {"idle", "admit", "mkdir", "up", "identify", "cancel", "cancelling",
                 "first", "fresh", "live", "start", "starting", "result", "failed"}
  BY <1>1 DEF HostActs, HostStep, Call, Abort, RequestCancel, BeginCleanup, Admit, MakeDirectory,
     ComposeUp, IdentifyWorker, PassCancelOn, WorkerFailed, ReadFirst, ReadFresh,
     ObserveLive, WriteStart, ReadResult, WriteCancel, WriteRelease, AwaitClose,
     GracefulCloseFails, ComposeDown, TypeOK
<1>7. /\ canceller' \in {"no", "write", "writing", "done"}
      /\ cleanup' \in {"no", "release", "releasing", "wait", "final", "over"}
  BY <1>1 DEF HostActs, HostStep, Call, Abort, RequestCancel, BeginCleanup, Admit, MakeDirectory,
     ComposeUp, IdentifyWorker, PassCancelOn, WorkerFailed, ReadFirst, ReadFresh,
     ObserveLive, WriteStart, ReadResult, WriteCancel, WriteRelease, AwaitClose,
     GracefulCloseFails, ComposeDown, TypeOK
<1>8. requested' \in BOOLEAN /\ errors' \in BOOLEAN /\ dir' \in BOOLEAN /\ seen' \in BOOLEAN
  BY <1>1 DEF HostActs, HostStep, Call, Abort, RequestCancel, BeginCleanup, Admit, MakeDirectory,
     ComposeUp, IdentifyWorker, PassCancelOn, WorkerFailed, ReadFirst, ReadFresh,
     ObserveLive, WriteStart, ReadResult, WriteCancel, WriteRelease, AwaitClose,
     GracefulCloseFails, ComposeDown, TypeOK, fileVars
<1>9. ready' \in BOOLEAN /\ result' \in BOOLEAN /\ error' \in BOOLEAN
  BY <1>1, HostFrame DEF TypeOK
<1>10. TypeOK'
  BY <1>2, <1>3, <1>4, <1>5, <1>6, <1>7, <1>8, <1>9 DEF TypeOK
<1> QED BY <1>2, <1>10

\* Every step keeps LaunchInv.
LEMMA NextLaunch ==
  ASSUME TypeInv, [Next]_vars
  PROVE  LaunchInv'
<1>1. worker \in Worker /\ LaunchInv /\ TypeOK
  BY DEF TypeInv, TypeOK
<1>2. CASE WorkerActs
  BY <1>1, <1>2, WorkerFrame DEF LaunchInv, hostVars, Gone
<1>3. CASE ComposeUp
  BY <1>1, <1>3 DEF ComposeUp, LaunchInv, Worker, fileVars
<1>4. CASE ComposeDown
  BY <1>1, <1>4 DEF ComposeDown, LaunchInv, Worker, fileVars
<1>5. CASE \/ \E c \in {"ready", "measure", "export"} : Call(c)
           \/ Abort \/ RequestCancel \/ BeginCleanup
  BY <1>1, <1>5 DEF Call, Abort, RequestCancel, BeginCleanup, LaunchInv, TypeOK, fileVars
<1>6. CASE \/ Admit \/ MakeDirectory \/ IdentifyWorker \/ PassCancelOn
           \/ WorkerFailed({"first", "fresh", "result"}) \/ ReadFirst \/ ReadFresh
  BY <1>1, <1>6 DEF Admit, MakeDirectory, IdentifyWorker, PassCancelOn, WorkerFailed,
     ReadFirst, ReadFresh, LaunchInv, fileVars
<1>7. CASE \/ ObserveLive \/ WriteStart \/ ReadResult \/ WriteCancel
           \/ WriteRelease \/ AwaitClose \/ GracefulCloseFails
  BY <1>1, <1>7 DEF ObserveLive, WriteStart, ReadResult, WriteCancel, WriteRelease,
     AwaitClose, GracefulCloseFails, LaunchInv, fileVars
<1>8. CASE UNCHANGED vars
  BY <1>1, <1>8 DEF vars, LaunchInv
<1> QED BY <1>2, <1>3, <1>4, <1>5, <1>6, <1>7, <1>8, NextIs DEF HostActs, HostStep

\* Every step keeps TypeInv.
LEMMA NextTyped == TypeInv /\ [Next]_vars => TypeInv'
<1> SUFFICES ASSUME TypeInv, [Next]_vars PROVE TypeInv'
  OBVIOUS
<1>1. CASE WorkerActs
  <2>1. TypeOK
    BY DEF TypeInv
  <2>2. TypeOK' /\ StepInv'
    BY <1>1, <2>1, WorkerFrame, WorkerTyped DEF TypeOK, hostVars
  <2> QED BY <2>2, NextLaunch DEF TypeInv
<1>2. CASE HostActs
  BY <1>2, HostTyped, NextLaunch DEF TypeInv
<1>3. CASE UNCHANGED vars
  BY <1>3, NextLaunch DEF TypeInv, TypeOK, StepInv, vars
<1> QED BY <1>1, <1>2, <1>3, NextIs

\* The initial state is well typed.
LEMMA InitTyped == Init => TypeInv
<1> SUFFICES ASSUME Init PROVE TypeInv
  OBVIOUS
<1>1. worker \in Worker
  BY StepsAssumption DEF Init, Worker
<1>2. LaunchInv /\ StepInv
  BY DEF Init, LaunchInv, StepInv
<1> QED BY <1>1, <1>2 DEF Init, TypeInv, TypeOK

\* Host, files and worker keep their kinds.
THEOREM TypeCorrect == Spec => []TypeOK
<1>1. Spec => []TypeInv
  BY InitTyped, NextTyped, PTL DEF Spec
<1>2. TypeInv => TypeOK
  BY DEF TypeInv
<1> QED BY <1>1, <1>2, PTL

-----------------------------------------------------------------------------
(* The start: the world steps only after it was seen.                      *)

\* There is no start marker before the host has seen the paused world, and
\* nothing of the episode before there is a start marker.
SeenInv ==
  /\ marker["start"] # "absent" \/ main \in {"start", "starting"} => seen
  /\ (worker.pc \in {"step", "retain"} \/ worker.step > 0 \/ worker.phase = "measured" \/ result)
       => marker["start"] # "absent"

StartInv == TypeInv /\ SeenInv

\* A marker is set, and no other changes.
LEMMA MarkerSet ==
  ASSUME marker \in [Actions -> {"absent", "empty", "whole"}],
         NEW a \in Actions, NEW v \in {"empty", "whole"}, SetMarker(a, v)
  PROVE  /\ marker'[a] = v /\ \A b \in Actions \ {a} : marker'[b] = marker[b]
         /\ forestalled' => \/ forestalled
                            \/ a = "cancel" /\ v = "whole" /\ marker["start"] = "absent"
  BY DEF SetMarker

\* What the host does to the markers: it sets one, at its place, or none.
LEMMA HostMarks ==
  ASSUME HostActs, marker \in [Actions -> {"absent", "empty", "whole"}]
  PROVE  /\ \A a \in Actions : marker[a] # "absent" => marker'[a] # "absent"
         /\ marker["cancel"] = "whole" => marker'["cancel"] = "whole"
         /\ marker'["start"] # marker["start"] => main \in {"start", "starting"}
         /\ forestalled' =>
              \/ forestalled
              \/ marker["start"] = "absent" /\ marker'["cancel"] = "whole"
<1>a. "start" \in Actions /\ "cancel" \in Actions /\ "release" \in Actions
  BY DEF Actions
<1>1. CASE UNCHANGED <<marker, forestalled>>
  BY <1>1
<1>2. CASE marker["cancel"] = "absent" /\ SetMarker("cancel", "empty")
  BY <1>a, <1>2, MarkerSet
<1>3. CASE SetMarker("cancel", "whole")
  BY <1>a, <1>3, MarkerSet
<1>4. ASSUME NEW v \in {"empty", "whole"}, SetMarker("start", v), main \in {"start", "starting"}
      PROVE  /\ \A a \in Actions : marker[a] # "absent" => marker'[a] # "absent"
             /\ UNCHANGED marker["cancel"] /\ (forestalled' => forestalled)
  BY <1>a, <1>4, MarkerSet
<1>5. ASSUME NEW v \in {"empty", "whole"}, SetMarker("release", v)
      PROVE  /\ \A a \in Actions : marker[a] # "absent" => marker'[a] # "absent"
             /\ UNCHANGED <<marker["start"], marker["cancel"]>> /\ (forestalled' => forestalled)
  BY <1>a, <1>5, MarkerSet
<1> QED BY <1>1, <1>2, <1>3, <1>4, <1>5 DEF HostActs, HostStep, Call, Abort, RequestCancel,
   BeginCleanup, Admit, MakeDirectory, ComposeUp, IdentifyWorker, PassCancelOn, WorkerFailed,
   ReadFirst, ReadFresh, ObserveLive, WriteStart, ReadResult, WriteCancel, WriteRelease,
   AwaitClose, GracefulCloseFails, ComposeDown, fileVars

\* What the host does to the worker: compose starts it, or removes it.
LEMMA HostWorks ==
  ASSUME HostActs, worker \in Worker
  PROVE  /\ worker'.phase = worker.phase /\ worker'.step = worker.step
         /\ worker'.exit = worker.exit
         /\ worker'.pc \in {worker.pc, "boot", "removed"}
         /\ worker'.pc # worker.pc => ComposeUp \/ ComposeDown
<1>1. CASE ComposeUp
  BY <1>1 DEF ComposeUp, Worker
<1>2. CASE ComposeDown
  BY <1>2 DEF ComposeDown, Worker
<1> QED BY <1>1, <1>2, HostFrame

\* The markers are there in every typed state.
LEMMA Marked ==
  ASSUME TypeInv
  PROVE  /\ worker \in Worker /\ marker \in [Actions -> {"absent", "empty", "whole"}]
         /\ StepInv /\ LaunchInv /\ TypeOK
  BY DEF TypeInv, TypeOK

LEMMA SeenKept == StartInv /\ [Next]_vars => SeenInv'
<1> SUFFICES ASSUME StartInv, [Next]_vars PROVE SeenInv'
  OBVIOUS
<1>1. /\ TypeInv /\ SeenInv /\ worker \in Worker /\ StepInv
      /\ marker \in [Actions -> {"absent", "empty", "whole"}]
  BY Marked DEF StartInv
<1>2. CASE WorkerActs
  <2>1. UNCHANGED <<marker, main, seen>>
    BY <1>1, <1>2, WorkerFrame DEF hostVars
  <2>2. Effect
    BY <1>1, <1>2, WorkerEffect
  <2>3. CASE Boots \/ Observes \/ Polls
    BY <1>1, <2>1, <2>3 DEF Boots, Observes, Polls, Facts, Moves, SeenInv
  <2>4. CASE Fails \/ Quits
    BY <1>1, <2>1, <2>4 DEF Fails, Quits, Facts, Exits, SeenInv
  <2>5. CASE Starts \/ Advances \/ Retains
    BY <1>1, <2>1, <2>5 DEF Starts, Advances, Retains, Facts, Moves, SeenInv
  <2> QED BY <2>2, <2>3, <2>4, <2>5 DEF Effect
<1>3. CASE HostActs
  <2>1. seen => seen'
    BY <1>3 DEF HostActs, HostStep, Call, Abort, RequestCancel, BeginCleanup, Admit, MakeDirectory,
       ComposeUp, IdentifyWorker, PassCancelOn, WorkerFailed, ReadFirst, ReadFresh, ObserveLive,
       WriteStart, ReadResult, WriteCancel, WriteRelease, AwaitClose, GracefulCloseFails,
       ComposeDown
  <2>2. main' \in {"start", "starting"} => main \in {"start", "starting"} \/ seen'
    BY <1>3 DEF HostActs, HostStep, Call, Abort, RequestCancel, BeginCleanup, Admit, MakeDirectory,
       ComposeUp, IdentifyWorker, PassCancelOn, WorkerFailed, ReadFirst, ReadFresh, ObserveLive,
       WriteStart, ReadResult, WriteCancel, WriteRelease, AwaitClose, GracefulCloseFails,
       ComposeDown
  <2>3. UNCHANGED result
    BY <1>3, HostFrame
  <2>4. "start" \in Actions
    BY DEF Actions
  <2> QED BY <1>1, <1>3, <2>1, <2>2, <2>3, <2>4, HostMarks, HostWorks DEF SeenInv
<1>4. CASE UNCHANGED vars
  BY <1>1, <1>4 DEF vars, SeenInv
<1> QED BY <1>2, <1>3, <1>4, NextIs

LEMMA StartSteps == StartInv /\ [Next]_vars => StartInv'
  BY NextTyped, SeenKept DEF StartInv

LEMMA StartInit == Init => StartInv
<1> SUFFICES ASSUME Init PROVE StartInv
  OBVIOUS
<1>1. SeenInv
  BY DEF Init, SeenInv, Actions
<1> QED BY <1>1, InitTyped DEF StartInv

\* The world advances only after the host has seen it paused, fresh and of a
\* live container (IsaacNative.measure writes the start after #live).
THEOREM OnlySeenSteps == Spec => []StepsOnlySeen
<1>1. Spec => []StartInv
  BY StartInit, StartSteps, PTL DEF Spec
<1>2. StartInv => StepsOnlySeen
  BY DEF StartInv, SeenInv, StepsOnlySeen
<1> QED BY <1>1, <1>2, PTL

-----------------------------------------------------------------------------
(* The cancel: one that came first wins, one that came too early is kept.  *)

ForestallInv == forestalled => marker["cancel"] = "whole" /\ worker.pc # "retain" /\ ~result

EarlyInv == (canceller # "no" => requested) /\ CancelNotLost

CancelInv == StartInv /\ ForestallInv /\ EarlyInv

LEMMA ForestallKept == CancelInv /\ [Next]_vars => ForestallInv'
<1> SUFFICES ASSUME CancelInv, [Next]_vars PROVE ForestallInv'
  OBVIOUS
<1>1. /\ TypeInv /\ SeenInv /\ ForestallInv /\ worker \in Worker
      /\ marker \in [Actions -> {"absent", "empty", "whole"}]
  BY Marked DEF CancelInv, StartInv
<1>2. CASE WorkerActs
  <2>1. UNCHANGED <<marker, forestalled>>
    BY <1>1, <1>2, WorkerFrame
  <2>2. Effect
    BY <1>1, <1>2, WorkerEffect
  <2>3. CASE Boots \/ Observes \/ Polls \/ Starts
    BY <1>1, <2>1, <2>3 DEF Boots, Observes, Polls, Starts, Facts, Moves, ForestallInv
  <2>4. CASE Fails \/ Quits
    BY <1>1, <2>1, <2>4 DEF Fails, Quits, Facts, Exits, ForestallInv
  <2>5. CASE Advances \/ Retains
    BY <1>1, <2>1, <2>5 DEF Advances, Retains, Facts, ForestallInv
  <2> QED BY <2>2, <2>3, <2>4, <2>5 DEF Effect
<1>3. CASE HostActs
  <2>1. UNCHANGED result /\ (worker'.pc = "retain" => worker.pc = "retain")
    BY <1>1, <1>3, HostFrame, HostWorks
  <2>2. CASE forestalled
    BY <1>1, <1>3, <2>1, <2>2, HostMarks DEF ForestallInv
  <2>3. CASE forestalled' /\ ~forestalled
    <3>1. marker["start"] = "absent" /\ marker'["cancel"] = "whole"
      BY <1>1, <1>3, <2>3, HostMarks
    <3>2. ~result /\ worker.pc # "retain"
      BY <1>1, <3>1 DEF SeenInv
    <3> QED BY <2>1, <3>1, <3>2 DEF ForestallInv
  <2> QED BY <2>2, <2>3 DEF ForestallInv
<1>4. CASE UNCHANGED vars
  BY <1>1, <1>4 DEF vars, ForestallInv
<1> QED BY <1>2, <1>3, <1>4, NextIs

LEMMA EarlyKept == CancelInv /\ [Next]_vars => EarlyInv'
<1> SUFFICES ASSUME CancelInv, [Next]_vars PROVE EarlyInv'
  OBVIOUS
<1>1. /\ TypeInv /\ LaunchInv /\ EarlyInv /\ worker \in Worker /\ "cancel" \in Actions
      /\ marker \in [Actions -> {"absent", "empty", "whole"}]
  BY Marked DEF CancelInv, StartInv, Actions
<1>2. CASE WorkerActs
  BY <1>1, <1>2, WorkerFrame DEF hostVars, EarlyInv, CancelNotLost
<1>3. CASE HostActs
  <2>1. marker["cancel"] # "absent" => marker'["cancel"] # "absent"
    BY <1>1, <1>3, HostMarks
  <2>2. CASE WriteCancel
    <3>1. UNCHANGED <<phase, main, requested>>
      BY <2>2 DEF WriteCancel
    <3>2. CASE canceller = "writing" /\ SetMarker("cancel", "whole")
      <4>1. marker'["cancel"] = "whole"
        BY <1>1, <3>2, MarkerSet
      <4> QED BY <1>1, <2>2, <3>1, <3>2, <4>1 DEF WriteCancel, EarlyInv, CancelNotLost
    <3>3. CASE canceller = "write" /\ canceller' = "writing"
      BY <1>1, <3>1, <3>3 DEF EarlyInv, CancelNotLost
    <3>4. CASE canceller = "write" /\ UNCHANGED marker /\ (~dir \/ marker["cancel"] # "absent")
      BY <1>1, <2>2, <3>1, <3>4 DEF WriteCancel, EarlyInv, CancelNotLost, LaunchInv
    <3> QED BY <2>2, <3>2, <3>3, <3>4 DEF WriteCancel
  <2>3. CASE PassCancelOn
    <3>1. UNCHANGED <<canceller, requested>>
      BY <2>3 DEF PassCancelOn
    <3>2. CASE main' = "failed"
      BY <1>1, <3>1, <3>2 DEF EarlyInv, CancelNotLost
    <3>3. CASE \E v \in {"empty", "whole"} : SetMarker("cancel", v)
      <4>1. marker'["cancel"] # "absent"
        BY <1>1, <3>3, MarkerSet
      <4> QED BY <1>1, <3>1, <4>1 DEF EarlyInv, CancelNotLost
    <3>4. CASE marker["cancel"] = "whole" /\ UNCHANGED marker
      BY <1>1, <3>1, <3>4 DEF EarlyInv, CancelNotLost
    <3> QED BY <2>3, <3>2, <3>3, <3>4 DEF PassCancelOn
  <2>4. CASE RequestCancel
    BY <1>1, <2>4 DEF RequestCancel, EarlyInv, CancelNotLost
  <2>5. CASE IdentifyWorker
    BY <1>1, <2>5 DEF IdentifyWorker, EarlyInv, CancelNotLost
  <2>6. CASE ComposeDown
    BY <1>1, <2>6 DEF ComposeDown, EarlyInv, CancelNotLost, LaunchInv, fileVars
  <2>7. CASE \/ \E c \in {"ready", "measure", "export"} : Call(c)
             \/ Abort \/ BeginCleanup \/ Admit \/ MakeDirectory \/ ComposeUp
             \/ WorkerFailed({"first", "fresh", "result"}) \/ ReadFirst \/ ReadFresh
             \/ ReadResult \/ AwaitClose \/ GracefulCloseFails
    BY <1>1, <2>7 DEF Call, Abort, BeginCleanup, Admit, MakeDirectory, ComposeUp, WorkerFailed,
       ReadFirst, ReadFresh, ReadResult, AwaitClose, GracefulCloseFails, EarlyInv,
       CancelNotLost, LaunchInv, fileVars
  <2>8. CASE ObserveLive \/ WriteStart \/ WriteRelease
    <3>1. UNCHANGED <<canceller, requested>> /\ (phase # "unstarted" \/ UNCHANGED <<phase, main>>)
          /\ (main \notin {"cancel", "failed"} \/ UNCHANGED <<phase, main>>)
      BY <1>1, <2>8 DEF ObserveLive, WriteStart, WriteRelease, LaunchInv
    <3> QED BY <1>1, <2>1, <3>1 DEF EarlyInv, CancelNotLost
  <2> QED BY <1>3, <2>2, <2>3, <2>4, <2>5, <2>6, <2>7, <2>8 DEF HostActs, HostStep
<1>4. CASE UNCHANGED vars
  BY <1>1, <1>4 DEF vars, EarlyInv, CancelNotLost
<1> QED BY <1>2, <1>3, <1>4, NextIs

\* A cancel that was whole before there was a start keeps the episode from
\* completing, and one that came before the directory is passed on.
THEOREM CancelAlwaysWins == Spec => []CancelWins
<1>1. Init => CancelInv
  BY StartInit DEF Init, CancelInv, ForestallInv, EarlyInv, CancelNotLost
<1>2. CancelInv /\ [Next]_vars => CancelInv'
  BY StartSteps, ForestallKept, EarlyKept DEF CancelInv
<1>3. CancelInv => CancelWins
  BY DEF CancelInv, StartInv, TypeInv, ForestallInv, EarlyInv, CancelWins, ForestalledNeverCompletes
<1> QED BY <1>1, <1>2, <1>3, PTL DEF Spec

-----------------------------------------------------------------------------
(* The cleanup: without errors, it removed a worker that had completed.    *)

\* A worker that closed by itself left a result and no error; the last part of
\* a cleanup without errors has such a worker before it.
ExitInv ==
  /\ worker.phase = "measured" => result
  /\ error => worker.pc \in Gone /\ worker.exit = 1
  /\ worker.pc = "exited" /\ worker.exit = 0 => result /\ ~error

FinalInv ==
  /\ cleanup = "final" /\ ~errors =>
       \/ worker.pc = "none"
       \/ worker.pc = "exited" /\ worker.exit = 0
  /\ CleanupTrue

CleanupInv == TypeInv /\ ExitInv /\ FinalInv

LEMMA ExitKept == CleanupInv /\ [Next]_vars => ExitInv'
<1> SUFFICES ASSUME CleanupInv, [Next]_vars PROVE ExitInv'
  OBVIOUS
<1>1. TypeInv /\ ExitInv /\ worker \in Worker /\ StepInv /\ LaunchInv
  BY Marked DEF CleanupInv
<1>2. CASE WorkerActs
  <2>1. Effect /\ worker.pc \notin Gone
    BY <1>1, <1>2, WorkerEffect, WorkerFrame
  <2>2. CASE Boots \/ Observes \/ Polls \/ Starts \/ Advances \/ Retains
    BY <1>1, <2>1, <2>2 DEF Boots, Observes, Polls, Starts, Advances, Retains, Facts, Moves,
       ExitInv, Gone
  <2>3. CASE Fails
    BY <1>1, <2>1, <2>3 DEF Fails, Exits, ExitInv, Gone
  <2>4. CASE Quits
    BY <1>1, <2>1, <2>4 DEF Quits, Exits, Facts, ExitInv, StepInv, Gone
  <2> QED BY <2>1, <2>2, <2>3, <2>4 DEF Effect
<1>3. CASE HostActs
  <2>1. UNCHANGED <<result, error>> /\ worker'.exit = worker.exit /\ worker'.phase = worker.phase
    BY <1>1, <1>3, HostFrame, HostWorks
  <2>2. /\ worker'.pc = "exited" => worker.pc = "exited"
        /\ worker.pc \in Gone => worker'.pc \in Gone
    <3>1. CASE ComposeUp
      BY <1>1, <3>1 DEF ComposeUp, Worker, LaunchInv, Gone
    <3>2. CASE ComposeDown
      BY <1>1, <3>2 DEF ComposeDown, Worker, Gone
    <3> QED BY <1>3, <3>1, <3>2, HostFrame
  <2> QED BY <1>1, <2>1, <2>2 DEF ExitInv
<1>4. CASE UNCHANGED vars
  BY <1>1, <1>4 DEF vars, ExitInv
<1> QED BY <1>2, <1>3, <1>4, NextIs

LEMMA FinalKept == CleanupInv /\ [Next]_vars => FinalInv'
<1> SUFFICES ASSUME CleanupInv, [Next]_vars PROVE FinalInv'
  OBVIOUS
<1>1. TypeInv /\ ExitInv /\ FinalInv /\ worker \in Worker /\ LaunchInv
  BY Marked DEF CleanupInv
<1>2. CASE WorkerActs
  BY <1>1, <1>2, WorkerFrame DEF hostVars, FinalInv, CleanupTrue, Gone
<1>3. CASE ComposeUp
  BY <1>1, <1>3 DEF ComposeUp, LaunchInv, FinalInv, CleanupTrue
<1>4. CASE ComposeDown
  <2>1. /\ cleanup = "final" /\ cleanup' = "over" /\ UNCHANGED <<result, error>>
        /\ errors' \/ /\ UNCHANGED errors
                      /\ worker'.pc = IF worker.pc = "none" THEN "none" ELSE "removed"
    BY <1>1, <1>4 DEF ComposeDown, Worker, fileVars
  <2> QED BY <1>1, <2>1 DEF FinalInv, ExitInv, CleanupTrue
<1>5. CASE HostActs /\ ~ComposeUp /\ ~ComposeDown
  <2>1. UNCHANGED <<worker, result, error>>
    BY <1>5, HostFrame
  <2>2. CASE BeginCleanup
    <3>1. \/ errors' \/ cleanup' = "release"
          \/ cleanup' = "final" /\ worker.pc = "none"
      BY <1>1, <2>2 DEF BeginCleanup, LaunchInv
    <3> QED BY <1>1, <2>1, <3>1 DEF FinalInv, CleanupTrue
  <2>3. CASE WriteRelease \/ AwaitClose \/ GracefulCloseFails
    BY <1>1, <2>1, <2>3 DEF WriteRelease, AwaitClose, GracefulCloseFails, FinalInv, CleanupTrue,
       TypeInv, TypeOK
  <2>4. CASE ~BeginCleanup /\ ~WriteRelease /\ ~AwaitClose /\ ~GracefulCloseFails
    <3>1. UNCHANGED <<cleanup, errors>>
      BY <1>5, <2>4 DEF HostActs, HostStep, Call, Abort, RequestCancel, Admit, MakeDirectory,
         IdentifyWorker, PassCancelOn, WorkerFailed, ReadFirst, ReadFresh, ObserveLive,
         WriteStart, ReadResult, WriteCancel
    <3> QED BY <1>1, <2>1, <3>1 DEF FinalInv, CleanupTrue
  <2> QED BY <2>2, <2>3, <2>4
<1>6. CASE UNCHANGED vars
  BY <1>1, <1>6 DEF vars, FinalInv, CleanupTrue
<1> QED BY <1>2, <1>3, <1>4, <1>5, <1>6, NextIs

\* A cleanup that has no errors to throw removed a worker that had retained its
\* result and closed with exit code 0, unless there never was one.
THEOREM CleanupAlwaysTrue == Spec => []CleanupTrue
<1>1. Init => CleanupInv
  <2> SUFFICES ASSUME Init PROVE CleanupInv
    OBVIOUS
  <2>1. ExitInv /\ FinalInv
    BY DEF Init, ExitInv, FinalInv, CleanupTrue, Gone
  <2> QED BY <2>1, InitTyped DEF CleanupInv
<1>2. CleanupInv /\ [Next]_vars => CleanupInv'
  BY NextTyped, ExitKept, FinalKept DEF CleanupInv
<1>3. CleanupInv => CleanupTrue
  BY DEF CleanupInv, FinalInv
<1> QED BY <1>1, <1>2, <1>3, PTL DEF Spec
=============================================================================
