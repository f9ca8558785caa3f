---------------------------- MODULE IsaacEpisode ----------------------------
(***************************************************************************)
(* One finite Isaac episode: the host's provider (IsaacNative of           *)
(* host/src/plugins/isaac-provider/index.ts) and the worker that it starts *)
(* in a container (workers/isaac/native-observe.py).  They talk through    *)
(* files of one directory: the worker's facts, which replace each other    *)
(* atomically, and the host's markers, which are created empty and written *)
(* after that.                                                             *)
(*                                                                         *)
(* Three coroutines of the host interleave at their awaits: the calls of   *)
(* the harness (ready, measure, exportEvidence), cancel(), and the cleanup *)
(* that was tracked at launch.  The harness makes one call at a time, and  *)
(* disposes of the run between calls or after one that failed.  A deadline *)
(* is an await that fails.  What the native world computes is left out.    *)
(***************************************************************************)
EXTENDS Naturals

CONSTANTS
  Steps,    \* bound: physics steps and frames of the episode, each with its check
  None

ASSUME StepsAssumption == Steps \in Nat \ {0}

Actions == {"start", "release", "cancel"}

VARIABLES
  \* the host
  phase,      \* this.phase
  main,       \* where the harness's call is
  call,       \* which call it is
  canceller,  \* where cancel() is
  requested,  \* this.cancelRequested
  cleanup,    \* where the tracked cleanup is
  errors,     \* it has errors to throw
  \* the output directory
  dir,        \* it exists
  marker,     \* marker[a]: "absent", "empty" or "whole"
  ready,      \* ready.json is there
  paused,     \* paused-state.json: its phase, and whether the host read it first
  result,     \* episode-result.json is there
  error,      \* worker-error.json is there
  \* the container
  worker,     \* worker.pc, .phase, .step and .exit
  \* history
  seen,       \* the host saw a fresh PAUSED observation of a live worker
  forestalled \* the cancel marker was whole before there was a start marker

hostVars == <<phase, main, call, canceller, requested, cleanup, errors>>
fileVars == <<dir, marker, ready, paused, result, error>>
vars == <<phase, main, call, canceller, requested, cleanup, errors, dir, marker,
          ready, paused, result, error, worker, seen, forestalled>>

Running == worker.pc \notin {"none", "exited", "removed"}

SetMarker(a, v) ==
  /\ marker' = [marker EXCEPT ![a] = v]
  /\ forestalled' = \/ forestalled
                    \/ a = "cancel" /\ v = "whole" /\ marker["start"] = "absent"

-----------------------------------------------------------------------------
(* launch *)

\* The harness calls; measure has one promise for all its callers.
Call(c) ==
  /\ main = "idle" /\ cleanup = "no"
  /\ \/ c = "ready" /\ phase \in {"unstarted", "paused"}
     \/ c = "measure" /\ phase \in {"unstarted", "paused"}
     \/ c = "export" /\ phase = "measured"
  /\ call' = c
  /\ main' = IF c = "export" THEN "result"
             ELSE IF phase = "unstarted" THEN "admit" ELSE "first"
  /\ UNCHANGED <<phase, canceller, requested, cleanup, errors, fileVars, worker, seen,
                 forestalled>>

Admit ==
  /\ main = "admit"
  /\ main' = IF requested THEN "failed" ELSE "mkdir"
  /\ UNCHANGED <<phase, call, canceller, requested, cleanup, errors, fileVars, worker,
                 seen, forestalled>>

\* The directory is made and the project tracked for cleanup.
MakeDirectory ==
  /\ main = "mkdir"
  /\ dir' = TRUE
  /\ main' = "up"
  /\ UNCHANGED <<phase, call, canceller, requested, cleanup, errors, marker, ready,
                 paused, result, error, worker, seen, forestalled>>

ComposeUp ==
  /\ main = "up"
  /\ worker' = [worker EXCEPT !.pc = "boot"]
  /\ \E m \in {"identify", "failed"} : main' = m
  /\ UNCHANGED <<phase, call, canceller, requested, cleanup, errors, fileVars, seen,
                 forestalled>>

\* The container is known; a cancel that came too early is passed on now.
IdentifyWorker ==
  /\ main = "identify"
  /\ phase' = "paused"
  /\ main' = IF requested THEN "cancel" ELSE "first"
  /\ UNCHANGED <<call, canceller, requested, cleanup, errors, fileVars, worker, seen,
                 forestalled>>

\* marker(a): created exclusively, written, and accepted if it is whole already.
PassCancelOn ==
  /\ \/ main = "cancel" /\ marker["cancel"] = "absent"
        /\ SetMarker("cancel", "empty") /\ main' = "cancelling"
     \/ main = "cancelling" /\ SetMarker("cancel", "whole") /\ main' = "first"
     \/ main = "cancel" /\ marker["cancel"] = "whole"
        /\ main' = "first" /\ UNCHANGED <<marker, forestalled>>
     \/ main = "cancel" /\ marker["cancel"] = "empty"
        /\ main' = "failed" /\ UNCHANGED <<marker, forestalled>>
  /\ UNCHANGED <<phase, call, canceller, requested, cleanup, errors, dir, ready,
                 paused, result, error, worker, seen>>

-----------------------------------------------------------------------------
(* ready, measure and exportEvidence *)

\* fact(): the worker's error is looked for before each look at the fact.
WorkerFailed(pcs) ==
  /\ main \in pcs
  /\ error
  /\ main' = "failed"
  /\ UNCHANGED <<phase, call, canceller, requested, cleanup, errors, fileVars, worker,
                 seen, forestalled>>

\* Mutant: measure opens the episode on the first observation, alive or not.
ReadOnlyOnce ==
  /\ main = "first" /\ ~error
  /\ paused # None
  /\ paused' = [paused EXCEPT !.first = TRUE]
  /\ main' = IF call = "measure" THEN "start" ELSE "fresh"
  /\ UNCHANGED <<phase, call, canceller, requested, cleanup, errors, dir, marker,
                 ready, result, error, worker, seen, forestalled>>

ReadFirst ==
  /\ main = "first" /\ ~error
  /\ paused # None
  /\ paused' = [paused EXCEPT !.first = TRUE]
  /\ main' = "fresh"
  /\ UNCHANGED <<phase, call, canceller, requested, cleanup, errors, dir, marker,
                 ready, result, error, worker, seen, forestalled>>

\* Wait until the observation has changed.
ReadFresh ==
  /\ main = "fresh" /\ ~error
  /\ ~paused.first
  /\ main' = IF ready /\ paused.phase = "ready" THEN "live" ELSE "failed"
  /\ UNCHANGED <<phase, call, canceller, requested, cleanup, errors, fileVars, worker,
                 seen, forestalled>>

\* live(): the Engine says that the container runs.
ObserveLive ==
  /\ main = "live"
  /\ IF ~Running THEN main' = "failed" /\ UNCHANGED <<phase, seen>>
     ELSE \/ /\ call = "ready"
             /\ main' = "idle" /\ seen' = TRUE /\ UNCHANGED phase
          \/ /\ call = "measure" /\ phase # "measuring"
             /\ main' = "start" /\ seen' = TRUE /\ phase' = "measuring"
          \/ /\ call = "measure" /\ phase = "measuring"
             /\ main' = "idle" /\ phase' = "measured" /\ UNCHANGED seen
          \/ /\ call = "export"
             /\ main' = "idle" /\ UNCHANGED <<phase, seen>>
  /\ UNCHANGED <<call, canceller, requested, cleanup, errors, fileVars, worker, forestalled>>

\* marker('start').
WriteStart ==
  /\ \/ main = "start" /\ SetMarker("start", "empty") /\ main' = "starting"
     \/ main = "starting" /\ SetMarker("start", "whole") /\ main' = "result"
  /\ UNCHANGED <<phase, call, canceller, requested, cleanup, errors, dir, ready,
                 paused, result, error, worker, seen>>

ReadResult ==
  /\ main = "result" /\ ~error
  /\ result
  /\ main' = "live"
  /\ UNCHANGED <<phase, call, canceller, requested, cleanup, errors, fileVars, worker,
                 seen, forestalled>>

\* The abort signal or the deadline ends an await, or an operation fails.
Abort ==
  /\ main \notin {"idle", "failed"}
  /\ main' = "failed"
  /\ UNCHANGED <<phase, call, canceller, requested, cleanup, errors, fileVars, worker,
                 seen, forestalled>>

-----------------------------------------------------------------------------
(* cancel() *)

RequestCancel ==
  /\ canceller \in {"no", "done"} /\ phase # "released"
  /\ requested' = TRUE
  /\ canceller' = "write"
  /\ UNCHANGED <<phase, main, call, cleanup, errors, fileVars, worker, seen, forestalled>>

\* Without the directory there is no marker; one that exists is not written again.
WriteCancel ==
  /\ \/ canceller = "write" /\ dir /\ marker["cancel"] = "absent"
        /\ SetMarker("cancel", "empty") /\ canceller' = "writing"
     \/ canceller = "writing" /\ SetMarker("cancel", "whole") /\ canceller' = "done"
     \/ canceller = "write" /\ (~dir \/ marker["cancel"] # "absent")
        /\ canceller' = "done" /\ UNCHANGED <<marker, forestalled>>
  /\ UNCHANGED <<phase, main, call, requested, cleanup, errors, dir, ready, paused,
                 result, error, worker, seen>>

-----------------------------------------------------------------------------
(* The tracked cleanup. *)

BeginCleanup ==
  /\ cleanup = "no" /\ main \in {"idle", "failed"} /\ dir
  /\ \/ cleanup' = (IF worker.pc \in {"none", "removed"} THEN "final" ELSE "release")
        /\ UNCHANGED errors
     \/ cleanup' = "over" /\ errors' = TRUE    \* the ownership is incomplete
  /\ UNCHANGED <<phase, main, call, canceller, requested, fileVars, worker, seen,
                 forestalled>>

WriteRelease ==
  /\ \/ cleanup = "release" /\ SetMarker("release", "empty") /\ cleanup' = "releasing"
     \/ cleanup = "releasing" /\ SetMarker("release", "whole") /\ cleanup' = "wait"
  /\ UNCHANGED <<phase, main, call, canceller, requested, errors, dir, ready, paused,
                 result, error, worker, seen>>

\* Mutant: the exit code of the worker is not looked at.
AwaitAnyClose ==
  /\ cleanup = "wait" /\ worker.pc = "exited"
  /\ UNCHANGED errors
  /\ cleanup' = "final"
  /\ UNCHANGED <<phase, main, call, canceller, requested, fileVars, worker, seen,
                 forestalled>>

\* compose wait and the state of the closed container.
AwaitClose ==
  /\ cleanup = "wait" /\ worker.pc = "exited"
  /\ errors' = (errors \/ worker.exit # 0)
  /\ cleanup' = "final"
  /\ UNCHANGED <<phase, main, call, canceller, requested, fileVars, worker, seen,
                 forestalled>>

\* The deadline passes, or the graceful part fails; the removal goes on.
GracefulCloseFails ==
  /\ cleanup \in {"release", "releasing", "wait"}
  /\ errors' = TRUE
  /\ cleanup' = "final"
  /\ UNCHANGED <<phase, main, call, canceller, requested, fileVars, worker, seen,
                 forestalled>>

\* compose down, after the ownership was checked again.
ComposeDown ==
  /\ cleanup = "final"
  /\ cleanup' = "over"
  /\ \/ /\ worker' = [worker EXCEPT !.pc = IF @ = "none" THEN @ ELSE "removed"]
        /\ phase' = "released"
        /\ UNCHANGED errors
     \/ errors' = TRUE /\ UNCHANGED <<worker, phase>>
  /\ UNCHANGED <<main, call, canceller, requested, fileVars, seen, forestalled>>

-----------------------------------------------------------------------------
(* The worker. *)

\* An exception of the workload: the error fact, then exit 1.
Fail ==
  /\ error' = TRUE
  /\ worker' = [worker EXCEPT !.pc = "exited", !.exit = 1]

Go(pc) == worker' = [worker EXCEPT !.pc = pc]

\* arguments(): private files that are there already are refused, without a fact.
Boot ==
  /\ worker.pc = "boot"
  /\ \/ /\ \E a \in Actions : marker[a] # "absent"
        /\ worker' = [worker EXCEPT !.pc = "exited", !.exit = 2]
        /\ UNCHANGED ready
     \/ /\ \A a \in Actions : marker[a] = "absent"
        /\ worker' = [worker EXCEPT !.pc = "update", !.phase = "ready"]
        /\ ready' = TRUE
  /\ UNCHANGED <<hostVars, dir, marker, paused, result, error, seen, forestalled>>

\* wait_paused_phase: one observation of the paused world.
ObservePaused ==
  /\ worker.pc = "update"
  /\ paused' = [phase |-> worker.phase, first |-> FALSE]
  /\ Go("cancel")
  /\ UNCHANGED <<hostVars, dir, marker, ready, result, error, seen, forestalled>>

\* Mutant: once the episode is measured, only its release is looked for.
CheckCancelWhenReady ==
  /\ worker.pc = "cancel"
  /\ IF marker["cancel"] = "absent" \/ worker.phase = "measured"
       THEN Go("action") /\ UNCHANGED error
       ELSE Fail
  /\ UNCHANGED <<hostVars, dir, marker, ready, paused, result, seen, forestalled>>

\* phase_marker(a): a marker that is not whole is no JSON.
CheckCancel ==
  /\ worker.pc = "cancel"
  /\ IF marker["cancel"] = "absent" THEN Go("action") /\ UNCHANGED error ELSE Fail
  /\ UNCHANGED <<hostVars, dir, marker, ready, paused, result, seen, forestalled>>

CheckAction ==
  /\ worker.pc = "action"
  /\ LET a == IF worker.phase = "ready" THEN "start" ELSE "release"
     IN  \/ marker[a] = "absent" /\ Go("early") /\ UNCHANGED error
         \/ marker[a] = "empty" /\ Fail
         \/ /\ marker[a] = "whole"
            /\ IF a = "start" THEN Go("step")
               ELSE \E e \in {0, 1} :    \* 1: the renderer is not released
                      worker' = [worker EXCEPT !.pc = "exited", !.exit = e]
            /\ UNCHANGED error
  /\ UNCHANGED <<hostVars, dir, marker, ready, paused, result, seen, forestalled>>

\* A release before the measurement is an error; so is the phase's deadline.
CheckEarlyRelease ==
  /\ worker.pc = "early"
  /\ IF worker.phase = "ready" /\ marker["release"] # "absent"
       THEN Fail
       ELSE Go("update") /\ UNCHANGED error
  /\ UNCHANGED <<hostVars, dir, marker, ready, paused, result, seen, forestalled>>

\* Mutant: a cancel is not looked for once the episode is open.
TakeStepBlindly ==
  /\ worker.pc = "step"
  /\ worker' = [worker EXCEPT !.step = @ + 1,
                   !.pc = IF worker.step + 1 = Steps THEN "retain" ELSE "step"]
  /\ UNCHANGED <<hostVars, fileVars, seen, forestalled>>

\* One step, or one frame, and the check that goes with it.
TakeStep ==
  /\ worker.pc = "step"
  /\ IF marker["cancel"] # "absent" THEN Fail
     ELSE /\ worker' = [worker EXCEPT !.step = @ + 1,
                          !.pc = IF worker.step + 1 = Steps THEN "retain" ELSE "step"]
          /\ UNCHANGED error
  /\ UNCHANGED <<hostVars, dir, marker, ready, paused, result, seen, forestalled>>

\* The result is written, and the world waits for its release.
RetainResult ==
  /\ worker.pc = "retain"
  /\ result' = TRUE
  /\ worker' = [worker EXCEPT !.pc = "update", !.phase = "measured"]
  /\ UNCHANGED <<hostVars, dir, marker, ready, paused, error, seen, forestalled>>

WorkerStep ==
  \/ Boot \/ ObservePaused \/ CheckCancel \/ CheckAction \/ CheckEarlyRelease
  \/ TakeStep \/ RetainResult

\* A deadline of the worker, or an exception out of the native world.
WorkloadFails ==
  /\ Running /\ worker.pc # "boot"
  /\ Fail
  /\ UNCHANGED <<hostVars, dir, marker, ready, paused, result, seen, forestalled>>

\* The process is killed.
WorkerKilled ==
  /\ Running
  /\ worker' = [worker EXCEPT !.pc = "exited", !.exit = 137]
  /\ UNCHANGED <<hostVars, fileVars, seen, forestalled>>

-----------------------------------------------------------------------------
Init ==
  /\ phase = "unstarted" /\ main = "idle" /\ call = None
  /\ canceller = "no" /\ requested = FALSE /\ cleanup = "no" /\ errors = FALSE
  /\ dir = FALSE /\ marker = [a \in Actions |-> "absent"]
  /\ ready = FALSE /\ paused = None /\ result = FALSE /\ error = FALSE
  /\ worker = [pc |-> "none", phase |-> "boot", step |-> 0, exit |-> 0]
  /\ seen = FALSE /\ forestalled = FALSE

HostStep ==
  \/ Admit \/ MakeDirectory \/ ComposeUp \/ IdentifyWorker \/ PassCancelOn
  \/ WorkerFailed({"first", "fresh", "result"}) \/ ReadFirst \/ ReadFresh
  \/ ObserveLive \/ WriteStart \/ ReadResult \/ WriteCancel
  \/ WriteRelease \/ AwaitClose \/ GracefulCloseFails \/ ComposeDown

Next ==
  \/ \E c \in {"ready", "measure", "export"} : Call(c)
  \/ HostStep \/ Abort \/ RequestCancel \/ BeginCleanup
  \/ WorkerStep \/ WorkloadFails \/ WorkerKilled

Spec == Init /\ [][Next]_vars

\* The worker's process runs.
FairSpec == Spec /\ WF_vars(WorkerStep)

-----------------------------------------------------------------------------
(* Properties. *)

Observation == [phase : {"ready", "measured"}, first : BOOLEAN]
Worker == [pc : {"none", "boot", "update", "cancel", "action", "early", "step", "retain",
                 "exited", "removed"},
           phase : {"boot", "ready", "measured"}, step : 0 .. Steps, exit : {0, 1, 2, 137}]

TypeOK ==
  /\ phase \in {"unstarted", "paused", "measuring", "measured", "released"}
  /\ main \in {"idle", "admit", "mkdir", "up", "identify", "cancel", "cancelling",
               "first", "fresh", "live", "start", "starting", "result", "failed"}
  /\ call \in {"ready", "measure", "export", None}
  /\ canceller \in {"no", "write", "writing", "done"}
  /\ cleanup \in {"no", "release", "releasing", "wait", "final", "over"}
  /\ requested \in BOOLEAN /\ errors \in BOOLEAN /\ dir \in BOOLEAN
  /\ ready \in BOOLEAN /\ result \in BOOLEAN /\ error \in BOOLEAN
  /\ marker \in [Actions -> {"absent", "empty", "whole"}]
  /\ paused \in Observation \cup {None}
  /\ worker \in Worker
  /\ seen \in BOOLEAN /\ forestalled \in BOOLEAN

\* The world advances only after the host has seen it PAUSED twice, and alive.
StepsOnlySeen == (worker.pc \in {"step", "retain"} \/ worker.step > 0) => seen

\* A cancel that is complete before the start has been issued wins, although
\* the host still issues the start and the worker may read that one first.
ForestalledNeverCompletes == forestalled => ~result

\* A cancel is not lost when it comes before there is a directory to put it in:
\* once cancel() is over, no call of the harness goes on past launch without it.
CancelNotLost ==
  canceller = "done" /\ phase # "unstarted" /\ main \notin {"cancel", "failed"}
    => marker["cancel"] # "absent"

\* A cancel holds from the moment it is there, before the directory or after it,
\* before the worker reads a start or after it; nothing leaves its kind.
CancelWins ==
  /\ TypeOK
  /\ ForestalledNeverCompletes
  /\ CancelNotLost

\* A cleanup without errors has removed a worker that completed its episode and
\* then closed by itself, unless there never was a worker.
CleanupTrue ==
  cleanup = "over" /\ ~errors =>
    \/ worker.pc = "none"
    \/ worker.pc = "removed" /\ result /\ ~error

\* A cancel that was written ends the worker, whatever it is doing, without any
\* deadline having to expire.
CancelHeeded == (marker["cancel"] = "whole" /\ worker.pc # "none") ~> ~Running
=============================================================================
