---------------------------- MODULE NavCapture -----------------------------
(***************************************************************************)
(* One native capture of the Nav2 example: the host driver                 *)
(* (native-check.mjs), its container, the two workers and the topic        *)
(* recorder (record-topics.py) that run in it, and the finalizer           *)
(* (finalize.py) that turns the retained files into evidence.              *)
(*                                                                         *)
(* They share nothing but files.  A command of the driver may fail or time *)
(* out whether or not it took effect, a process may outlive the client     *)
(* that started it, the driver may be killed, and the finalizer may be     *)
(* started at any time.  Deadlines are not counted: whatever has one may   *)
(* meet it at any moment.                                                  *)
(***************************************************************************)
EXTENDS Naturals, FiniteSets

Workers == {"prepare", "case"}

VARIABLES
  \* the driver: its step, the error it will throw, what it knows
  step, failure, cid, workerSettled, recorderSettled, absent,
  \* the container and whether it ended well
  box, boxOk,
  \* the workers, their worker-process.json and the driver's jobs
  process, facts, job, recorderJob,
  \* the recorder: its step, why it left its loop, capture-state.json and bag
  rec, why, failed, state, bag, ready, stopFile, signalled,
  \* what else is written in the capture directory
  files,
  \* the finalizer and its output directory
  fin, output,
  \* history: an operation failed; the recorder recorded the whole case
  fault, spans

driver == <<step, failure, cid, workerSettled, recorderSettled, absent>>
boxVars == <<box, boxOk>>
procs == <<process, facts>>
recorder == <<rec, why, failed, state, bag, ready>>
history == <<fault, spans>>
captureVars == <<driver, boxVars, procs, job, recorderJob, recorder, stopFile, signalled,
               files, fin, output, history>>

CaptureInit ==
  /\ step = "create" /\ failure = FALSE /\ cid = FALSE
  /\ workerSettled = TRUE /\ recorderSettled = FALSE /\ absent = {}
  /\ box = "none" /\ boxOk = FALSE
  /\ process = [w \in Workers |-> "none"] /\ facts = {}
  /\ job = "none" /\ recorderJob = "none"
  /\ rec = "none" /\ why = "none" /\ failed = FALSE
  /\ state = "absent" /\ bag = "none" /\ ready = FALSE
  /\ stopFile = "absent" /\ signalled = FALSE
  /\ files = {} /\ fin = "idle" /\ output = FALSE
  /\ fault = FALSE /\ spans = FALSE

Recording == rec = "recording"
RecorderAlive == rec \notin {"none", "exited", "died"}
Alive == {w \in Workers : process[w] = "alive"}

(***************************************************************************)
(* The container and the processes in it.                                  *)
(***************************************************************************)
\* the simulation ends on its own, with whatever status, and takes every
\* process with it
BoxDies ==
  /\ box = "running" /\ box' = "exited" /\ boxOk' \in BOOLEAN
  /\ process' = [w \in Workers |-> IF process[w] = "alive" THEN "dead" ELSE process[w]]
  /\ rec' = IF RecorderAlive THEN "died" ELSE rec
  /\ fault' = TRUE /\ spans' = (spans /\ (Recording => Alive = {}))
  /\ UNCHANGED <<driver, facts, job, recorderJob, why, failed, state, bag, ready,
                 stopFile, signalled, files, fin, output>>

WorkerWritesFacts(w) ==
  /\ process[w] = "alive" /\ facts' = facts \union {w}
  /\ UNCHANGED <<driver, boxVars, process, job, recorderJob, recorder, stopFile,
                 signalled, files, fin, output, history>>

\* exit status 0, 1 or 2, or an end by a signal
WorkerExits(w) ==
  /\ process[w] = "alive"
  /\ \E how \in {"ok", "bad", "dead"} :
       /\ how = "ok" => w \in facts
       /\ process' = [process EXCEPT ![w] = how]
       /\ fault' = (fault \/ how # "ok")
  /\ UNCHANGED <<driver, boxVars, facts, job, recorderJob, recorder, stopFile,
                 signalled, files, fin, output, spans>>

(***************************************************************************)
(* The recorder.                                                           *)
(***************************************************************************)
RecorderKeeps == UNCHANGED <<driver, boxVars, procs, job, recorderJob, stopFile,
                             signalled, files, fin, output>>

\* paths that are not fresh end it before anything is written
RecorderStarts ==
  /\ rec = "start"
  /\ \/ rec' = "starting" /\ state' = "incomplete" /\ UNCHANGED history
     \/ rec' = "died" /\ state' = state /\ fault' = TRUE /\ UNCHANGED spans
  /\ UNCHANGED <<why, failed, bag, ready>> /\ RecorderKeeps

\* every subscription is there, and no signal has come
RecorderReady ==
  /\ rec = "starting" /\ ~signalled
  /\ rec' = "recording" /\ ready' = TRUE /\ bag' = "open"
  /\ UNCHANGED <<why, failed, state, history>> /\ RecorderKeeps

\* it leaves its loops for the given reason
RecorderLeaves(reason, error) ==
  /\ rec' = "closing" /\ why' = reason /\ failed' = error
  /\ spans' = (spans /\ Alive = {})
  /\ UNCHANGED <<state, bag, ready>> /\ RecorderKeeps

\* it stops for a signal or for the request of its own run; a request whose
\* file exists and is not yet written cannot be read
RecorderStops ==
  /\ Recording
  /\ \/ signalled /\ RecorderLeaves("signal", FALSE)
     \/ ~signalled /\ stopFile = "written" /\ RecorderLeaves("stop", FALSE)
     \/ ~signalled /\ stopFile = "created" /\ RecorderLeaves("torn", TRUE)
  /\ UNCHANGED fault

\* a deadline, an error of the SDK, a signal before readiness
RecorderFails ==
  /\ rec \in {"starting", "recording"}
  /\ RecorderLeaves("error", TRUE) /\ fault' = TRUE

\* the writer is closed, the members are hashed and their limits checked
RecorderCloses ==
  /\ rec = "closing" /\ rec' = "closed"
  /\ \/ bag = "open" /\ bag' = "closed" /\ UNCHANGED <<failed, fault>>
     \/ bag' = bag /\ failed' = TRUE /\ fault' = (fault \/ ~failed)
  /\ UNCHANGED <<why, state, ready, spans>> /\ RecorderKeeps

\* mutant: the last state is written before the outcome is in it
RecorderReportsEarly ==
  /\ rec = "closed" /\ rec' = "reported"
  /\ UNCHANGED <<why, failed, state, bag, ready, history>> /\ RecorderKeeps

\* the last write of capture-state.json replaces the earlier ones at once
RecorderReports ==
  /\ rec = "closed" /\ rec' = "reported"
  /\ state' = IF failed THEN "failed" ELSE "complete"
  /\ UNCHANGED <<why, failed, bag, ready, history>> /\ RecorderKeeps

RecorderExits ==
  /\ rec = "reported" /\ rec' = "exited"
  /\ UNCHANGED <<why, failed, state, bag, ready, history>> /\ RecorderKeeps

RecorderDies ==
  /\ RecorderAlive /\ rec' = "died" /\ fault' = TRUE
  /\ spans' = (spans /\ (Recording => Alive = {}))
  /\ UNCHANGED <<why, failed, state, bag, ready>> /\ RecorderKeeps

Signal ==
  /\ RecorderAlive /\ ~signalled /\ signalled' = TRUE
  /\ UNCHANGED <<driver, boxVars, procs, job, recorderJob, recorder, stopFile,
                 files, fin, output, history>>

(***************************************************************************)
(* The driver.                                                             *)
(***************************************************************************)
Goto(p) == step' = p
Throws == failure' = TRUE /\ Goto("recover")
\* the bodies of the finally clause keep the first error
Notes(file, p) == failure' = TRUE /\ files' = files \union {file} /\ Goto(p)

DriverKeeps == UNCHANGED <<procs, recorder, signalled, fin, output>>

\* the answer to the create may be lost with the container made or not
Create ==
  /\ step = "create"
  /\ \/ box' = "created" /\ cid' = TRUE /\ Goto("start") /\ UNCHANGED <<failure, fault>>
     \/ box' \in {"none", "created"} /\ Throws /\ fault' = TRUE /\ UNCHANGED cid
  /\ UNCHANGED <<workerSettled, recorderSettled, absent, boxOk, job, recorderJob,
                 stopFile, files, spans>>
  /\ DriverKeeps

StartBox ==
  /\ step = "start"
  /\ \/ box' = "running" /\ Goto("inspect") /\ UNCHANGED <<failure, fault>>
     \/ box' \in {"created", "running"} /\ Throws /\ fault' = TRUE
  /\ UNCHANGED <<cid, workerSettled, recorderSettled, absent, boxOk, job,
                 recorderJob, stopFile, files, spans>>
  /\ DriverKeeps

InspectBefore ==
  /\ step = "inspect"
  /\ \/ Goto("prepare") /\ files' = files \union {"before"} /\ UNCHANGED <<failure, fault>>
     \/ Throws /\ fault' = TRUE /\ UNCHANGED files
  /\ UNCHANGED <<cid, workerSettled, recorderSettled, absent, boxVars, job,
                 recorderJob, stopFile, spans>>
  /\ DriverKeeps

AwaitStep == [prepare |-> "await_prepare", case |-> "await_case"]
ProveStep == [prepare |-> "prove_prepare", case |-> "prove_case"]

\* an exec into a container that is gone leaves no process
RunWorker(w) ==
  /\ step = w /\ Goto(AwaitStep[w])
  /\ workerSettled' = FALSE /\ job' = "running"
  /\ process' = [process EXCEPT ![w] = IF box = "running" THEN "alive" ELSE "dead"]
  /\ spans' = IF w = "case" THEN Recording ELSE spans
  /\ UNCHANGED <<failure, cid, recorderSettled, absent, boxVars, facts, recorderJob,
                 recorder, stopFile, signalled, files, fin, output, fault>>

\* the job ends with its process, or without it when it times out
AwaitWorker(w) ==
  /\ step = AwaitStep[w] /\ Goto(ProveStep[w])
  /\ \/ process[w] \in {"ok", "bad"} /\ job' = process[w] /\ UNCHANGED fault
     \/ job' = "lost" /\ fault' = TRUE
  /\ UNCHANGED <<failure, cid, workerSettled, recorderSettled, absent, boxVars,
                 recorderJob, stopFile, files, spans>>
  /\ DriverKeeps

\* proveWorkerAbsent, and the check of the job after it
ProveWorker(w) ==
  /\ step = ProveStep[w]
  /\ \/ /\ job # "lost" /\ w \in facts /\ box = "running" /\ process[w] # "alive"
        /\ workerSettled' = TRUE /\ absent' = absent \union {w}
        /\ IF job = "ok" THEN /\ Goto(IF w = "prepare" THEN "record" ELSE "recover")
                              /\ UNCHANGED failure
                         ELSE Throws
        /\ UNCHANGED fault
     \/ UNCHANGED <<workerSettled, absent>> /\ Throws /\ fault' = TRUE
  /\ UNCHANGED <<cid, recorderSettled, boxVars, job, recorderJob, stopFile, files, spans>>
  /\ DriverKeeps

StartRecorder ==
  /\ step = "record" /\ Goto("ready")
  /\ recorderJob' = "running"
  /\ rec' = IF box = "running" THEN "start" ELSE "died"
  /\ UNCHANGED <<failure, cid, workerSettled, recorderSettled, absent, boxVars, procs,
                 job, why, failed, state, bag, ready, stopFile, signalled, files,
                 fin, output, history>>

AwaitReady ==
  /\ step = "ready"
  /\ \/ ready /\ Goto("case") /\ UNCHANGED <<failure, fault>>
     \/ Throws /\ fault' = TRUE
  /\ UNCHANGED <<cid, workerSettled, recorderSettled, absent, boxVars, job,
                 recorderJob, stopFile, files, spans>>
  /\ DriverKeeps

\* the finally clause: a lost create may have left a container behind
Recover ==
  /\ step = "recover"
  /\ \/ /\ cid \/ box = "none"
        /\ Goto(IF cid /\ recorderJob # "none" THEN "request" ELSE "clean")
        /\ UNCHANGED <<cid, failure, files, fault>>
     \/ ~cid /\ box # "none" /\ cid' = TRUE /\ Goto("clean")
        /\ UNCHANGED <<failure, files, fault>>
     \/ ~cid /\ Notes("acquisition-quarantine", "clean") /\ fault' = TRUE /\ UNCHANGED cid
  /\ UNCHANGED <<workerSettled, recorderSettled, absent, boxVars, job, recorderJob,
                 stopFile, spans>>
  /\ DriverKeeps

\* stop.json exists before its text is written
CreateStop ==
  /\ step = "request"
  /\ IF state = "absent" THEN Notes("drain-refusal", "clean") /\ UNCHANGED stopFile
     ELSE stopFile' = "created" /\ Goto("write") /\ UNCHANGED <<failure, files>>
  /\ UNCHANGED <<cid, workerSettled, recorderSettled, absent, boxVars, job,
                 recorderJob, history>>
  /\ DriverKeeps

WriteStop ==
  /\ step = "write" /\ stopFile' = "written" /\ Goto("drain")
  /\ UNCHANGED <<failure, cid, workerSettled, recorderSettled, absent, boxVars, job,
                 recorderJob, files, history>>
  /\ DriverKeeps

\* mutant: the recorder's job has no timeout
AwaitRecorderForEver ==
  /\ step = "drain" /\ rec = "exited"
  /\ recorderJob' = (IF failed THEN "bad" ELSE "ok") /\ Goto("probe")
  /\ UNCHANGED <<failure, cid, workerSettled, recorderSettled, absent, boxVars, job,
                 stopFile, files, history>>
  /\ DriverKeeps

\* the recorder's job ends with it or is lost; only a finished state counts
AwaitRecorder ==
  /\ step = "drain"
  /\ \/ /\ rec = "exited" /\ recorderJob' = (IF failed THEN "bad" ELSE "ok")
        /\ Goto("probe") /\ UNCHANGED <<failure, files, fault>>
     \/ /\ recorderJob' = "lost" /\ Notes("drain-refusal", "clean") /\ fault' = TRUE
  /\ UNCHANGED <<cid, workerSettled, recorderSettled, absent, boxVars, job, stopFile, spans>>
  /\ DriverKeeps

ProbeRecorder ==
  /\ step = "probe"
  /\ \/ /\ box = "running" /\ ~RecorderAlive
        /\ recorderSettled' = TRUE /\ absent' = absent \union {"recorder"}
        /\ IF recorderJob = "ok" /\ state = "complete" /\ bag = "closed"
           THEN Goto("clean") /\ UNCHANGED <<failure, files>>
           ELSE Notes("drain-refusal", "clean")
        /\ UNCHANGED fault
     \/ /\ Notes("drain-refusal", "clean") /\ fault' = TRUE
        /\ UNCHANGED <<recorderSettled, absent>>
  /\ UNCHANGED <<cid, workerSettled, boxVars, job, recorderJob, stopFile, spans>>
  /\ DriverKeeps

\* mutant: the recorder is not waited for
QuiescentWorkers == workerSettled

Quiescent == workerSettled /\ (recorderJob = "none" \/ recorderSettled)

\* an owned container that was never started is removed, a started one stopped
StopBox ==
  /\ step = "clean" /\ cid /\ Quiescent
  /\ \/ /\ box = "created" /\ box' = "removed" /\ Goto("events")
        /\ files' = files \union {"cleanup"} /\ UNCHANGED <<boxOk, failure, fault>>
     \/ /\ box \in {"running", "exited"} /\ box' = "exited"
        /\ boxOk' \in (IF box = "running" THEN BOOLEAN ELSE {boxOk})
        /\ failure' = (failure \/ ~boxOk') /\ fault' = (fault \/ ~boxOk')
        /\ files' = files \union {"stopped"} /\ Goto("remove")
     \/ /\ Notes("cleanup-failure", "events") /\ fault' = TRUE
        /\ UNCHANGED boxVars
  /\ UNCHANGED <<cid, workerSettled, recorderSettled, absent, job, recorderJob,
                 stopFile, spans>>
  /\ DriverKeeps

RemoveBox ==
  /\ step = "remove"
  /\ \/ /\ box' = "removed" /\ Goto("events") /\ files' = files \union {"cleanup"}
        /\ UNCHANGED <<failure, fault>>
     \/ Notes("cleanup-failure", "events") /\ fault' = TRUE /\ UNCHANGED box
  /\ UNCHANGED <<cid, workerSettled, recorderSettled, absent, boxOk, job, recorderJob,
                 stopFile, spans>>
  /\ DriverKeeps

\* no destructive cleanup without quiescence
LeaveBox ==
  /\ step = "clean" /\ ~(cid /\ Quiescent) /\ Goto("events")
  /\ UNCHANGED <<failure, cid, workerSettled, recorderSettled, absent, boxVars, job,
                 recorderJob, stopFile, files, history>>
  /\ DriverKeeps

WriteEvents ==
  /\ step = "events"
  /\ files' = files \union {"events"} \union (IF Quiescent THEN {} ELSE {"quarantine"})
  /\ Goto(IF failure THEN "end" ELSE "checkpoint")
  /\ UNCHANGED <<failure, cid, workerSettled, recorderSettled, absent, boxVars, job,
                 recorderJob, stopFile, history>>
  /\ DriverKeeps

Checkpoint ==
  /\ step = "checkpoint" /\ files' = files \union {"checkpoint"} /\ Goto("end")
  /\ UNCHANGED <<failure, cid, workerSettled, recorderSettled, absent, boxVars, job,
                 recorderJob, stopFile, history>>
  /\ DriverKeeps

DriverKilled ==
  /\ step \notin {"end", "killed"} /\ Goto("killed") /\ fault' = TRUE
  /\ UNCHANGED <<failure, cid, workerSettled, recorderSettled, absent, boxVars, job,
                 recorderJob, stopFile, files, spans>>
  /\ DriverKeeps

(***************************************************************************)
(* The finalizer: it reads the files one after the other, whatever the     *)
(* driver is doing, and refuses when one is missing or says otherwise.     *)
(***************************************************************************)
FinGoes(p) ==
  /\ fin' = p
  /\ UNCHANGED <<driver, boxVars, procs, job, recorderJob, recorder, stopFile,
                 signalled, files, history>>
FinReads(from, fact, to) ==
  fin = from /\ FinGoes(IF fact THEN to ELSE "refused") /\ UNCHANGED output

ReadContext == FinReads("idle", "case" \in facts, "capture")

ReadCapture ==
  FinReads("capture", /\ state = "complete" /\ bag = "closed"
                      /\ {"events", "stopped", "cleanup"} \subseteq files
                      /\ boxOk, "identity")

\* mutant: the driver's checkpoint is not asked for
ReadIdentityBefore == FinReads("identity", "before" \in files, "bag")

ReadIdentity == FinReads("identity", {"checkpoint", "before"} \subseteq files, "bag")

\* the bag is the recorder's, and each absence was seen before the stop
ReadBag == FinReads("bag", absent = Workers \union {"recorder"}, "documents")

\* a fresh directory for the profile, the conformance result and the manifest
WriteDocuments ==
  /\ fin = "documents"
  /\ FinGoes(IF output THEN "refused" ELSE "project") /\ output' = TRUE

\* the derivation of the metrics and the recording's summary
Project == FinReads("project", TRUE, "copy")

\* every file is copied, the copy hashed and indexed
CopyEvidence == FinReads("copy", TRUE, "evaluate")

EvaluateCapture == FinReads("evaluate", TRUE, "evaluated")

FinSteps == {"capture", "identity", "bag", "documents", "project", "copy", "evaluate"}

\* an identity, digest or version differs, a command refuses, a file is not there
FinRefuses == fin \in FinSteps \union {"idle"} /\ FinGoes("refused") /\ UNCHANGED output

\* started again on what the last one left
FinAgain == fin = "refused" /\ FinGoes("idle") /\ UNCHANGED output

Driver ==
  \/ Create \/ StartBox \/ InspectBefore
  \/ \E w \in Workers : RunWorker(w) \/ AwaitWorker(w) \/ ProveWorker(w)
  \/ StartRecorder \/ AwaitReady \/ Recover \/ CreateStop \/ WriteStop
  \/ AwaitRecorder \/ ProbeRecorder \/ StopBox \/ RemoveBox \/ LeaveBox
  \/ WriteEvents \/ Checkpoint
Recorder ==
  \/ RecorderStarts \/ RecorderReady \/ RecorderStops \/ RecorderFails
  \/ RecorderCloses \/ RecorderReports \/ RecorderExits
Environment ==
  \/ BoxDies \/ RecorderDies \/ Signal \/ DriverKilled
  \/ \E w \in Workers : WorkerWritesFacts(w) \/ WorkerExits(w)
Finalizer ==
  \/ ReadContext \/ ReadCapture \/ ReadIdentity \/ ReadBag \/ WriteDocuments
  \/ Project \/ CopyEvidence \/ EvaluateCapture \/ FinRefuses \/ FinAgain

CaptureNext == Driver \/ Recorder \/ Environment \/ Finalizer

\* every await of the driver is a job with a timeout
CaptureSpec == CaptureInit /\ [][CaptureNext]_captureVars /\ WF_captureVars(Driver)

(***************************************************************************)
(* Properties.                                                             *)
(***************************************************************************)
\* Every variable stays in its range.
CaptureTypeOK ==
  /\ step \in {"create", "start", "inspect", "prepare", "case", "record", "ready",
               "recover", "request", "write", "drain", "probe", "clean", "remove",
               "events", "checkpoint", "end", "killed"}
       \union {AwaitStep[w] : w \in Workers} \union {ProveStep[w] : w \in Workers}
  /\ {failure, cid, workerSettled, recorderSettled, boxOk, failed, ready, signalled,
      output, fault, spans} \subseteq BOOLEAN
  /\ absent \subseteq Workers \union {"recorder"} /\ facts \subseteq Workers
  /\ box \in {"none", "created", "running", "exited", "removed"}
  /\ process \in [Workers -> {"none", "alive", "ok", "bad", "dead"}]
  /\ job \in {"none", "running", "ok", "bad", "lost"}
  /\ recorderJob \in {"none", "running", "ok", "bad", "lost"}
  /\ rec \in {"none", "start", "starting", "recording", "closing", "closed",
              "reported", "exited", "died"}
  /\ why \in {"none", "stop", "signal", "torn", "error"}
  /\ state \in {"absent", "incomplete", "failed", "complete"}
  /\ bag \in {"none", "open", "closed"}
  /\ stopFile \in {"absent", "created", "written"}
  /\ files \subseteq {"before", "stopped", "cleanup", "events", "checkpoint", "quarantine",
                     "acquisition-quarantine", "drain-refusal", "cleanup-failure"}
  /\ fin \in FinSteps \union {"idle", "refused", "evaluated"}

\* The driver takes a running container away only when no worker and no
\* recorder is left in it, however their jobs ended.
StoppedQuiet ==
  [][box = "running" /\ box' = "exited" /\ step' # step =>
       Alive = {} /\ ~RecorderAlive]_captureVars

\* What is evaluated, whenever the finalizer was started, comes from a capture
\* that ended well: both workers succeeded, the recorder closed its bag, the
\* container is gone, and the driver threw nothing.  Unless a signal stopped
\* it, the recorder was recording for as long as the case ran.
EvaluatedWhole ==
  fin = "evaluated" =>
    /\ \A w \in Workers : process[w] = "ok"
    /\ rec = "exited" /\ bag = "closed" /\ ~failed
    /\ box = "removed" /\ ~failure
    /\ why = "stop" => spans

\* A capture in which nothing failed is checkpointed.  The one exception is
\* the stop request that the recorder finds created and not yet written.
CleanCheckpointed ==
  step = "end" /\ ~fault => "checkpoint" \in files \/ why = "torn"

\* What a driver that ran to its end leaves behind, container or process, has
\* a file that says so, and no checkpoint.
LeftoverTold ==
  step = "end" /\ (box \notin {"none", "removed"} \/ Alive # {} \/ RecorderAlive) =>
    /\ {"quarantine", "acquisition-quarantine", "cleanup-failure"} \intersect files # {}
    /\ "checkpoint" \notin files

\* The files the driver leaves at its end say how the capture ended; nothing
\* leaves its kind.
CheckpointTrue ==
  /\ CaptureTypeOK
  /\ CleanCheckpointed
  /\ LeftoverTold

\* Whatever hangs or is lost, the driver comes to its end.
DriverEnds == <>(step \in {"end", "killed"})
=============================================================================
