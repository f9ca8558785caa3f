# A verification of robotics-runtime-infra

TLA+ models of the parts of robotics-runtime-infra in which something can go wrong that a test hardly reaches: concurrent
shells over shared files, a host and a worker that talk through marker files, process groups that do not die when told
to, evidence that is rewritten while it is hashed, clocks that are heard late, jobs that are interrupted or run twice. Paths below are relative to
the root of the repository.

- [The system](#the-system)
- [Modules and how they correspond to the code](#modules-and-how-they-correspond-to-the-code)
- [Runs](#runs)
- [Bounds](#bounds)
- [Fairness](#fairness)
- [Proofs](#proofs)
- [Findings and observations](#findings-and-observations)
- [Not modelled](#not-modelled)
- [Plan](#plan)
- [How to run it](#how-to-run-it)

`tlc -workers 2 -config X.cfg M` model-checks, `tlapm M.tla` checks proofs. `PROJECT.json` lists components, runs,
hazards, theorems, a mutant for every property, and for every definition the lines it models.

## The system

The repository builds and runs robot simulations and attachments to physical robots, and produces evidence about them
that somebody else can verify later. Three kinds of programs do that.

**In containers.** The *evidence sink* watches a spool directory, registers recorded segments and artifacts, uploads
them to a versioned object store, binds verified receipts and publishes an evidence index. *Permit preflight* checks a
signed execution permit against a policy and consumes its nonce, before anything may observe a physical robot. The
*Isaac* and *Webots workers* hold a simulator paused, let it run a finite episode and report. Simulation control, runtime
metrics, last-state capture and probes are ROS nodes or short Python programs.

**On the host.** The TypeScript *host* has one plugin per provider (Gazebo, Isaac, Webots, PX4). A run owner calls the
plugin's hooks: start, ready, measure, export, cancel, and a tracked cleanup that must say whether it really removed
everything. The *legacy finalization* adds to the Gazebo provider the measurement, the sealing of the evidence, the
export with retries and the qualification after the cleanup.

**In CI.** Shell programs attach to a physical host (*physical attach*), run the acceptance of the foundation, and
promote released images.

| Component | State | Operations | Interacts by | Hard because | Correct when |
| --- | --- | --- | --- | --- | --- |
| evidence sink | registrations, receipts, verifications, inventory, index, objects, spool | watch, segment, artifact, receipt, finalize | files that every command shares, without a lock; object store | commands race, are killed between two `mv`, files change while they are uploaded | the index names only what is retained, once; nothing is deleted before |
| its high-water marks | two state files | observe_spool, update_max_state | the same | look and replace are two steps | the marks never fall |
| permit preflight, execution policy | nonce store, output directory | three authorize commands, materialize-runtime | shared nonce store, cosign, OPA | sessions race for a nonce; killed and restarted; times at their boundaries | a nonce authorizes once, and only what was signed |
| physical attach | host lock, devices, network, template, report, replay store | run_setup ... finalize_run, cleanup | the host's kernel, Engine, flock | signals anywhere; nine teardowns may fail; retries overlap | the report appears only over a clean host; no one else's things are touched |
| Isaac provider and worker | phase, markers, paused state, result, error | launch, ready, measure, export, cancel, cleanup; boot, paused phases, episode | files in a shared directory; Compose | cancel at any await; marker half written; worker dies | cancel is never lost or overtaken; a clean cleanup was one |
| Webots worker and provider | three process groups, markers, two results | launcher loop, controller, ready, measure, export, stop | files, signals, process groups | a root ends before its group; deadline against late report | accepted measurements are complete; reaped means gone |
| Gazebo provider | containers of a project, ownership | start, cleanup, verifyCleanup | Compose, Engine | others may use the project's name | another run's container is spared |
| legacy finalization and workers | seal, plans, export attempts, aggregate | four hooks, retried export, qualifyAfterCleanup | files on volumes, containers, retained storage | files change between hash and validation; export fails half way | only validated bytes are sealed, exported, qualified; no hook hangs |
| simulation control, cohort reset probe | clock samples, service futures, control state | verify, step_and_wait, reset probe | ROS services and `/clock` | samples are lost and late, a state is taken after the answer | what passes keeps to the interfaces, and is measured from the true time |
| runtime metrics | message windows, counters | callbacks, timer, measurements | ROS topics | callbacks interleave with the timer; zero and single samples | rates, gaps and latencies as defined |
| PX4 provider and example | phase, telemetry, mission | launch, measure, cleanup, flight, abort | Compose, MAVLink | abort against arrival, deadlines | a failed flight is never reported as flown |
| foundation acceptance | containers, evidence, exit status | prepare, start, drain, finalize, tear down | Compose, traps | traps at any line | the verdict survives the teardown |
| release promotion | tags in a registry | prepare plan, promote candidates, promote immutable tags | registry | jobs overlap and are retried | an immutable tag never moves |
| legacy workers, ROS cohort retention | a last state | capture, observe, prepare | ROS services, files | the reset destroys what must be captured first | the last state is the one before the reset |
| provider qualification, qualification helpers, time evidence, policies | documents | compare, aggregate, package | files | boundaries | as the schema and policy say |
| sensor inference probe | bounded queue | subscription, inference | ROS | queue at its limit | drops are counted |
| Navigation worker and evaluator | goal, futures, streams, report; verdict | prepare, the four cases; evaluate | ROS action, services, topics | result against cancel and deadline; samples that are old when observed | a passed case did happen; worker and evaluator agree |
| Navigation capture: driver, recorder, finalizer | container, jobs, recorder, retained files | create, prepare, record, case, stop, remove, checkpoint; finalize | Engine commands, files, signals | a command that failed may have taken effect; clients die before their processes | only whole captures are evaluated; what is left is told |
| playback: preparation, runner, provider | source capture, retained copies, native reports | check, copy, decode, publish; play; bind the result | files that are read several times | a file changes between its check and its copy, or while a program has it open | what is retained was signed; the result is about what was played |
| runtime manifest, Kubernetes binding, Isaac admission, other integration scripts, provisioning | none that changes, or written once | one pass over inputs | files, cluster | little | as compared |

What can go wrong is listed, line by line, under `hazards` in `PROJECT.json`, with the property that would notice.

## Modules and how they correspond to the code

Every module starts with what it covers and which sources it reads. An action is one indivisible step of the code: what
lies between two calls that another process can observe or come in between. Crash, kill and interruption are actions of
their own. Data is abstracted to what the properties distinguish: bytes are model values or numbers, a digest is the
bytes it was taken from, a document is a record of the fields that somebody compares.

**EvidenceSink** (`docker/evidence-sink/evidence-sink`, `receipt-inputs.py`, `retained-artifact.py`). `job[p]` is one
process with its shell variables. `Start` begins watch, segment, artifact, receipt or finalize; the scan
(`HashSegment`, `SkipUnclosed`, `RejectSegment`, `ScanDone`), the upload (`RcloneCompare`, `RclonePut`, `RcloneCheck`,
`HeadObject`), the look for an existing registration and its publication, the two `mv` of `register_receipt`
(`PublishBinding`, `PublishReceipt`), and the snapshot, inventory, index and deletion of `finalize` are steps of their own. Nothing locks, so
every pair of steps of two processes may interleave. `remote` keeps a sequence of versions for every object key, as a
versioned bucket does. `Record` is the recorder that closes a segment, `Rewrite` somebody who changes a file, and
`VerifyRetained` the independent verifier whose document a receipt carries. The store and signature verification are
external.

**SpoolState** (same shell, `observe_spool` and `update_max_state`): a scan reads times and sizes one by one, compares
with the state file and replaces it.

**PermitPreflight** (`docker/permit-preflight/*`, `policy/execution.rego`, the mounts of `compose.edge-attach.yaml`).
`session[s]` is a run of the preflight with a case (permit, statement, request, bundles) and an output directory.
`VerifyRoles` is cosign for both roles, `Decide` the evaluation of every deny rule (`Allowed`), `ConsumeNonce` the
`mkdir` that only one caller survives, `PublishVerification` the `mv` into place, `ReadDocuments` and `PublishManifest`
materialize-runtime. `Tick` is the clock, `Stop` a kill anywhere.

**PhysicalAttach** (`scripts/ci/physical-attach.sh` and its three parts). `Script` is the script from `run_setup` to
`finalize_run` as rows: *create* is the command that puts something on the host, *flag* the assignment that makes
cleanup responsible, *identify* the one that records what cleanup compares, *name* the one that makes cleanup look. A
row is a step, any row may fail and a signal may arrive between any two. `TearDown` goes through the nine teardowns,
`CheckResidue` looks again, `PublishReport`, `ConfirmReport` and `ReleaseHostLock` end the run.

**IsaacEpisode** (`host/src/plugins/isaac-provider/index.ts`, `workers/isaac/native-observe.py`). Host variables are the
plugin's fields plus where its call, its cancel and its cleanup are between two awaits; the output directory is a set of
files; the worker is a program counter, a phase, a step count and an exit code. A marker is *absent*, *empty* or
*whole*, because `writeFile` with `wx` creates before it writes.

**WebotsWorker** (`workers/webots/launcher.py`, `native_controller.py`, `common.py`,
`host/src/plugins/webots-provider/index.ts`). `group[g]` tells a group with its root from one without (*orphans*), the
difference `reap` is about. Launcher, controller and provider step independently; Xvfb, Webots and the controller
may end, lose their root or ignore a signal at any time.

**GazeboRosV1** (`host/src/plugins/gazebo-ros-v1/index.ts`) and **LegacyFinalization**, which extends it
(`host/src/plugins/legacy-finalization/*.ts`, `host/workers/legacy-finalization/*.py`). The host is one event loop, so
`host.pc` is one label. Collecting, validating, copying and checking go file by file over `todo`. `Edit` rewrites a
payload, a retained file, the arguments of a plan, the seal or the aggregate between any two steps; a rewritten file has other bytes, and a rewritten
document may say anything (`SealSays`). `Engine` ends containers and puts another run's container into the project, at
the points after which the host looks again.

**NavWorkload** (`examples/nav2-turtlebot3/workload.py` and `evaluator/.../__init__.py`). The worker is single threaded:
everything it learns it learns in `spin_once`, so what has happened (`server`, `goal`, `ack`, `robot`) and what was
observed (`futures`, `seen`, `report`) are different variables, and any time may lie between. `pc` is the place in
`run_case`; each wait ends by what it waits for, by its deadline, or by a refusal. Positions are two places, a message is
its stamp. `Evaluate` is the consumer's verdict on the report.

**NavCapture** (`native-check.mjs`, `record-topics.py`, `finalize.py`). Every command of the driver is a step that may take
effect and fail, fail without effect, or do both as wanted; `cid`, `workerSettled`, `recorderSettled` and `absent` are what
the driver believes, `box`, `process`, `rec` what is. The recorder leaves its loop for a request, a signal, a failure or a
limit (`why`) and its last report (`state`) is the temporary file that is moved into place. The finalizer reads the retained files one after the
other and may be started at any time. Its `CaptureInit`, `CaptureNext` and `CaptureSpec` carry the name of the capture because
`NavigationProofs` extends the workload too.

**SimulationControl** (`ros_ws/.../simulation_control.py`, `host/workers/ros-cohort-review/reset.py`). `Script` lists the
calls of each program in their order; an action is a call, or a sample that a spin delivers. A service call spins until
its answer is there (`Services`), a wait for the clock spins in its loop (`ClockWaits`); nothing else hears samples. The
client knows `view`, a sample of the clock and its `age`; `clock`, `state` and `coasting` are the simulator's. `fault` chooses one of eleven ways
not to keep to the interfaces; `before` remembers the true clock at the last step request. A spin may deliver a sample as
old as the window of `wait_for_quiescent_clock`, or none (`Hears`), and the wait then returns a reading that says nothing of the
present: `stale` remembers that this has happened (`Settled`), and the properties that need a standing clock are about
executions in which it has not.

**Playback** (`prepare-playback-inputs.py`, `verify-mcap-playback.sh`, `create-playback-provider.py`). `Script` lists the
readings and writings of the three programs in their order, one file each (`Each`); `pc` is the entry that comes next, and
every action is one operation of the script but `Edit`, `Rewrite` and `Retry`. `Decoded` is `prepare` up to the comparison of the counts, `Prepare` all of it with
the documents it then writes, and `Provided` what the provider finds. A file is the version of its bytes, *restated* a summary that is another and still names the signed recording; `Edit` changes,
removes or restores one between any two readings, and `Rewrite` a retained copy while a native program has it open. Its
`PlaybackInit`, `PlaybackNext` and `PlaybackSpec` carry the name of the module because `AdmissionProofs` extends the preflight too.

**PermitLedger** is the abstract specification of the preflight: `spent` says for which permit a nonce was spent,
`authorized` how often a nonce has authorized, which is never more than once. `PermitPreflight!Ledger` instantiates it with
`nonces` and `grants`.

**EvidenceSinkProofs**, **AdmissionProofs** (of the preflight and of the playback), **PhysicalAttachProofs**,
**WebotsWorkerProofs**, **IsaacEpisodeProofs**, **LegacyFinalizationProofs**, **NavigationProofs** (of the workload and
of the capture) and **SimulationControlProofs** hold theorems and proofs. **MC...** modules hold constants for TLC. Operators named for a bug (`OwnershipByLabel`, `RecheckSkipped`,
`AwaitObserverForever`, ...) stand before the definition they mutate; no specification uses them.

## Runs

| Run | Shows |
| --- | --- |
| `sink_rewrite` | Two shells upload one segment whose bytes are rewritten twice, in both storage modes; one takes receipts, the other finalizes. What the index calls retained is in the store under that version and digest (`RetainedVerified`); no index names a segment twice although two registrations may appear (`UniqueIndexes`); the inventory beside the index, which may be newer than it, leads to a receipt for the same retained bytes whatever was received since (`InventoryServes`); a source goes only after the index is out (`DeletedOnlyRetained`). |
| `sink_watch` | One process that watches, registers an artifact, takes receipts and finalizes in turn, and may be killed. A watcher registers every closed admissible segment (`WatchRegisters`, liveness); finalize leaves no segment out that was in the spool when it began (`NoSegmentLeftOut`). |
| `spool_pair` | *Violation* of `LargestKept`. Two scanners lose the larger mark. |
| `permit_gate` | Two sessions that share an output directory, killed and restarted, race with good, late, wrongly signed, unlogged and offline cases: `NonceOnce`, `ConsumedOnlySigned` and the refinement `LedgerKept`; an observer runs only after its own nonce was spent and beside documents that were earned (`ObserverAuthorized`); a verification is replaced only by a session that had looked before it was there (`OutputStands`). |
| `attach_pair` | A run and its retry with the same time evidence overlap on a host on which the site may have resources of the same names; signals, kills and failing teardowns anywhere. What its report and exit status say of the host is so (`OutcomeTrue`); `OneAtATime`, `EvidenceOnce`, `LockGivenBack`, `OthersUntouched`. |
| `isaac_episode` | Calls, cancel, cleanup and worker interleave over their files. The world steps only after it was seen paused and alive (`StepsOnlySeen`); a cancel that came first wins and one that came too early is not lost (`CancelWins`), and one that is written ends the worker (`CancelHeeded`, liveness); a cleanup without errors was one (`CleanupTrue`). |
| `webots_worker` | Accepted measurements are complete and reaped means gone (`ResultTrue`), a cancel that came first stops every step (`ForestalledNoStep`), and the worker ends (`WorkerEnds`, liveness). |
| `legacy_run` | One run from start to qualification with rewritten files, failing jobs, retried exports and a project that others use: only validated bytes are sealed (`SealValidated`), only sealed ones exported and qualified (`EvidenceTrue`); `AttemptsKept`, `ForeignSpared`, and `HooksEnd` (liveness). |
| `nav_workload` | A worker in every mode against an action server that rejects, finishes, cancels, aborts, answers late or never. What the evaluator passes did happen to the goal and the robot, and where worker and evaluator differ is what is listed (`VerdictTrue`); the worker reports in the end (`WorkerEnds`, liveness). |
| `nav_capture` | Driver, container, workers, recorder and finalizer interleave while commands fail after taking effect, clients and processes die and the driver is killed. Only a capture that recorded the whole case is evaluated (`EvaluatedWhole`); a capture in which nothing failed is checkpointed, and what is left behind is told (`CheckpointTrue`); the box is never stopped over a live producer (`StoppedQuiet`); the driver ends (`DriverEnds`, liveness). |
| `sim_control` | The conformance check, the stepping loop and the reset probe against a simulator that conforms and eleven that do not. What passes verify keeps to the interfaces, what passes the reset probe was reset, and a conforming simulator is not refused (`VerdictTrue`); between its rounds the stepping loop knows the time of a conforming simulator (`StepKnowsTime`), and every measurement starts from the true time and not from a late sample (`MeasuredFromTruth`). What rests on a clock that was seen to stand is claimed until a reading as old as the window is taken for one (`stale`); without that condition the run finds `deaf`, `short` and `partial` simulators passed, a conforming one refused, and a stepping loop with a wrong time. |
| `playback` | Two recordings, and two changes anywhere. What is retained has the signed bytes unless it was changed in one window (`swapped`), the dataset refers to what was decoded, and the inputs appear complete (`PreparedTrue`); the result is bound to what was played (`ResultBound`), and no output directory is used twice (`OutputFresh`). |

A property that is a conjunction names its parts in the module, with a comment for each; where the types of a module are not
proved, `TypeOK` is one of them.

Every passing run also has mutants: for each property one definition is replaced by the form a plausible bug would give
it, and the property fails. That is the evidence that the property depends on the code.

## Bounds

- `sink_rewrite`: 2 shells, 1 segment, 2 contents, 2 rewrites, 2 receipts, both modes. A race about an upload, and one
  about an index, needs two processes and one key; two receipts, so that one may replace the other while the other shell
  finalizes; two rewrites are the least that change a file away and back
  again. Deletion is confirmed, so the last phase is reached. The two contents are interchangeable (`SYMMETRY`): both are admissible, and every property is symmetric in
  them.
- `sink_watch`: two segments (one may hold up the other), an artifact, one inadmissible content (a scan that ends
  early), one receipt and one rewrite, one process, since the liveness question is about what one scan skips. A kind is
  not started twice in a row, so that the commands alternate.
- `permit_gate`: 3 commands, 2 nonces, 2 targets, clock to 3, longest lifetime 1: every comparison of times is met from
  below, at its boundary and from above. Two sessions, because the races for the store and
  for a directory are pairwise; one directory is used by both, another by one of them. The theorems drop this bound.
- `attach_pair`: two runs and the site. Everything the scripts compare is about one other owner. The theorem about the
  lock drops the bound.
- `isaac_episode`, `webots_worker`: 3 and 2 steps, so that a cancel falls before, between and after steps.
- `legacy_run`: two payloads (the result, which the host itself compares, and one that only the workers do), one
  recorder, the run's own plan and one retry token that may be used again, one rewrite. One
  rewrite is enough to make any two digests that the code compares differ, at every point; a rewritten file always has
  new bytes, so the run says nothing about a file that is changed and changed back. The theorems drop the bound on rewrites.
- `nav_workload`: clock to 5, budgets between 1 and 3 in the order the command line admits, one stream beside the pose,
  one message asked of it. Every comparison of the evaluator is met on both sides; a goal can end before, at and after
  each budget. The clock's end is no deadline: a deadline that lies beyond it is met at it. The theorem drops these bounds but the
  clock's end, which may be any number.
- `nav_capture`: one capture with its two workers; deadlines are not counted, whatever has one may meet it any time.
- `sim_control`: samples up to two ticks late, or none, against a stability window of two, two steps per request, a timeout
  of four, clock to 8: so a sample may be younger than the window, or as old.
- `playback`: two recordings and their summaries, since the ones that follow are treated like the second; two changes,
  the least that change a file and restore it, or a recording together with its summary.
- `spool_pair`: two scanners, two files, sizes to 2, clock to 2.

Deadlock checking is off where programs end by design (all but `legacy_run`, which has an explicit `Done`).

## Fairness

No run assumes more than that a process which is not killed executes.

- `sink_watch`: WF of each process's step. `inotifywait` returns at least every `EVIDENCE_RESCAN_INTERVAL_SEC`, so a
  watcher does not sleep for ever. Kills remain possible; `WatchRegisters` promises nothing about a killed watcher.
- `isaac_episode`: WF of the worker's step. The host is not assumed to do anything, and no deadline is assumed to
  pass: the cancel alone ends the worker.
- `webots_worker`: WF of the launcher's step and of the deadline, which is a comparison with the monotonic clock. Of
  Xvfb, Webots, the controller and the provider nothing is assumed; signals may be ignored.
- `nav_workload`: WF of the worker's step and of the clock. The action server, the robot and the topics owe nothing.
- `nav_capture`: WF of the driver's step; every command of it has a timeout, after which it is killed and has failed. The
  container, its processes and the recorder owe nothing.
- `legacy_run`: WF of the host's step and of the deadline (`performance.now()`). The observer, the containers and the
  files owe nothing.

## Proofs

All theorems hold for every value of the constants that satisfies the named assumptions of the module: any number of
processes, sessions, runs, files, contents and rewrites.

| Theorem | Says | Inductive argument |
| --- | --- | --- |
| `EvidenceSinkProofs!TypeCorrect` | `Spec => []TypeOK` | `TypeInv`: `TypeOK`, and for each process, by phase, which of its variables are set (`JobSet`). Without it a publication from an unset variable could not be excluded. |
| `EvidenceSinkProofs!IndexTrue` | `Spec => []RetainedVerified` | `SoundInv` follows a digest on its way: a verification is about a version that holds its bytes (`VerifiedSound`), so is the receipt that a command has staged (`JobSound`), so is a published receipt (`ReceiptSound`), so are the entries a finalization has collected (`JobSound` again) and the index (`RetainedVerified`). It is preserved because versions of an object are only appended, whoever races. |
| `EvidenceSinkProofs!IndexesUnique` | `Spec => []UniqueIndexes` | `DraftInv`: what a finalization has drafted names an index once, because its snapshot was refused if two registrations had one, and an entry is added only for a registration that is still to be added (`Drafted`). |
| `EvidenceSinkProofs!SegmentsComplete` | `Spec => []NoSegmentLeftOut` | `AccountInv`: a segment that was in the spool when the finalization began is still to be scanned, held by the scan, or accounted for by a registration of one of its indexes; registrations and the memory of files are never taken back (`Kept`). |
| `EvidenceSinkProofs!DeletionsRetained` | `OneFinalizer => (Spec => DeletedOnlyRetained)` | `OrderInv`: while a finalization deletes, the published index is its own. That is so only as long as no second process finalizes (see below). |
| `EvidenceSinkProofs!InventoryAlwaysServes` | `OneFinalizer => (Spec => []InventoryServes)` | `BindInv`: what a command publishes at a path is for that path's index and bytes; a registration with a retained version is confirmed, because only an upload learns one, so that binding a receipt keeps it confirmed. `ServeInv`: what a snapshot has confirmed stays so, unless replaced by a local registration, so a later snapshot has all that an earlier index retained, and the inventory made of it lists that too; receipts are never removed. |
| `AdmissionProofs!TypeCorrect` | `Spec => []TypeOK` | by phase of each session |
| `AdmissionProofs!NonceUsedOnce` | `Spec => []NonceOnce` | `NonceOwned`: of the sessions between `ConsumeNonce` and `PublishVerification` no two have the same nonce, that nonce is in the store, and nothing was granted for it yet; a nonce that is not in the store has no grant. A kill gives up ownership and never returns the nonce. |
| `AdmissionProofs!SignedConsumed` | `Spec => []ConsumedOnlySigned` | `SignedInv`: what a session carries past `Decide` was allowed with verified log inclusion (`Decided`), and `AllowedSigned`: the deny rules together imply `Signed`. |
| `AdmissionProofs!ImplementsLedger` | `Spec => LedgerKept` | A step of the preflight is a step of the ledger or leaves it alone (`NextLedger`): all actions that touch neither store nor grants leave it alone; there remain `ConsumeNonce`, which spends a nonce that nobody spent for one of `SignedPermits` (`SignedInv`), and `PublishVerification`, which authorizes one that is spent and, by `NonceOwned`, has not authorized. |
| `AdmissionProofs!ObserversAuthorized` | `Spec => []ObserverAuthorized` | `DocumentsInv`: whatever lies in a directory or is about to be put there was earned, and stays so because nonces are not given back (`StillEarned`). `BackedInv`: a session that is not `disturbed` finds in its directory nothing until it publishes, then its own verification, then its own manifest (`Backed`). |
| `AdmissionProofs!OutputsStand` | `Spec => OutputStands` | the first part of `BackedInv`: where a session publishes that is not `disturbed` there is nothing |
| `AdmissionProofs!PlaybackTypeCorrect` | `PlaybackSpec => []PlaybackTypeOK` | with `Applied`: every operation of the script is applied to a file it may be for |
| `AdmissionProofs!PreparedAlwaysTrue` | `PlaybackSpec => []PreparedTrue` | see below |
| `AdmissionProofs!ResultAlwaysBound` | `PlaybackSpec => []ResultBound` | `PlayedInv`: what was listed, played, referred to and compared again, each from the entry on that does it. A rewritten copy never gets its bytes back, so a file that equals its listed hash at `publish` was not rewritten when it was played. |
| `AdmissionProofs!OutputAlwaysFresh` | `PlaybackSpec => OutputFresh` | `CopiesInv`: past `mkdir` an attempt has made its output (`made = "now"`); `Retry` starts the script again. |
| `PhysicalAttachProofs!TypeCorrect` | `Spec => []TypeOK` | the rows of the script |
| `PhysicalAttachProofs!OneRunAtATime` | `Spec => []OneAtATime` | `LockInv`: before its first row a run has nothing on the host; past it, and whenever it still acts and has something there, it holds the lock. The lock has one holder. |
| `PhysicalAttachProofs!LockComesBack` | `Spec => []LockGivenBack` | inductive with `TypeOK` as it stands; a step of a run that goes on keeps the lock with its holder or takes it (`GoesOnWithLock`) |
| `PhysicalAttachProofs!EvidenceServesOnce` | `Spec => []EvidenceOnce` | `EarnedInv`: a run that is past the row that makes the token, has a report pending, or is confirming, releasing or over with status 0 has made its token, and of the runs with the same evidence one made it. |
| `PhysicalAttachProofs!OutcomeAlwaysTrue` | `Spec => []OutcomeTrue` | `ToldInv`: in every phase and row, what a run has on the host lies within its flags, the names that cleanup looks up and the teardowns that are still to come (`Told`), up to the two things of `LeftoversTold`. |
| `PhysicalAttachProofs!SparesOthers` | `Spec => OthersUntouched` | `HostFree`: between the row that looks for a foreign device or template and the row that makes one there is none; with the comparisons of the teardowns, whatever is removed is the run's own. |
| `WebotsWorkerProofs!TypeCorrect` | `Spec => []TypeOK` | as it stands |
| `WebotsWorkerProofs!ForestalledNeverSteps` | `Spec => []ForestalledNoStep` | `MarkersInv`: a step needs the measure marker, and a run that was forestalled keeps its cancel marker and has no step. |
| `WebotsWorkerProofs!ResultAlwaysTrue` | `Spec => []ResultTrue` | `ReportInv` carries *completed* back from the native result to the report and the last step; `ReapInv`: of a launcher that reaped successfully every group that exists is one it has still to reap; `ClaimsInv` carries both on to the result and to the host. |
| `IsaacEpisodeProofs!TypeCorrect` | `Spec => []TypeOK` | `TypeInv`: with the types, which calls may run in which phase (`LaunchInv`) and how far the worker may have stepped (`StepInv`) |
| `IsaacEpisodeProofs!OnlySeenSteps` | `Spec => []StepsOnlySeen` | `SeenInv`: a start marker, whole or not, is of a host that has seen the pause, and every step is behind a start marker. |
| `IsaacEpisodeProofs!CancelAlwaysWins` | `Spec => []CancelWins` | `CancelInv`: of a forestalled run the cancel marker is whole and the worker does not reach its result; an early cancel is remembered until it is passed on. |
| `IsaacEpisodeProofs!CleanupAlwaysTrue` | `Spec => []CleanupTrue` | `CleanupInv`: exit 0 is of a worker that has retained its result and no error (`ExitInv`), and a cleanup at its last step without errors has seen that exit, or never a worker (`FinalInv`). |
| `LegacyFinalizationProofs!TypeCorrect` | `Spec => []TypeOK` | `TypeInv`: with the types, over which files the loops go (`TodoInv`) and that copies go to a directory that is there (`PlaceInv`) |
| `LegacyFinalizationProofs!OnlyValidatedSealed` | `Spec => []SealValidated` | `SealInv`. A rewritten file has newer bytes, so what the steps of the seal have read of a payload only grows from reading to reading (`ReadsInv`, `JudgedInv`); the last reading is compared with the first, so all between them agree. The recorders have drained before (`DrainedInv`), the observer is gone (`SilentInv`), and there is no seal yet (`OrderInv`). |
| `LegacyFinalizationProofs!EvidenceHolds` | `Spec => []EvidenceTrue` | `EvidenceInv`: a plan made under the seal that was written is of the sealed digests, and what an attempt has compared so far agrees with it (`PlanInv`); a qualification that goes on is of the completed first attempt (`AdmittedInv`); an aggregate that passed is of a result that passed, unless the retained result is not the sealed one (`VerdictInv`). |
| `LegacyFinalizationProofs!NothingOverwritten` | `Spec => AttemptsKept` | `AttemptInv`: what an attempt has still to write is not there, and an attempt without a directory has declared nothing. |
| `LegacyFinalizationProofs!OthersSpared` | `Spec => ForeignSpared` | `SparedInv`: the host is at `compose down` only after it has seen that nobody else's container is there. `ReleasedInv`: only the verification of the cleanup calls a run released, and only when no container is left; `EvidenceHolds` carries that on to the qualification. |
| `NavigationProofs!TypeCorrect` | `Spec => []TypeOK` | as it stands |
| `NavigationProofs!VerdictHolds` | `Spec => []VerdictTrue` | `Reaching` follows the worker to its decision: the goal as the server has it (`GoalInv`), no time ahead of the clock and the robot after the start (`TimeInv`), the trigger when it is due (`TriggerInv`), the cancel asked for once so that its answer is not replaced (`AskInv`), enough messages counted (`SeenInv`), the stages after the result in order (`ArrivalInv`). `ClaimInv`: a complete report is the decision of some moment between the last observation and the report's end, about things that no longer move (`DecidedAt`). The evaluator computes the same from that report, unless it got late. |
| `NavigationProofs!CaptureTypeCorrect` | `CaptureSpec => []CaptureTypeOK` | part of `CaptureInv` (`Flags`, `CaptureKinds`) |
| `NavigationProofs!EvaluatedAlwaysWhole` | `CaptureSpec => []EvaluatedWhole` | `ProgressInv`: a driver that has thrown nothing has, at each step, what the steps before were there for, and at the end workers and recorder that ended well and a container that is gone. That rests on what its jobs and proofs of absence say of the processes (`JobInv`, `SettledInv`) and on the order of the recorder's states (`RecorderInv`). A checkpoint is of such a driver at its end (`LeftInv`), and a finalizer past the identity has seen it (`FinalizerInv`). |
| `NavigationProofs!CheckpointAlwaysTrue` | `CaptureSpec => []CheckpointTrue` | `FaultInv`: whatever is thrown comes of a fault or of the request that was read empty, and before `recover` nothing is thrown yet. `LeftInv`: each way past `clean` with something left has written its file. |
| `NavigationProofs!StoppedAlwaysQuiet` | `CaptureSpec => StoppedQuiet` | `SettledInv`: who counts as settled was seen gone or never started, and of actions only `StopBox`, which asks for both, ends the container at a step of the driver. |
| `SimulationControlProofs!TypeCorrect` | `Spec => []TypeOK` | as it stands, with the place of each call in its program (`Where`) |
| `SimulationControlProofs!VerdictAlwaysTrue` | `Spec => []VerdictTrue` | `WatchInv`: while a clock is watched, each sample that may still be heard is of a clock that stands for good, or as many ticks beyond the last reading as the clock had time for; so a reading that stays for longer than it is old is the present time (`SettlesStill`); all that follows from it is kept while `stale` is FALSE (`FreshInv`). `VerifyInv` follows the true clock and the steps that are left from there to the measurement, `NoticedInv` says before which call each fault is noticed; `PartialInv`, `IdleInv` and `FlagsInv` do so for the reset probe; for a conforming simulator no check fails (`ConformingMeasures`). |
| `SimulationControlProofs!StepAlwaysKnowsTime` | `Spec => []StepKnowsTime` | `LoopInv`: the clock and the steps that are left add up to where the round leads, and the client's reading is never ahead of the clock (`MonoInv`). A reading of just that value leaves no steps. The samples of a round may be as late as they like; the one reading before the first round must have been younger than its window (`~stale`). |
| `SimulationControlProofs!MeasuredAlwaysFromTruth` | `Spec => MeasuredFromTruth` | without another controller by `VerifyInv`. With one, the first reading is not after the request, and the reading that is measured is of a time after all requested steps (`StepWatchInv`, `WatchInv` counted from the request): if they are as far apart as the steps, nothing moved in between. Both readings must have been younger than their windows (`~stale`). |

The playback's invariants speak of places in a script that is as long as the capture has recordings. First the script
is taken apart (`Ordered`): its blocks have turns that only rise, `bytes` is at once followed by its `compare`, and each
entry that is waited for (`Required`) is in it; `JoinedParts` puts the blocks together. `Done(op, f)` says that an entry
was executed, `Passed` that every required entry of an earlier turn was, and `Moved` how one step changes that.
`PlaybackInv` is then, by turn: what the copies are expected to be is the signed bytes, except of schemas and of members that are
`swapped` (`FilesInv`, `SwappedInv`); a copy equals it as soon as it is compared, still does before the decoding, and in the decoding is rewritten at
worst, which the second hash finds, for the bytes do not come back (`CopiesInv`); a document that was written is there,
and `playback-inputs.json`, whose place is the last of `Prepare`, comes after all others and after the offset was checked
(`WritingInv`); the moment it is written gives `PreparedInv`, which nothing disturbs. `PreparedTrue` alone is not
inductive: it says nothing before that moment.

Assumptions are in the modules that declare the constants, and TLC evaluates them in every run. They say of what kind a
constant is and no more: files and indexes are numbers, segments are no artifacts and every file has an index, cases
and principals are of their kinds (`ConstantsAssumption`), the null value is no document, site, status or phase
(`NoneAssumption`, `DocumentsAssumption`, `StepsAssumption`), an episode has steps, the roles of the containers differ and
the observer is no recorder (`RolesAssumption`), the result and the observer's log are payloads (`PayloadsAssumption`), attempt 0
is the run's own (`BoundsAssumption`), and the worker's time limits are positive, the trigger before the action's end
(`ParametersAdmitted`, as the command line demands). `ControlAssumption` relates two windows as the
code does: the reset probe collects (0.6 s) for no less time than `wait_for_quiescent_clock` wants a clock to stand (0.25 s). It
also demands that samples are explored to at least that age, so that ones that are too old occur.
`PlaybackAssumption` says that a capture has a recording and that the changes by others are bounded by some number.

One hypothesis is stated in the theorems that need it. `OneFinalizer`: of all processes one may finalize, as in
`compose.evidence.yaml`, where `evidence-finalize` is one one-shot service. Two that finalize at once publish inventory
and index in an order of their own. The run `sink_rewrite` has it.

The Navigation capture has no constants, so that its run is the whole of it; what its proofs add is the reason, in
`CaptureInv`, why the answers of commands that may have failed are enough for what the driver concludes from them.

Only model-checked: the refutation in `spool_pair`, and liveness. Liveness (`WatchRegisters`, `CancelHeeded`,
`WorkerEnds`, `HooksEnd`, `DriverEnds`) stays with TLC: the proof system has neither ENABLED nor fairness. It cannot do induction over data either, so no
statement about what a recursive definition computes for every input is attempted.

## Findings and observations

One run shows that the code does not do what the repository says of it; `findings` quotes both sides: in `spool_pair`,
`update_max_state` compares and replaces without a lock, and a maximum can fall.

Seen while modelling, and modelled as the code does it:

- `write_registration` of the sink looks for an index and then publishes, without a lock. Two commands can leave two
  registrations of one index, and from then on every finalize refuses; no wrong index comes of it (`UniqueIndexes`).
- The receipt inventory lists paths. A receipt that is taken again after `finalize` has read the first one, and before
  or after the index is published, replaces the file at its path: the digest by which the index names its receipt is
  then not that of the file the inventory leads to. What lies there is still a receipt for the same retained bytes
  (`InventoryServes`).
- A command in local mode that races with an upload of the same file can replace its confirmed registration by a local
  one, and the next inventory omits what the published index calls retained (`replaced`, excepted in `InventoryServes`).
- Isaac's host markers are created before they are written, while the worker parses what it finds: a worker may fail
  over the start marker itself.
- Webots may end, as the controller has asked it to, before the controller's root has; the launcher calls that an error
  although the measurement was complete.
- The Navigation evaluator lists *server-unavailable* as an accepted outcome, but it and the finalizer ask for the
  response of GetResult, which such a worker has not: that case never passes (`VerdictsAgree`, a part of `VerdictTrue`, names it).
- The Navigation worker accepts an AMCL pose as arrival's that may be older than its request for a no-motion update.
- `goal_started_ns` is read before the deadline is set, so at the boundary the worker completes a goal that the
  evaluator finds beyond its budget. Likewise a pose that was fresh when the worker decided may be stale by
  `finished_ns`, which is what the evaluator counts from (`Late` in `VerdictsAgree`).
- A Navigation recorder that is stopped by a signal in the middle of a case still reports *complete*; nobody reads
  `stop_reason`. Such a capture can be evaluated, and `EvaluatedWhole` excepts it from what it says of the recorded time.
- `stop.json` can be read while it is still empty, which fails a capture that was good.
- Journals may be 32 MiB where `derive-otlp` reads 16, and recordings 64 MiB where the harness reads 16.
- `step_and_wait` does not wait for the clock to stand still after a step, as `verify` does: a simulator that overshoots
  slowly passes, so `StepKnowsTime` is about one that keeps to the interfaces.
- A simulation that ends by itself with status 0 after the recorder was seen gone passes for one that was stopped:
  `docker wait` gives the same status. The capture was complete by then, and `EvaluatedWhole` holds of it.
- One segment that the sink refuses ends the watcher with its scan, and what is closed afterwards is registered only when the
  service is started again; `WatchRegisters` is about a watcher that goes on.
- `wait_for_quiescent_clock` cannot tell a clock that stands from one whose samples do not arrive. If none is delivered for
  0.25 s, or only samples that old, it returns the last one as the time at which the simulator stands. The model has
  this behaviour: it sets `stale`, after which `VerdictTrue` says only what needs no standing clock (features, full
  resets), and `StepKnowsTime` and `MeasuredFromTruth` say nothing. DDS does not promise that it does not happen.
- The reset probe keeps at most 20000 samples: at 1 kHz a reset that takes more than 20 s is not seen.
- `prepare-playback-inputs.py` hashes recordings and summaries once more after it has compared them with the signed
  digests, and looks a summary up by the recording's digest that it names. A recording that is replaced in between together with its
  summary is retained, and so is another summary alone, if it still names the recording. `swapped` remembers which members were changed in
  that window, and `RetainedSigned` says that no others can differ.
- The player's provider configuration is bound to nothing before it is loaded, and the runner's copies are not compared
  with the dataset's manifest.
- A signal between the start of socat, or the installation of the template, and the flag after it leaves that one thing
  behind with a status other than 70. `LeftoversTold` names these two as its exception.
- The serial bridge inherits the lock's descriptor. The explicit unlock at the end is what gives the lock back; after a
  kill the lock lives as long as the bridge (`LockGivenBack`).
- `prepare_report_destination` removes the old report before the lock is taken.
- The output of the permit gate is tested at the start and moved at the end, and the default directory is the same for
  all: a session that looked before another published replaces its verification, and an observer may start beside
  documents that are somebody else's. `disturbed` remembers to whom this may happen; for all others `OutputStands` and
  `ObserverAuthorized` say that it does not, and for everybody that the documents were earned and the nonce spent.
- The Webots result does not look at the controller's exit code, only at its report.
- A cancel before Isaac's boot ends the worker with exit 2 and no error fact. A cleanup that is retried fails at
  rewriting the release marker.
- One path registered under two indexes, one local and one uploaded, can be removed although one entry lists it as local.
- A container of another run that arrives between the look at the ownership and `compose down` is removed with the
  orphans, and the run is called released. `ForeignSpared` says that this is the only time at which one is removed (`foreign = "late"`),
  and that one which is left keeps the run from being released and qualified.
- The host reads the seal, looks at the digest of the result in it, and only then builds the aggregate, for which
  `collect_inventory.py` reads the seal from disk once more, without a digest. A seal and a retained result that are
  both rewritten in between pass `verify_aggregate`, with the verdict that the rewritten seal gives. `QualifiedTrue` excepts that
  (it takes two rewrites, so `legacy_run` does not reach it; the theorem does).
- Two `finalize` at once may publish one's index beside the other's inventory, and delete by an index that has just
  been replaced. The compose file has one.
- A run exported by a retry cannot be qualified afterwards; the finalization's README says so.
- The finalization's README asks for a clean exit of the observer; the code accepts exit 1 with a failed verdict.

## Not modelled

- Formats, schemas, digests' syntax, path portability, logging: data that no property here tells apart. Where a check on
  them can only make a step fail, the step may fail.
- Of the modelled programs: the Navigation journal, graph rows and identities; images, Compose models and the timeout
  fixture of the playback runner; edits by others of the files that the Navigation finalizer reads.
- cosign, OPA, Docker Engine, Compose, the object store, ROS, the simulators: external. They are modelled by the
  answers the code reckons with.
- The components listed as `not_modelled` in `PROJECT.json`, with a reason each: declarative configuration, single
  passes over documents, and the parts that the plan has not reached.

## Plan

Done: evidence sink, permit preflight with its ledger, physical attach, Isaac, Webots, Gazebo with the legacy
finalization, the Navigation example, simulation control with the reset probe, playback; the theorems above.

Next, in this order:

1. *Abstract specifications*: a write-once evidence index for the sink; a seal for the legacy finalization.
2. *Release promotion*: look-then-create of immutable tags by jobs that overlap and are retried; a tag never moves, a
   promoted set is complete.
3. *PX4 provider and flight*: the provider's life cycle composed with the flight, abort against arrival, deadlines.
4. *Foundation acceptance*: the shell with its traps, and the order drain, finalize, tear down.
5. *Runtime metrics, provider qualification, policies*: as operators over small sequences against reference definitions.
6. *Sensor inference queue, last state, time evidence*.

## How to run it

    tlc -workers 2 -config sink_rewrite.cfg MCEvidenceSink
    tlapm EvidenceSinkProofs.tla

The module of each run is in `PROJECT.json`. Each run takes between seconds and about two and a half minutes on two
workers.
