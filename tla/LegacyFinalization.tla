------------------------- MODULE LegacyFinalization -------------------------
(***************************************************************************)
(* host/src/plugins/legacy-finalization with its two workers               *)
(* collect_inventory.py and export_retained.py: from the opening of the    *)
(* measurement to the qualification of the retained bytes.  Files are      *)
(* numbers, equal when their bytes are; a file that is rewritten gets      *)
(* bytes that were in no file before.  RunOwner (package                   *)
(* @robotics-runtime/host) calls the hooks in their order, keeps the run   *)
(* when one throws, and then takes exports by retryExport.                 *)
(***************************************************************************)
EXTENDS GazeboRosV1

CONSTANTS Attempts,      \* the admitted export plans: 0 is the run's own, the others are issued
          MaxEdits       \* bound on the files rewritten by others

ASSUME BoundsAssumption == 0 \in Attempts /\ MaxEdits \in Nat

VARIABLES marker,        \* the file measurementCompletePath
          seal,          \* the file *.completed-result.json of the run's own plan
          sealRef,       \* this.completedResultRef
          att,           \* the files of each export attempt
          exported,      \* what the successful export handed to RunOwner
          aggregate,     \* the aggregate document and its validation
          post,          \* containers of the postprocessing project are left
          qualified,     \* what qualifyAfterCleanup returned
          edits          \* files rewritten so far

exportVars == <<att, exported>>
sealVars == <<seal, sealRef>>
afterVars == <<aggregate, post, qualified>>
vars == <<box, foreign, providerVars, source, host, marker, sealVars, exportVars, afterVars, edits>>

None == "none"
Original == 1            \* the bytes a file was first given
File == 0 .. MaxEdits + 2
Inventory == [Payloads -> File]

\* The canonical verdict of a result document.
Verdict(bytes) == IF bytes % 2 = 1 THEN "passed" ELSE "failed"

\* _exit_verdict: exit 0 says passed, exit 1 anything else.
ExitAgrees(exit, verdict) == exit = (IF verdict = "passed" THEN "exit0" ELSE "exit1")

\* The seal; read is not in the file, it records what the validation read.
NoSeal == [gen |-> Gone, inv |-> NoDoc, result |-> Gone, verdict |-> None, exit |-> None, read |-> NoDoc]
NoAttempt == [plan |-> NoDoc, args |-> Gone, dir |-> FALSE, kept |-> NoDoc, manifest |-> NoDoc]
NoExport == [done |-> FALSE, attempt |-> 0, refs |-> NoDoc, args |-> Gone]
NoAggregate == [gen |-> Gone, verdict |-> None, valid |-> Gone]

Init ==
    /\ box = [s \in Services |-> "none"]
    /\ foreign = "none"
    /\ acquired = FALSE /\ simId = FALSE /\ startupReady = FALSE
    /\ outcome = [released |-> FALSE, error |-> FALSE]
    /\ source = NoDoc
    /\ host = [pc |-> "start", todo |-> {}, inv |-> NoDoc, seen |-> NoDoc, obs |-> None,
               attempt |-> 0, judged |-> Gone, raw |-> Gone, late |-> FALSE, failed |-> FALSE]
    /\ marker = FALSE
    /\ seal = NoSeal /\ sealRef = Gone
    /\ att = [a \in Attempts |-> NoAttempt]
    /\ exported = NoExport
    /\ aggregate = NoAggregate /\ post = FALSE /\ qualified = None
    /\ edits = 0

------------------------------------------------------------------------------
\* beginMeasurement: the source runs, then instruments, recorders and the observer are started.
BeginMeasurement ==
    /\ host.pc = "begin"
    /\ \/ Running("simulation") /\ Goto("instruments")
       \/ Throws
    /\ UNCHANGED <<box, foreign, providerVars, source>>

StartServices ==
    /\ \/ host.pc = "instruments" /\ Up({"instrument"}, "recorders")
       \/ host.pc = "recorders" /\ Up(Recorders, "observer")
       \/ host.pc = "observer" /\ Up({"observer"}, "look")
    /\ UNCHANGED <<foreign, providerVars, source>>

\* closeMeasurement polls: the observer first, then the source, then the marker.
LookAtObserver ==
    /\ host.pc = "look"
    /\ \/ host' = [host EXCEPT !.pc = "source", !.obs = box["observer"]]
       \/ Throws
    /\ UNCHANGED <<box, foreign, providerVars, source>>

LookAtSource ==
    /\ host.pc = "source"
    /\ \/ Running("simulation") /\ Goto("marker")
       \/ Throws
    /\ UNCHANGED <<box, foreign, providerVars, source>>

\* The marker decides, then the observer that was seen before it, then the deadline.
LookAtMarker ==
    /\ host.pc = "marker"
    /\ \/ marker /\ host' = [host EXCEPT !.pc = "stop", !.obs = None, !.late = FALSE]
       \/ ~marker /\ host.obs # "running" /\ Throws
       \/ ~marker /\ host.obs = "running" /\ host.late /\ Throws
       \/ ~marker /\ host.obs = "running" /\ ~host.late
            /\ host' = [host EXCEPT !.pc = "look", !.obs = None]
    /\ UNCHANGED <<box, foreign, providerVars, source>>

\* compose stop of a service and the look that it stopped; a stopped recorder may have failed.
StopInstruments ==
    /\ host.pc = "stop"
    /\ \/ /\ box' = [box EXCEPT !["instrument"] = IF @ = "running" THEN "exit0" ELSE @]
          /\ Goto("freeze")
       \/ Throws /\ UNCHANGED box
    /\ UNCHANGED <<foreign, providerVars, source>>

\* captureLastState freezes the stepper and asks the simulation for its last state.
FreezeStepper ==
    /\ host.pc = "freeze"
    /\ \/ /\ box' = [box EXCEPT !["stepper"] = IF @ = "running" THEN "exit0" ELSE @]
          /\ Goto("last")
       \/ Throws /\ UNCHANGED box
    /\ UNCHANGED <<foreign, providerVars, source>>

LastState ==
    /\ host.pc = "last"
    /\ \/ Running("simulation") /\ host' = [host EXCEPT !.pc = "drain", !.todo = Recorders]
       \/ Throws
    /\ UNCHANGED <<box, foreign, providerVars, source>>

\* drainRecorders: each recorder is stopped and must have exited cleanly.
Drain ==
    /\ host.pc = "drain"
    /\ \E s \in host.todo, end \in {"exit0", "broken"} :
          /\ box' = [box EXCEPT ![s] = IF @ = "running" THEN end ELSE @]
          /\ IF box'[s] = "exit0"
               THEN host' = [host EXCEPT !.todo = @ \ {s},
                                         !.pc = IF host.todo = {s} THEN "finalize" ELSE "drain"]
               ELSE Throws
    /\ UNCHANGED <<foreign, providerVars, source>>

\* The metrics artifact and finalize of the evidence sink; the observer waits for the index.
FinalizeSink ==
    /\ host.pc = "finalize"
    /\ \/ Goto("await")
       \/ Throws
    /\ UNCHANGED <<box, foreign, providerVars, source>>

\* Mutant: the wait for the observer has no deadline.
AwaitObserverForever ==
    /\ host.pc = "await"
    /\ box["observer"] # "running"
    /\ host' = [host EXCEPT !.pc = "logs", !.obs = box["observer"], !.late = FALSE]
    /\ UNCHANGED <<box, foreign, providerVars, source>>

AwaitObserver ==
    /\ host.pc = "await"
    /\ \/ box["observer"] # "running" /\ host' = [host EXCEPT !.pc = "logs", !.obs = box["observer"], !.late = FALSE]
       \/ Running("observer") /\ host.late /\ Throws
    /\ UNCHANGED <<box, foreign, providerVars, source>>

\* The logs are written into the run's volume with flag wx, before the exit code is judged.
CaptureLogs ==
    /\ host.pc = "logs"
    /\ \/ /\ source["log"] = Gone
          /\ source' = [source EXCEPT !["log"] = Original]
          /\ IF host.obs \in {"exit0", "exit1"}
               THEN host' = [host EXCEPT !.pc = "collect", !.todo = Payloads]
               ELSE Throws
       \/ Throws /\ UNCHANGED source
    /\ UNCHANGED <<box, foreign, providerVars>>

Measure ==
    /\ \/ BeginMeasurement \/ StartServices \/ LookAtObserver \/ LookAtSource \/ LookAtMarker
       \/ StopInstruments \/ FreezeStepper \/ LastState \/ Drain \/ FinalizeSink \/ AwaitObserver
       \/ CaptureLogs
    /\ UNCHANGED <<marker, sealVars, exportVars, afterVars, edits>>

------------------------------------------------------------------------------
\* collect_inventory.py hashes one file after the other; a missing file ends it.
Reads(p, held) == IF source[p] = Gone THEN Throws ELSE host' = held

\* The next loop over the payloads starts at l.
Loop(l) == host' = [host EXCEPT !.pc = l, !.todo = Payloads]

Collect(at, next) ==
    /\ host.pc = at
    /\ \/ \E p \in host.todo : Reads(p, [host EXCEPT !.inv[p] = source[p], !.todo = @ \ {p}])
       \/ host.todo = {} /\ Loop(next)

\* verify_result: the verdict of the result as it is now must agree with the observer's exit.
JudgeResult ==
    /\ host.pc = "judge"
    /\ IF source["result"] # Gone /\ ExitAgrees(host.obs, Verdict(source["result"]))
         THEN host' = [host EXCEPT !.pc = "validate", !.judged = source["result"]]
         ELSE Throws

\* _full_validation reads every payload on its own; what it read is kept in seen.
Validate ==
    /\ host.pc = "validate"
    /\ \/ \E p \in host.todo : Reads(p, [host EXCEPT !.seen[p] = source[p], !.todo = @ \ {p}])
       \/ Throws
       \/ host.todo = {} /\ Loop("recheck")

\* Mutant: the payloads are not read again after the validation.
RecheckSkipped ==
    /\ host.pc = "recheck"
    /\ Goto("seal")

\* _check_payloads: the files have the digests that were collected.
Recheck ==
    /\ host.pc = "recheck"
    /\ \/ \E p \in host.todo : IF source[p] = host.inv[p] THEN host' = [host EXCEPT !.todo = @ \ {p}]
                                                          ELSE Throws
       \/ host.todo = {} /\ Goto("seal")

\* The seal is written exclusively, of what was collected.
WriteSeal ==
    /\ host.pc = "seal"
    /\ IF source["result"] = host.judged /\ seal.gen = Gone
         THEN /\ seal' = [gen |-> Original, inv |-> host.inv, result |-> host.judged,
                          verdict |-> Verdict(host.judged), exit |-> host.obs, read |-> host.seen]
              /\ Goto("remember")
         ELSE Throws /\ UNCHANGED seal
    /\ UNCHANGED sealRef

\* The host remembers the reference of the seal, and the hook ends.
RememberSeal ==
    /\ host.pc = "remember"
    /\ sealRef' = seal.gen
    /\ host' = [host EXCEPT !.pc = "export", !.attempt = 0, !.inv = NoDoc, !.seen = NoDoc,
                            !.obs = None, !.judged = Gone]
    /\ UNCHANGED seal

Seal ==
    /\ \/ /\ Collect("collect", "judge") \/ JudgeResult \/ Validate \/ Recheck
          /\ UNCHANGED sealVars
       \/ WriteSeal
       \/ RememberSeal
    /\ UNCHANGED <<box, foreign, providerVars, source, marker, exportVars, afterVars, edits>>

------------------------------------------------------------------------------
\* completedResult: the seal on disk is the one that is remembered.
SealIntact == seal.gen = sealRef

\* A seal that was rewritten may say anything.
SealSays(fact) == seal.gen # Original \/ fact

\* performExport, from the look at the seal.
BeginExport ==
    /\ host.pc = "export"
    /\ IF sealRef = Gone \/ SealIntact THEN Loop("inventory") ELSE Throws
    /\ UNCHANGED exportVars

\* Mutant: outputs that exist are written again.
WritePlanAgain ==
    /\ host.pc = "plan"
    /\ att' = [att EXCEPT ![host.attempt].plan = host.inv, ![host.attempt].args = Original]
    /\ Goto("mkdir")
    /\ UNCHANGED exported

\* The inventory as it is now must be the sealed one; plan and arguments are new files.
WritePlan ==
    /\ host.pc = "plan"
    /\ LET a == host.attempt
           same == seal.inv = host.inv
       IN  IF /\ sealRef # Gone => SealSays(same)
              /\ att[a].plan = NoDoc /\ att[a].args = Gone
             THEN /\ att' = [att EXCEPT ![a].plan = host.inv, ![a].args = Original]
                  /\ Goto("mkdir")
             ELSE Throws /\ UNCHANGED att
    /\ UNCHANGED exported

\* export_retained.py acquires a new directory, or ends without touching the old one.
MakeDirectory ==
    /\ host.pc = "mkdir"
    /\ IF att[host.attempt].dir
         THEN Throws /\ UNCHANGED att
         ELSE att' = [att EXCEPT ![host.attempt].dir = TRUE] /\ Loop("copy")
    /\ UNCHANGED exported

\* The bytes that are copied must have the digest the plan has.
CopyPayload ==
    /\ host.pc = "copy"
    /\ LET a == host.attempt IN
       \/ \E p \in host.todo :
             IF source[p] # Gone /\ source[p] = att[a].plan[p]
               THEN /\ att' = [att EXCEPT ![a].kept[p] = source[p]]
                    /\ host' = [host EXCEPT !.todo = @ \ {p}]
               ELSE Throws /\ UNCHANGED att
       \/ host.todo = {} /\ Goto("manifest") /\ UNCHANGED att
       \/ Throws /\ UNCHANGED att          \* export-incomplete.json
    /\ UNCHANGED exported

WriteManifest ==
    /\ host.pc = "manifest"
    /\ att' = [att EXCEPT ![host.attempt].manifest = att[host.attempt].plan]
    /\ Loop("compare")
    /\ UNCHANGED exported

\* The host hashes what is retained and compares it with the manifest.
CompareRetained ==
    /\ host.pc = "compare"
    /\ LET a == host.attempt IN
       \/ \E p \in host.todo : IF att[a].kept[p] = att[a].manifest[p]
                                 THEN host' = [host EXCEPT !.inv[p] = att[a].kept[p], !.todo = @ \ {p}]
                                 ELSE Throws
       \/ host.todo = {} /\ Goto("accept")
    /\ UNCHANGED exportVars

\* The last look at the seal, and the retained result against it; then RunOwner may tear down.
AcceptExport ==
    /\ host.pc = "accept"
    /\ LET a == host.attempt
           same == att[a].kept["result"] = seal.result
       IN  IF sealRef = Gone \/ (SealIntact /\ SealSays(same))
             THEN /\ exported' = [done |-> TRUE, attempt |-> a, refs |-> host.inv,
                                   args |-> IF a = 0 THEN att[a].args ELSE Gone]
                  /\ host' = [host EXCEPT !.pc = "cleanup", !.inv = NoDoc]
             ELSE Throws /\ UNCHANGED exported
    /\ UNCHANGED att

\* RunOwner.retryExport with an admitted attempt, or with a callback that keeps diagnostics only.
RetryExport ==
    /\ host.pc = "retained"
    /\ \/ \E a \in Attempts : startupReady /\ host' = [host EXCEPT !.pc = "export", !.attempt = a]
       \/ Goto("cleanup")
    /\ UNCHANGED exportVars

Export ==
    /\ \/ BeginExport \/ WritePlan \/ MakeDirectory \/ CopyPayload \/ WriteManifest
       \/ CompareRetained \/ AcceptExport \/ RetryExport
       \/ Collect("inventory", "plan") /\ UNCHANGED exportVars
    /\ UNCHANGED <<box, foreign, providerVars, source, marker, sealVars, afterVars, edits>>

------------------------------------------------------------------------------
\* RunOwner's completion: the error of a hook stays in it, whatever a retry achieved.
CompletionPassed == ~host.failed /\ exported.done /\ outcome = [released |-> TRUE, error |-> FALSE]

\* A throw in qualifyAfterCleanup goes through the cleanup of the postprocessing project.
QualifyThrows == host' = [host EXCEPT !.pc = "postclean", !.failed = TRUE, !.todo = {}, !.judged = Gone]

\* Mutant: the outcome of the cleanup is not asked for.
AdmitAnyCompletion ==
    /\ host.pc = "completed"
    /\ IF sealRef # Gone /\ SealIntact /\ exported.args # Gone /\ att[0].args = exported.args
         THEN Goto("aggregate")
         ELSE QualifyThrows
    /\ UNCHANGED afterVars

\* aggregateAfterCleanup: the completion, the seal and the arguments are those of the export.
AdmitCompletion ==
    /\ host.pc = "completed"
    /\ IF /\ CompletionPassed
          /\ sealRef # Gone /\ SealIntact
          /\ exported.args # Gone /\ att[0].args = exported.args
         THEN Goto("aggregate")
         ELSE QualifyThrows
    /\ UNCHANGED afterVars

\* A worker of the postprocessing project may be left behind when its job fails.
WorkerFails == /\ QualifyThrows
               /\ post' \in BOOLEAN
               /\ UNCHANGED <<aggregate, qualified>>

\* The public aggregate of the retained result; exit 0 or 1, both are completed assessments.
Aggregate ==
    /\ host.pc = "aggregate"
    /\ \/ /\ att[0].kept["result"] # Gone
          /\ \E verdict \in {"passed", "failed"} :
                /\ Verdict(att[0].kept["result"]) = "failed" => verdict = "failed"
                /\ aggregate' = [gen |-> Original, verdict |-> verdict, valid |-> Gone]
                /\ host' = [host EXCEPT !.pc = "bindAggregate",
                                         !.obs = IF verdict = "passed" THEN "exit0" ELSE "exit1"]
          /\ UNCHANGED <<post, qualified>>
       \/ WorkerFails

\* verify_aggregate: arguments and result are the sealed ones, the exits agree with the verdicts.
BindAggregate ==
    /\ host.pc = "bindAggregate"
    /\ LET same == /\ att[0].args = Original
                   /\ att[0].kept["result"] = seal.result
                   /\ ExitAgrees(seal.exit, seal.verdict)
           kept == att[0].kept["result"]
       IN  \/ /\ SealSays(same) /\ kept # Gone
              /\ aggregate.gen # Original \/ ExitAgrees(host.obs, aggregate.verdict)
              /\ host' = [host EXCEPT !.pc = "checkPayloads", !.todo = Payloads,
                                       !.judged = kept, !.raw = aggregate.gen]
              /\ UNCHANGED afterVars
           \/ WorkerFails

CheckSealed(at, next) ==
    /\ host.pc = at
    /\ \/ \E p \in host.todo :
             LET same == att[0].kept[p] = seal.inv[p]
             IN  \/ SealSays(same) /\ host' = [host EXCEPT !.todo = @ \ {p}] /\ UNCHANGED afterVars
                 \/ ~(seal.gen = Original /\ same) /\ WorkerFails
       \/ host.todo = {} /\ Loop(next) /\ UNCHANGED afterVars

\* The validation with the aggregate, and both documents read once more after it.
ValidateAggregate ==
    /\ host.pc = "validateAggregate"
    /\ \/ /\ aggregate.gen = host.raw /\ att[0].kept["result"] = host.judged
          /\ Loop("checkAgain")
          /\ UNCHANGED afterVars
       \/ WorkerFails

WriteValidation ==
    /\ host.pc = "writeValidation"
    /\ aggregate' = [aggregate EXCEPT !.valid = host.raw]
    /\ host' = [host EXCEPT !.pc = "compareAggregate", !.todo = {}, !.judged = Gone]
    /\ UNCHANGED <<post, qualified>>

\* The aggregate on disk must be the one that was validated.
CompareAggregate ==
    /\ host.pc = "compareAggregate"
    /\ IF aggregate.gen = aggregate.valid THEN Goto("publish") ELSE QualifyThrows
    /\ UNCHANGED afterVars

\* package-artifacts, create-statement, the signature and verify-bundle.
Publish ==
    /\ host.pc = "publish"
    /\ \/ Goto("postclean") /\ UNCHANGED afterVars
       \/ WorkerFails

\* cleanupPostprocess runs in any case, and only without an error are references returned.
CleanupPostprocess ==
    /\ host.pc = "postclean"
    /\ \/ /\ post' = FALSE
          /\ qualified' = IF host.failed THEN None ELSE aggregate.verdict
       \/ post' = post /\ UNCHANGED qualified
    /\ Goto("end")
    /\ UNCHANGED aggregate

Qualify ==
    /\ \/ AdmitCompletion \/ Aggregate \/ BindAggregate
       \/ CheckSealed("checkPayloads", "validateAggregate")
       \/ ValidateAggregate
       \/ CheckSealed("checkAgain", "writeValidation")
       \/ WriteValidation \/ CompareAggregate \/ Publish \/ CleanupPostprocess
    /\ UNCHANGED <<box, foreign, providerVars, source, marker, sealVars, exportVars, edits>>

------------------------------------------------------------------------------
\* The observer marks the end of the measurement while it runs ...
ObserverMarks ==
    /\ Running("observer") /\ ~marker
    /\ marker' = TRUE
    /\ UNCHANGED <<box, source>>

\* ... and writes its result and exits with it, or fails, at any time.
ObserverEnds ==
    /\ Running("observer")
    /\ \/ /\ marker
          /\ \E bytes \in {1, 2}, exit \in {"exit0", "exit1"} :
                /\ source' = [source EXCEPT !["result"] = bytes]
                /\ box' = [box EXCEPT !["observer"] = exit]
       \/ box' = [box EXCEPT !["observer"] = "broken"] /\ UNCHANGED source
    /\ UNCHANGED marker

\* The poll's deadline.
Deadline ==
    /\ host.pc \in {"look", "source", "marker", "await"} /\ ~host.late
    /\ host' = [host EXCEPT !.late = TRUE]
    /\ UNCHANGED <<box, foreign, providerVars, source, marker, sealVars, exportVars, afterVars, edits>>

Observer ==
    /\ ObserverMarks \/ ObserverEnds
    /\ UNCHANGED <<foreign, providerVars, host, sealVars, exportVars, afterVars, edits>>

\* Another program rewrites a file between two steps of the host.
Fresh == edits + 3
Edit ==
    /\ edits < MaxEdits
    /\ edits' = edits + 1
    /\ \/ /\ \E p \in Payloads : source[p] # Gone /\ source' = [source EXCEPT ![p] = Fresh]
          /\ UNCHANGED <<seal, att, aggregate>>
       \/ /\ \E a \in Attempts, p \in Payloads :
                att[a].kept[p] # Gone /\ att' = [att EXCEPT ![a].kept[p] = Fresh]
          /\ UNCHANGED <<source, seal, aggregate>>
       \/ /\ \E a \in Attempts : att[a].args # Gone /\ att' = [att EXCEPT ![a].args = Fresh]
          /\ UNCHANGED <<source, seal, aggregate>>
       \/ /\ seal.gen # Gone /\ seal' = [seal EXCEPT !.gen = Fresh]
          /\ UNCHANGED <<source, att, aggregate>>
       \/ /\ aggregate.gen # Gone /\ aggregate' = [aggregate EXCEPT !.gen = Fresh]
          /\ UNCHANGED <<source, seal, att>>
    /\ UNCHANGED <<box, foreign, providerVars, host, marker, sealRef, exported, post, qualified>>

Engine ==
    /\ \/ \E s \in {"simulation", "stepper"} \cup Recorders : Ends(s)
       \/ ForeignAppears
    /\ UNCHANGED <<marker, sealVars, exportVars, afterVars, edits>>

Provider ==
    /\ Start \/ Cleanup
    /\ UNCHANGED <<marker, sealVars, exportVars, afterVars, edits>>

\* require: a job that fails, passes its deadline or is canceled ends the hook.  A loop that
\* only reads leaves nothing behind wherever it is cut, so it is cut after its last round.
JobFails ==
    /\ host.pc \in {"judge", "seal", "remember", "export", "plan", "mkdir", "accept"}
    /\ Throws
    /\ UNCHANGED <<box, foreign, providerVars, source, marker, sealVars, exportVars, afterVars, edits>>

HostStep == Provider \/ Measure \/ JobFails \/ Seal \/ Export \/ Qualify

Done == host.pc = "end" /\ UNCHANGED vars

Next == HostStep \/ Observer \/ Deadline \/ Edit \/ Engine \/ Done

Spec == Init /\ [][Next]_vars

FairSpec == Spec /\ WF_vars(HostStep) /\ WF_vars(Deadline)

------------------------------------------------------------------------------
Labels == {"start", "up", "bind", "prepare", "clock", "stepper", "readiness", "again", "begin", "instruments",
           "recorders", "observer", "look", "source", "marker", "stop", "freeze", "last", "drain", "finalize",
           "await", "logs", "collect", "judge", "validate", "recheck", "seal", "remember", "export",
           "inventory", "plan", "mkdir", "copy", "manifest", "compare", "accept", "retained", "cleanup",
           "owned", "down", "verify", "completed", "aggregate", "bindAggregate", "checkPayloads",
           "validateAggregate", "checkAgain", "writeValidation", "compareAggregate", "publish",
           "postclean", "end"}

HostState ==
    [pc : Labels, todo : SUBSET (Payloads \cup Recorders), inv : Inventory, seen : Inventory, obs : BoxState,
     attempt : Attempts, judged : File, raw : File, late : BOOLEAN, failed : BOOLEAN]
SealDocument ==
    [gen : File, inv : Inventory, result : File, verdict : {None, "passed", "failed"}, exit : BoxState,
     read : Inventory]
ExportState == [done : BOOLEAN, attempt : Attempts, refs : Inventory, args : File]
AggregateFile == [gen : File, verdict : {None, "passed", "failed"}, valid : File]
AttemptFiles == [plan : Inventory, args : File, dir : BOOLEAN, kept : Inventory, manifest : Inventory]

\* The state is of its kinds, and a retained file lies in a directory its attempt made.
TypeOK ==
    /\ box \in [Services -> BoxState]
    /\ foreign \in {"none", "there", "late"}
    /\ {acquired, simId, startupReady, marker, post} \subseteq BOOLEAN
    /\ outcome \in [released : BOOLEAN, error : BOOLEAN]
    /\ source \in Inventory
    /\ host \in HostState
    /\ seal \in SealDocument
    /\ sealRef \in File
    /\ att \in [Attempts -> AttemptFiles]
    /\ \A a \in Attempts : att[a].kept # NoDoc => att[a].dir
    /\ exported \in ExportState
    /\ aggregate \in AggregateFile
    /\ qualified \in {None, "passed", "failed"}
    /\ edits \in 0 .. MaxEdits

\* verify_result seals only what its validation read: the sealed digests are those of the bytes that
\* were validated, whatever was rewritten meanwhile; the verdict agrees with the observer's exit, and
\* the recorders had drained cleanly.
SealValidated ==
    seal.gen # Gone =>
        /\ seal.inv = seal.read
        /\ seal.result = seal.inv["result"] /\ seal.verdict = Verdict(seal.result)
        /\ ExitAgrees(seal.exit, seal.verdict)
        /\ \A r \in Recorders : box[r] \in {"exit0", "none"}

\* performExport of a sealed run, first or retried, hands over references of the sealed bytes and of
\* no others: the run may be torn down because the validated evidence is in retained storage.
ExportSealed ==
    exported.done /\ sealRef = Original => exported.refs = seal.inv

\* qualifyAfterCleanup returns only for a run in which no hook failed, that exported by its own plan
\* what was sealed and was verifiably removed; it calls passed only what was sealed as passed, unless
\* both the seal and the retained result were rewritten since; and leaves no postprocessing container.
QualifiedTrue ==
    qualified # None =>
        /\ ~host.failed /\ ~post
        /\ outcome = [released |-> TRUE, error |-> FALSE]
        /\ exported.done /\ exported.attempt = 0
        /\ sealRef = Original =>
              /\ exported.refs = seal.inv
              /\ qualified = "passed" =>
                   \/ seal.verdict = "passed"
                   \/ seal.gen # Original /\ att[0].kept["result"] # seal.result

\* What leaves the run, exported or qualified, is what was sealed; nothing leaves its kind.
EvidenceTrue ==
    /\ TypeOK
    /\ ExportSealed
    /\ QualifiedTrue

\* "Partial attempts are never overwritten" (workers/legacy-finalization/README.md): what an attempt
\* planned, copied and declared complete stays, though its token can be used again.
AttemptsKept ==
    [][\A a \in Attempts :
          /\ att[a].plan # NoDoc => att'[a].plan = att[a].plan
          /\ att[a].manifest # NoDoc => att'[a].manifest = att[a].manifest
          /\ edits' = edits => \A p \in Payloads :
                att[a].kept[p] # Gone => att'[a].kept[p] = att[a].kept[p]]_vars

\* A container of another run that carries the project's label is removed only by compose down, and
\* only when it came after the ownership of the project was observed: then --remove-orphans takes it
\* (foreign = "late"), for nothing looks again.  As long as another run's container is there, whenever
\* it came, the run is not released and never qualified.
ForeignSpared ==
    /\ [][foreign # "none" /\ foreign' = "none" => host.pc = "down" /\ foreign = "late"]_vars
    /\ [](foreign # "none" => ~outcome.released /\ qualified = None)

\* No hook waits for ever, for the marker, the observer or a file: the host comes back to the point
\* where the run is retained, or to the end.
HooksEnd == []<>(host.pc \in {"retained", "end"})
=============================================================================
