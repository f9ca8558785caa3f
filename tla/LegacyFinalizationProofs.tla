----------------------- MODULE LegacyFinalizationProofs -----------------------
(***************************************************************************)
(* What holds of the legacy finalization for any number of recorders,      *)
(* payloads, attempts and rewritten files: only what was validated is      *)
(* sealed, only what was sealed is exported and called passed, and no      *)
(* attempt is overwritten.                                                 *)
(***************************************************************************)
EXTENDS LegacyFinalization, TLAPS

-----------------------------------------------------------------------------
(* The host's record, and how the actions change it.                       *)

\* All that a change of the label leaves as it was.
Stays(l) == host' = [pc |-> l, todo |-> host.todo, inv |-> host.inv, seen |-> host.seen,
                     obs |-> host.obs, attempt |-> host.attempt, judged |-> host.judged,
                     raw |-> host.raw, late |-> host.late, failed |-> host.failed]

LEMMA GotoKeeps ==
  ASSUME host \in HostState, NEW l \in Labels, Goto(l)
  PROVE  host' \in HostState /\ Stays(l)
  BY DEF Goto, HostState, Stays

\* A throw keeps the attempt and the error, and forgets what the loops held.
Forgets == host' = [pc |-> "retained", todo |-> {}, inv |-> NoDoc, seen |-> NoDoc, obs |-> host.obs,
                    attempt |-> host.attempt, judged |-> host.judged, raw |-> host.raw,
                    late |-> FALSE, failed |-> TRUE]

LEMMA NoDocTyped == NoDoc \in Inventory /\ Gone \in File /\ Original \in File
  BY BoundsAssumption DEF NoDoc, Inventory, Gone, File, Original

LEMMA ThrowsForgets ==
  ASSUME host \in HostState, Throws
  PROVE  host' \in HostState /\ Forgets
  BY NoDocTyped DEF Throws, Retained, HostState, Forgets, Labels

\* A loop starts with all payloads.
Starts(l) == host' = [pc |-> l, todo |-> Payloads, inv |-> host.inv, seen |-> host.seen,
                      obs |-> host.obs, attempt |-> host.attempt, judged |-> host.judged,
                      raw |-> host.raw, late |-> host.late, failed |-> host.failed]

LEMMA LoopStarts ==
  ASSUME host \in HostState, NEW l \in Labels, Loop(l)
  PROVE  host' \in HostState /\ Starts(l)
  BY DEF Loop, HostState, Starts

\* What the loops and the jumps change, a field at a time.
SameRest == /\ host'.attempt = host.attempt /\ host'.late = host.late /\ host'.failed = host.failed
SameReads == host'.inv = host.inv /\ host'.seen = host.seen
SameSight == host'.obs = host.obs /\ host'.judged = host.judged /\ host'.raw = host.raw

Round(p) == host'.pc = host.pc /\ host'.todo = host.todo \ {p} /\ SameRest /\ SameReads /\ SameSight

LEMMA RoundFields ==
  ASSUME host \in HostState, NEW p, host' = [host EXCEPT !.todo = @ \ {p}]
  PROVE  host' \in HostState /\ Round(p)
  BY DEF HostState, Round, SameRest, SameReads, SameSight

InvRound(p, f) ==
  /\ host'.pc = host.pc /\ host'.todo = host.todo \ {p} /\ SameRest /\ SameSight
  /\ host'.inv[p] = f /\ \A q \in Payloads \ {p} : host'.inv[q] = host.inv[q]
  /\ host'.seen = host.seen

LEMMA InvFields ==
  ASSUME host \in HostState, NEW p \in Payloads, NEW f \in File,
         host' = [host EXCEPT !.inv[p] = f, !.todo = @ \ {p}]
  PROVE  host' \in HostState /\ InvRound(p, f)
<1>1. host' \in HostState
  BY DEF HostState, Inventory
<1>2. host.inv \in [Payloads -> File]
  BY DEF HostState, Inventory
<1> QED BY <1>1, <1>2 DEF HostState, InvRound, SameRest, SameSight

SeenRound(p, f) ==
  /\ host'.pc = host.pc /\ host'.todo = host.todo \ {p} /\ SameRest /\ SameSight
  /\ host'.seen[p] = f /\ \A q \in Payloads \ {p} : host'.seen[q] = host.seen[q]
  /\ host'.inv = host.inv

LEMMA SeenFields ==
  ASSUME host \in HostState, NEW p \in Payloads, NEW f \in File,
         host' = [host EXCEPT !.seen[p] = f, !.todo = @ \ {p}]
  PROVE  host' \in HostState /\ SeenRound(p, f)
<1>1. host' \in HostState
  BY DEF HostState, Inventory
<1>2. host.seen \in [Payloads -> File]
  BY DEF HostState, Inventory
<1> QED BY <1>1, <1>2 DEF HostState, SeenRound, SameRest, SameSight

\* A jump to l that looks at o.
Looks(l, o) == /\ host'.pc = l /\ host'.obs = o /\ SameReads /\ host'.todo = host.todo
               /\ host'.attempt = host.attempt /\ host'.failed = host.failed
               /\ host'.judged = host.judged /\ host'.raw = host.raw

LEMMA LooksFields ==
  ASSUME host \in HostState, NEW l \in Labels, NEW o \in BoxState,
         \/ host' = [host EXCEPT !.pc = l, !.obs = o]
         \/ host' = [host EXCEPT !.pc = l, !.obs = o, !.late = FALSE]
  PROVE  host' \in HostState /\ Looks(l, o)
  BY DEF HostState, Looks, SameReads

\* A loop over a set of recorders or payloads.
Begins(l, S) == host'.pc = l /\ host'.todo = S /\ SameRest /\ SameReads /\ SameSight

LEMMA BeginsFields ==
  ASSUME host \in HostState, NEW l \in Labels, NEW S \in SUBSET (Payloads \cup Recorders),
         host' = [host EXCEPT !.pc = l, !.todo = S]
  PROVE  host' \in HostState /\ Begins(l, S)
  BY DEF HostState, Begins, SameRest, SameReads, SameSight

Judged(f) == /\ host'.pc = "validate" /\ host'.judged = f /\ host'.obs = host.obs /\ SameReads
             /\ host'.todo = host.todo /\ SameRest /\ host'.raw = host.raw

LEMMA JudgedFields ==
  ASSUME host \in HostState, NEW f \in File, host' = [host EXCEPT !.pc = "validate", !.judged = f]
  PROVE  host' \in HostState /\ Judged(f)
  BY DEF HostState, Judged, SameRest, SameReads, Labels

Drains(s) == /\ host'.todo = host.todo \ {s}
             /\ host'.pc = IF host.todo = {s} THEN "finalize" ELSE "drain"
             /\ SameRest /\ SameReads /\ SameSight

LEMMA DrainsFields ==
  ASSUME host \in HostState, NEW s,
         host' = [host EXCEPT !.todo = @ \ {s}, !.pc = IF host.todo = {s} THEN "finalize" ELSE "drain"]
  PROVE  host' \in HostState /\ Drains(s)
  BY ZenonT(60) DEF HostState, Drains, SameRest, SameReads, SameSight, Labels

Accepted == /\ host'.pc = "cleanup" /\ host'.inv = NoDoc /\ SameRest /\ SameSight
            /\ host'.seen = host.seen /\ host'.todo = host.todo

LEMMA AcceptedFields ==
  ASSUME host \in HostState, host' = [host EXCEPT !.pc = "cleanup", !.inv = NoDoc]
  PROVE  host' \in HostState /\ Accepted
  BY NoDocTyped DEF HostState, Accepted, SameRest, SameSight, Labels

Retried(a) == /\ host'.pc = "export" /\ host'.attempt = a /\ SameReads /\ SameSight
              /\ host'.todo = host.todo /\ host'.failed = host.failed

LEMMA RetriedFields ==
  ASSUME host \in HostState, NEW a \in Attempts, host' = [host EXCEPT !.pc = "export", !.attempt = a]
  PROVE  host' \in HostState /\ Retried(a)
  BY DEF HostState, Retried, SameReads, SameSight, Labels

\* The aggregate is bound to the retained result f and to its own bytes g.
Bound(f, g) == /\ host'.pc = "checkPayloads" /\ host'.todo = Payloads /\ SameReads /\ SameRest
               /\ host'.judged = f /\ host'.raw = g /\ host'.obs = host.obs

LEMMA BoundFields ==
  ASSUME host \in HostState, NEW f \in File, NEW g \in File,
         host' = [host EXCEPT !.pc = "checkPayloads", !.todo = Payloads, !.judged = f, !.raw = g]
  PROVE  host' \in HostState /\ Bound(f, g)
  BY DEF HostState, Bound, SameRest, SameReads, Labels

Written == /\ host'.pc = "compareAggregate" /\ host'.todo = {} /\ SameReads /\ SameRest
           /\ host'.judged = Gone /\ host'.raw = host.raw /\ host'.obs = host.obs

LEMMA WrittenFields ==
  ASSUME host \in HostState,
         host' = [host EXCEPT !.pc = "compareAggregate", !.todo = {}, !.judged = Gone]
  PROVE  host' \in HostState /\ Written
  BY NoDocTyped DEF HostState, Written, SameRest, SameReads, Labels

\* The labels, in the order of the program.
Starting == {"start", "up", "bind", "prepare", "clock", "stepper", "readiness", "again"}
Measuring == {"begin", "instruments", "recorders", "observer", "look", "source", "marker", "stop",
              "freeze", "last", "drain", "finalize", "await", "logs"}
Sealing == {"collect", "judge", "validate", "recheck", "seal"}
Exporting == {"export", "inventory", "plan", "mkdir", "copy", "manifest", "compare", "accept"}
Cleaning == {"cleanup", "owned", "down", "verify"}
Qualifying == {"aggregate", "bindAggregate", "checkPayloads", "validateAggregate", "checkAgain",
               "writeValidation", "compareAggregate", "publish"}

LEMMA LabelsAre ==
  Labels = Starting \cup Measuring \cup Sealing \cup Exporting \cup Cleaning \cup Qualifying
             \cup {"remember", "retained", "completed", "postclean", "end"}
  BY DEF Labels, Starting, Measuring, Sealing, Exporting, Cleaning, Qualifying

-----------------------------------------------------------------------------
(* Types, a group of actions at a time.                                    *)

BoxTyped == box' \in [Services -> BoxState]

LEMMA UpTyped ==
  ASSUME TypeOK, NEW S, NEW l \in Labels, Up(S, l)
  PROVE  host' \in HostState /\ BoxTyped /\ (Forgets \/ Stays(l))
<1>1. PICK T \in SUBSET S :
        /\ box' = [s \in Services |-> IF s \in T THEN "running" ELSE box[s]]
        /\ Goto(l) \/ Throws
  BY DEF Up
<1>2. BoxTyped
  <2>1. "running" \in BoxState
    BY DEF BoxState
  <2>2. box \in [Services -> BoxState]
    BY DEF TypeOK
  <2>3. box' = [s \in Services |-> IF s \in T THEN "running" ELSE box[s]]
    BY <1>1
  <2> QED BY <2>1, <2>2, <2>3 DEF BoxTyped
<1>3. host \in HostState
  BY DEF TypeOK
<1> QED BY <1>1, <1>2, <1>3, GotoKeeps, ThrowsForgets

LEMMA StartTyped ==
  ASSUME TypeOK, Start
  PROVE  /\ host' \in HostState /\ BoxTyped
         /\ {acquired', simId', startupReady'} \subseteq BOOLEAN
         /\ UNCHANGED <<foreign, outcome, source>>
         /\ host.pc \in Starting
         /\ Forgets \/ \E l \in Starting \cup {"begin"} : Stays(l)
<1>1. host \in HostState /\ Starting \cup {"begin"} \subseteq Labels
  BY LabelsAre DEF TypeOK, Measuring
<1>2. CASE Connect \/ BindSimulation \/ Prepare \/ StepperRuns \/ ClockOwnership
           \/ StepperRunsStill
  <2>1. Throws \/ \E l \in Starting \cup {"begin"} : Goto(l)
    BY <1>2 DEF Connect, BindSimulation, Prepare, StepperRuns, ClockOwnership, StepperRunsStill,
       Starting
  <2>2. /\ host.pc \in Starting /\ UNCHANGED <<box, foreign, outcome, source>>
        /\ acquired' \in {acquired, TRUE} /\ simId' \in {simId, TRUE}
        /\ startupReady' \in {startupReady, TRUE}
    BY <1>2 DEF Connect, BindSimulation, Prepare, StepperRuns, ClockOwnership, StepperRunsStill,
       Starting, providerVars
  <2> QED BY <1>1, <2>1, <2>2, GotoKeeps, ThrowsForgets DEF TypeOK, BoxTyped
<1>3. CASE ApplicationStart \/ ClockOwner
  <2>1. /\ Up({"simulation"}, "bind") \/ Up({"stepper"}, "stepper")
        /\ host.pc \in Starting /\ UNCHANGED <<foreign, providerVars, source>>
    BY <1>3 DEF ApplicationStart, ClockOwner, Starting
  <2>2. "bind" \in Starting /\ "stepper" \in Starting
    BY DEF Starting
  <2> QED BY <1>1, <2>1, <2>2, UpTyped DEF TypeOK, providerVars
<1> QED BY <1>2, <1>3 DEF Start
LEMMA CleanupTyped ==
  ASSUME TypeOK, Cleanup
  PROVE  /\ host' \in HostState /\ BoxTyped /\ simId' \in BOOLEAN
         /\ outcome' \in [released : BOOLEAN, error : BOOLEAN]
         /\ foreign' \in {foreign, "none"} /\ source' \in {source, NoDoc}
         /\ UNCHANGED <<acquired, startupReady>>
         /\ host.pc \in Cleaning /\ \E l \in Cleaning \cup {"completed"} : Stays(l)
         /\ \A s \in Services : box'[s] \in {box[s], "none"}
<1>1. host \in HostState /\ Cleaning \cup {"completed"} \subseteq Labels
  BY LabelsAre DEF TypeOK
<1>2. ASSUME CleanupThrows
      PROVE  outcome' \in [released : BOOLEAN, error : BOOLEAN] /\ Goto("verify")
  BY <1>2 DEF CleanupThrows, TypeOK
<1>3. host.pc \in Cleaning /\ UNCHANGED <<acquired, startupReady>>
  BY DEF Cleanup, BindParent, ObserveOwnership, Down, VerifyCleanup, Cleaning
<1>4. \E l \in Cleaning \cup {"completed"} : Goto(l)
  BY DEF Cleanup, BindParent, ObserveOwnership, Down, VerifyCleanup, CleanupThrows, Cleaning
<1>5. foreign' \in {foreign, "none"} /\ source' \in {source, NoDoc}
  BY DEF Cleanup, BindParent, ObserveOwnership, Down, VerifyCleanup
<1>6. simId' \in BOOLEAN
  BY DEF Cleanup, BindParent, ObserveOwnership, Down, VerifyCleanup, TypeOK
<1>7. outcome' \in [released : BOOLEAN, error : BOOLEAN]
  <2>1. CASE VerifyCleanup
    <3>1. PICK seen \in {~Remains, FALSE} : outcome' = [outcome EXCEPT !.released = seen]
      BY <2>1 DEF VerifyCleanup
    <3>2. seen \in BOOLEAN
      BY <3>1 DEF Remains
    <3> QED BY <3>1, <3>2 DEF TypeOK
  <2>2. CASE BindParent \/ ObserveOwnership \/ Down
    BY <1>2, <2>2 DEF BindParent, ObserveOwnership, Down, TypeOK
  <2> QED BY <2>1, <2>2 DEF Cleanup
<1>8. BoxTyped /\ \A s \in Services : box'[s] \in {box[s], "none"}
  <2>1. UNCHANGED box \/ \E S : box' = [s \in Services |-> IF s \in S THEN "none" ELSE box[s]]
    <3>1. CASE Down
      <4>1. CASE box' = [s \in Services |-> "none"]
        <5>1. box' = [s \in Services |-> IF s \in Services THEN "none" ELSE box[s]]
          BY <4>1
        <5> QED BY <5>1
      <4>2. CASE \E S \in {{}, {"simulation"}, Services} :
                    box' = [s \in Services |-> IF s \in S THEN "none" ELSE box[s]]
        BY <4>2
      <4> QED BY <3>1, <4>1, <4>2 DEF Down
    <3>2. CASE BindParent \/ ObserveOwnership \/ VerifyCleanup
      BY <3>2 DEF BindParent, ObserveOwnership, VerifyCleanup
    <3> QED BY <3>1, <3>2 DEF Cleanup
  <2>2. "none" \in BoxState
    BY DEF BoxState
  <2> QED BY <2>1, <2>2 DEF TypeOK, BoxTyped
<1> QED BY <1>1, <1>3, <1>4, <1>5, <1>6, <1>7, <1>8, GotoKeeps

\* What the measurement does to the host: it goes on, throws, sees the
\* observer, or starts a loop over the recorders or the payloads.
Opening == {"begin", "instruments", "recorders", "observer", "look", "source", "marker", "stop",
            "freeze", "last"}

MeasureEffect ==
  \/ Forgets
  \/ host.pc \in Opening /\ \E l \in Opening : Stays(l)
  \/ host.pc = "look" /\ Looks("source", box["observer"])
  \/ host.pc = "marker" /\ (Looks("stop", None) \/ Looks("look", None))
  \/ host.pc = "last" /\ Begins("drain", Recorders)
  \/ \E s \in host.todo : /\ host.pc = "drain" /\ box'[s] = "exit0"
                          /\ \A t \in Services \ {s} : box'[t] = box[t]
                          /\ Drains(s)
  \/ host.pc = "finalize" /\ Stays("await") /\ UNCHANGED box
  \/ /\ host.pc = "await" /\ box["observer"] # "running" /\ UNCHANGED box
     /\ Looks("logs", box["observer"])
  \/ host.pc = "logs" /\ UNCHANGED box /\ host.obs \in {"exit0", "exit1"} /\ Starts("collect")

LEMMA MeasureTyped ==
  ASSUME TypeOK, Measure
  PROVE  /\ host' \in HostState /\ BoxTyped /\ source' \in Inventory
         /\ UNCHANGED <<foreign, providerVars>>
         /\ host.pc \in Measuring /\ MeasureEffect
<1>1. /\ host \in HostState /\ Measuring \cup {"collect"} \subseteq Labels
      /\ Opening \subseteq Measuring
  BY LabelsAre DEF TypeOK, Sealing, Opening, Measuring
<1>2. CASE BeginMeasurement \/ LookAtSource
  <2>1. /\ Throws \/ \E l \in Opening : Goto(l)
        /\ host.pc \in Opening /\ UNCHANGED <<box, foreign, providerVars, source>>
    BY <1>2 DEF BeginMeasurement, LookAtSource, Opening
  <2> QED BY <1>1, <2>1, GotoKeeps, ThrowsForgets DEF TypeOK, BoxTyped, MeasureEffect
<1>10. CASE FinalizeSink
  <2>1. /\ Throws \/ Goto("await")
        /\ host.pc = "finalize" /\ UNCHANGED <<box, foreign, providerVars, source>>
    BY <1>10 DEF FinalizeSink
  <2>2. "finalize" \in Measuring /\ "await" \in Measuring
    BY DEF Measuring
  <2> QED BY <1>1, <2>1, <2>2, GotoKeeps, ThrowsForgets DEF TypeOK, BoxTyped, MeasureEffect
<1>3. CASE StartServices
  <2>1. "recorders" \in Opening /\ "observer" \in Opening /\ "look" \in Opening
    BY DEF Opening
  <2>2. host.pc \in Opening /\ UNCHANGED <<foreign, providerVars, source>>
    BY <1>3 DEF StartServices, Opening
  <2>3. CASE Up({"instrument"}, "recorders")
    BY <1>1, <2>1, <2>2, <2>3, UpTyped DEF TypeOK, MeasureEffect
  <2>4. CASE Up(Recorders, "observer")
    BY <1>1, <2>1, <2>2, <2>4, UpTyped DEF TypeOK, MeasureEffect
  <2>5. CASE Up({"observer"}, "look")
    BY <1>1, <2>1, <2>2, <2>5, UpTyped DEF TypeOK, MeasureEffect
  <2> QED BY <1>3, <2>3, <2>4, <2>5 DEF StartServices
<1>4. CASE LookAtObserver \/ AwaitObserver
  <2>1. box["observer"] \in BoxState /\ None \in BoxState
    BY DEF TypeOK, Services, BoxState, None
  <2>2. /\ host.pc \in Measuring /\ UNCHANGED <<box, foreign, providerVars, source>>
        /\ LookAtObserver => host.pc = "look"
    BY <1>4 DEF LookAtObserver, AwaitObserver, Measuring
  <2>3. CASE Throws
    BY <1>1, <2>2, <2>3, ThrowsForgets DEF TypeOK, BoxTyped, MeasureEffect
  <2>4. CASE LookAtObserver /\ host' = [host EXCEPT !.pc = "source", !.obs = box["observer"]]
    <3>1. host' \in HostState /\ Looks("source", box["observer"])
      BY <1>1, <2>1, <2>4, LooksFields DEF Measuring
    <3> QED BY <2>2, <2>4, <3>1 DEF TypeOK, BoxTyped, MeasureEffect
  <2>5. CASE /\ host' = [host EXCEPT !.pc = "logs", !.obs = box["observer"], !.late = FALSE]
             /\ host.pc = "await" /\ box["observer"] # "running"
    <3>1. host' \in HostState /\ Looks("logs", box["observer"])
      BY <1>1, <2>1, <2>5, LooksFields DEF Measuring
    <3> QED BY <2>2, <2>5, <3>1 DEF TypeOK, BoxTyped, MeasureEffect
  <2> QED BY <1>4, <2>3, <2>4, <2>5 DEF LookAtObserver, AwaitObserver
<1>5. CASE LookAtMarker
  <2>1. None \in BoxState
    BY DEF BoxState, None
  <2>2. /\ host.pc = "marker" /\ host.pc \in Measuring
        /\ UNCHANGED <<box, foreign, providerVars, source>>
    BY <1>5 DEF LookAtMarker, Measuring
  <2>3. CASE Throws
    BY <1>1, <2>2, <2>3, ThrowsForgets DEF TypeOK, BoxTyped, MeasureEffect
  <2>4. CASE host' = [host EXCEPT !.pc = "stop", !.obs = None, !.late = FALSE]
    <3>1. host' \in HostState /\ Looks("stop", None)
      BY <1>1, <2>1, <2>4, LooksFields DEF Measuring
    <3> QED BY <2>2, <3>1 DEF TypeOK, BoxTyped, MeasureEffect
  <2>5. CASE host' = [host EXCEPT !.pc = "look", !.obs = None]
    <3>1. host' \in HostState /\ Looks("look", None)
      BY <1>1, <2>1, <2>5, LooksFields DEF Measuring
    <3> QED BY <2>2, <3>1 DEF TypeOK, BoxTyped, MeasureEffect
  <2> QED BY <1>5, <2>3, <2>4, <2>5 DEF LookAtMarker
<1>6. CASE StopInstruments \/ FreezeStepper
  <2>1. BoxTyped
    BY <1>6 DEF StopInstruments, FreezeStepper, TypeOK, BoxTyped, BoxState, Services
  <2>2. /\ Throws \/ \E l \in Opening : Goto(l)
        /\ host.pc \in Opening /\ UNCHANGED <<foreign, providerVars, source>>
    BY <1>6 DEF StopInstruments, FreezeStepper, Opening
  <2> QED BY <1>1, <2>1, <2>2, GotoKeeps, ThrowsForgets DEF TypeOK, MeasureEffect
<1>7. CASE LastState
  <2>1. /\ host.pc = "last" /\ host.pc \in Measuring
        /\ UNCHANGED <<box, foreign, providerVars, source>>
    BY <1>7 DEF LastState, Measuring
  <2>2. CASE Throws
    BY <1>1, <2>1, <2>2, ThrowsForgets DEF TypeOK, BoxTyped, MeasureEffect
  <2>3. CASE host' = [host EXCEPT !.pc = "drain", !.todo = Recorders]
    <3>1. host' \in HostState /\ Begins("drain", Recorders)
      BY <1>1, <2>3, BeginsFields DEF Measuring
    <3> QED BY <2>1, <3>1 DEF TypeOK, BoxTyped, MeasureEffect
  <2> QED BY <1>7, <2>2, <2>3 DEF LastState
<1>8. CASE Drain
  <2>1. PICK s \in host.todo, end \in {"exit0", "broken"} :
          /\ box' = [box EXCEPT ![s] = IF @ = "running" THEN end ELSE @]
          /\ IF box'[s] = "exit0"
               THEN host' = [host EXCEPT !.todo = @ \ {s},
                                         !.pc = IF host.todo = {s} THEN "finalize" ELSE "drain"]
               ELSE Throws
    BY <1>8 DEF Drain
  <2>2. host.pc \in Measuring /\ host.pc = "drain" /\ UNCHANGED <<foreign, providerVars, source>>
    BY <1>8 DEF Drain, Measuring
  <2>3. BoxTyped
    BY <2>1 DEF TypeOK, BoxTyped, BoxState
  <2>4. CASE box'[s] # "exit0"
    BY <1>1, <2>1, <2>2, <2>3, <2>4, ThrowsForgets DEF TypeOK, MeasureEffect
  <2>5. CASE box'[s] = "exit0"
    <3>1. host' = [host EXCEPT !.todo = @ \ {s},
                               !.pc = IF host.todo = {s} THEN "finalize" ELSE "drain"]
      BY <2>1, <2>5
    <3>2. host' \in HostState /\ Drains(s)
      BY <1>1, <3>1, DrainsFields
    <3>3. \A t \in Services \ {s} : box'[t] = box[t]
      BY <2>1 DEF TypeOK
    <3> QED BY <2>2, <2>3, <2>5, <3>1, <3>2, <3>3 DEF TypeOK, MeasureEffect
  <2> QED BY <2>4, <2>5
<1>9. CASE CaptureLogs
  <2>1. host.pc \in Measuring /\ host.pc = "logs" /\ UNCHANGED <<box, foreign, providerVars>>
    BY <1>9 DEF CaptureLogs, Measuring
  <2>2. source' \in Inventory
    BY <1>9, NoDocTyped DEF CaptureLogs, TypeOK, Inventory
  <2>3. CASE Throws
    BY <1>1, <2>1, <2>2, <2>3, ThrowsForgets DEF TypeOK, BoxTyped, MeasureEffect
  <2>4. CASE host.obs \in {"exit0", "exit1"} /\ Loop("collect")
    BY <1>1, <2>1, <2>2, <2>4, LoopStarts DEF TypeOK, BoxTyped, MeasureEffect
  <2> QED BY <1>9, <2>3, <2>4 DEF CaptureLogs, Loop
<1> QED BY <1>2, <1>3, <1>4, <1>5, <1>6, <1>7, <1>8, <1>9, <1>10 DEF Measure

\* Sealing: a payload is read or found as it was, a loop starts, the result is
\* judged, or the seal is written and remembered.
SealTypes == /\ host' \in HostState /\ seal' \in SealDocument /\ sealRef' \in File

\* The recorders are gone through while they drain, and the payloads afterwards.
TodoInv == IF host.pc = "drain" THEN host.todo \subseteq Recorders ELSE host.todo \subseteq Payloads

LEMMA ReadsTyped ==
  ASSUME TypeOK, NEW p \in Payloads, NEW held \in HostState, Reads(p, held)
  PROVE  /\ host' \in HostState
         /\ Forgets \/ (source[p] # Gone /\ host' = held)
<1>1. host \in HostState
  BY DEF TypeOK
<1>2. CASE source[p] = Gone
  BY <1>1, <1>2, ThrowsForgets DEF Reads
<1>3. CASE source[p] # Gone
  BY <1>3 DEF Reads
<1> QED BY <1>2, <1>3

\* One round of the loop that collects the digests.
CollectEffect(next) ==
  \/ Forgets
  \/ host.todo = {} /\ Starts(next)
  \/ \E p \in host.todo :
        p \in Payloads /\ source[p] # Gone /\ InvRound(p, source[p])

LEMMA CollectTyped ==
  ASSUME TypeOK, TodoInv, NEW at \in Labels, at # "drain", NEW next \in Labels, Collect(at, next)
  PROVE  host' \in HostState /\ host.pc = at /\ CollectEffect(next)
<1>1. host \in HostState /\ source \in Inventory /\ host.todo \subseteq Payloads /\ host.pc = at
  BY DEF TypeOK, TodoInv, Collect
<1>2. CASE host.todo = {} /\ Loop(next)
  BY <1>1, <1>2, LoopStarts DEF CollectEffect
<1>3. ASSUME NEW p \in host.todo, Reads(p, [host EXCEPT !.inv[p] = source[p], !.todo = @ \ {p}])
      PROVE  host' \in HostState /\ CollectEffect(next)
  <2>1. p \in Payloads /\ source[p] \in File
    BY <1>1 DEF Inventory
  <2>2. [host EXCEPT !.inv[p] = source[p], !.todo = @ \ {p}] \in HostState
    BY <1>1, <2>1 DEF HostState, Inventory
  <2>3. CASE Forgets
    BY <1>3, <2>1, <2>2, <2>3, ReadsTyped DEF CollectEffect
  <2>4. CASE source[p] # Gone /\ host' = [host EXCEPT !.inv[p] = source[p], !.todo = @ \ {p}]
    BY <1>1, <2>1, <2>4, InvFields DEF CollectEffect
  <2> QED BY <1>3, <2>1, <2>2, <2>3, <2>4, ReadsTyped
<1> QED BY <1>1, <1>2, <1>3 DEF Collect

\* One round of the validation.
ValidateEffect ==
  \/ Forgets
  \/ host.todo = {} /\ Starts("recheck")
  \/ \E p \in host.todo :
        p \in Payloads /\ source[p] # Gone /\ SeenRound(p, source[p])

LEMMA ValidateTyped ==
  ASSUME TypeOK, TodoInv, Validate
  PROVE  host' \in HostState /\ host.pc = "validate" /\ ValidateEffect
<1>1. host \in HostState /\ source \in Inventory /\ host.todo \subseteq Payloads
      /\ host.pc = "validate" /\ "recheck" \in Labels
  BY DEF TypeOK, TodoInv, Validate, Labels
<1>2. CASE host.todo = {} /\ Loop("recheck")
  BY <1>1, <1>2, LoopStarts DEF ValidateEffect
<1>3. ASSUME NEW p \in host.todo, Reads(p, [host EXCEPT !.seen[p] = source[p], !.todo = @ \ {p}])
      PROVE  host' \in HostState /\ ValidateEffect
  <2>1. p \in Payloads /\ source[p] \in File
    BY <1>1 DEF Inventory
  <2>2. [host EXCEPT !.seen[p] = source[p], !.todo = @ \ {p}] \in HostState
    BY <1>1, <2>1 DEF HostState, Inventory
  <2>3. CASE Forgets
    BY <1>3, <2>1, <2>2, <2>3, ReadsTyped DEF ValidateEffect
  <2>4. CASE source[p] # Gone /\ host' = [host EXCEPT !.seen[p] = source[p], !.todo = @ \ {p}]
    BY <1>1, <2>1, <2>4, SeenFields DEF ValidateEffect
  <2> QED BY <1>3, <2>1, <2>2, <2>3, <2>4, ReadsTyped
<1>4. CASE Throws
  BY <1>1, <1>4, ThrowsForgets DEF ValidateEffect
<1> QED BY <1>1, <1>2, <1>3, <1>4 DEF Validate

\* One round of the check after the validation.
RecheckEffect ==
  \/ Forgets
  \/ host.todo = {} /\ Stays("seal")
  \/ \E p \in host.todo : p \in Payloads /\ source[p] = host.inv[p] /\ Round(p)

LEMMA RecheckTyped ==
  ASSUME TypeOK, TodoInv, Recheck
  PROVE  host' \in HostState /\ host.pc = "recheck" /\ RecheckEffect
<1>1. host \in HostState /\ host.todo \subseteq Payloads /\ host.pc = "recheck" /\ "seal" \in Labels
  BY DEF TypeOK, TodoInv, Recheck, Labels
<1>2. CASE host.todo = {} /\ Goto("seal")
  BY <1>1, <1>2, GotoKeeps DEF RecheckEffect
<1>3. CASE Throws
  BY <1>1, <1>3, ThrowsForgets DEF RecheckEffect
<1>4. ASSUME NEW p \in host.todo, source[p] = host.inv[p], host' = [host EXCEPT !.todo = @ \ {p}]
      PROVE  host' \in HostState /\ RecheckEffect
  <2>1. host' \in HostState /\ Round(p)
    BY <1>1, <1>4, RoundFields
  <2> QED BY <1>1, <1>4, <2>1 DEF RecheckEffect
<1> QED BY <1>1, <1>2, <1>3, <1>4 DEF Recheck

JudgeEffect ==
  \/ Forgets
  \/ ExitAgrees(host.obs, Verdict(source["result"])) /\ Judged(source["result"])

LEMMA JudgeTyped ==
  ASSUME TypeOK, JudgeResult
  PROVE  host' \in HostState /\ host.pc = "judge" /\ JudgeEffect
<1>1. host \in HostState /\ source \in Inventory /\ host.pc = "judge"
  BY DEF TypeOK, JudgeResult
<1>2. CASE Throws
  BY <1>1, <1>2, ThrowsForgets DEF JudgeEffect
<1>3. CASE /\ ExitAgrees(host.obs, Verdict(source["result"]))
           /\ host' = [host EXCEPT !.pc = "validate", !.judged = source["result"]]
  <2>1. source["result"] \in File
    BY <1>1, PayloadsAssumption DEF Inventory
  <2> QED BY <1>1, <1>3, <2>1, JudgedFields DEF JudgeEffect
<1> QED BY <1>2, <1>3 DEF JudgeResult

SealEffect ==
  \/ Forgets /\ UNCHANGED seal
  \/ /\ source["result"] = host.judged /\ seal.gen = Gone
     /\ seal' = [gen |-> Original, inv |-> host.inv, result |-> host.judged,
                 verdict |-> Verdict(host.judged), exit |-> host.obs, read |-> host.seen]
     /\ Stays("remember")

LEMMA WriteSealTyped ==
  ASSUME TypeOK, WriteSeal
  PROVE  /\ host' \in HostState /\ seal' \in SealDocument /\ UNCHANGED sealRef
         /\ host.pc = "seal" /\ SealEffect
<1>1. host \in HostState /\ seal \in SealDocument /\ "remember" \in Labels
  BY DEF TypeOK, Labels
<1>2. host.pc = "seal" /\ UNCHANGED sealRef
  BY DEF WriteSeal
<1>3. CASE Throws /\ UNCHANGED seal
  BY <1>1, <1>2, <1>3, ThrowsForgets DEF SealEffect
<1>4. CASE /\ source["result"] = host.judged /\ seal.gen = Gone
           /\ seal' = [gen |-> Original, inv |-> host.inv, result |-> host.judged,
                       verdict |-> Verdict(host.judged), exit |-> host.obs, read |-> host.seen]
           /\ Goto("remember")
  <2>1. host' \in HostState /\ Stays("remember")
    BY <1>1, <1>4, GotoKeeps
  <2>2. Verdict(host.judged) \in {None, "passed", "failed"}
    BY DEF Verdict
  <2>3. seal' \in SealDocument
    BY <1>1, <1>4, <2>2, NoDocTyped DEF HostState, SealDocument
  <2> QED BY <1>2, <1>4, <2>1, <2>3 DEF SealEffect
<1> QED BY <1>2, <1>3, <1>4 DEF WriteSeal

LEMMA RememberTyped ==
  ASSUME TypeOK, RememberSeal
  PROVE  host' \in HostState /\ sealRef' \in File
<1>1. host \in HostState /\ seal \in SealDocument /\ 0 \in Attempts /\ None \in BoxState
  BY BoundsAssumption DEF TypeOK, BoxState, None
<1> QED BY <1>1, NoDocTyped DEF RememberSeal, HostState, SealDocument, Labels

LEMMA SealTyped ==
  ASSUME TypeOK, TodoInv, Seal
  PROVE  /\ host' \in HostState /\ seal' \in SealDocument /\ sealRef' \in File
         /\ host.pc \in Sealing \cup {"remember"}
         /\ UNCHANGED <<box, foreign, providerVars, source, marker, exportVars, afterVars, edits>>
<1>1. CASE Collect("collect", "judge") \/ JudgeResult \/ Validate \/ Recheck
  <2>1. host' \in HostState /\ host.pc \in {"collect", "judge", "validate", "recheck"}
    BY <1>1, CollectTyped, JudgeTyped, ValidateTyped, RecheckTyped DEF Labels
  <2>2. UNCHANGED sealVars
    BY <1>1, <2>1 DEF Seal, WriteSeal, RememberSeal
  <2> QED BY <2>1, <2>2 DEF Seal, sealVars, TypeOK, Sealing
<1>2. CASE WriteSeal
  BY <1>2, WriteSealTyped DEF TypeOK, Sealing, Seal
<1>3. CASE RememberSeal
  BY <1>3, RememberTyped DEF RememberSeal, TypeOK, Seal
<1> QED BY <1>1, <1>2, <1>3 DEF Seal

-----------------------------------------------------------------------------
(* The export.                                                             *)

\* The files of one attempt.
LEMMA AttemptTyped ==
  ASSUME TypeOK
  PROVE  host.attempt \in Attempts /\ att[host.attempt] \in AttemptFiles
  BY DEF TypeOK, HostState

PlanEffect ==
  \/ Forgets /\ UNCHANGED att
  \/ /\ sealRef # Gone => SealSays(seal.inv = host.inv)
     /\ att[host.attempt].plan = NoDoc /\ att[host.attempt].args = Gone
     /\ att' = [att EXCEPT ![host.attempt].plan = host.inv, ![host.attempt].args = Original]
     /\ Stays("mkdir")

LEMMA WritePlanTyped ==
  ASSUME TypeOK, WritePlan
  PROVE  /\ host' \in HostState /\ att' \in [Attempts -> AttemptFiles] /\ UNCHANGED exported
         /\ host.pc = "plan" /\ PlanEffect
<1>1. host \in HostState /\ att \in [Attempts -> AttemptFiles] /\ "mkdir" \in Labels
  BY DEF TypeOK, Labels
<1>2. host.pc = "plan" /\ UNCHANGED exported
  BY DEF WritePlan
<1>3. CASE Throws /\ UNCHANGED att
  BY <1>1, <1>2, <1>3, ThrowsForgets DEF PlanEffect
<1>4. CASE /\ sealRef # Gone => SealSays(seal.inv = host.inv)
           /\ att[host.attempt].plan = NoDoc /\ att[host.attempt].args = Gone
           /\ att' = [att EXCEPT ![host.attempt].plan = host.inv, ![host.attempt].args = Original]
           /\ Goto("mkdir")
  <2>1. host' \in HostState /\ Stays("mkdir")
    BY <1>1, <1>4, GotoKeeps
  <2>2. att' \in [Attempts -> AttemptFiles]
    BY <1>1, <1>4, NoDocTyped, AttemptTyped DEF HostState, AttemptFiles
  <2> QED BY <1>2, <1>4, <2>1, <2>2 DEF PlanEffect
<1> QED BY <1>2, <1>3, <1>4 DEF WritePlan

LEMMA MakeDirectoryTyped ==
  ASSUME TypeOK, MakeDirectory
  PROVE  /\ host' \in HostState /\ att' \in [Attempts -> AttemptFiles] /\ UNCHANGED exported
         /\ host.pc = "mkdir"
         /\ \/ Forgets /\ UNCHANGED att
            \/ /\ ~att[host.attempt].dir
               /\ att' = [att EXCEPT ![host.attempt].dir = TRUE] /\ Starts("copy")
<1>1. host \in HostState /\ att \in [Attempts -> AttemptFiles] /\ "copy" \in Labels
  BY DEF TypeOK, Labels
<1>2. host.pc = "mkdir" /\ UNCHANGED exported
  BY DEF MakeDirectory
<1>3. CASE Throws /\ UNCHANGED att
  BY <1>1, <1>2, <1>3, ThrowsForgets
<1>4. CASE /\ ~att[host.attempt].dir
           /\ att' = [att EXCEPT ![host.attempt].dir = TRUE] /\ Loop("copy")
  <2>1. att' \in [Attempts -> AttemptFiles]
    BY <1>1, <1>4, AttemptTyped DEF AttemptFiles
  <2> QED BY <1>1, <1>2, <1>4, <2>1, LoopStarts
<1> QED BY <1>2, <1>3, <1>4 DEF MakeDirectory

CopyEffect ==
  \/ Forgets /\ UNCHANGED att
  \/ host.todo = {} /\ Stays("manifest") /\ UNCHANGED att
  \/ \E p \in host.todo :
        /\ p \in Payloads /\ source[p] # Gone /\ source[p] = att[host.attempt].plan[p]
        /\ att' = [att EXCEPT ![host.attempt].kept[p] = source[p]]
        /\ Round(p)

LEMMA CopyTyped ==
  ASSUME TypeOK, TodoInv, CopyPayload
  PROVE  /\ host' \in HostState /\ att' \in [Attempts -> AttemptFiles] /\ UNCHANGED exported
         /\ host.pc = "copy" /\ CopyEffect
<1>1. /\ host \in HostState /\ att \in [Attempts -> AttemptFiles] /\ "manifest" \in Labels
      /\ source \in Inventory
  BY DEF TypeOK, Labels
<1>2. host.pc = "copy" /\ UNCHANGED exported /\ host.todo \subseteq Payloads
  BY DEF CopyPayload, TodoInv
<1>3. CASE Throws /\ UNCHANGED att
  BY <1>1, <1>2, <1>3, ThrowsForgets DEF CopyEffect
<1>4. CASE host.todo = {} /\ Goto("manifest") /\ UNCHANGED att
  BY <1>1, <1>2, <1>4, GotoKeeps DEF CopyEffect
<1>5. ASSUME NEW p \in host.todo, source[p] # Gone, source[p] = att[host.attempt].plan[p],
             att' = [att EXCEPT ![host.attempt].kept[p] = source[p]],
             host' = [host EXCEPT !.todo = @ \ {p}]
      PROVE  host' \in HostState /\ att' \in [Attempts -> AttemptFiles] /\ CopyEffect
  <2>1. p \in Payloads /\ source[p] \in File
    BY <1>1, <1>2 DEF Inventory
  <2>2. att' \in [Attempts -> AttemptFiles]
    BY <1>1, <1>5, <2>1, AttemptTyped DEF AttemptFiles, Inventory
  <2>3. host' \in HostState /\ Round(p)
    BY <1>1, <1>5, RoundFields
  <2> QED BY <1>5, <2>1, <2>2, <2>3 DEF CopyEffect
<1> QED BY <1>2, <1>3, <1>4, <1>5 DEF CopyPayload

LEMMA ManifestTyped ==
  ASSUME TypeOK, WriteManifest
  PROVE  /\ host' \in HostState /\ att' \in [Attempts -> AttemptFiles] /\ UNCHANGED exported
         /\ host.pc = "manifest" /\ Starts("compare")
         /\ att' = [att EXCEPT ![host.attempt].manifest = att[host.attempt].plan]
<1>1. host \in HostState /\ att \in [Attempts -> AttemptFiles] /\ "compare" \in Labels
  BY DEF TypeOK, Labels
<1>2. att' \in [Attempts -> AttemptFiles]
  BY <1>1, AttemptTyped DEF WriteManifest, AttemptFiles
<1> QED BY <1>1, <1>2, LoopStarts DEF WriteManifest

\* One round of the comparison of what is retained with the manifest.
CompareEffect ==
  \/ Forgets
  \/ host.todo = {} /\ Stays("accept")
  \/ \E p \in host.todo :
        /\ p \in Payloads /\ att[host.attempt].kept[p] = att[host.attempt].manifest[p]
        /\ InvRound(p, att[host.attempt].kept[p])

LEMMA CompareTyped ==
  ASSUME TypeOK, TodoInv, CompareRetained
  PROVE  /\ host' \in HostState /\ UNCHANGED exportVars
         /\ host.pc = "compare" /\ CompareEffect
<1>1. /\ host \in HostState /\ att \in [Attempts -> AttemptFiles] /\ "accept" \in Labels
      /\ host.pc = "compare" /\ UNCHANGED exportVars /\ host.todo \subseteq Payloads
  BY DEF TypeOK, Labels, CompareRetained, TodoInv
<1>2. CASE host.todo = {} /\ Goto("accept")
  BY <1>1, <1>2, GotoKeeps DEF CompareEffect
<1>3. CASE Throws
  BY <1>1, <1>3, ThrowsForgets DEF CompareEffect
<1>4. ASSUME NEW p \in host.todo,
             att[host.attempt].kept[p] = att[host.attempt].manifest[p],
             host' = [host EXCEPT !.inv[p] = att[host.attempt].kept[p], !.todo = @ \ {p}]
      PROVE  host' \in HostState /\ CompareEffect
  <2>1. p \in Payloads /\ att[host.attempt].kept[p] \in File
    BY <1>1, AttemptTyped DEF AttemptFiles, Inventory
  <2>2. host' \in HostState /\ InvRound(p, att[host.attempt].kept[p])
    BY <1>1, <1>4, <2>1, InvFields
  <2> QED BY <1>4, <2>1, <2>2 DEF CompareEffect
<1> QED BY <1>1, <1>2, <1>3, <1>4 DEF CompareRetained

AcceptEffect ==
  \/ Forgets /\ UNCHANGED exported
  \/ /\ \/ sealRef = Gone
        \/ SealIntact /\ SealSays(att[host.attempt].kept["result"] = seal.result)
     /\ exported' = [done |-> TRUE, attempt |-> host.attempt, refs |-> host.inv,
                     args |-> IF host.attempt = 0 THEN att[host.attempt].args ELSE Gone]
     /\ Accepted

LEMMA AcceptTyped ==
  ASSUME TypeOK, AcceptExport
  PROVE  /\ host' \in HostState /\ exported' \in ExportState /\ UNCHANGED att
         /\ host.pc = "accept" /\ AcceptEffect
<1>1. /\ host \in HostState /\ "cleanup" \in Labels
      /\ host.pc = "accept" /\ UNCHANGED att /\ exported \in ExportState
  BY DEF TypeOK, Labels, AcceptExport, ExportState
<1>2. CASE Throws /\ UNCHANGED exported
  BY <1>1, <1>2, ThrowsForgets DEF AcceptEffect
<1>3. CASE /\ \/ sealRef = Gone
              \/ SealIntact /\ SealSays(att[host.attempt].kept["result"] = seal.result)
           /\ exported' = [done |-> TRUE, attempt |-> host.attempt, refs |-> host.inv,
                           args |-> IF host.attempt = 0 THEN att[host.attempt].args ELSE Gone]
           /\ host' = [host EXCEPT !.pc = "cleanup", !.inv = NoDoc]
  <2>1. att[host.attempt].args \in File /\ host.inv \in Inventory
    BY <1>1, AttemptTyped DEF AttemptFiles, HostState
  <2>2. exported' \in ExportState
    BY <1>3, <2>1, AttemptTyped, NoDocTyped DEF ExportState
  <2>3. host' \in HostState /\ Accepted
    BY <1>1, <1>3, AcceptedFields
  <2> QED BY <1>1, <1>3, <2>2, <2>3 DEF AcceptEffect
<1> QED BY <1>1, <1>2, <1>3 DEF AcceptExport

BeginEffect == \/ Forgets
               \/ (sealRef = Gone \/ SealIntact) /\ Starts("inventory")

LEMMA BeginTyped ==
  ASSUME TypeOK, BeginExport
  PROVE  host' \in HostState /\ UNCHANGED exportVars /\ host.pc = "export" /\ BeginEffect
<1>1. host \in HostState /\ "inventory" \in Labels
  BY DEF TypeOK, Labels
<1> QED BY <1>1, LoopStarts, ThrowsForgets DEF BeginExport, BeginEffect

RetryEffect ==
  \/ Stays("cleanup")
  \/ \E a \in Attempts : startupReady /\ Retried(a)

LEMMA RetryTyped ==
  ASSUME TypeOK, RetryExport
  PROVE  host' \in HostState /\ UNCHANGED exportVars /\ host.pc = "retained" /\ RetryEffect
<1>1. host \in HostState /\ "cleanup" \in Labels /\ "export" \in Labels
  BY DEF TypeOK, Labels
<1>2. CASE Goto("cleanup")
  BY <1>1, <1>2, GotoKeeps DEF RetryExport, RetryEffect
<1>3. ASSUME NEW a \in Attempts, startupReady, host' = [host EXCEPT !.pc = "export", !.attempt = a]
      PROVE  host' \in HostState /\ RetryEffect
  BY <1>1, <1>3, RetriedFields DEF RetryEffect
<1> QED BY <1>2, <1>3 DEF RetryExport

LEMMA ExportTyped ==
  ASSUME TypeOK, TodoInv, Export
  PROVE  /\ host' \in HostState /\ att' \in [Attempts -> AttemptFiles] /\ exported' \in ExportState
         /\ host.pc \in Exporting \cup {"retained"}
         /\ UNCHANGED <<box, foreign, providerVars, source, marker, sealVars, afterVars, edits>>
<1>1. att \in [Attempts -> AttemptFiles] /\ exported \in ExportState
  BY DEF TypeOK, ExportState
<1>2. UNCHANGED <<box, foreign, providerVars, source, marker, sealVars, afterVars, edits>>
  BY DEF Export
<1>3. CASE Collect("inventory", "plan") /\ UNCHANGED exportVars
  <2>1. "inventory" \in Labels /\ "plan" \in Labels /\ "inventory" \in Exporting
    BY DEF Labels, Exporting
  <2>2. host' \in HostState /\ host.pc = "inventory"
    BY <1>3, <2>1, CollectTyped
  <2>3. UNCHANGED <<att, exported>>
    BY <1>3 DEF exportVars
  <2> QED BY <1>1, <1>2, <2>1, <2>2, <2>3
<1>4. CASE BeginExport \/ CompareRetained \/ RetryExport
  BY <1>1, <1>2, <1>4, BeginTyped, CompareTyped, RetryTyped DEF Exporting, exportVars
<1>5. CASE WritePlan \/ MakeDirectory \/ CopyPayload \/ WriteManifest
  BY <1>1, <1>2, <1>5, WritePlanTyped, MakeDirectoryTyped, CopyTyped, ManifestTyped DEF Exporting
<1>6. CASE AcceptExport
  BY <1>1, <1>2, <1>6, AcceptTyped DEF Exporting
<1> QED BY <1>3, <1>4, <1>5, <1>6 DEF Export

-----------------------------------------------------------------------------
(* The qualification.                                                      *)

AfterTypes == aggregate' \in AggregateFile /\ post' \in BOOLEAN
                /\ qualified' \in {None, "passed", "failed"}

\* An error goes to the cleanup of the postprocessing project.
Gives == host' = [pc |-> "postclean", todo |-> {}, inv |-> host.inv, seen |-> host.seen,
                  obs |-> host.obs, attempt |-> host.attempt, judged |-> Gone, raw |-> host.raw,
                  late |-> host.late, failed |-> TRUE]

LEMMA ThrowsGives ==
  ASSUME host \in HostState, QualifyThrows
  PROVE  host' \in HostState /\ Gives
  BY NoDocTyped DEF QualifyThrows, HostState, Gives, Labels

LEMMA WorkerFailsGives ==
  ASSUME TypeOK, WorkerFails
  PROVE  host' \in HostState /\ Gives /\ AfterTypes /\ UNCHANGED <<aggregate, qualified>>
<1>1. host \in HostState
  BY DEF TypeOK
<1> QED BY <1>1, ThrowsGives DEF WorkerFails, AfterTypes, TypeOK

LEMMA AfterFrame ==
  ASSUME TypeOK, UNCHANGED afterVars
  PROVE  AfterTypes
  BY DEF TypeOK, AfterTypes, afterVars

AdmitEffect ==
  \/ Gives
  \/ /\ CompletionPassed /\ sealRef # Gone /\ SealIntact
     /\ exported.args # Gone /\ att[0].args = exported.args
     /\ Stays("aggregate")

LEMMA AdmitTyped ==
  ASSUME TypeOK, AdmitCompletion
  PROVE  host' \in HostState /\ UNCHANGED afterVars /\ host.pc = "completed" /\ AdmitEffect
<1>1. host \in HostState /\ "aggregate" \in Labels
  BY DEF TypeOK, Labels
<1> QED BY <1>1, ThrowsGives, GotoKeeps DEF AdmitCompletion, AdmitEffect

AggregateEffect ==
  \/ Gives /\ UNCHANGED <<aggregate, qualified>>
  \/ \E verdict \in {"passed", "failed"} :
        /\ Verdict(att[0].kept["result"]) = "failed" => verdict = "failed"
        /\ aggregate' = [gen |-> Original, verdict |-> verdict, valid |-> Gone]
        /\ Looks("bindAggregate", IF verdict = "passed" THEN "exit0" ELSE "exit1")
        /\ UNCHANGED <<post, qualified>>

LEMMA AggregateTyped ==
  ASSUME TypeOK, Aggregate
  PROVE  host' \in HostState /\ AfterTypes /\ host.pc = "aggregate" /\ AggregateEffect
<1>1. host \in HostState /\ "bindAggregate" \in Labels /\ host.pc = "aggregate"
  BY DEF TypeOK, Labels, Aggregate
<1>2. CASE WorkerFails
  BY <1>1, <1>2, WorkerFailsGives DEF AggregateEffect
<1>3. ASSUME NEW verdict \in {"passed", "failed"},
             Verdict(att[0].kept["result"]) = "failed" => verdict = "failed",
             aggregate' = [gen |-> Original, verdict |-> verdict, valid |-> Gone],
             host' = [host EXCEPT !.pc = "bindAggregate",
                                   !.obs = IF verdict = "passed" THEN "exit0" ELSE "exit1"],
             UNCHANGED <<post, qualified>>
      PROVE  host' \in HostState /\ AfterTypes /\ AggregateEffect
  <2>1. host' \in HostState /\ Looks("bindAggregate", IF verdict = "passed" THEN "exit0" ELSE "exit1")
    <3>1. (IF verdict = "passed" THEN "exit0" ELSE "exit1") \in BoxState
      BY DEF BoxState
    <3> QED BY <1>1, <1>3, <3>1, LooksFields
  <2>2. aggregate' \in AggregateFile
    BY <1>3, NoDocTyped DEF AggregateFile
  <2> QED BY <1>3, <2>1, <2>2 DEF AfterTypes, AggregateEffect, TypeOK
<1> QED BY <1>1, <1>2, <1>3 DEF Aggregate

BindEffect ==
  \/ Gives /\ UNCHANGED <<aggregate, qualified>>
  \/ /\ SealSays(/\ att[0].args = Original
                 /\ att[0].kept["result"] = seal.result
                 /\ ExitAgrees(seal.exit, seal.verdict))
     /\ Bound(att[0].kept["result"], aggregate.gen)
     /\ UNCHANGED afterVars

LEMMA BindTyped ==
  ASSUME TypeOK, BindAggregate
  PROVE  host' \in HostState /\ AfterTypes /\ host.pc = "bindAggregate" /\ BindEffect
<1>1. host \in HostState /\ "checkPayloads" \in Labels /\ host.pc = "bindAggregate"
  BY DEF TypeOK, Labels, BindAggregate
<1>2. CASE WorkerFails
  BY <1>1, <1>2, WorkerFailsGives DEF BindEffect
<1>3. CASE /\ SealSays(/\ att[0].args = Original
                       /\ att[0].kept["result"] = seal.result
                       /\ ExitAgrees(seal.exit, seal.verdict))
           /\ host' = [host EXCEPT !.pc = "checkPayloads", !.todo = Payloads,
                                   !.judged = att[0].kept["result"], !.raw = aggregate.gen]
           /\ UNCHANGED afterVars
  <2>1. att[0].kept["result"] \in File /\ aggregate.gen \in File
    BY BoundsAssumption, PayloadsAssumption DEF TypeOK, AttemptFiles, Inventory, AggregateFile
  <2>2. host' \in HostState /\ Bound(att[0].kept["result"], aggregate.gen)
    BY <1>1, <1>3, <2>1, BoundFields
  <2> QED BY <1>1, <1>3, <2>2, AfterFrame DEF BindEffect
<1> QED BY <1>1, <1>2, <1>3 DEF BindAggregate

\* One round of a loop over the sealed payloads.
CheckEffect(next) ==
  \/ Gives /\ UNCHANGED <<aggregate, qualified>>
  \/ Starts(next) /\ UNCHANGED afterVars
  \/ \E p \in host.todo : Round(p) /\ UNCHANGED afterVars

LEMMA CheckTyped ==
  ASSUME TypeOK, NEW at \in Labels, NEW next \in Labels, CheckSealed(at, next)
  PROVE  host' \in HostState /\ AfterTypes /\ host.pc = at /\ CheckEffect(next)
<1>1. host \in HostState /\ host.pc = at
  BY DEF TypeOK, CheckSealed
<1>2. CASE WorkerFails
  BY <1>1, <1>2, WorkerFailsGives DEF CheckEffect
<1>3. CASE Loop(next) /\ UNCHANGED afterVars
  BY <1>1, <1>3, LoopStarts, AfterFrame DEF CheckEffect
<1>4. ASSUME NEW p \in host.todo, host' = [host EXCEPT !.todo = @ \ {p}], UNCHANGED afterVars
      PROVE  host' \in HostState /\ AfterTypes /\ CheckEffect(next)
  <2>1. host' \in HostState /\ Round(p)
    BY <1>1, <1>4, RoundFields
  <2> QED BY <1>4, <2>1, AfterFrame DEF CheckEffect
<1> QED BY <1>1, <1>2, <1>3, <1>4 DEF CheckSealed

\* The rest of the qualification gives up, goes on, or returns the verdict.
RestEffect ==
  \/ Gives /\ UNCHANGED <<aggregate, qualified>>
  \/ Starts("checkAgain") /\ UNCHANGED afterVars
  \/ /\ host.pc = "writeValidation"
     /\ aggregate' = [aggregate EXCEPT !.valid = host.raw] /\ UNCHANGED <<post, qualified>>
     /\ Written
  \/ \E l \in {"publish", "postclean"} : Stays(l) /\ UNCHANGED afterVars

LEMMA RestTyped ==
  ASSUME TypeOK, ValidateAggregate \/ WriteValidation \/ CompareAggregate \/ Publish
  PROVE  host' \in HostState /\ AfterTypes /\ host.pc \in Qualifying /\ RestEffect
<1>1. /\ host \in HostState /\ {"publish", "postclean", "checkAgain", "compareAggregate"} \subseteq Labels
      /\ host.pc \in Qualifying
  BY DEF TypeOK, Labels, ValidateAggregate, WriteValidation, CompareAggregate, Publish, Qualifying
<1>2. CASE WorkerFails
  BY <1>1, <1>2, WorkerFailsGives DEF RestEffect
<1>3. CASE ValidateAggregate /\ ~WorkerFails
  BY <1>1, <1>3, LoopStarts, AfterFrame DEF ValidateAggregate, RestEffect
<1>4. CASE WriteValidation
  <2>1. host' \in HostState /\ Written
    BY <1>1, <1>4, WrittenFields DEF WriteValidation
  <2>2. aggregate' \in AggregateFile
    BY <1>1, <1>4 DEF WriteValidation, HostState, AggregateFile, TypeOK
  <2> QED BY <1>1, <1>4, <2>1, <2>2 DEF WriteValidation, AfterTypes, TypeOK, RestEffect
<1>5. CASE CompareAggregate
  BY <1>1, <1>5, ThrowsGives, GotoKeeps, AfterFrame DEF CompareAggregate, RestEffect, afterVars
<1>6. CASE Publish /\ ~WorkerFails
  BY <1>1, <1>6, GotoKeeps, AfterFrame DEF Publish, RestEffect
<1> QED BY <1>2, <1>3, <1>4, <1>5, <1>6

LEMMA PostcleanTyped ==
  ASSUME TypeOK, CleanupPostprocess
  PROVE  host' \in HostState /\ AfterTypes /\ host.pc = "postclean" /\ Stays("end")
<1>1. host \in HostState /\ "end" \in Labels
  BY DEF TypeOK, Labels
<1> QED BY <1>1, GotoKeeps DEF CleanupPostprocess, AfterTypes, TypeOK, AggregateFile

LEMMA QualifyTyped ==
  ASSUME TypeOK, Qualify
  PROVE  /\ host' \in HostState /\ AfterTypes
         /\ host.pc \in Qualifying \cup {"completed", "postclean"}
         /\ UNCHANGED <<box, foreign, providerVars, source, marker, sealVars, exportVars, edits>>
<1>1. UNCHANGED <<box, foreign, providerVars, source, marker, sealVars, exportVars, edits>>
  BY DEF Qualify
<1>2. CASE AdmitCompletion
  BY <1>1, <1>2, AdmitTyped, AfterFrame
<1>3. CASE Aggregate \/ BindAggregate
  BY <1>1, <1>3, AggregateTyped, BindTyped DEF Qualifying
<1>4. CASE \/ CheckSealed("checkPayloads", "validateAggregate")
           \/ CheckSealed("checkAgain", "writeValidation")
  BY <1>1, <1>4, CheckTyped DEF Qualifying, Labels
<1>5. CASE ValidateAggregate \/ WriteValidation \/ CompareAggregate \/ Publish
  BY <1>1, <1>5, RestTyped
<1>6. CASE CleanupPostprocess
  BY <1>1, <1>6, PostcleanTyped
<1> QED BY <1>2, <1>3, <1>4, <1>5, <1>6 DEF Qualify

-----------------------------------------------------------------------------
(* The world around the host.                                              *)

\* A rewritten file has new bytes; what is not there is not rewritten, and
\* nothing else changes.
EditEffect ==
  /\ edits' = edits + 1 /\ edits < MaxEdits
  /\ \A p \in Payloads : \/ source'[p] = source[p]
                         \/ source[p] # Gone /\ source'[p] = Fresh
  /\ \/ seal'.gen = seal.gen
     \/ seal.gen # Gone /\ seal'.gen = Fresh
  /\ seal'.inv = seal.inv /\ seal'.result = seal.result /\ seal'.verdict = seal.verdict
  /\ seal'.exit = seal.exit /\ seal'.read = seal.read
  /\ \A a \in Attempts :
        /\ att'[a].plan = att[a].plan /\ att'[a].manifest = att[a].manifest
        /\ att'[a].dir = att[a].dir
        /\ \A p \in Payloads : \/ att'[a].kept[p] = att[a].kept[p]
                               \/ att[a].kept[p] # Gone /\ att'[a].kept[p] = Fresh
  /\ aggregate'.verdict = aggregate.verdict

LEMMA EditTyped ==
  ASSUME TypeOK, Edit
  PROVE  /\ source' \in Inventory /\ seal' \in SealDocument
         /\ att' \in [Attempts -> AttemptFiles] /\ aggregate' \in AggregateFile
         /\ edits' \in 0 .. MaxEdits /\ EditEffect
         /\ UNCHANGED <<box, foreign, providerVars, host, marker, sealRef, exported, post, qualified>>
<1>1. Fresh \in File /\ edits' \in 0 .. MaxEdits /\ edits' = edits + 1 /\ edits < MaxEdits
  BY BoundsAssumption DEF Edit, Fresh, File, TypeOK
<1>2. UNCHANGED <<box, foreign, providerVars, host, marker, sealRef, exported, post, qualified>>
  BY DEF Edit
<1>3. /\ source \in Inventory /\ seal \in SealDocument
      /\ att \in [Attempts -> AttemptFiles] /\ aggregate \in AggregateFile
  BY DEF TypeOK
<1>4. ASSUME NEW p \in Payloads, source[p] # Gone, source' = [source EXCEPT ![p] = Fresh],
             UNCHANGED <<seal, att, aggregate>>
      PROVE  source' \in Inventory /\ EditEffect
  BY <1>1, <1>3, <1>4 DEF EditEffect, Inventory
<1>5. ASSUME NEW a \in Attempts, NEW p \in Payloads, att[a].kept[p] # Gone,
             att' = [att EXCEPT ![a].kept[p] = Fresh], UNCHANGED <<source, seal, aggregate>>
      PROVE  att' \in [Attempts -> AttemptFiles] /\ EditEffect
  <2>1. att[a] \in AttemptFiles
    BY <1>3
  <2>2. att' \in [Attempts -> AttemptFiles]
    BY <1>1, <1>3, <1>5, <2>1 DEF AttemptFiles, Inventory
  <2>3. ASSUME NEW b \in Attempts
        PROVE  /\ att'[b].plan = att[b].plan /\ att'[b].manifest = att[b].manifest
               /\ att'[b].dir = att[b].dir
               /\ \A q \in Payloads : \/ att'[b].kept[q] = att[b].kept[q]
                                      \/ att[b].kept[q] # Gone /\ att'[b].kept[q] = Fresh
    BY <1>3, <1>5, <2>1 DEF AttemptFiles, Inventory
  <2> QED BY <1>1, <1>5, <2>2, <2>3 DEF EditEffect
<1>6. ASSUME NEW a \in Attempts, att' = [att EXCEPT ![a].args = Fresh],
             UNCHANGED <<source, seal, aggregate>>
      PROVE  att' \in [Attempts -> AttemptFiles] /\ EditEffect
  <2>1. att' \in [Attempts -> AttemptFiles]
    BY <1>1, <1>3, <1>6 DEF AttemptFiles
  <2>2. ASSUME NEW b \in Attempts
        PROVE  /\ att'[b].plan = att[b].plan /\ att'[b].manifest = att[b].manifest
               /\ att'[b].dir = att[b].dir /\ att'[b].kept = att[b].kept
    BY <1>3, <1>6 DEF AttemptFiles
  <2> QED BY <1>1, <1>6, <2>1, <2>2 DEF EditEffect
<1>7. CASE /\ seal.gen # Gone /\ seal' = [seal EXCEPT !.gen = Fresh]
           /\ UNCHANGED <<source, att, aggregate>>
  <2>1. seal' \in SealDocument
    BY <1>1, <1>3, <1>7 DEF SealDocument
  <2>2. EditEffect
    BY <1>1, <1>3, <1>7 DEF EditEffect, SealDocument
  <2> QED BY <1>1, <1>2, <1>3, <1>7, <2>1, <2>2
<1>8. CASE /\ aggregate' = [aggregate EXCEPT !.gen = Fresh]
           /\ UNCHANGED <<source, seal, att>>
  <2>1. aggregate' \in AggregateFile /\ aggregate'.verdict = aggregate.verdict
    BY <1>1, <1>3, <1>8 DEF AggregateFile
  <2> QED BY <1>1, <1>2, <1>3, <1>8, <2>1 DEF EditEffect
<1> QED BY <1>1, <1>2, <1>3, <1>4, <1>5, <1>6, <1>7, <1>8 DEF Edit

\* Containers end, the observer marks and writes, others use the label, the
\* deadline passes.
WorldStep == Observer \/ Deadline \/ Engine

LEMMA WorldTyped ==
  ASSUME TypeOK, WorldStep
  PROVE  /\ BoxTyped /\ source' \in Inventory /\ foreign' \in {"none", "there", "late"}
         /\ marker' \in BOOLEAN
         /\ host' \in HostState
         /\ UNCHANGED <<providerVars, sealVars, exportVars, afterVars, edits>>
         /\ host' # host => Deadline /\ host' = [host EXCEPT !.late = TRUE]
<1>1. "broken" \in BoxState /\ "exit0" \in BoxState /\ "exit1" \in BoxState
  BY DEF BoxState
<1>2. 1 \in File /\ 2 \in File
  BY BoundsAssumption DEF File
<1>3. box \in [Services -> BoxState] /\ source \in Inventory /\ host \in HostState
      /\ marker \in BOOLEAN /\ foreign \in {"none", "there", "late"}
  BY DEF TypeOK
<1>4. CASE Observer
  <2>1. UNCHANGED <<foreign, providerVars, host, sealVars, exportVars, afterVars, edits>>
    BY <1>4 DEF Observer
  <2>2. marker' \in BOOLEAN
    BY <1>3, <1>4 DEF Observer, ObserverMarks, ObserverEnds
  <2>3. ASSUME NEW bytes \in {1, 2}, NEW exit \in {"exit0", "exit1"},
               source' = [source EXCEPT !["result"] = bytes],
               box' = [box EXCEPT !["observer"] = exit]
        PROVE  BoxTyped /\ source' \in Inventory
    BY <1>1, <1>2, <1>3, <2>3 DEF BoxTyped, Inventory
  <2>4. BoxTyped /\ source' \in Inventory
    BY <1>1, <1>3, <1>4, <2>3 DEF Observer, ObserverMarks, ObserverEnds, BoxTyped
  <2>5. foreign' \in {"none", "there", "late"} /\ host' \in HostState /\ host' = host
    BY <1>3, <2>1
  <2> QED BY <2>1, <2>2, <2>4, <2>5
<1>5. CASE Deadline
  BY <1>3, <1>5 DEF Deadline, HostState, BoxTyped, sealVars, exportVars, afterVars
<1>6. CASE Engine
  <2>1. CASE ForeignAppears
    BY <1>3, <1>6, <2>1 DEF Engine, ForeignAppears, BoxTyped, sealVars, exportVars, afterVars
  <2>2. ASSUME NEW s \in {"simulation", "stepper"} \cup Recorders, Ends(s)
        PROVE  BoxTyped /\ UNCHANGED <<foreign, providerVars, source, host>>
    BY <1>1, <1>3, <2>2 DEF Ends, BoxTyped
  <2> QED BY <1>3, <1>6, <2>1, <2>2 DEF Engine, sealVars, exportVars, afterVars
<1> QED BY <1>4, <1>5, <1>6 DEF WorldStep

LEMMA JobFailsTyped ==
  ASSUME TypeOK, JobFails
  PROVE  host' \in HostState /\ Forgets
         /\ host.pc \in {"judge", "seal", "remember", "export", "plan", "mkdir", "accept"}
<1>1. host \in HostState
  BY DEF TypeOK
<1> QED BY <1>1, ThrowsForgets DEF JobFails

-----------------------------------------------------------------------------
(* Every step is one of these.                                             *)

Quiet == UNCHANGED <<marker, sealVars, exportVars, afterVars, edits>>

LEMMA NextIs ==
  ASSUME [Next]_vars
  PROVE  \/ (Start \/ Cleanup \/ Measure) /\ Quiet
         \/ JobFails /\ Quiet /\ UNCHANGED <<box, foreign, providerVars, source>>
         \/ Seal
         \/ Export
         \/ Qualify
         \/ WorldStep
         \/ Edit
         \/ UNCHANGED vars
  BY DEF Next, HostStep, Provider, Measure, JobFails, Done, WorldStep, Quiet

\* What is copied lies in a directory that the attempt made.
PlaceInv == host.pc \in {"copy", "manifest"} => att[host.attempt].dir

TypeInv == TypeOK /\ TodoInv /\ PlaceInv

\* The parts of TypeOK that a step of some group leaves alone.
LEMMA QuietTyped ==
  ASSUME TypeOK, host' \in HostState, Quiet, BoxTyped, source' \in Inventory,
         foreign' \in {"none", "there", "late"},
         {acquired', simId', startupReady'} \subseteq BOOLEAN,
         outcome' \in [released : BOOLEAN, error : BOOLEAN]
  PROVE  TypeOK'
  BY DEF TypeOK, Quiet, BoxTyped, sealVars, exportVars, afterVars

LEMMA TypeKept ==
  ASSUME TypeInv, [Next]_vars
  PROVE  TypeOK'
<1>1. TypeOK /\ TodoInv /\ PlaceInv
  BY DEF TypeInv
<1>2. CASE Start /\ Quiet
  BY <1>1, <1>2, StartTyped, QuietTyped DEF TypeOK
<1>3. CASE Cleanup /\ Quiet
  <2>1. foreign' \in {"none", "there", "late"} /\ source' \in Inventory
        /\ {acquired', simId', startupReady'} \subseteq BOOLEAN
    BY <1>1, <1>3, CleanupTyped, NoDocTyped DEF TypeOK
  <2> QED BY <1>1, <1>3, <2>1, CleanupTyped, QuietTyped
<1>4. CASE Measure /\ Quiet
  <2>1. foreign' \in {"none", "there", "late"}
        /\ {acquired', simId', startupReady'} \subseteq BOOLEAN
        /\ outcome' \in [released : BOOLEAN, error : BOOLEAN]
    BY <1>1, <1>4, MeasureTyped DEF TypeOK, providerVars
  <2> QED BY <1>1, <1>4, <2>1, MeasureTyped, QuietTyped
<1>5. CASE JobFails /\ Quiet /\ UNCHANGED <<box, foreign, providerVars, source>>
  <2>1. /\ foreign' \in {"none", "there", "late"} /\ source' \in Inventory /\ BoxTyped
        /\ {acquired', simId', startupReady'} \subseteq BOOLEAN
        /\ outcome' \in [released : BOOLEAN, error : BOOLEAN]
    BY <1>1, <1>5 DEF TypeOK, providerVars, BoxTyped
  <2> QED BY <1>1, <1>5, <2>1, JobFailsTyped, QuietTyped
<1>6. CASE Seal
  <2>1. host' \in HostState /\ seal' \in SealDocument /\ sealRef' \in File
    BY <1>1, <1>6, SealTyped
  <2>2. UNCHANGED <<box, foreign, providerVars, source, marker, exportVars, afterVars, edits>>
    BY <1>6 DEF Seal
  <2> QED BY <1>1, <2>1, <2>2 DEF TypeOK, providerVars, exportVars, afterVars
<1>7. CASE Export
  <2>1. host' \in HostState /\ att' \in [Attempts -> AttemptFiles] /\ exported' \in ExportState
    BY <1>1, <1>7, ExportTyped
  <2>2. UNCHANGED <<box, foreign, providerVars, source, marker, sealVars, afterVars, edits>>
    BY <1>7 DEF Export
  <2>3. \A a \in Attempts : att'[a].kept # NoDoc => att'[a].dir
    <3>1. CASE UNCHANGED att
      BY <1>1, <3>1 DEF TypeOK
    <3>2. CASE WritePlan
      <4>1. \A a \in Attempts : att'[a].kept = att[a].kept /\ att'[a].dir = att[a].dir
        BY <1>1, <3>1, <3>2, WritePlanTyped, AttemptTyped DEF PlanEffect, TypeOK, AttemptFiles
      <4> QED BY <1>1, <4>1 DEF TypeOK
    <3>3. CASE MakeDirectory
      <4>1. \A a \in Attempts : att'[a].kept = att[a].kept /\ (att[a].dir => att'[a].dir)
        BY <1>1, <3>1, <3>3, MakeDirectoryTyped, AttemptTyped DEF TypeOK, AttemptFiles
      <4> QED BY <1>1, <4>1 DEF TypeOK
    <3>4. CASE CopyPayload
      <4>1. \A a \in Attempts : /\ att'[a].dir = att[a].dir
                                /\ a # host.attempt => att'[a].kept = att[a].kept
        <5>1. UNCHANGED att \/ \E p : att' = [att EXCEPT ![host.attempt].kept[p] = source[p]]
          BY <1>1, <3>4, CopyTyped DEF CopyEffect
        <5>2. ASSUME NEW p, att' = [att EXCEPT ![host.attempt].kept[p] = source[p]],
                     NEW a \in Attempts
              PROVE  att'[a].dir = att[a].dir /\ (a # host.attempt => att'[a].kept = att[a].kept)
          <6>1. att \in [Attempts -> AttemptFiles]
            BY <1>1 DEF TypeOK
          <6> QED BY <1>1, <5>2, <6>1, AttemptTyped DEF AttemptFiles
        <5> QED BY <3>1, <5>1, <5>2
      <4>2. att[host.attempt].dir
        BY <1>1, <3>4 DEF CopyPayload, PlaceInv
      <4> QED BY <1>1, <4>1, <4>2 DEF TypeOK
    <3>5. CASE WriteManifest
      <4>1. \A a \in Attempts : att'[a].kept = att[a].kept /\ att'[a].dir = att[a].dir
        BY <1>1, <3>1, <3>5, ManifestTyped, AttemptTyped DEF TypeOK, AttemptFiles
      <4> QED BY <1>1, <4>1 DEF TypeOK
    <3>6. CASE ~(WritePlan \/ MakeDirectory \/ CopyPayload \/ WriteManifest)
      BY <1>7, <3>1, <3>6 DEF Export, BeginExport, CompareRetained, AcceptExport, RetryExport,
                              exportVars
    <3> QED BY <3>2, <3>3, <3>4, <3>5, <3>6
  <2> QED BY <1>1, <2>1, <2>2, <2>3 DEF TypeOK, providerVars, sealVars, afterVars
<1>8. CASE Qualify
  <2>1. host' \in HostState /\ AfterTypes
    BY <1>1, <1>8, QualifyTyped
  <2>2. UNCHANGED <<box, foreign, providerVars, source, marker, sealVars, exportVars, edits>>
    BY <1>8 DEF Qualify
  <2> QED BY <1>1, <2>1, <2>2 DEF TypeOK, AfterTypes, providerVars, sealVars, exportVars
<1>9. CASE WorldStep
  BY <1>1, <1>9, WorldTyped DEF TypeOK, BoxTyped, providerVars, sealVars, exportVars, afterVars
<1>10. CASE Edit
  <2>1. \A a \in Attempts : att'[a].kept # NoDoc => att'[a].dir
    <3> SUFFICES ASSUME NEW a \in Attempts, ~att'[a].dir PROVE att'[a].kept = NoDoc
      OBVIOUS
    <3>1. ~att[a].dir /\ att[a].kept = NoDoc
      BY <1>1, <1>10, EditTyped DEF EditEffect, TypeOK
    <3>2. \A p \in Payloads : att'[a].kept[p] = Gone
      BY <1>1, <1>10, <3>1, EditTyped DEF EditEffect, NoDoc
    <3>3. att'[a].kept \in [Payloads -> File]
      BY <1>1, <1>10, EditTyped DEF AttemptFiles, Inventory
    <3> QED BY <3>2, <3>3 DEF NoDoc
  <2> QED BY <1>1, <1>10, <2>1, EditTyped DEF TypeOK, providerVars
<1>11. CASE UNCHANGED vars
  BY <1>1, <1>11 DEF TypeOK, vars, providerVars, sealVars, exportVars, afterVars
<1> QED BY <1>2, <1>3, <1>4, <1>5, <1>6, <1>7, <1>8, <1>9, <1>10, <1>11, NextIs

\* Throwing and giving up leave no loop.
LEMMA TodoKept ==
  ASSUME TypeInv, [Next]_vars
  PROVE  TodoInv'
<1>1. /\ TypeOK /\ TodoInv /\ host \in HostState /\ Recorders \subseteq Services
  BY DEF TypeInv, TypeOK, Services
<1>2. CASE Forgets \/ Gives
  BY <1>2 DEF Forgets, Gives, TodoInv
<1>3. ASSUME NEW l, Starts(l), l # "drain"
      PROVE  TodoInv'
  BY <1>3 DEF Starts, TodoInv
<1>4. ASSUME NEW l, Stays(l), l # "drain", host.pc # "drain"
      PROVE  TodoInv'
  BY <1>1, <1>4 DEF Stays, TodoInv
<1>5. CASE Start /\ Quiet
  BY <1>1, <1>2, <1>4, <1>5, StartTyped DEF Starting
<1>6. CASE Cleanup /\ Quiet
  BY <1>1, <1>4, <1>6, CleanupTyped DEF Cleaning
<1>7. CASE Measure /\ Quiet
  <2>1. MeasureEffect
    BY <1>1, <1>7, MeasureTyped
  <2>2. CASE host.pc \in Opening /\ \E l \in Opening : Stays(l)
    BY <1>4, <2>2 DEF Opening
  <2>3. ASSUME NEW l, NEW o, host.pc # "drain", l # "drain", Looks(l, o)
        PROVE  TodoInv'
    BY <1>1, <2>3 DEF TodoInv, Looks
  <2>4. CASE /\ host.pc \in {"look", "marker", "await"}
             /\ \/ Looks("source", box["observer"])
                \/ Looks("stop", None)
                \/ Looks("look", None)
                \/ Looks("logs", box["observer"])
    BY <2>3, <2>4
  <2>5. CASE Begins("drain", Recorders)
    BY <2>5 DEF TodoInv, Begins
  <2>6. ASSUME NEW s \in host.todo, host.pc = "drain", Drains(s)
        PROVE  TodoInv'
    BY <1>1, <2>6 DEF TodoInv, Drains
  <2>7. CASE host.pc = "finalize" /\ Stays("await")
    BY <1>4, <2>7
  <2>9. CASE Starts("collect")
    BY <1>3, <2>9
  <2> QED BY <1>2, <2>1, <2>2, <2>3, <2>4, <2>5, <2>6, <2>7, <2>9 DEF MeasureEffect
<1>8. CASE JobFails
  BY <1>1, <1>2, <1>8, JobFailsTyped
<1>9. ASSUME NEW at \in Labels, NEW next \in Labels, at # "drain", next # "drain",
             Collect(at, next)
      PROVE  TodoInv'
  <2>1. host.pc = at /\ CollectEffect(next)
    BY <1>1, <1>9, CollectTyped
  <2> QED BY <1>1, <1>2, <1>3, <1>9, <2>1 DEF CollectEffect, InvRound, TodoInv
<1>10. CASE Seal
  <2>1. CASE Collect("collect", "judge")
    BY <1>9, <2>1 DEF Labels
  <2>2. CASE JudgeResult
    BY <1>1, <1>2, <2>2, JudgeTyped DEF JudgeEffect, Judged, TodoInv
  <2>3. CASE Validate
    BY <1>1, <1>2, <1>3, <2>3, ValidateTyped DEF ValidateEffect, SeenRound, TodoInv
  <2>4. CASE Recheck
    BY <1>1, <1>2, <1>4, <2>4, RecheckTyped DEF RecheckEffect, Round, TodoInv
  <2>5. CASE WriteSeal
    BY <1>1, <1>2, <1>4, <2>5, WriteSealTyped DEF SealEffect
  <2>6. CASE RememberSeal
    BY <1>1, <2>6 DEF RememberSeal, TodoInv, HostState
  <2> QED BY <1>10, <2>1, <2>2, <2>3, <2>4, <2>5, <2>6 DEF Seal
<1>11. CASE Export
  <2>1. CASE Collect("inventory", "plan")
    BY <1>9, <2>1 DEF Labels
  <2>2. CASE BeginExport
    BY <1>1, <1>2, <1>3, <2>2, BeginTyped DEF BeginEffect
  <2>3. CASE WritePlan \/ MakeDirectory \/ WriteManifest
    BY <1>1, <1>2, <1>3, <1>4, <2>3, WritePlanTyped, MakeDirectoryTyped, ManifestTyped
       DEF PlanEffect
  <2>4. CASE CopyPayload
    BY <1>1, <1>2, <1>4, <2>4, CopyTyped DEF CopyEffect, Round, TodoInv
  <2>5. CASE CompareRetained
    BY <1>1, <1>2, <1>4, <2>5, CompareTyped DEF CompareEffect, InvRound, TodoInv
  <2>6. CASE AcceptExport
    BY <1>1, <1>2, <2>6, AcceptTyped DEF AcceptEffect, Accepted, TodoInv
  <2>7. CASE RetryExport
    BY <1>1, <1>4, <2>7, RetryTyped DEF RetryEffect, Retried, TodoInv
  <2> QED BY <1>11, <2>1, <2>2, <2>3, <2>4, <2>5, <2>6, <2>7 DEF Export
<1>12. CASE Qualify
  <2>1. CASE AdmitCompletion
    BY <1>1, <1>2, <1>4, <2>1, AdmitTyped DEF AdmitEffect
  <2>2. CASE Aggregate
    BY <1>1, <1>2, <2>2, AggregateTyped DEF AggregateEffect, Looks, TodoInv
  <2>3. CASE BindAggregate
    BY <1>1, <1>2, <2>3, BindTyped DEF BindEffect, Bound, TodoInv
  <2>4. ASSUME NEW at \in Labels, NEW next \in Labels, at # "drain", next # "drain",
               CheckSealed(at, next)
        PROVE  TodoInv'
    <3>1. host.pc = at /\ CheckEffect(next)
      BY <1>1, <2>4, CheckTyped
    <3> QED BY <1>1, <1>2, <1>3, <2>4, <3>1 DEF CheckEffect, Round, TodoInv
  <2>5. CASE \/ CheckSealed("checkPayloads", "validateAggregate")
             \/ CheckSealed("checkAgain", "writeValidation")
    BY <2>4, <2>5 DEF Labels
  <2>6. CASE ValidateAggregate \/ WriteValidation \/ CompareAggregate \/ Publish
    <3>1. RestEffect /\ host.pc # "drain"
      BY <1>1, <2>6, RestTyped DEF Qualifying
    <3> QED BY <1>1, <1>2, <1>3, <1>4, <3>1 DEF RestEffect, Written, TodoInv
  <2>7. CASE CleanupPostprocess
    BY <1>1, <1>4, <2>7, PostcleanTyped
  <2> QED BY <1>12, <2>1, <2>2, <2>3, <2>5, <2>6, <2>7 DEF Qualify
<1>13. CASE WorldStep
  <2>1. UNCHANGED host \/ host' = [host EXCEPT !.late = TRUE]
    BY <1>1, <1>13, WorldTyped
  <2> QED BY <1>1, <2>1 DEF TodoInv, HostState
<1>14. CASE Edit \/ UNCHANGED vars
  <2>1. UNCHANGED host
    BY <1>14 DEF Edit, vars
  <2> QED BY <1>1, <2>1 DEF TodoInv
<1> QED BY <1>5, <1>6, <1>7, <1>8, <1>10, <1>11, <1>12, <1>13, <1>14, NextIs

\* The phases follow each other, whatever the world does in between.
Wanders == /\ WorldStep \/ Edit \/ UNCHANGED vars
           /\ UNCHANGED host \/ host' = [host EXCEPT !.late = TRUE]

LEMMA Phases ==
  ASSUME TypeInv, [Next]_vars
  PROVE  \/ Start /\ Quiet /\ host.pc \in Starting /\ host'.pc \in Starting \cup {"begin", "retained"}
         \/ Cleanup /\ Quiet /\ host.pc \in Cleaning /\ host'.pc \in Cleaning \cup {"completed"}
         \/ Measure /\ Quiet /\ host.pc \in Measuring /\ host'.pc \in Measuring \cup {"collect", "retained"}
         \/ JobFails /\ Quiet /\ UNCHANGED <<box, foreign, providerVars, source>> /\ host'.pc = "retained"
         \/ Seal /\ host.pc \in Sealing /\ host'.pc \in Sealing \cup {"remember", "retained"}
         \/ Seal /\ RememberSeal /\ host.pc = "remember" /\ host'.pc = "export"
         \/ Export /\ host.pc \in Exporting \cup {"retained"}
                   /\ host'.pc \in Exporting \cup {"retained", "cleanup"}
         \/ Qualify /\ host.pc \in Qualifying \cup {"completed", "postclean"}
                    /\ host'.pc \in Qualifying \cup {"postclean", "end"}
         \/ Wanders
<1>1. TypeOK /\ TodoInv /\ host \in HostState
  BY DEF TypeInv, TypeOK
<1>10. {"collect", "judge", "inventory", "plan"} \subseteq Labels
  BY DEF Labels
<1>11. Gives => host'.pc = "postclean"
  BY DEF Gives
<1>2. CASE Start /\ Quiet
  BY <1>1, <1>2, StartTyped DEF Forgets, Stays
<1>3. CASE Cleanup /\ Quiet
  BY <1>1, <1>3, CleanupTyped DEF Stays
<1>4. CASE Measure /\ Quiet
  <2>1. MeasureEffect /\ host.pc \in Measuring
    BY <1>1, <1>4, MeasureTyped
  <2>2. \/ host'.pc \in Opening \cup {"drain", "finalize", "await", "logs", "collect", "retained"}
        \/ host'.pc = "source"
    BY <1>1, <2>1 DEF MeasureEffect, Forgets, Stays, Starts, Looks, Begins, Drains, Opening
  <2> QED BY <1>4, <2>1, <2>2 DEF Opening, Measuring
<1>5. CASE JobFails /\ Quiet /\ UNCHANGED <<box, foreign, providerVars, source>>
  BY <1>1, <1>5, JobFailsTyped DEF Forgets
<1>6. CASE Seal
  <2>1. ASSUME host.pc \in Sealing, host'.pc \in Sealing \cup {"remember", "retained"}
        PROVE  Seal /\ host.pc \in Sealing /\ host'.pc \in Sealing \cup {"remember", "retained"}
    BY <1>6, <2>1
  <2>2. CASE Collect("collect", "judge")
    <3>1. host.pc = "collect" /\ CollectEffect("judge")
      BY <1>1, <1>10, <2>2, CollectTyped
    <3>2. host'.pc \in {"collect", "judge", "retained"}
      BY <3>1 DEF CollectEffect, Forgets, Starts, InvRound
    <3> QED BY <2>1, <3>1, <3>2 DEF Sealing
  <2>3. CASE JudgeResult
    <3>1. host.pc = "judge" /\ host'.pc \in {"validate", "retained"}
      BY <1>1, <2>3, JudgeTyped DEF JudgeEffect, Forgets, Judged
    <3> QED BY <2>1, <3>1 DEF Sealing
  <2>4. CASE Validate
    <3>1. host.pc = "validate" /\ ValidateEffect
      BY <1>1, <2>4, ValidateTyped
    <3>2. host'.pc \in {"validate", "recheck", "retained"}
      BY <3>1 DEF ValidateEffect, Forgets, Starts, SeenRound
    <3> QED BY <2>1, <3>1, <3>2 DEF Sealing
  <2>5. CASE Recheck
    <3>1. host.pc = "recheck" /\ RecheckEffect
      BY <1>1, <2>5, RecheckTyped
    <3>2. host'.pc \in {"recheck", "seal", "retained"}
      BY <3>1 DEF RecheckEffect, Forgets, Stays, Round
    <3> QED BY <2>1, <3>1, <3>2 DEF Sealing
  <2>6. CASE WriteSeal
    BY <1>1, <1>6, <2>6, WriteSealTyped DEF SealEffect, Forgets, Stays, Sealing
  <2>7. CASE RememberSeal
    BY <1>1, <1>6, <2>7 DEF RememberSeal, HostState
  <2> QED BY <1>6, <2>2, <2>3, <2>4, <2>5, <2>6, <2>7 DEF Seal
<1>7. CASE Export
  <2>1. host.pc \in Exporting \cup {"retained"}
    BY <1>1, <1>7, ExportTyped
  <2>2. host'.pc \in Exporting \cup {"retained", "cleanup"}
    <3>1. CASE Collect("inventory", "plan")
      <4>1. host.pc = "inventory" /\ CollectEffect("plan")
        BY <1>1, <1>10, <3>1, CollectTyped
      <4>2. host'.pc \in {"inventory", "plan", "retained"}
        BY <4>1 DEF CollectEffect, Forgets, Starts, InvRound
      <4> QED BY <4>2 DEF Exporting
    <3>2. CASE BeginExport \/ WritePlan \/ MakeDirectory \/ WriteManifest
      BY <1>1, <3>2, BeginTyped, WritePlanTyped, MakeDirectoryTyped, ManifestTyped
         DEF BeginEffect, PlanEffect, Forgets, Starts, Stays, Exporting
    <3>3. CASE CopyPayload
      <4>1. host.pc = "copy" /\ CopyEffect
        BY <1>1, <3>3, CopyTyped
      <4>2. Forgets \/ Stays("manifest") \/ \E p : Round(p)
        BY <4>1 DEF CopyEffect
      <4>3. host'.pc \in {"copy", "manifest", "retained"}
        BY <4>1, <4>2 DEF Forgets, Stays, Round
      <4> QED BY <4>3 DEF Exporting
    <3>4. CASE CompareRetained
      <4>1. host'.pc \in {"compare", "accept", "retained"}
        BY <1>1, <3>4, CompareTyped DEF CompareEffect, Forgets, Stays, InvRound
      <4> QED BY <4>1 DEF Exporting
    <3>5. CASE AcceptExport
      BY <1>1, <3>5, AcceptTyped DEF AcceptEffect, Forgets, Accepted
    <3>6. CASE RetryExport
      <4>1. host'.pc \in {"export", "cleanup"}
        BY <1>1, <3>6, RetryTyped DEF RetryEffect, Stays, Retried
      <4> QED BY <4>1 DEF Exporting
    <3> QED BY <1>7, <3>1, <3>2, <3>3, <3>4, <3>5, <3>6 DEF Export
  <2> QED BY <1>7, <2>1, <2>2
<1>8. CASE Qualify
  <2>1. host.pc \in Qualifying \cup {"completed", "postclean"}
    BY <1>1, <1>8, QualifyTyped
  <2>2. host'.pc \in Qualifying \cup {"postclean", "end"}
    <3>1. CASE AdmitCompletion
      <4>1. host'.pc \in {"aggregate", "postclean"}
        BY <1>1, <3>1, AdmitTyped DEF AdmitEffect, Gives, Stays
      <4> QED BY <4>1 DEF Qualifying
    <3>2. CASE Aggregate
      <4>1. AggregateEffect
        BY <1>1, <3>2, AggregateTyped
      <4>2. host'.pc \in {"bindAggregate", "postclean"}
        <5>1. Gives \/ \E o : Looks("bindAggregate", o)
          BY <4>1 DEF AggregateEffect
        <5>2. ASSUME NEW o, Looks("bindAggregate", o) PROVE host'.pc = "bindAggregate"
          BY <5>2 DEF Looks
        <5> QED BY <5>1, <5>2, <1>11
      <4> QED BY <4>2 DEF Qualifying
    <3>3. CASE BindAggregate
      <4>1. BindEffect
        BY <1>1, <3>3, BindTyped
      <4>2. host'.pc \in {"checkPayloads", "postclean"}
        <5>1. Gives \/ \E f, g : Bound(f, g)
          BY <4>1 DEF BindEffect
        <5>2. ASSUME NEW f, NEW g, Bound(f, g) PROVE host'.pc = "checkPayloads"
          BY <5>2 DEF Bound
        <5> QED BY <5>1, <5>2, <1>11
      <4> QED BY <4>2 DEF Qualifying
    <3>4. ASSUME NEW at \in Qualifying, NEW next \in Qualifying, CheckSealed(at, next)
          PROVE  host'.pc \in Qualifying \cup {"postclean", "end"}
      <4>1. host.pc = at /\ CheckEffect(next)
        BY <1>1, <3>4, CheckTyped, LabelsAre
      <4> QED BY <1>1, <3>4, <4>1 DEF CheckEffect, Gives, Starts, Round
    <3>5. CASE \/ CheckSealed("checkPayloads", "validateAggregate")
               \/ CheckSealed("checkAgain", "writeValidation")
      BY <3>4, <3>5 DEF Qualifying
    <3>6. CASE ValidateAggregate \/ WriteValidation \/ CompareAggregate \/ Publish
      <4>1. RestEffect
        BY <1>1, <3>6, RestTyped
      <4>2. host'.pc \in {"postclean", "checkAgain", "compareAggregate", "publish"}
        <5>1. Gives \/ Starts("checkAgain") \/ Written \/ \E l \in {"publish", "postclean"} : Stays(l)
          BY <4>1 DEF RestEffect
        <5>2. Written => host'.pc = "compareAggregate"
          BY DEF Written
        <5>3. Starts("checkAgain") => host'.pc = "checkAgain"
          BY DEF Starts
        <5>4. \A l \in {"publish", "postclean"} : Stays(l) => host'.pc = l
          BY DEF Stays
        <5> QED BY <5>1, <5>2, <5>3, <5>4, <1>11
      <4> QED BY <4>2 DEF Qualifying
    <3>7. CASE CleanupPostprocess
      BY <1>1, <3>7, PostcleanTyped DEF Stays
    <3> QED BY <1>8, <3>1, <3>2, <3>3, <3>5, <3>6, <3>7 DEF Qualify
  <2> QED BY <1>8, <2>1, <2>2
<1>9. CASE WorldStep \/ Edit \/ UNCHANGED vars
  BY <1>1, <1>9, WorldTyped, EditTyped DEF Wanders, vars
<1> QED BY <1>2, <1>3, <1>4, <1>5, <1>6, <1>7, <1>8, <1>9, NextIs

LEMMA PlaceKept ==
  ASSUME TypeInv, [Next]_vars
  PROVE  PlaceInv'
<1>1. /\ TypeOK /\ TodoInv /\ PlaceInv /\ host \in HostState
      /\ att \in [Attempts -> AttemptFiles] /\ host.attempt \in Attempts
  BY AttemptTyped DEF TypeInv, TypeOK
<1>2. CASE host'.pc \notin {"copy", "manifest"}
  BY <1>2 DEF PlaceInv
<1>3. CASE Export
  <2>1. CASE MakeDirectory
    <3>1. CASE Forgets
      BY <3>1 DEF Forgets, PlaceInv
    <3>2. CASE att' = [att EXCEPT ![host.attempt].dir = TRUE] /\ Starts("copy")
      <4>1. host'.attempt = host.attempt
        BY <3>2 DEF Starts
      <4>2. att'[host.attempt].dir
        BY <1>1, <3>2 DEF AttemptFiles
      <4> QED BY <4>1, <4>2 DEF PlaceInv
    <3> QED BY <1>1, <2>1, <3>1, <3>2, MakeDirectoryTyped
  <2>2. CASE CopyPayload
    <3>1. host.pc = "copy" /\ CopyEffect
      BY <1>1, <2>2, CopyTyped
    <3>2. CASE Forgets \/ (Stays("manifest") /\ UNCHANGED att)
      BY <1>1, <3>1, <3>2 DEF Forgets, Stays, PlaceInv
    <3>3. ASSUME NEW p \in host.todo, att' = [att EXCEPT ![host.attempt].kept[p] = source[p]],
                 Round(p)
          PROVE  PlaceInv'
      <4>1. host'.attempt = host.attempt /\ att[host.attempt].dir
        BY <1>1, <3>1, <3>3 DEF Round, SameRest, PlaceInv
      <4>2. att'[host.attempt].dir
        BY <1>1, <3>3, <4>1 DEF AttemptFiles
      <4> QED BY <4>1, <4>2 DEF PlaceInv
    <3> QED BY <3>1, <3>2, <3>3 DEF CopyEffect
  <2>3. CASE ~MakeDirectory /\ ~CopyPayload
    <3>1. host'.pc \notin {"copy", "manifest"}
      <4>1. CASE Collect("inventory", "plan")
        <5>1. host.pc = "inventory" /\ CollectEffect("plan")
          <6>1. "inventory" \in Labels /\ "plan" \in Labels
            BY DEF Labels
          <6> QED BY <1>1, <4>1, <6>1, CollectTyped
        <5> QED BY <5>1 DEF CollectEffect, Forgets, Starts, InvRound
      <4>2. CASE BeginExport \/ WritePlan \/ WriteManifest
        BY <1>1, <4>2, BeginTyped, WritePlanTyped, ManifestTyped
           DEF BeginEffect, PlanEffect, Forgets, Starts, Stays
      <4>3. CASE CompareRetained
        BY <1>1, <4>3, CompareTyped DEF CompareEffect, Forgets, Stays, InvRound
      <4>4. CASE AcceptExport
        BY <1>1, <4>4, AcceptTyped DEF AcceptEffect, Forgets, Accepted
      <4>5. CASE RetryExport
        BY <1>1, <4>5, RetryTyped DEF RetryEffect, Stays, Retried
      <4> QED BY <1>3, <2>3, <4>1, <4>2, <4>3, <4>4, <4>5 DEF Export
    <3> QED BY <1>2, <3>1
  <2> QED BY <2>1, <2>2, <2>3
<1>4. CASE Wanders
  <2>1. host'.pc = host.pc /\ host'.attempt = host.attempt
    BY <1>1, <1>4 DEF Wanders, HostState
  <2>2. att[host.attempt].dir => att'[host.attempt].dir
    <3>1. CASE Edit
      BY <1>1, <3>1, EditTyped DEF EditEffect
    <3>2. CASE WorldStep \/ UNCHANGED vars
      BY <1>1, <3>2, WorldTyped DEF exportVars, vars
    <3> QED BY <1>4, <3>1, <3>2 DEF Wanders
  <2> QED BY <1>1, <2>1, <2>2 DEF PlaceInv
<1> QED BY <1>2, <1>3, <1>4, Phases DEF Starting, Cleaning, Measuring, Sealing, Qualifying

LEMMA TypeSteps == TypeInv /\ [Next]_vars => TypeInv'
  BY TypeKept, TodoKept, PlaceKept DEF TypeInv

LEMMA TypeInit == Init => TypeInv
<1> SUFFICES ASSUME Init PROVE TypeInv
  OBVIOUS
<1>1. NoDoc \in Inventory /\ Gone \in File /\ None \in BoxState /\ 0 \in Attempts
  BY NoDocTyped, BoundsAssumption DEF None, BoxState
<1>2. host \in HostState /\ seal \in SealDocument /\ NoSeal \in SealDocument
  BY <1>1 DEF Init, HostState, SealDocument, NoSeal, Labels
<1>3. att \in [Attempts -> AttemptFiles] /\ \A a \in Attempts : att[a].kept = NoDoc
  BY <1>1 DEF Init, AttemptFiles, NoAttempt
<1>4. exported \in ExportState /\ aggregate \in AggregateFile
  BY <1>1 DEF Init, ExportState, NoExport, AggregateFile, NoAggregate
<1>5. box \in [Services -> BoxState]
  BY DEF Init, BoxState
<1>6. {acquired, simId, startupReady, marker, post} \subseteq BOOLEAN
  BY DEF Init
<1>7. outcome \in [released : BOOLEAN, error : BOOLEAN] /\ foreign \in {"none", "there", "late"}
  BY DEF Init
<1>8. /\ source \in Inventory /\ sealRef \in File /\ qualified \in {None, "passed", "failed"}
      /\ edits \in 0 .. MaxEdits
  BY <1>1, BoundsAssumption DEF Init
<1>9. TypeOK
  BY <1>2, <1>3, <1>4, <1>5, <1>6, <1>7, <1>8 DEF TypeOK
<1>10. TodoInv /\ PlaceInv
  BY DEF Init, TodoInv, PlaceInv
<1> QED BY <1>9, <1>10 DEF TypeInv

\* Containers, files and the host's record keep their kinds.
THEOREM TypeCorrect == Spec => []TypeOK
<1>1. Spec => []TypeInv
  BY TypeInit, TypeSteps, PTL DEF Spec
<1>2. TypeInv => TypeOK
  BY DEF TypeInv
<1> QED BY <1>1, <1>2, PTL

-----------------------------------------------------------------------------
(* The seal.                                                               *)

\* Until the seal is written there is none, and nothing was exported.
Before == Starting \cup Measuring \cup Sealing

OrderInv ==
  /\ host.pc \in Before => seal.gen = Gone
  /\ host.pc \in Before \cup {"remember"} => sealRef = Gone /\ ~exported.done
  /\ sealRef # Gone => seal.gen # Gone
  /\ aggregate.verdict # None => host.pc \in Qualifying \cup {"postclean", "end"}

\* A recorder that was drained has exited cleanly, and from there on all have.
DrainedInv ==
  /\ host.pc = "drain" => \A r \in Recorders \ host.todo : box[r] = "exit0"
  /\ host.pc \in {"finalize", "await", "logs", "remember"} \cup Sealing =>
        \A r \in Recorders : box[r] = "exit0"

\* While the seal is made the observer is gone: a payload changes only by a
\* rewrite, to bytes that are new.
SilentInv ==
  /\ host.pc \in {"logs", "remember"} \cup Sealing => box["observer"] # "running"
  /\ \A p \in Payloads : source[p] <= edits + 2

\* The bytes of a payload only get newer: what was read lies between what was
\* read before it and what is there now, and where the first and the last
\* agree all agree.
ReadsInv ==
  /\ host.pc = "collect" => \A p \in Payloads \ host.todo : host.inv[p] <= source[p]
  /\ host.pc = "judge" => host.todo = Payloads /\ \A p \in Payloads : host.inv[p] <= source[p]
  /\ host.pc = "validate" =>
        /\ \A p \in Payloads : host.inv[p] <= source[p]
        /\ \A p \in Payloads \ host.todo : host.inv[p] <= host.seen[p] /\ host.seen[p] <= source[p]
  /\ host.pc = "recheck" =>
        /\ \A p \in Payloads : host.inv[p] <= host.seen[p] /\ host.seen[p] <= source[p]
        /\ \A p \in Payloads \ host.todo : host.seen[p] = host.inv[p]
  /\ host.pc = "seal" => \A p \in Payloads : host.seen[p] = host.inv[p]

JudgedInv ==
  /\ host.pc \in {"validate", "recheck", "seal"} => ExitAgrees(host.obs, Verdict(host.judged))
  /\ host.pc \in {"validate", "recheck"} =>
        host.inv["result"] <= host.judged /\ host.judged <= source["result"]
  /\ host.pc = "recheck" /\ "result" \notin host.todo => host.judged = host.inv["result"]
  /\ host.pc = "seal" => host.judged = host.inv["result"]

SealInv == OrderInv /\ DrainedInv /\ SilentInv /\ ReadsInv /\ JudgedInv /\ SealValidated

-----------------------------------------------------------------------------
(* The export.                                                             *)

\* An attempt without a directory declared nothing; one that copies has
\* neither a manifest nor the payloads it has still to copy.
AttemptInv ==
  /\ \A a \in Attempts : ~att[a].dir => att[a].manifest = NoDoc
  /\ host.pc \in {"copy", "manifest"} => att[host.attempt].manifest = NoDoc
  /\ host.pc = "copy" => \A p \in host.todo : att[host.attempt].kept[p] = Gone

\* The plan of a sealed run is of the sealed digests as long as the seal is
\* the one that was written, and what is retained was compared with it.
Planned == host.pc \in {"mkdir", "copy", "manifest", "compare", "accept"}

PlanInv ==
  /\ Planned /\ sealRef = Original /\ seal.gen = Original => att[host.attempt].plan = seal.inv
  /\ host.pc \in {"compare", "accept"} => att[host.attempt].manifest = att[host.attempt].plan
  /\ host.pc = "compare" =>
        \A p \in Payloads \ host.todo : host.inv[p] = att[host.attempt].manifest[p]
  /\ host.pc = "accept" => \A p \in Payloads : host.inv[p] = att[host.attempt].manifest[p]

-----------------------------------------------------------------------------
(* The qualification.                                                      *)

\* The qualification works for a run that completed, and returns at its end.
Admitted == host.pc \in Qualifying \/ (host.pc = "postclean" /\ ~host.failed)

AdmittedInv ==
  /\ Admitted => CompletionPassed /\ exported.attempt = 0
  /\ host.pc \in Qualifying => sealRef # Gone
  /\ exported.args # Gone => exported.attempt = 0
  /\ qualified # None =>
        /\ host.pc = "end" /\ qualified = aggregate.verdict /\ ~post
        /\ CompletionPassed /\ exported.attempt = 0

\* An aggregate that passed is of a result that passed, and the retained
\* result is the sealed one where the seal is the one that was written.
Compared == \/ host.pc \in Qualifying \ {"aggregate", "bindAggregate"}
            \/ host.pc = "postclean" /\ ~host.failed
            \/ qualified # None

VerdictInv ==
  /\ aggregate.verdict = "passed" =>
        att[0].kept["result"] # seal.result \/ seal.verdict = "passed"
  /\ Compared /\ aggregate.verdict = "passed" => seal.gen # Original \/ seal.verdict = "passed"
  /\ seal.result <= edits + 2

\* The host removes a project only after it saw nobody else's container in it.
SparedInv == host.pc = "down" => foreign # "there"

-----------------------------------------------------------------------------
(* What the steps of the world and of the measurement leave to the host.   *)

\* A recorder ends by itself only while it is drained, and an observer that
\* does not run writes nothing.
LEMMA WorldSilent ==
  ASSUME TypeOK, WorldStep
  PROVE  /\ \A r \in Recorders : \/ box'[r] = box[r]
                                 \/ host.pc = "drain" /\ box[r] = "running"
         /\ box["observer"] # "running" => box'["observer"] # "running" /\ UNCHANGED source
         /\ \A p \in Payloads : source'[p] = source[p] \/ source'[p] \in {1, 2}
<1>1. /\ box \in [Services -> BoxState] /\ source \in [Payloads -> File]
      /\ Recorders \subseteq Services /\ "observer" \in Services
      /\ \A r \in Recorders : r \notin {"simulation", "stepper", "instrument", "observer"}
  BY RolesAssumption DEF TypeOK, Services, Inventory
<1>2. CASE Observer
  <2>1. ObserverMarks \/ ObserverEnds
    BY <1>2 DEF Observer
  <2>2. CASE ObserverMarks
    BY <2>2 DEF ObserverMarks, Running
  <2>3. CASE ObserverEnds
    <3>1. box["observer"] = "running"
      BY <2>3 DEF ObserverEnds, Running
    <3>2. PICK e : box' = [box EXCEPT !["observer"] = e]
      BY <2>3 DEF ObserverEnds
    <3>3. \A r \in Recorders : box'[r] = box[r]
      BY <1>1, <3>2
    <3>4. \A p \in Payloads : source'[p] = source[p] \/ source'[p] \in {1, 2}
      BY <1>1, <2>3 DEF ObserverEnds
    <3> QED BY <3>1, <3>3, <3>4
  <2> QED BY <2>1, <2>2, <2>3
<1>3. CASE Deadline
  BY <1>3 DEF Deadline
<1>4. CASE Engine
  <2>1. CASE ForeignAppears
    BY <2>1 DEF ForeignAppears
  <2>2. ASSUME NEW s \in {"simulation", "stepper"} \cup Recorders, Ends(s)
        PROVE  /\ \A r \in Recorders : \/ box'[r] = box[r]
                                       \/ host.pc = "drain" /\ box[r] = "running"
               /\ box'["observer"] = box["observer"] /\ UNCHANGED source
    <3>1. /\ box[s] = "running" /\ host.pc \in LookedAt(s) /\ UNCHANGED source
          /\ box' = [box EXCEPT ![s] = "broken"]
      BY <2>2 DEF Ends, Running
    <3>2. \A t \in Services : t # s => box'[t] = box[t]
      BY <1>1, <3>1
    <3>3. s # "observer"
      BY <1>1
    <3>4. s \in Recorders => host.pc = "drain"
      BY <1>1, <3>1 DEF LookedAt
    <3> QED BY <1>1, <3>1, <3>2, <3>3, <3>4
  <2> QED BY <1>4, <2>1, <2>2 DEF Engine
<1> QED BY <1>2, <1>3, <1>4 DEF WorldStep

\* The measurement writes the log.
LEMMA MeasureSource ==
  ASSUME TypeOK, Measure
  PROVE  \A p \in Payloads : source'[p] = source[p] \/ source'[p] = Original
<1>1. source \in [Payloads -> File]
  BY DEF TypeOK, Inventory
<1>2. source' = source \/ source' = [source EXCEPT !["log"] = Original]
  BY DEF Measure, BeginMeasurement, StartServices, LookAtObserver, LookAtSource, LookAtMarker,
         StopInstruments, FreezeStepper, LastState, Drain, FinalizeSink, AwaitObserver, CaptureLogs
<1> QED BY <1>1, <1>2

-----------------------------------------------------------------------------
(* Nobody else's container is removed.                                     *)

LEMMA WorldForeign ==
  ASSUME WorldStep \/ Edit \/ UNCHANGED vars
  PROVE  foreign' = foreign \/ (foreign = "none" /\ (host.pc = "down" => foreign' = "late"))
<1>1. CASE WorldStep
  BY <1>1 DEF WorldStep, Observer, Deadline, Engine, ForeignAppears, Ends
<1>2. CASE Edit \/ UNCHANGED vars
  BY <1>2 DEF Edit, vars
<1> QED BY <1>1, <1>2

LEMMA SparedKept ==
  ASSUME TypeInv, SparedInv, [Next]_vars
  PROVE  SparedInv'
<1> SUFFICES ASSUME host'.pc = "down" PROVE foreign' # "there"
  BY DEF SparedInv
<1>1. (Cleanup /\ Quiet) \/ Wanders
  BY Phases DEF Starting, Measuring, Sealing, Exporting, Qualifying
<1>2. CASE Cleanup
  <2>1. host \in HostState
    BY DEF TypeInv, TypeOK
  <2>2. ASSUME NEW l \in Labels, Goto(l) PROVE l = "down"
    BY <2>1, <2>2, GotoKeeps DEF Stays
  <2>3. {"verify", "owned", "completed"} \subseteq Labels
    BY DEF Labels
  <2>4. ~BindParent /\ ~Down /\ ~VerifyCleanup
    BY <2>2, <2>3 DEF BindParent, Down, VerifyCleanup, CleanupThrows
  <2>5. foreign = "none" /\ UNCHANGED foreign
    BY <1>2, <2>2, <2>3, <2>4 DEF Cleanup, ObserveOwnership, OwnershipComplete, CleanupThrows
  <2> QED BY <2>5
<1>3. CASE Wanders
  <2>1. host'.pc = host.pc
    BY <1>3 DEF Wanders, TypeInv, TypeOK, HostState
  <2> QED BY <1>3, <2>1, WorldForeign DEF Wanders, SparedInv
<1> QED BY <1>1, <1>2, <1>3

-----------------------------------------------------------------------------
(* What is sealed was validated.                                           *)

\* The phases exclude each other.
LEMMA Apart ==
  /\ (Before \cup {"remember"}) \cap
       (Exporting \cup Cleaning \cup Qualifying \cup {"export", "cleanup", "retained", "completed",
                                                      "postclean", "end"}) = {}
  /\ (Exporting \cup Cleaning \cup {"retained", "completed"}) \cap
       (Qualifying \cup {"postclean", "end"}) = {}
  /\ Before \cap (Qualifying \cup {"remember", "postclean", "end"}) = {}
  /\ {"finalize", "await", "logs", "drain"} \subseteq Measuring /\ "remember" \notin Qualifying
  /\ Starting \cap (Measuring \cup Sealing) \subseteq {} /\ Measuring \cap Sealing = {}
  /\ "begin" \in Measuring /\ "collect" \in Sealing
BY DEF Before, Starting, Measuring, Sealing, Exporting, Cleaning, Qualifying

LEMMA WandersKeeps ==
  ASSUME TypeInv, Wanders
  PROVE  /\ host'.pc = host.pc /\ host'.todo = host.todo /\ host'.inv = host.inv
         /\ host'.seen = host.seen /\ host'.obs = host.obs /\ host'.attempt = host.attempt
         /\ host'.judged = host.judged /\ host'.raw = host.raw /\ host'.failed = host.failed
  BY DEF Wanders, TypeInv, TypeOK, HostState

\* A rewritten seal or aggregate is not a missing one, and says what it said.
LEMMA WandersFiles ==
  ASSUME TypeInv, Wanders
  PROVE  /\ seal'.gen = Gone <=> seal.gen = Gone
         /\ seal'.gen = Original => seal.gen = Original
         /\ seal'.inv = seal.inv /\ seal'.result = seal.result /\ seal'.verdict = seal.verdict
         /\ seal'.exit = seal.exit /\ seal'.read = seal.read
         /\ UNCHANGED <<sealRef, exported, outcome, post, qualified>>
         /\ aggregate'.verdict = aggregate.verdict
         /\ edits' >= edits
<1>1. TypeOK /\ edits \in Nat
  BY BoundsAssumption DEF TypeInv, TypeOK
<1>2. CASE Edit
  <2>1. EditEffect /\ UNCHANGED <<sealRef, exported, providerVars, post, qualified>>
    BY <1>1, <1>2, EditTyped
  <2>2. Fresh # Gone /\ Fresh # Original /\ Fresh \in Nat
    BY <1>1 DEF Fresh, Gone, Original
  <2>3. (seal'.gen = Gone <=> seal.gen = Gone) /\ (seal'.gen = Original => seal.gen = Original)
    BY <2>1, <2>2 DEF EditEffect
  <2>4. edits' >= edits
    BY <1>1, <2>1 DEF EditEffect
  <2> QED BY <2>1, <2>3, <2>4 DEF EditEffect, providerVars
<1>3. CASE WorldStep \/ UNCHANGED vars
  <2>1. UNCHANGED <<providerVars, sealVars, exportVars, afterVars, edits>>
    BY <1>1, <1>3, WorldTyped DEF vars
  <2> QED BY <1>1, <2>1 DEF providerVars, sealVars, exportVars, afterVars
<1> QED BY <1>2, <1>3 DEF Wanders

LEMMA OrderKept ==
  ASSUME TypeInv, OrderInv, [Next]_vars
  PROVE  OrderInv'
<1>1. CASE \/ (Start /\ Quiet /\ host.pc \in Starting /\ host'.pc \in Starting \cup {"begin", "retained"})
           \/ (Measure /\ Quiet /\ host.pc \in Measuring
                /\ host'.pc \in Measuring \cup {"collect", "retained"})
  <2>1. host.pc \in Before /\ UNCHANGED <<sealVars, exportVars, afterVars>>
    BY <1>1 DEF Quiet, Before
  <2> QED BY <2>1, Apart DEF OrderInv, sealVars, exportVars, afterVars
<1>2. CASE \/ (Cleanup /\ Quiet /\ host.pc \in Cleaning /\ host'.pc \in Cleaning \cup {"completed"})
           \/ (JobFails /\ Quiet /\ host'.pc = "retained")
  <2>1. UNCHANGED <<sealVars, exportVars, afterVars>> /\ host.pc \notin Qualifying \cup {"postclean", "end"}
    <3>1. CASE JobFails
      BY <1>2, <3>1, JobFailsTyped DEF TypeInv, Quiet, Qualifying
    <3>2. CASE ~JobFails
      BY <1>2, <3>2, Apart DEF Quiet
    <3> QED BY <3>1, <3>2
  <2>2. host'.pc \notin Before \cup {"remember"}
    BY <1>2, Apart
  <2> QED BY <2>1, <2>2, Apart DEF OrderInv, sealVars, exportVars, afterVars
<1>3. CASE Seal /\ host.pc \in Sealing /\ host'.pc \in Sealing \cup {"remember", "retained"}
  <2>1. /\ host.pc \in Before /\ UNCHANGED <<exportVars, afterVars>>
    BY <1>3 DEF Seal, Before
  <2>2. UNCHANGED sealRef /\ (host'.pc \in Before => UNCHANGED seal)
    <3>1. CASE WriteSeal
      <4>1. host'.pc \in {"remember", "retained"} /\ UNCHANGED sealRef
        BY <3>1, WriteSealTyped DEF TypeInv, SealEffect, Forgets, Stays
      <4> QED BY <4>1, Apart
    <3>2. CASE RememberSeal
      BY <1>3, <3>2 DEF RememberSeal, Sealing
    <3>3. CASE UNCHANGED sealVars
      BY <3>3 DEF sealVars
    <3> QED BY <1>3, <3>1, <3>2, <3>3 DEF Seal
  <2> QED BY <2>1, <2>2, Apart DEF OrderInv, exportVars, afterVars
<1>4. CASE RememberSeal /\ host.pc = "remember" /\ host'.pc = "export" /\ Seal
  BY <1>4, Apart DEF RememberSeal, OrderInv, Seal, exportVars, afterVars
<1>5. CASE Export /\ host.pc \in Exporting \cup {"retained"}
                  /\ host'.pc \in Exporting \cup {"retained", "cleanup"}
  <2>1. UNCHANGED <<sealVars, afterVars>> /\ host'.pc \notin Before \cup {"remember"}
    BY <1>5, Apart DEF Export
  <2> QED BY <1>5, <2>1, Apart DEF OrderInv, sealVars, afterVars
<1>6. CASE Qualify /\ host.pc \in Qualifying \cup {"completed", "postclean"}
                   /\ host'.pc \in Qualifying \cup {"postclean", "end"}
  <2>1. UNCHANGED <<sealVars, exportVars>> /\ host'.pc \notin Before \cup {"remember"}
    BY <1>6, Apart DEF Qualify
  <2> QED BY <1>6, <2>1 DEF OrderInv, sealVars, exportVars
<1>7. CASE Wanders
  BY <1>7, WandersKeeps, WandersFiles DEF OrderInv
<1> QED BY <1>1, <1>2, <1>3, <1>4, <1>5, <1>6, <1>7, Phases

LEMMA DrainedKept ==
  ASSUME TypeInv, DrainedInv, [Next]_vars
  PROVE  DrainedInv'
<1> DEFINE At == {"drain", "finalize", "await", "logs", "remember"} \cup Sealing
<1>1. TypeOK /\ TodoInv /\ Recorders \subseteq Services
  BY DEF TypeInv, TypeOK, Services
<1>2. CASE host'.pc \notin At
  BY <1>2 DEF DrainedInv
<1>3. CASE Measure /\ Quiet
  <2>1. MeasureEffect /\ host.pc \in Measuring
    BY <1>1, <1>3, MeasureTyped
  <2>2. CASE Begins("drain", Recorders)
    BY <2>2 DEF Begins, DrainedInv, Sealing
  <2>3. ASSUME NEW s \in host.todo, host.pc = "drain", box'[s] = "exit0",
               \A t \in Services \ {s} : box'[t] = box[t], Drains(s)
        PROVE  DrainedInv'
    <3>1. \A r \in Recorders : r = s \/ r \in host.todo \/ box'[r] = "exit0"
      BY <1>1, <2>3 DEF DrainedInv
    <3>2. host'.pc \in {"drain", "finalize"} /\ host'.todo = host.todo \ {s}
          /\ (host'.pc = "finalize" => host.todo = {s})
      BY <2>3 DEF Drains
    <3> QED BY <2>3, <3>1, <3>2 DEF DrainedInv, Sealing
  <2>4. CASE /\ host.pc \in {"finalize", "await", "logs"} /\ UNCHANGED box
             /\ host'.pc # "drain"
    BY <2>4 DEF DrainedInv
  <2>5. CASE Forgets \/ \E l \in Opening : Stays(l)
    BY <1>2, <2>5 DEF Forgets, Stays, Opening, Sealing
  <2>6. CASE \E l \in {"source", "stop", "look"} : \E o : Looks(l, o)
    BY <1>2, <2>6 DEF Looks, Sealing
  <2>7. CASE host.pc = "finalize" /\ Stays("await") /\ UNCHANGED box
    BY <2>4, <2>7 DEF Stays
  <2>8. CASE host.pc = "await" /\ UNCHANGED box /\ Looks("logs", box["observer"])
    BY <2>4, <2>8 DEF Looks
  <2>9. CASE host.pc = "logs" /\ UNCHANGED box /\ Starts("collect")
    BY <2>4, <2>9 DEF Starts
  <2> QED BY <2>1, <2>2, <2>3, <2>5, <2>6, <2>7, <2>8, <2>9 DEF MeasureEffect
<1>4. CASE Seal /\ host.pc \in Sealing
  BY <1>4, Apart DEF Seal, DrainedInv, Measuring
<1>5. CASE Wanders
  <2>1. host'.pc = host.pc /\ host'.todo = host.todo
    BY <1>5, WandersKeeps
  <2>2. \A r \in Recorders : box'[r] = box[r] \/ (host.pc = "drain" /\ box[r] = "running")
    BY <1>1, <1>5, WorldSilent DEF Wanders, Edit, vars
  <2> QED BY <2>1, <2>2 DEF DrainedInv, Sealing
<1>6. \A l : l \in Starting \cup {"begin", "retained"} \cup Cleaning \cup {"completed"} \cup Exporting
               \cup {"cleanup", "export"} \cup Qualifying \cup {"postclean", "end"} => l \notin At
  BY DEF Starting, Cleaning, Exporting, Qualifying, Sealing
<1> QED BY <1>2, <1>3, <1>4, <1>5, <1>6, Phases

LEMMA SilentKept ==
  ASSUME TypeInv, SilentInv, [Next]_vars
  PROVE  SilentInv'
<1>1. TypeOK /\ TodoInv /\ edits \in Nat /\ source \in [Payloads -> File]
  BY BoundsAssumption DEF TypeInv, TypeOK, Inventory
<1>2. host'.pc \in {"logs", "remember"} \cup Sealing => box'["observer"] # "running"
  <2> DEFINE At == {"logs", "remember"} \cup Sealing
  <2> SUFFICES ASSUME host'.pc \in At PROVE box'["observer"] # "running"
    OBVIOUS
  <2>1. CASE Measure /\ Quiet
    <3>1. MeasureEffect
      BY <1>1, <2>1, MeasureTyped
    <3>2. CASE host.pc = "await" /\ box["observer"] # "running" /\ UNCHANGED box
      BY <3>2
    <3>3. CASE host.pc = "logs" /\ UNCHANGED box
      BY <3>3 DEF SilentInv
    <3>4. CASE Forgets \/ \E l \in Opening \cup {"await"} : Stays(l)
      BY <3>4 DEF Forgets, Stays, Opening, Sealing
    <3>5. CASE \E l \in {"source", "stop", "look"} : \E o : Looks(l, o)
      BY <3>5 DEF Looks, Sealing
    <3>6. CASE Begins("drain", Recorders)
      BY <3>6 DEF Begins, Sealing
    <3>7. CASE \E s \in host.todo : Drains(s)
      BY <3>7 DEF Drains, Sealing
    <3> QED BY <3>1, <3>2, <3>3, <3>4, <3>5, <3>6, <3>7 DEF MeasureEffect
  <2>2. CASE Seal /\ host.pc \in Sealing
    BY <2>2 DEF Seal, SilentInv
  <2>3. CASE Wanders
    <3>1. host'.pc = host.pc
      BY <2>3, WandersKeeps
    <3> QED BY <1>1, <2>3, <3>1, WorldSilent DEF Wanders, Edit, vars, SilentInv
  <2>4. \A l : l \in Starting \cup {"begin", "retained"} \cup Cleaning \cup {"completed"} \cup Exporting
                 \cup {"cleanup", "export"} \cup Qualifying \cup {"postclean", "end"} => l \notin At
    BY DEF Starting, Cleaning, Exporting, Qualifying, Sealing
  <2> QED BY <2>1, <2>2, <2>3, <2>4, Phases
<1>3. \A p \in Payloads : source'[p] <= edits' + 2
  <2>1. \A p \in Payloads : source[p] \in Nat /\ source[p] <= edits + 2
    BY <1>1, BoundsAssumption DEF SilentInv, File
  <2>2. CASE (Start \/ Cleanup \/ Measure) /\ Quiet
    <3>1. edits' = edits
      BY <2>2 DEF Quiet
    <3>2. \A p \in Payloads : source'[p] = source[p] \/ source'[p] \in {Gone, Original}
      BY <1>1, <2>2, StartTyped, CleanupTyped, MeasureSource DEF NoDoc
    <3> QED BY <1>1, <2>1, <3>1, <3>2 DEF Gone, Original
  <2>3. CASE JobFails /\ Quiet /\ UNCHANGED <<box, foreign, providerVars, source>>
    BY <2>1, <2>3 DEF Quiet
  <2>4. CASE Seal \/ Export \/ Qualify
    BY <2>1, <2>4 DEF Seal, Export, Qualify
  <2>5. CASE WorldStep
    <3>1. UNCHANGED edits
      BY <1>1, <2>5, WorldTyped
    <3> QED BY <1>1, <2>1, <2>5, <3>1, WorldSilent
  <2>6. CASE Edit
    BY <1>1, <2>1, <2>6, EditTyped DEF EditEffect, Fresh
  <2>7. CASE UNCHANGED vars
    BY <2>1, <2>7 DEF vars
  <2> QED BY <2>2, <2>3, <2>4, <2>5, <2>6, <2>7, NextIs
<1> QED BY <1>2, <1>3 DEF SilentInv

\* Where the observer is silent a payload is never older than it was.
LEMMA NewerKept ==
  ASSUME TypeInv, SilentInv, Wanders, host.pc \in Sealing
  PROVE  \A p \in Payloads : source[p] <= source'[p]
<1>1. TypeOK /\ edits \in Nat /\ source \in [Payloads -> File] /\ box["observer"] # "running"
  BY BoundsAssumption DEF TypeInv, TypeOK, Inventory, SilentInv
<1>2. \A p \in Payloads : source[p] \in Nat /\ source[p] <= edits + 2
  BY <1>1, BoundsAssumption DEF SilentInv, File
<1>3. CASE WorldStep
  BY <1>1, <1>2, <1>3, WorldSilent
<1>4. CASE Edit
  BY <1>1, <1>2, <1>4, EditTyped DEF EditEffect, Fresh
<1>5. CASE UNCHANGED vars
  BY <1>2, <1>5 DEF vars
<1> QED BY <1>3, <1>4, <1>5 DEF Wanders

\* A step that ends in the sealing of the run is one of these.
SealingStep ==
  \/ host.pc = "logs" /\ Starts("collect")
  \/ Seal /\ host.pc \in Sealing
  \/ Wanders /\ host.pc \in Sealing

LEMMA SealingSteps ==
  ASSUME TypeInv, [Next]_vars, host'.pc \in Sealing
  PROVE  SealingStep
<1>1. TypeOK
  BY DEF TypeInv
<1>2. \A l : l \in Starting \cup {"begin", "retained"} \cup Cleaning \cup {"completed"} \cup Exporting
               \cup {"cleanup", "export"} \cup Qualifying \cup {"postclean", "end"} => l \notin Sealing
  BY DEF Starting, Cleaning, Exporting, Qualifying, Sealing
<1>3. CASE Measure
  <2>1. MeasureEffect
    BY <1>1, <1>3, MeasureTyped
  <2>2. CASE Forgets \/ \E l \in Opening \cup {"await"} : Stays(l)
    BY <2>2 DEF Forgets, Stays, Opening, Sealing
  <2>3. CASE \E l \in {"source", "stop", "look", "logs"} : \E o : Looks(l, o)
    BY <2>3 DEF Looks, Sealing
  <2>4. CASE Begins("drain", Recorders)
    BY <2>4 DEF Begins, Sealing
  <2>5. CASE \E s \in host.todo : Drains(s)
    BY <2>5 DEF Drains, Sealing
  <2> QED BY <2>1, <2>2, <2>3, <2>4, <2>5 DEF MeasureEffect, SealingStep
<1>4. CASE Wanders
  BY <1>4, WandersKeeps DEF SealingStep
<1> QED BY <1>2, <1>3, <1>4, Phases DEF SealingStep

\* The steps of the sealing, with what they change.
LEMMA SealSteps ==
  ASSUME TypeInv, Seal, host.pc \in Sealing
  PROVE  /\ UNCHANGED <<box, source, edits, sealRef>>
         /\ \/ host.pc = "collect" /\ CollectEffect("judge") /\ UNCHANGED seal
            \/ host.pc = "judge" /\ JudgeEffect /\ UNCHANGED seal
            \/ host.pc = "validate" /\ ValidateEffect /\ UNCHANGED seal
            \/ host.pc = "recheck" /\ RecheckEffect /\ UNCHANGED seal
            \/ host.pc = "seal" /\ SealEffect
<1>1. TypeOK /\ TodoInv /\ UNCHANGED <<box, source, edits>>
  BY DEF TypeInv, Seal
<1>2. CASE (Collect("collect", "judge") \/ JudgeResult \/ Validate \/ Recheck) /\ UNCHANGED sealVars
  <2>1. {"collect", "judge"} \subseteq Labels /\ UNCHANGED <<seal, sealRef>>
    BY <1>2 DEF Labels, sealVars
  <2> QED BY <1>1, <1>2, <2>1, CollectTyped, JudgeTyped, ValidateTyped, RecheckTyped
<1>3. CASE WriteSeal
  BY <1>1, <1>3, WriteSealTyped
<1>4. CASE RememberSeal
  BY <1>4 DEF RememberSeal, Sealing
<1> QED BY <1>2, <1>3, <1>4 DEF Seal

LEMMA ReadsKept ==
  ASSUME TypeInv, SilentInv, ReadsInv, [Next]_vars
  PROVE  ReadsInv'
<1>1. host \in HostState /\ TypeOK
  BY DEF TypeInv, TypeOK
<1>2. /\ \A p \in Payloads : source[p] \in Nat /\ host.inv[p] \in Nat /\ host.seen[p] \in Nat
      /\ \A p \in Payloads : source'[p] \in Nat
  <2>1. source \in Inventory /\ source' \in Inventory /\ host.inv \in Inventory /\ host.seen \in Inventory
    BY <1>1, TypeKept DEF TypeOK, HostState
  <2> QED BY <2>1, BoundsAssumption DEF Inventory, File
<1>3. CASE host'.pc \notin Sealing
  BY <1>3 DEF ReadsInv, Sealing
<1>4. CASE Starts("collect")
  BY <1>4 DEF Starts, ReadsInv
<1>5. CASE Wanders /\ host.pc \in Sealing
  <2>1. \A p \in Payloads : source[p] <= source'[p]
    BY <1>5, NewerKept
  <2>2. /\ host'.pc = host.pc /\ host'.todo = host.todo
        /\ host'.inv = host.inv /\ host'.seen = host.seen
    BY <1>5, WandersKeeps
  <2>3. \A p \in Payloads : /\ host.inv[p] <= source[p] => host.inv[p] <= source'[p]
                            /\ host.seen[p] <= source[p] => host.seen[p] <= source'[p]
    BY <1>2, <2>1
  <2> QED BY <2>2, <2>3 DEF ReadsInv
<1>6. CASE Seal /\ host.pc \in Sealing
  <2>1. UNCHANGED source
    BY <1>6, SealSteps
  <2>2. CASE Forgets
    BY <2>2 DEF Forgets, ReadsInv
  <2>3. CASE host.pc = "collect" /\ CollectEffect("judge")
    <3>1. CASE host.todo = {} /\ Starts("judge")
      BY <2>1, <2>3, <3>1 DEF Starts, ReadsInv
    <3>2. ASSUME NEW p \in host.todo, p \in Payloads, InvRound(p, source[p])
          PROVE  ReadsInv'
      <4>1. host'.pc = "collect" /\ host'.todo = host.todo \ {p}
        BY <2>3, <3>2 DEF InvRound
      <4>2. \A q \in Payloads \ host'.todo : host'.inv[q] <= source'[q]
        BY <1>2, <2>1, <2>3, <3>2, <4>1 DEF InvRound, ReadsInv
      <4> QED BY <4>1, <4>2 DEF ReadsInv
    <3> QED BY <2>2, <2>3, <3>1, <3>2 DEF CollectEffect
  <2>4. CASE host.pc = "judge" /\ JudgeEffect
    <3>1. CASE Judged(source["result"])
      <4>1. host'.pc = "validate" /\ host'.inv = host.inv /\ host'.todo = Payloads
        BY <2>4, <3>1 DEF Judged, SameReads, ReadsInv
      <4> QED BY <2>1, <2>4, <4>1 DEF ReadsInv
    <3> QED BY <2>2, <2>4, <3>1 DEF JudgeEffect
  <2>5. CASE host.pc = "validate" /\ ValidateEffect
    <3>1. CASE host.todo = {} /\ Starts("recheck")
      BY <2>1, <2>5, <3>1 DEF Starts, ReadsInv
    <3>2. ASSUME NEW p \in host.todo, p \in Payloads, SeenRound(p, source[p])
          PROVE  ReadsInv'
      <4>1. host'.pc = "validate" /\ host'.todo = host.todo \ {p} /\ host'.inv = host.inv
        BY <2>5, <3>2 DEF SeenRound
      <4>2. \A q \in Payloads \ host'.todo : host'.inv[q] <= host'.seen[q] /\ host'.seen[q] <= source'[q]
        BY <1>2, <2>1, <2>5, <3>2, <4>1 DEF SeenRound, ReadsInv
      <4>3. \A q \in Payloads : host'.inv[q] <= source'[q]
        BY <2>1, <2>5, <4>1 DEF ReadsInv
      <4> QED BY <4>1, <4>2, <4>3 DEF ReadsInv
    <3> QED BY <2>2, <2>5, <3>1, <3>2 DEF ValidateEffect
  <2>6. CASE host.pc = "recheck" /\ RecheckEffect
    <3>1. CASE host.todo = {} /\ Stays("seal")
      BY <2>6, <3>1 DEF Stays, ReadsInv
    <3>2. ASSUME NEW p \in host.todo, p \in Payloads, source[p] = host.inv[p], Round(p)
          PROVE  ReadsInv'
      <4>1. /\ host'.pc = "recheck" /\ host'.todo = host.todo \ {p}
            /\ host'.inv = host.inv /\ host'.seen = host.seen
        BY <2>6, <3>2 DEF Round, SameReads
      <4>2. host.seen[p] = host.inv[p]
        BY <1>2, <2>6, <3>2 DEF ReadsInv
      <4> QED BY <2>1, <2>6, <4>1, <4>2 DEF ReadsInv
    <3> QED BY <2>2, <2>6, <3>1, <3>2 DEF RecheckEffect
  <2>7. CASE host.pc = "seal" /\ SealEffect
    BY <2>2, <2>7 DEF SealEffect, Stays, ReadsInv
  <2> QED BY <1>6, <2>3, <2>4, <2>5, <2>6, <2>7, SealSteps
<1> QED BY <1>3, <1>4, <1>5, <1>6, SealingSteps DEF SealingStep

LEMMA JudgedKept ==
  ASSUME TypeInv, SilentInv, ReadsInv, JudgedInv, [Next]_vars
  PROVE  JudgedInv'
<1>1. host \in HostState /\ TypeOK /\ "result" \in Payloads
  BY PayloadsAssumption DEF TypeInv, TypeOK
<1>2. /\ source["result"] \in Nat /\ host.inv["result"] \in Nat /\ source'["result"] \in Nat
      /\ host.judged \in Nat
  <2>1. source \in Inventory /\ source' \in Inventory /\ host.inv \in Inventory /\ host.judged \in File
    BY <1>1, TypeKept DEF TypeOK, HostState
  <2> QED BY <1>1, <2>1, BoundsAssumption DEF Inventory, File
<1>3. CASE host'.pc \notin {"validate", "recheck", "seal"}
  BY <1>3 DEF JudgedInv
<1>4. CASE Starts("collect")
  BY <1>3, <1>4 DEF Starts
<1>5. CASE Wanders /\ host.pc \in Sealing
  <2>1. source["result"] <= source'["result"]
    BY <1>1, <1>5, NewerKept
  <2>2. /\ host'.pc = host.pc /\ host'.todo = host.todo /\ host'.inv = host.inv
        /\ host'.obs = host.obs /\ host'.judged = host.judged
    BY <1>5, WandersKeeps
  <2> QED BY <1>2, <2>1, <2>2 DEF JudgedInv
<1>6. CASE Seal /\ host.pc \in Sealing
  <2>1. UNCHANGED source
    BY <1>6, SealSteps
  <2>2. CASE Forgets
    BY <1>3, <2>2 DEF Forgets
  <2>3. CASE host.pc = "collect" /\ CollectEffect("judge")
    <3>1. host'.pc \in {"collect", "judge", "retained"}
      BY <2>3 DEF CollectEffect, Forgets, Starts, InvRound
    <3> QED BY <1>3, <3>1
  <2>4. CASE host.pc = "judge" /\ JudgeEffect
    <3>1. CASE ExitAgrees(host.obs, Verdict(source["result"])) /\ Judged(source["result"])
      <4>1. /\ host'.pc = "validate" /\ host'.inv = host.inv /\ host'.obs = host.obs
            /\ host'.judged = source["result"]
        BY <3>1 DEF Judged, SameReads
      <4>2. host.inv["result"] <= source["result"]
        BY <1>1, <2>4 DEF ReadsInv
      <4> QED BY <1>2, <2>1, <3>1, <4>1, <4>2 DEF JudgedInv
    <3> QED BY <2>2, <2>4, <3>1 DEF JudgeEffect
  <2>5. CASE host.pc = "validate" /\ ValidateEffect
    <3>1. CASE host.todo = {} /\ Starts("recheck")
      BY <1>1, <2>1, <2>5, <3>1 DEF Starts, JudgedInv
    <3>2. CASE \E p, f : SeenRound(p, f)
      <4>1. /\ host'.pc = "validate" /\ host'.inv = host.inv /\ host'.obs = host.obs
            /\ host'.judged = host.judged
        BY <2>5, <3>2 DEF SeenRound, SameSight
      <4> QED BY <2>1, <2>5, <4>1 DEF JudgedInv
    <3> QED BY <2>2, <2>5, <3>1, <3>2 DEF ValidateEffect
  <2>6. CASE host.pc = "recheck" /\ RecheckEffect
    <3>1. CASE host.todo = {} /\ Stays("seal")
      BY <2>6, <3>1 DEF Stays, JudgedInv
    <3>2. ASSUME NEW p \in host.todo, p \in Payloads, source[p] = host.inv[p], Round(p)
          PROVE  JudgedInv'
      <4>1. /\ host'.pc = "recheck" /\ host'.todo = host.todo \ {p} /\ host'.inv = host.inv
            /\ host'.obs = host.obs /\ host'.judged = host.judged
        BY <2>6, <3>2 DEF Round, SameReads, SameSight
      <4>2. p = "result" => host.judged = host.inv["result"]
        BY <1>2, <2>6, <3>2 DEF JudgedInv
      <4> QED BY <2>1, <2>6, <4>1, <4>2 DEF JudgedInv
    <3> QED BY <2>2, <2>6, <3>1, <3>2 DEF RecheckEffect
  <2>7. CASE host.pc = "seal" /\ SealEffect
    BY <1>3, <2>2, <2>7 DEF SealEffect, Stays
  <2> QED BY <1>6, <2>3, <2>4, <2>5, <2>6, <2>7, SealSteps
<1> QED BY <1>3, <1>4, <1>5, <1>6, SealingSteps DEF SealingStep, Sealing

LEMMA SealedKept ==
  ASSUME TypeInv, SealInv, [Next]_vars
  PROVE  SealValidated'
<1>1. TypeOK /\ host \in HostState /\ Recorders \subseteq Services
  BY DEF TypeInv, TypeOK, Services
<1>2. SealValidated /\ OrderInv /\ DrainedInv /\ ReadsInv /\ JudgedInv
  BY DEF SealInv
<1>3. SUFFICES ASSUME seal'.gen # Gone PROVE SealValidated'
  BY DEF SealValidated
<1>4. ASSUME UNCHANGED seal, \A r \in Recorders : box'[r] \in {box[r], "none"}
      PROVE  SealValidated'
  BY <1>2, <1>4 DEF SealValidated
<1>5. CASE (Start \/ Measure) /\ Quiet
  <2>1. host.pc \in Before /\ UNCHANGED seal
    BY <1>1, <1>5, StartTyped, MeasureTyped DEF Before, Quiet, sealVars
  <2> QED BY <1>2, <1>3, <2>1 DEF OrderInv
<1>6. CASE Cleanup /\ Quiet
  BY <1>1, <1>4, <1>6, CleanupTyped DEF Quiet, sealVars
<1>7. CASE JobFails /\ Quiet /\ UNCHANGED <<box, foreign, providerVars, source>>
  BY <1>4, <1>7 DEF Quiet, sealVars
<1>8. CASE Export \/ Qualify \/ UNCHANGED vars
  BY <1>4, <1>8 DEF Export, Qualify, vars, sealVars
<1>9. CASE RememberSeal /\ Seal
  BY <1>4, <1>9 DEF RememberSeal, Seal
<1>10. CASE Seal /\ host.pc \in Sealing
  <2>1. UNCHANGED box
    BY <1>10 DEF Seal
  <2>2. CASE UNCHANGED seal
    BY <1>4, <2>1, <2>2
  <2>3. CASE /\ host.pc = "seal"
             /\ seal' = [gen |-> Original, inv |-> host.inv, result |-> host.judged,
                         verdict |-> Verdict(host.judged), exit |-> host.obs, read |-> host.seen]
    <3>1. host.inv = host.seen
      <4>1. host.inv \in [Payloads -> File] /\ host.seen \in [Payloads -> File]
        BY <1>1 DEF HostState, Inventory
      <4>2. \A p \in Payloads : host.seen[p] = host.inv[p]
        BY <1>2, <2>3 DEF ReadsInv
      <4> QED BY <4>1, <4>2
    <3>2. host.judged = host.inv["result"] /\ ExitAgrees(host.obs, Verdict(host.judged))
      BY <1>2, <2>3 DEF JudgedInv
    <3>3. \A r \in Recorders : box'[r] = "exit0"
      BY <1>2, <2>1, <2>3 DEF DrainedInv, Sealing
    <3>4. /\ seal'.inv = host.inv /\ seal'.result = host.judged /\ seal'.exit = host.obs
          /\ seal'.verdict = Verdict(host.judged) /\ seal'.read = host.seen
      BY <2>3
    <3> QED BY <3>1, <3>2, <3>3, <3>4 DEF SealValidated
  <2> QED BY <1>10, <2>2, <2>3, SealSteps DEF SealEffect
<1>11. CASE Wanders
  <2>1. /\ seal'.inv = seal.inv /\ seal'.result = seal.result /\ seal'.verdict = seal.verdict
        /\ seal'.exit = seal.exit /\ seal'.read = seal.read /\ seal.gen # Gone
    BY <1>3, <1>11, WandersFiles
  <2>2. host.pc # "drain"
    BY <1>2, <2>1 DEF OrderInv, Before, Measuring
  <2>3. \A r \in Recorders : box'[r] = box[r]
    BY <1>1, <1>11, <2>2, WorldSilent DEF Wanders, Edit, vars
  <2> QED BY <1>2, <2>1, <2>3 DEF SealValidated
<1>12. CASE Seal
  BY <1>9, <1>10, <1>12, Phases, SealTyped DEF TypeInv, Sealing, Seal, WriteSeal, JudgeResult, Validate,
     Recheck, Collect
<1>13. CASE WorldStep \/ Edit
  BY <1>1, <1>11, <1>13, WorldTyped, EditTyped DEF Wanders
<1> QED BY <1>5, <1>6, <1>7, <1>8, <1>12, <1>13, NextIs

LEMMA SealInit == Init => SealInv
<1> SUFFICES ASSUME Init PROVE SealInv
  OBVIOUS
<1>1. host.pc = "start" /\ "start" \in Starting /\ ~exported.done
  BY DEF Init, NoExport, Starting
<1>2. OrderInv
  BY <1>1 DEF Init, OrderInv, NoSeal, NoAggregate
<1>3. DrainedInv /\ ReadsInv /\ JudgedInv
  BY <1>1 DEF DrainedInv, ReadsInv, JudgedInv, Sealing
<1>4. SilentInv
  BY <1>1 DEF Init, SilentInv, Sealing, NoDoc, Gone
<1>5. SealValidated
  BY DEF Init, SealValidated, NoSeal
<1> QED BY <1>2, <1>3, <1>4, <1>5 DEF SealInv

LEMMA SealKept == TypeInv /\ SealInv /\ [Next]_vars => SealInv'
  BY OrderKept, DrainedKept, SilentKept, ReadsKept, JudgedKept, SealedKept DEF SealInv

\* Whatever is rewritten while the seal is made, the sealed digests are those
\* of the bytes the validation read, the sealed verdict is that of the sealed
\* result and agrees with the exit of the observer, and the recorders had
\* ended cleanly.
THEOREM OnlyValidatedSealed == Spec => []SealValidated
<1>1. Spec => [](TypeInv /\ SealInv)
  <2>1. TypeInv /\ SealInv /\ [Next]_vars => (TypeInv /\ SealInv)'
    BY TypeSteps, SealKept
  <2> QED BY TypeInit, SealInit, <2>1, PTL DEF Spec
<1>2. SealInv => SealValidated
  BY DEF SealInv
<1> QED BY <1>1, <1>2, PTL

-----------------------------------------------------------------------------
(* No attempt is overwritten.                                              *)

\* What a step leaves of the files of the attempts.
SamePlans == \A b \in Attempts : att'[b].plan = att[b].plan
SameManifests == \A b \in Attempts : att'[b].manifest = att[b].manifest
SameDirs == \A b \in Attempts : att'[b].dir = att[b].dir
SameKept == \A b \in Attempts : att'[b].kept = att[b].kept

LEMMA PlanFiles ==
  ASSUME att \in [Attempts -> AttemptFiles], NEW a \in Attempts, NEW i, NEW g,
         att' = [att EXCEPT ![a].plan = i, ![a].args = g]
  PROVE  /\ SameManifests /\ SameDirs /\ SameKept
         /\ att'[a].plan = i /\ \A b \in Attempts \ {a} : att'[b].plan = att[b].plan
  BY DEF AttemptFiles, SameManifests, SameDirs, SameKept

LEMMA DirFiles ==
  ASSUME att \in [Attempts -> AttemptFiles], NEW a \in Attempts, att' = [att EXCEPT ![a].dir = TRUE]
  PROVE  /\ SamePlans /\ SameManifests /\ SameKept
         /\ att'[a].dir /\ \A b \in Attempts \ {a} : att'[b].dir = att[b].dir
  BY DEF AttemptFiles, SamePlans, SameManifests, SameKept

LEMMA KeptFiles ==
  ASSUME att \in [Attempts -> AttemptFiles], NEW a \in Attempts, NEW p \in Payloads, NEW f,
         att' = [att EXCEPT ![a].kept[p] = f]
  PROVE  /\ SamePlans /\ SameManifests /\ SameDirs
         /\ \A b \in Attempts, q \in Payloads : b # a \/ q # p => att'[b].kept[q] = att[b].kept[q]
<1>1. \A b \in Attempts : att[b] \in AttemptFiles
  OBVIOUS
<1>2. SamePlans /\ SameManifests /\ SameDirs
  BY <1>1 DEF AttemptFiles, SamePlans, SameManifests, SameDirs
<1>3. \A b \in Attempts \ {a} : att'[b] = att[b]
  OBVIOUS
<1>4. \A q \in Payloads \ {p} : att'[a].kept[q] = att[a].kept[q]
  <2>1. att'[a] = [att[a] EXCEPT !.kept[p] = f] /\ att[a].kept \in [Payloads -> File]
    BY <1>1 DEF AttemptFiles, Inventory
  <2> QED BY <1>1, <2>1 DEF AttemptFiles
<1> QED BY <1>2, <1>3, <1>4

LEMMA ManifestFiles ==
  ASSUME att \in [Attempts -> AttemptFiles], NEW a \in Attempts, NEW i,
         att' = [att EXCEPT ![a].manifest = i]
  PROVE  /\ SamePlans /\ SameDirs /\ SameKept
         /\ att'[a].manifest = i /\ \A b \in Attempts \ {a} : att'[b].manifest = att[b].manifest
  BY DEF AttemptFiles, SamePlans, SameDirs, SameKept

DirectoryEffect ==
  \/ Forgets /\ UNCHANGED att
  \/ /\ ~att[host.attempt].dir
     /\ att' = [att EXCEPT ![host.attempt].dir = TRUE] /\ Starts("copy")

ManifestEffect ==
  /\ Starts("compare")
  /\ att' = [att EXCEPT ![host.attempt].manifest = att[host.attempt].plan]

\* The steps of the export, with what they change.
LEMMA ExportSteps ==
  ASSUME TypeInv, Export
  PROVE  /\ UNCHANGED <<source, seal, sealRef, aggregate, post, qualified, outcome, edits>>
         /\ \/ host.pc = "export" /\ BeginEffect /\ UNCHANGED <<att, exported>>
            \/ host.pc = "inventory" /\ CollectEffect("plan") /\ UNCHANGED <<att, exported>>
            \/ host.pc = "plan" /\ PlanEffect /\ UNCHANGED exported
            \/ host.pc = "mkdir" /\ DirectoryEffect /\ UNCHANGED exported
            \/ host.pc = "copy" /\ CopyEffect /\ UNCHANGED exported
            \/ host.pc = "manifest" /\ ManifestEffect /\ UNCHANGED exported
            \/ host.pc = "compare" /\ CompareEffect /\ UNCHANGED <<att, exported>>
            \/ host.pc = "accept" /\ AcceptEffect /\ UNCHANGED att
            \/ host.pc = "retained" /\ RetryEffect /\ UNCHANGED <<att, exported>>
<1>1. /\ TypeOK /\ TodoInv
      /\ UNCHANGED <<source, seal, sealRef, aggregate, post, qualified, outcome, edits>>
  BY DEF TypeInv, Export, sealVars, afterVars, providerVars
<1>2. CASE Collect("inventory", "plan") /\ UNCHANGED exportVars
  <2>1. "inventory" \in Labels /\ "plan" \in Labels
    BY DEF Labels
  <2> QED BY <1>1, <1>2, <2>1, CollectTyped DEF exportVars
<1>3. CASE BeginExport \/ CompareRetained \/ RetryExport
  BY <1>1, <1>3, BeginTyped, CompareTyped, RetryTyped DEF exportVars
<1>4. CASE WritePlan \/ CopyPayload \/ AcceptExport
  BY <1>1, <1>4, WritePlanTyped, CopyTyped, AcceptTyped
<1>5. CASE MakeDirectory
  BY <1>1, <1>5, MakeDirectoryTyped DEF DirectoryEffect
<1>6. CASE WriteManifest
  BY <1>1, <1>6, ManifestTyped DEF ManifestEffect
<1> QED BY <1>2, <1>3, <1>4, <1>5, <1>6 DEF Export

\* Only the export and a rewrite change a file of an attempt.
LEMMA OtherSteps ==
  ASSUME TypeInv, [Next]_vars
  PROVE  \/ Export
         \/ Wanders
         \/ UNCHANGED att /\ (host'.pc = "export" \/ host'.pc \notin Exporting)
  BY Phases, Apart DEF Quiet, exportVars, Seal, Qualify, Starting, Cleaning, Measuring, Sealing,
     Exporting, Qualifying

\* What the world does to the files of an attempt.
LEMMA WandersAttempts ==
  ASSUME TypeInv, Wanders
  PROVE  /\ SamePlans /\ SameManifests /\ SameDirs
         /\ \A a \in Attempts, p \in Payloads :
               \/ att'[a].kept[p] = att[a].kept[p]
               \/ att[a].kept[p] # Gone /\ att'[a].kept[p] = Fresh /\ edits' = edits + 1
<1>1. CASE Edit
  BY <1>1, EditTyped DEF EditEffect, TypeInv, SamePlans, SameManifests, SameDirs
<1>2. CASE WorldStep \/ UNCHANGED vars
  <2>1. UNCHANGED att
    BY <1>2, WorldTyped DEF TypeInv, exportVars, vars
  <2> QED BY <2>1 DEF SamePlans, SameManifests, SameDirs
<1> QED BY <1>1, <1>2 DEF Wanders

LEMMA AttemptsKeep ==
  ASSUME TypeInv, AttemptInv, [Next]_vars
  PROVE  AttemptInv'
<1>1. /\ TypeOK /\ att \in [Attempts -> AttemptFiles] /\ host.attempt \in Attempts
      /\ TodoInv
  BY AttemptTyped DEF TypeInv, TypeOK
<1>2. ASSUME SameDirs, SameManifests, host'.pc \notin {"copy", "manifest"}
      PROVE  AttemptInv'
  BY <1>2 DEF AttemptInv, SameDirs, SameManifests
<1>3. CASE UNCHANGED att /\ (host'.pc = "export" \/ host'.pc \notin Exporting)
  BY <1>2, <1>3 DEF Exporting, SameDirs, SameManifests
<1>4. CASE Wanders
  <2>1. host'.pc = host.pc /\ host'.todo = host.todo /\ host'.attempt = host.attempt
    BY <1>4, WandersKeeps
  <2>2. /\ SameDirs /\ SameManifests
        /\ \A a \in Attempts, p \in Payloads : att[a].kept[p] = Gone => att'[a].kept[p] = Gone
    BY <1>4, WandersAttempts
  <2>3. host.pc = "copy" => host.todo \subseteq Payloads
    BY <1>1 DEF TodoInv
  <2> QED BY <1>1, <2>1, <2>2, <2>3 DEF AttemptInv, SameDirs, SameManifests
<1>5. CASE Export
  <2>1. CASE Forgets /\ UNCHANGED att
    BY <1>2, <2>1 DEF Forgets, SameDirs, SameManifests
  <2>2. CASE UNCHANGED att /\ host.pc \in {"export", "inventory", "compare", "accept", "retained"}
    <3>1. host'.pc \notin {"copy", "manifest"}
      <4>1. CASE BeginEffect
        BY <4>1 DEF BeginEffect, Forgets, Starts
      <4>2. CASE host.pc = "inventory" /\ CollectEffect("plan")
        BY <4>2 DEF CollectEffect, Forgets, Starts, InvRound
      <4>3. CASE host.pc = "compare" /\ CompareEffect
        BY <4>3 DEF CompareEffect, Forgets, Stays, InvRound
      <4>4. CASE AcceptEffect
        <5>1. Forgets \/ Accepted
          BY <4>4 DEF AcceptEffect
        <5> QED BY <5>1 DEF Forgets, Accepted
      <4>5. CASE RetryEffect
        BY <4>5 DEF RetryEffect, Stays, Retried
      <4> QED BY <1>5, <2>2, <4>1, <4>2, <4>3, <4>4, <4>5, ExportSteps
    <3> QED BY <1>2, <2>2, <3>1 DEF SameDirs, SameManifests
  <2>3. CASE PlanEffect
    <3>1. CASE /\ att' = [att EXCEPT ![host.attempt].plan = host.inv, ![host.attempt].args = Original]
               /\ Stays("mkdir")
      <4>1. SameDirs /\ SameManifests
        BY <1>1, <3>1, PlanFiles
      <4>2. host'.pc = "mkdir"
        BY <3>1 DEF Stays
      <4> QED BY <1>2, <4>1, <4>2
    <3> QED BY <2>1, <2>3, <3>1 DEF PlanEffect
  <2>4. CASE DirectoryEffect
    <3>1. CASE /\ ~att[host.attempt].dir
               /\ att' = [att EXCEPT ![host.attempt].dir = TRUE] /\ Starts("copy")
      <4>1. /\ SameManifests /\ SameKept
            /\ \A b \in Attempts \ {host.attempt} : att'[b].dir = att[b].dir
            /\ att'[host.attempt].dir
        BY <1>1, <3>1, DirFiles
      <4>2. host'.pc = "copy" /\ host'.attempt = host.attempt /\ host'.todo = Payloads
        BY <3>1 DEF Starts
      <4>3. att'[host.attempt].manifest = NoDoc
        BY <1>1, <3>1, <4>1 DEF AttemptInv, SameManifests
      <4>4. \A p \in Payloads : att'[host.attempt].kept[p] = Gone
        BY <1>1, <3>1, <4>1 DEF SameKept, TypeOK, NoDoc
      <4>5. \A a \in Attempts : ~att'[a].dir => att'[a].manifest = NoDoc
        BY <4>1 DEF AttemptInv, SameManifests
      <4> QED BY <4>2, <4>3, <4>4, <4>5 DEF AttemptInv
    <3> QED BY <2>1, <2>4, <3>1 DEF DirectoryEffect
  <2>5. CASE host.pc = "copy" /\ CopyEffect
    <3>1. CASE host.todo = {} /\ Stays("manifest") /\ UNCHANGED att
      BY <2>5, <3>1 DEF Stays, AttemptInv
    <3>2. ASSUME NEW p \in host.todo, p \in Payloads, Round(p),
                 att' = [att EXCEPT ![host.attempt].kept[p] = source[p]]
          PROVE  AttemptInv'
      <4>1. /\ SameManifests /\ SameDirs
            /\ \A b \in Attempts, q \in Payloads :
                  b # host.attempt \/ q # p => att'[b].kept[q] = att[b].kept[q]
        BY <1>1, <3>2, KeptFiles
      <4>2. host'.pc = "copy" /\ host'.attempt = host.attempt /\ host'.todo = host.todo \ {p}
        BY <2>5, <3>2 DEF Round, SameRest
      <4>3. \A q \in host'.todo : att'[host.attempt].kept[q] = Gone
        BY <1>1, <2>5, <4>1, <4>2 DEF AttemptInv, TodoInv
      <4> QED BY <1>1, <2>5, <4>1, <4>2, <4>3 DEF AttemptInv, SameManifests, SameDirs
    <3> QED BY <2>1, <2>5, <3>1, <3>2 DEF CopyEffect
  <2>6. CASE host.pc = "manifest" /\ ManifestEffect
    <3>1. /\ SameDirs /\ \A b \in Attempts \ {host.attempt} : att'[b].manifest = att[b].manifest
      BY <1>1, <2>6, ManifestFiles DEF ManifestEffect
    <3>2. host'.pc = "compare"
      BY <2>6 DEF ManifestEffect, Starts
    <3>3. att[host.attempt].dir
      BY <1>1, <2>6 DEF PlaceInv, TypeInv
    <3> QED BY <1>1, <3>1, <3>2, <3>3 DEF AttemptInv, SameDirs
  <2> QED BY <1>5, <2>1, <2>2, <2>3, <2>4, <2>5, <2>6, ExportSteps
<1> QED BY <1>3, <1>4, <1>5, OtherSteps

\* What AttemptsKept says of a step.
KeepsAttempts ==
  \A a \in Attempts :
     /\ att[a].plan # NoDoc => att'[a].plan = att[a].plan
     /\ att[a].manifest # NoDoc => att'[a].manifest = att[a].manifest
     /\ edits' = edits => \A p \in Payloads :
           att[a].kept[p] # Gone => att'[a].kept[p] = att[a].kept[p]

LEMMA KeepsStep ==
  ASSUME TypeInv, AttemptInv, [Next]_vars
  PROVE  KeepsAttempts
<1>1. /\ TypeOK /\ att \in [Attempts -> AttemptFiles] /\ host.attempt \in Attempts
      /\ TodoInv /\ edits \in Nat
  BY AttemptTyped, BoundsAssumption DEF TypeInv, TypeOK
<1>2. CASE UNCHANGED att
  BY <1>2 DEF KeepsAttempts
<1>3. CASE Wanders
  <2>1. \A a \in Attempts, p \in Payloads : edits' = edits => att'[a].kept[p] = att[a].kept[p]
    <3>1. edits + 1 # edits
      BY <1>1
    <3> QED BY <1>3, <3>1, WandersAttempts
  <2> QED BY <1>3, <2>1, WandersAttempts DEF KeepsAttempts, SamePlans, SameManifests
<1>4. CASE Export
  <2>1. CASE PlanEffect
    <3>1. CASE /\ att' = [att EXCEPT ![host.attempt].plan = host.inv, ![host.attempt].args = Original]
               /\ att[host.attempt].plan = NoDoc
      <4>1. /\ SameManifests /\ SameKept
            /\ \A b \in Attempts \ {host.attempt} : att'[b].plan = att[b].plan
        BY <1>1, <3>1, PlanFiles
      <4> QED BY <3>1, <4>1 DEF KeepsAttempts, SameManifests, SameKept
    <3> QED BY <1>2, <2>1, <3>1 DEF PlanEffect
  <2>2. CASE DirectoryEffect
    <3>1. CASE att' = [att EXCEPT ![host.attempt].dir = TRUE]
      <4>1. SamePlans /\ SameManifests /\ SameKept
        BY <1>1, <3>1, DirFiles
      <4> QED BY <4>1 DEF KeepsAttempts, SamePlans, SameManifests, SameKept
    <3> QED BY <1>2, <2>2, <3>1 DEF DirectoryEffect
  <2>3. CASE host.pc = "copy" /\ CopyEffect
    <3>1. ASSUME NEW p \in host.todo, p \in Payloads,
                 att' = [att EXCEPT ![host.attempt].kept[p] = source[p]]
          PROVE  KeepsAttempts
      <4>1. /\ SameManifests /\ SamePlans
            /\ \A b \in Attempts, q \in Payloads :
                  b # host.attempt \/ q # p => att'[b].kept[q] = att[b].kept[q]
        BY <1>1, <3>1, KeptFiles
      <4>2. att[host.attempt].kept[p] = Gone
        BY <2>3, <3>1 DEF AttemptInv
      <4>3. \A b \in Attempts, q \in Payloads :
               att[b].kept[q] # Gone => att'[b].kept[q] = att[b].kept[q]
        BY <4>1, <4>2
      <4> QED BY <4>1, <4>3 DEF KeepsAttempts, SamePlans, SameManifests
    <3> QED BY <1>2, <2>3, <3>1 DEF CopyEffect
  <2>4. CASE host.pc = "manifest" /\ ManifestEffect
    <3>1. /\ SamePlans /\ SameKept
          /\ \A b \in Attempts \ {host.attempt} : att'[b].manifest = att[b].manifest
      BY <1>1, <2>4, ManifestFiles DEF ManifestEffect
    <3>2. att[host.attempt].manifest = NoDoc
      BY <2>4 DEF AttemptInv
    <3> QED BY <3>1, <3>2 DEF KeepsAttempts, SamePlans, SameKept
  <2> QED BY <1>2, <1>4, <2>1, <2>2, <2>3, <2>4, ExportSteps
<1> QED BY <1>2, <1>3, <1>4, OtherSteps

LEMMA AttemptInit == Init => AttemptInv
  BY DEF Init, AttemptInv, NoAttempt

\* What an attempt planned, declared and copied stays, though its token can be
\* used for another export: only a rewrite from outside changes a copy.
THEOREM NothingOverwritten == Spec => AttemptsKept
<1>1. TypeInv /\ AttemptInv /\ [Next]_vars => (TypeInv /\ AttemptInv)'
  BY TypeSteps, AttemptsKeep
<1>2. TypeInv /\ AttemptInv /\ [Next]_vars => [KeepsAttempts]_vars
  BY KeepsStep
<1> QED BY TypeInit, AttemptInit, <1>1, <1>2, PTL DEF Spec, AttemptsKept, KeepsAttempts

-----------------------------------------------------------------------------
(* What is exported is what was sealed.                                    *)

LEMMA PlanKept ==
  ASSUME TypeInv, OrderInv, PlanInv, [Next]_vars
  PROVE  PlanInv'
<1>1. /\ TypeOK /\ att \in [Attempts -> AttemptFiles] /\ host.attempt \in Attempts
      /\ TodoInv
  BY AttemptTyped DEF TypeInv, TypeOK
<1>2. CASE ~Planned'
  BY <1>2 DEF PlanInv, Planned
<1>3. CASE host'.pc = "export" \/ host'.pc \notin Exporting
  BY <1>2, <1>3 DEF Planned, Exporting
<1>4. CASE Wanders
  <2>1. /\ host'.pc = host.pc /\ host'.todo = host.todo /\ host'.attempt = host.attempt
        /\ host'.inv = host.inv
    BY <1>4, WandersKeeps
  <2>2. SamePlans /\ SameManifests
    BY <1>4, WandersAttempts
  <2>3. seal'.gen = Original => seal.gen = Original
    BY <1>4, WandersFiles
  <2>4. seal'.inv = seal.inv /\ sealRef' = sealRef
    BY <1>4, WandersFiles
  <2> QED BY <1>1, <2>1, <2>2, <2>3, <2>4 DEF PlanInv, Planned, SamePlans, SameManifests
<1>5. CASE Export
  <2>1. UNCHANGED <<seal, sealRef>>
    BY <1>5, ExportSteps
  <2>2. CASE Forgets
    BY <1>2, <2>2 DEF Forgets, Planned
  <2>3. CASE host.pc \in {"export", "inventory", "retained"}
    <3>1. CASE BeginEffect
      BY <1>2, <3>1 DEF BeginEffect, Forgets, Starts, Planned
    <3>2. CASE host.pc = "inventory" /\ CollectEffect("plan")
      BY <1>2, <3>2 DEF CollectEffect, Forgets, Starts, InvRound, Planned
    <3>3. CASE RetryEffect
      BY <1>2, <3>3 DEF RetryEffect, Stays, Retried, Planned
    <3> QED BY <1>5, <2>3, <3>1, <3>2, <3>3, ExportSteps
  <2>4. CASE host.pc = "plan" /\ PlanEffect
    <3>1. CASE /\ sealRef # Gone => SealSays(seal.inv = host.inv)
               /\ att' = [att EXCEPT ![host.attempt].plan = host.inv, ![host.attempt].args = Original]
               /\ Stays("mkdir")
      <4>1. host'.pc = "mkdir" /\ host'.attempt = host.attempt
        BY <3>1 DEF Stays
      <4>2. att'[host.attempt].plan = host.inv
        BY <1>1, <3>1, PlanFiles
      <4>3. sealRef = Original /\ seal.gen = Original => seal.inv = host.inv
        BY <3>1 DEF SealSays, Original, Gone
      <4> QED BY <2>1, <4>1, <4>2, <4>3 DEF PlanInv
    <3> QED BY <2>2, <2>4, <3>1 DEF PlanEffect
  <2>5. CASE host.pc = "mkdir" /\ DirectoryEffect
    <3>1. CASE att' = [att EXCEPT ![host.attempt].dir = TRUE] /\ Starts("copy")
      <4>1. host'.pc = "copy" /\ host'.attempt = host.attempt
        BY <3>1 DEF Starts
      <4>2. SamePlans
        BY <1>1, <3>1, DirFiles
      <4> QED BY <1>1, <2>1, <2>5, <4>1, <4>2 DEF PlanInv, Planned, SamePlans
    <3> QED BY <2>2, <2>5, <3>1 DEF DirectoryEffect
  <2>6. CASE host.pc = "copy" /\ CopyEffect
    <3>1. CASE host.todo = {} /\ Stays("manifest") /\ UNCHANGED att
      BY <2>1, <2>6, <3>1 DEF Stays, PlanInv, Planned
    <3>2. ASSUME NEW p \in host.todo, p \in Payloads, Round(p),
                 att' = [att EXCEPT ![host.attempt].kept[p] = source[p]]
          PROVE  PlanInv'
      <4>1. SamePlans
        BY <1>1, <3>2, KeptFiles
      <4>2. host'.pc = "copy" /\ host'.attempt = host.attempt
        BY <2>6, <3>2 DEF Round, SameRest
      <4> QED BY <1>1, <2>1, <2>6, <4>1, <4>2 DEF PlanInv, Planned, SamePlans
    <3> QED BY <2>2, <2>6, <3>1, <3>2 DEF CopyEffect
  <2>7. CASE host.pc = "manifest" /\ ManifestEffect
    <3>1. SamePlans /\ att'[host.attempt].manifest = att[host.attempt].plan
      BY <1>1, <2>7, ManifestFiles DEF ManifestEffect
    <3>2. host'.pc = "compare" /\ host'.attempt = host.attempt /\ host'.todo = Payloads
      BY <2>7 DEF ManifestEffect, Starts
    <3> QED BY <1>1, <2>1, <2>7, <3>1, <3>2 DEF PlanInv, Planned, SamePlans
  <2>8. CASE host.pc = "compare" /\ CompareEffect /\ UNCHANGED att
    <3>1. CASE host.todo = {} /\ Stays("accept")
      BY <2>1, <2>8, <3>1 DEF Stays, PlanInv, Planned
    <3>2. ASSUME NEW p \in host.todo, p \in Payloads,
                 att[host.attempt].kept[p] = att[host.attempt].manifest[p],
                 InvRound(p, att[host.attempt].kept[p])
          PROVE  PlanInv'
      <4>1. /\ host'.pc = "compare" /\ host'.attempt = host.attempt /\ host'.todo = host.todo \ {p}
            /\ host'.inv[p] = att[host.attempt].manifest[p]
            /\ \A q \in Payloads \ {p} : host'.inv[q] = host.inv[q]
        BY <2>8, <3>2 DEF InvRound, SameRest
      <4>2. \A q \in Payloads \ host'.todo : host'.inv[q] = att[host.attempt].manifest[q]
        BY <2>8, <4>1 DEF PlanInv
      <4> QED BY <2>1, <2>8, <4>1, <4>2 DEF PlanInv, Planned
    <3> QED BY <2>2, <2>8, <3>1, <3>2 DEF CompareEffect
  <2>9. CASE AcceptEffect
    <3>1. Forgets \/ Accepted
      BY <2>9 DEF AcceptEffect
    <3> QED BY <1>2, <3>1 DEF Forgets, Accepted, Planned
  <2> QED BY <1>5, <2>3, <2>4, <2>5, <2>6, <2>7, <2>8, <2>9, ExportSteps
<1> QED BY <1>3, <1>4, <1>5, OtherSteps

LEMMA ExportedKept ==
  ASSUME TypeInv, OrderInv, PlanInv, ExportSealed, [Next]_vars
  PROVE  ExportSealed'
<1>1. TypeOK /\ host \in HostState /\ att \in [Attempts -> AttemptFiles] /\ host.attempt \in Attempts
  BY AttemptTyped DEF TypeInv, TypeOK
<1>2. ASSUME UNCHANGED <<exported, sealRef>>, seal'.inv = seal.inv
      PROVE  ExportSealed'
  BY <1>2 DEF ExportSealed
<1>3. CASE ((Start \/ Cleanup \/ Measure) /\ Quiet) \/ (JobFails /\ Quiet) \/ Qualify \/ UNCHANGED vars
  BY <1>2, <1>3 DEF Quiet, Qualify, vars, exportVars, sealVars
<1>4. CASE Seal
  <2>1. host.pc \in Before \cup {"remember"} /\ UNCHANGED exported
    BY <1>1, <1>4, SealTyped DEF TypeInv, Before, exportVars
  <2> QED BY <2>1 DEF OrderInv, ExportSealed
<1>5. CASE Export
  <2>1. UNCHANGED <<seal, sealRef>>
    BY <1>5, ExportSteps
  <2>2. CASE UNCHANGED exported
    BY <1>2, <2>1, <2>2
  <2>3. CASE host.pc = "accept" /\ AcceptEffect /\ ~UNCHANGED exported
    <3>1. /\ sealRef = Gone \/ SealIntact
          /\ exported'.refs = host.inv
      BY <2>3 DEF AcceptEffect
    <3>2. host.inv = att[host.attempt].manifest
      <4>1. host.inv \in [Payloads -> File] /\ att[host.attempt].manifest \in [Payloads -> File]
        BY <1>1 DEF HostState, AttemptFiles, Inventory
      <4>2. \A p \in Payloads : host.inv[p] = att[host.attempt].manifest[p]
        BY <2>3 DEF PlanInv
      <4> QED BY <4>1, <4>2
    <3>3. sealRef = Original => host.inv = seal.inv
      BY <2>3, <3>1, <3>2 DEF PlanInv, Planned, SealIntact, Original, Gone
    <3> QED BY <2>1, <3>1, <3>3 DEF ExportSealed
  <2> QED BY <1>5, <2>2, <2>3, ExportSteps
<1>6. CASE WorldStep \/ Edit
  <2>1. Wanders
    BY <1>1, <1>6, WorldTyped, EditTyped DEF Wanders
  <2> QED BY <1>2, <2>1, WandersFiles
<1> QED BY <1>3, <1>4, <1>5, <1>6, NextIs

-----------------------------------------------------------------------------
(* What is called passed was sealed as passed.                             *)

PostcleanEffect ==
  /\ Stays("end") /\ UNCHANGED aggregate
  /\ \/ UNCHANGED <<post, qualified>>
     \/ post' = FALSE /\ qualified' = IF host.failed THEN None ELSE aggregate.verdict

\* The steps of the qualification, with what they change.
LEMMA QualifySteps ==
  ASSUME TypeInv, Qualify
  PROVE  /\ UNCHANGED <<seal, sealRef, att, exported, outcome, edits>>
         /\ \/ host.pc = "completed" /\ AdmitEffect /\ UNCHANGED <<aggregate, post, qualified>>
            \/ host.pc = "aggregate" /\ AggregateEffect
            \/ host.pc = "bindAggregate" /\ BindEffect
            \/ /\ host.pc \in Qualifying \ {"aggregate", "bindAggregate"}
               /\ \/ RestEffect
                  \/ \E next \in Qualifying \ {"aggregate", "bindAggregate"} : CheckEffect(next)
            \/ host.pc = "postclean" /\ PostcleanEffect
<1>1. TypeOK /\ UNCHANGED <<seal, sealRef, att, exported, outcome, edits>>
  BY DEF TypeInv, Qualify, sealVars, exportVars, providerVars
<1>2. CASE AdmitCompletion
  BY <1>1, <1>2, AdmitTyped DEF afterVars
<1>3. CASE Aggregate \/ BindAggregate
  BY <1>1, <1>3, AggregateTyped, BindTyped
<1>4. CASE CheckSealed("checkPayloads", "validateAggregate")
  <2>1. {"checkPayloads", "validateAggregate"} \subseteq Labels
        /\ {"checkPayloads", "validateAggregate"} \subseteq Qualifying \ {"aggregate", "bindAggregate"}
    BY DEF Labels, Qualifying
  <2>2. host.pc = "checkPayloads" /\ CheckEffect("validateAggregate")
    BY <1>1, <1>4, <2>1, CheckTyped
  <2> QED BY <1>1, <2>1, <2>2
<1>5. CASE CheckSealed("checkAgain", "writeValidation")
  <2>1. {"checkAgain", "writeValidation"} \subseteq Labels
        /\ {"checkAgain", "writeValidation"} \subseteq Qualifying \ {"aggregate", "bindAggregate"}
    BY DEF Labels, Qualifying
  <2>2. host.pc = "checkAgain" /\ CheckEffect("writeValidation")
    BY <1>1, <1>5, <2>1, CheckTyped
  <2> QED BY <1>1, <2>1, <2>2
<1>6. CASE ValidateAggregate \/ WriteValidation \/ CompareAggregate \/ Publish
  <2>1. host.pc \in Qualifying \ {"aggregate", "bindAggregate"}
    BY <1>6 DEF ValidateAggregate, WriteValidation, CompareAggregate, Publish, Qualifying
  <2> QED BY <1>1, <1>6, <2>1, RestTyped
<1>7. CASE CleanupPostprocess
  <2>1. host.pc = "postclean" /\ Stays("end")
    BY <1>1, <1>7, PostcleanTyped
  <2> QED BY <1>1, <1>7, <2>1 DEF CleanupPostprocess, PostcleanEffect
<1> QED BY <1>2, <1>3, <1>4, <1>5, <1>6, <1>7 DEF Qualify

\* The rounds and jumps of the qualification between its two ends.
GoesOn == /\ host.pc \in Qualifying /\ host'.pc \in Qualifying \cup {"postclean"}
          /\ host'.failed = host.failed

LEMMA QualifyMoves ==
  ASSUME TypeInv, Qualify
  PROVE  \/ Gives /\ UNCHANGED <<aggregate, qualified>> /\ host.pc \in Qualifying \cup {"completed"}
         \/ GoesOn /\ UNCHANGED qualified
         \/ host.pc = "completed" /\ AdmitEffect /\ Stays("aggregate") /\ UNCHANGED <<aggregate, qualified>>
         \/ host.pc = "postclean" /\ PostcleanEffect
<1>1. CASE host.pc = "completed" /\ AdmitEffect /\ UNCHANGED <<aggregate, post, qualified>>
  BY <1>1 DEF AdmitEffect
<1>2. CASE host.pc = "aggregate" /\ AggregateEffect
  <2>1. {"aggregate", "bindAggregate"} \subseteq Qualifying
    BY DEF Qualifying
  <2>2. CASE \E o : Looks("bindAggregate", o) /\ UNCHANGED qualified
    BY <1>2, <2>1, <2>2 DEF Looks, GoesOn
  <2> QED BY <1>2, <2>1, <2>2 DEF AggregateEffect
<1>3. CASE host.pc = "bindAggregate" /\ BindEffect
  <2>1. {"bindAggregate", "checkPayloads"} \subseteq Qualifying
    BY DEF Qualifying
  <2>2. CASE (\E f, g : Bound(f, g)) /\ UNCHANGED afterVars
    BY <1>3, <2>1, <2>2 DEF Bound, SameRest, GoesOn, afterVars
  <2> QED BY <1>3, <2>1, <2>2 DEF BindEffect
<1>4. CASE host.pc \in Qualifying /\ RestEffect
  <2>1. {"checkAgain", "compareAggregate", "publish"} \subseteq Qualifying
    BY DEF Qualifying
  <2>2. CASE Starts("checkAgain") /\ UNCHANGED afterVars
    BY <1>4, <2>1, <2>2 DEF Starts, GoesOn, afterVars
  <2>3. CASE Written /\ UNCHANGED <<post, qualified>>
    BY <1>4, <2>1, <2>3 DEF Written, SameRest, GoesOn
  <2>4. CASE \E l \in {"publish", "postclean"} : Stays(l) /\ UNCHANGED afterVars
    BY <1>4, <2>1, <2>4 DEF Stays, GoesOn, afterVars
  <2> QED BY <1>4, <2>2, <2>3, <2>4 DEF RestEffect
<1>5. CASE host.pc \in Qualifying /\ \E next \in Qualifying : CheckEffect(next)
  <2>1. CASE (\E next \in Qualifying : Starts(next)) /\ UNCHANGED afterVars
    BY <1>5, <2>1 DEF Starts, GoesOn, afterVars
  <2>2. CASE (\E p : Round(p)) /\ UNCHANGED afterVars
    BY <1>5, <2>2 DEF Round, SameRest, GoesOn, afterVars
  <2> QED BY <1>5, <2>1, <2>2 DEF CheckEffect
<1>6. CASE host.pc = "postclean" /\ PostcleanEffect
  BY <1>6
<1> QED BY <1>1, <1>2, <1>3, <1>4, <1>5, <1>6, QualifySteps

\* A step before the qualification leaves what it returns alone.
LEMMA EarlierSteps ==
  ASSUME TypeInv, [Next]_vars
  PROVE  \/ Qualify
         \/ Wanders
         \/ /\ host.pc \notin Qualifying \cup {"postclean", "end"}
            /\ host'.pc \notin Qualifying \cup {"postclean"}
            /\ UNCHANGED <<aggregate, post, qualified>>
<1>1. CASE JobFails /\ Quiet /\ host'.pc = "retained"
  BY <1>1, JobFailsTyped DEF TypeInv, Qualifying, Quiet, afterVars
<1>2. CASE Seal \/ Export
  <2>1. UNCHANGED afterVars
    BY <1>2 DEF Seal, Export
  <2> QED BY <1>2, <2>1, Phases, SealTyped, ExportTyped DEF TypeInv, Starting, Cleaning, Measuring, Sealing,
          Exporting, Qualifying, afterVars
<1>3. CASE \/ (Start /\ Quiet /\ host.pc \in Starting /\ host'.pc \in Starting \cup {"begin", "retained"})
           \/ (Cleanup /\ Quiet /\ host.pc \in Cleaning /\ host'.pc \in Cleaning \cup {"completed"})
           \/ (Measure /\ Quiet /\ host.pc \in Measuring
                /\ host'.pc \in Measuring \cup {"collect", "retained"})
  BY <1>3 DEF Quiet, Starting, Cleaning, Measuring, Qualifying, afterVars
<1> QED BY <1>1, <1>2, <1>3, Phases

\* The arguments of the run's own plan are those the host handed over.
LEMMA ArgsKept ==
  ASSUME TypeInv, exported.args # Gone => exported.attempt = 0, [Next]_vars
  PROVE  exported'.args # Gone => exported'.attempt = 0
<1>1. CASE UNCHANGED exported
  BY <1>1
<1>2. CASE Export
  <2>1. CASE exported' = [done |-> TRUE, attempt |-> host.attempt, refs |-> host.inv,
                          args |-> IF host.attempt = 0 THEN att[host.attempt].args ELSE Gone]
    BY <2>1
  <2> QED BY <1>1, <1>2, <2>1, ExportSteps DEF AcceptEffect
<1>3. CASE Wanders
  BY <1>1, <1>3, WandersFiles
<1>4. CASE ~Export /\ ~Wanders
  <2>1. UNCHANGED exported
    BY <1>4, Phases DEF Quiet, Seal, Qualify, exportVars
  <2> QED BY <1>1, <2>1
<1> QED BY <1>2, <1>3, <1>4

LEMMA AdmittedKept ==
  ASSUME TypeInv, AdmittedInv, [Next]_vars
  PROVE  AdmittedInv'
<1>1. exported'.args # Gone => exported'.attempt = 0
  BY ArgsKept DEF AdmittedInv
<1>2. CASE /\ host.pc \notin Qualifying \cup {"postclean", "end"}
           /\ host'.pc \notin Qualifying \cup {"postclean"}
           /\ UNCHANGED <<aggregate, post, qualified>>
  BY <1>1, <1>2 DEF AdmittedInv, Admitted
<1>3. CASE Wanders
  <2>1. host'.pc = host.pc /\ host'.failed = host.failed
    BY <1>3, WandersKeeps
  <2>2. UNCHANGED <<sealRef, exported, outcome, post, qualified>> /\ aggregate'.verdict = aggregate.verdict
    BY <1>3, WandersFiles
  <2> QED BY <2>1, <2>2 DEF AdmittedInv, Admitted, CompletionPassed
<1>4. CASE Qualify
  <2>1. UNCHANGED <<sealRef, exported, outcome>>
    BY <1>4, QualifySteps
  <2>2. "end" \notin Qualifying \cup {"postclean", "completed"} /\ "completed" \notin Qualifying
        /\ "postclean" \notin Qualifying /\ "aggregate" \in Qualifying
    BY DEF Qualifying
  <2>3. host.pc # "end" /\ qualified = None
    BY <1>4, <2>2, QualifyTyped DEF AdmittedInv, TypeInv
  <2>4. CASE Gives /\ UNCHANGED <<aggregate, qualified>>
    <3>1. host'.pc = "postclean" /\ host'.failed
      BY <2>4 DEF Gives
    <3> QED BY <1>1, <2>2, <2>3, <2>4, <3>1 DEF AdmittedInv, Admitted
  <2>5. CASE GoesOn /\ UNCHANGED qualified
    <3>1. CompletionPassed /\ exported.attempt = 0 /\ sealRef # Gone
      BY <2>5 DEF GoesOn, AdmittedInv, Admitted
    <3>2. CompletionPassed'
      BY <2>1, <2>5, <3>1 DEF CompletionPassed, GoesOn
    <3> QED BY <1>1, <2>1, <2>3, <2>5, <3>1, <3>2 DEF AdmittedInv
  <2>6. CASE AdmitEffect /\ Stays("aggregate") /\ UNCHANGED <<aggregate, qualified>> /\ host.pc = "completed"
    <3>1. host'.pc = "aggregate" /\ host'.failed = host.failed
      BY <2>6 DEF Stays
    <3>2. CompletionPassed /\ exported.attempt = 0 /\ sealRef # Gone
      <4>1. ~Gives
        BY <3>1 DEF Gives
      <4> QED BY <2>6, <4>1 DEF AdmitEffect, AdmittedInv
    <3>3. CompletionPassed'
      BY <2>1, <3>1, <3>2 DEF CompletionPassed
    <3> QED BY <1>1, <2>1, <2>3, <2>6, <3>2, <3>3 DEF AdmittedInv
  <2>7. CASE host.pc = "postclean" /\ PostcleanEffect
    <3>1. host'.pc = "end" /\ host'.failed = host.failed /\ aggregate' = aggregate
      BY <2>7 DEF PostcleanEffect, Stays
    <3>2. CASE qualified' = None
      BY <1>1, <2>2, <3>1, <3>2 DEF AdmittedInv, Admitted
    <3>3. CASE ~host.failed /\ post' = FALSE /\ qualified' = aggregate.verdict
      <4>1. CompletionPassed /\ exported.attempt = 0
        BY <2>7, <3>3 DEF AdmittedInv, Admitted
      <4>2. CompletionPassed'
        BY <2>1, <3>1, <4>1 DEF CompletionPassed
      <4> QED BY <1>1, <2>1, <2>2, <3>1, <3>3, <4>1, <4>2 DEF AdmittedInv, Admitted
    <3> QED BY <2>3, <2>7, <3>2, <3>3 DEF PostcleanEffect
  <2> QED BY <1>4, <2>4, <2>5, <2>6, <2>7, QualifyMoves
<1> QED BY <1>2, <1>3, <1>4, EarlierSteps

LEMMA VerdictKept ==
  ASSUME TypeInv, SealInv, AdmittedInv, VerdictInv, [Next]_vars
  PROVE  VerdictInv'
<1>1. /\ TypeOK /\ edits \in Nat /\ 0 \in Attempts /\ "result" \in Payloads
      /\ seal.result \in Nat /\ seal'.result \in Nat /\ edits' \in Nat
  BY TypeKept, BoundsAssumption, PayloadsAssumption DEF TypeInv, TypeOK, SealDocument, File
<1>2. seal'.result <= edits' + 2
  <2>1. CASE Seal
    <3>1. UNCHANGED edits
      BY <2>1 DEF Seal
    <3>2. CASE seal'.result = seal.result
      BY <3>1, <3>2 DEF VerdictInv
    <3>3. CASE /\ source["result"] = host.judged
               /\ seal' = [gen |-> Original, inv |-> host.inv, result |-> host.judged,
                           verdict |-> Verdict(host.judged), exit |-> host.obs, read |-> host.seen]
      <4>1. seal'.result = source["result"]
        BY <3>3
      <4>2. source["result"] <= edits + 2
        BY <1>1 DEF SealInv, SilentInv
      <4> QED BY <1>1, <3>1, <4>1, <4>2
    <3>4. CASE RememberSeal
      BY <3>2, <3>4 DEF RememberSeal
    <3>5. CASE UNCHANGED seal
      BY <3>2, <3>5
    <3>6. CASE SealEffect
      BY <3>3, <3>5, <3>6 DEF SealEffect
    <3>7. host.pc \in Sealing \cup {"remember"}
      BY <2>1, SealTyped DEF TypeInv
    <3>8. CASE host.pc \in Sealing
      BY <2>1, <3>5, <3>6, <3>8, SealSteps
    <3>9. CASE host.pc = "remember"
      BY <2>1, <3>4, <3>9 DEF Seal, Collect, JudgeResult, Validate, Recheck, WriteSeal
    <3> QED BY <3>7, <3>8, <3>9
  <2>2. CASE Wanders
    BY <1>1, <2>2, WandersFiles DEF VerdictInv
  <2>3. CASE ~Seal /\ ~Wanders
    <3>1. UNCHANGED <<seal, edits>>
      BY <2>3, Phases DEF Quiet, Export, Qualify, sealVars
    <3> QED BY <3>1 DEF VerdictInv
  <2> QED BY <2>1, <2>2, <2>3
<1>3. CASE /\ host.pc \notin Qualifying \cup {"postclean", "end"}
           /\ host'.pc \notin Qualifying \cup {"postclean"}
           /\ UNCHANGED <<aggregate, post, qualified>>
  <2>1. aggregate.verdict # "passed"
    BY <1>3 DEF SealInv, OrderInv, None
  <2> QED BY <1>2, <1>3, <2>1 DEF VerdictInv
<1>4. CASE Wanders
  <2>1. /\ seal'.gen = Original => seal.gen = Original
        /\ seal'.result = seal.result /\ seal'.verdict = seal.verdict
        /\ aggregate'.verdict = aggregate.verdict /\ qualified' = qualified
    BY <1>4, WandersFiles
  <2>2. Compared' => Compared
    BY <1>4, <2>1, WandersKeeps DEF Compared
  <2>3. \/ att'[0].kept["result"] = att[0].kept["result"]
        \/ att'[0].kept["result"] = edits + 3
    BY <1>1, <1>4, WandersAttempts DEF Fresh
  <2>4. att[0].kept["result"] # seal.result => att'[0].kept["result"] # seal.result
    BY <1>1, <2>3 DEF VerdictInv
  <2> QED BY <1>2, <2>1, <2>2, <2>4 DEF VerdictInv
<1>5. CASE Qualify
  <2>1. UNCHANGED <<seal, sealRef, att>>
    BY <1>5, QualifySteps
  <2>2. host.pc # "end" /\ qualified = None
    BY <1>5, QualifyTyped DEF AdmittedInv, TypeInv, Qualifying
  <2>3. CASE Gives /\ UNCHANGED <<aggregate, qualified>>
    <3>1. ~Compared'
      BY <2>2, <2>3 DEF Gives, Compared, Qualifying
    <3> QED BY <1>2, <2>1, <2>3, <3>1 DEF VerdictInv
  <2>4. CASE host.pc = "completed" /\ AdmitEffect /\ UNCHANGED <<aggregate, post, qualified>>
    <3>1. CASE Stays("aggregate")
      <4>1. ~Compared'
        BY <2>2, <2>4, <3>1 DEF Stays, Compared
      <4> QED BY <1>2, <2>1, <2>4, <4>1 DEF VerdictInv
    <3> QED BY <2>3, <2>4, <3>1 DEF AdmitEffect
  <2>5. ASSUME host.pc = "aggregate", NEW verdict \in {"passed", "failed"},
               Verdict(att[0].kept["result"]) = "failed" => verdict = "failed",
               aggregate' = [gen |-> Original, verdict |-> verdict, valid |-> Gone],
               NEW o, Looks("bindAggregate", o), UNCHANGED qualified
        PROVE  VerdictInv'
    <3>1. ~Compared' /\ aggregate'.verdict = verdict
      BY <2>2, <2>5 DEF Looks, Compared
    <3>2. seal.verdict = Verdict(seal.result)
      <4>1. seal.gen # Gone
        BY <2>5 DEF AdmittedInv, SealInv, OrderInv, Qualifying
      <4> QED BY <4>1 DEF SealInv, SealValidated
    <3>3. verdict = "passed" => Verdict(att[0].kept["result"]) = "passed"
      BY <2>5 DEF Verdict
    <3> QED BY <1>2, <2>1, <3>1, <3>2, <3>3 DEF VerdictInv
  <2>6. CASE host.pc = "bindAggregate" /\ BindEffect
    <3>1. CASE SealSays(/\ att[0].args = Original
                        /\ att[0].kept["result"] = seal.result
                        /\ ExitAgrees(seal.exit, seal.verdict)) /\ UNCHANGED aggregate
      BY <1>2, <2>1, <3>1 DEF SealSays, VerdictInv
    <3> QED BY <2>3, <2>6, <3>1 DEF BindEffect, afterVars
  <2>7. ASSUME aggregate'.verdict = aggregate.verdict, Compared
        PROVE  VerdictInv'
    BY <1>2, <2>1, <2>7 DEF VerdictInv
  <2>8. CASE /\ host.pc \in Qualifying \ {"aggregate", "bindAggregate"}
             /\ \/ RestEffect
                \/ \E next \in Qualifying \ {"aggregate", "bindAggregate"} : CheckEffect(next)
    <3>1. Compared /\ aggregate \in AggregateFile
      BY <1>1, <2>8 DEF Compared, TypeOK
    <3>2. CASE aggregate' = [aggregate EXCEPT !.valid = host.raw] \/ UNCHANGED aggregate
      <4>1. aggregate'.verdict = aggregate.verdict
        BY <3>1, <3>2 DEF AggregateFile
      <4> QED BY <2>7, <3>1, <4>1
    <3>3. aggregate' = [aggregate EXCEPT !.valid = host.raw] \/ UNCHANGED aggregate
      BY <2>8 DEF RestEffect, CheckEffect, afterVars
    <3> QED BY <3>2, <3>3
  <2>9. CASE host.pc = "postclean" /\ PostcleanEffect
    <3>1. CASE host.failed \/ UNCHANGED qualified
      <4>1. ~Compared'
        BY <2>2, <2>9, <3>1 DEF PostcleanEffect, Stays, Compared, Qualifying
      <4> QED BY <1>2, <2>1, <2>9, <4>1 DEF PostcleanEffect, VerdictInv
    <3>2. CASE ~host.failed
      BY <2>7, <2>9, <3>2 DEF PostcleanEffect, Compared
    <3> QED BY <3>1, <3>2
  <2>10. CASE host.pc = "aggregate" /\ AggregateEffect
    BY <2>3, <2>5, <2>10 DEF AggregateEffect
  <2> QED BY <1>5, <2>4, <2>6, <2>8, <2>9, <2>10, QualifySteps
<1> QED BY <1>3, <1>4, <1>5, EarlierSteps

EvidenceInv == PlanInv /\ ExportSealed /\ AdmittedInv /\ VerdictInv

LEMMA EvidenceInit == Init => EvidenceInv
<1> SUFFICES ASSUME Init PROVE EvidenceInv
  OBVIOUS
<1>1. host.pc = "start" /\ host.pc \notin Qualifying
  BY DEF Init, Qualifying
<1>2. PlanInv
  BY <1>1 DEF PlanInv, Planned
<1>3. ExportSealed
  BY DEF Init, ExportSealed, NoExport
<1>4. AdmittedInv
  BY <1>1 DEF Init, AdmittedInv, Admitted, NoExport
<1>5. VerdictInv
  BY BoundsAssumption DEF Init, VerdictInv, NoAggregate, NoSeal, None, Gone
<1> QED BY <1>2, <1>3, <1>4, <1>5 DEF EvidenceInv

LEMMA EvidenceKept == TypeInv /\ SealInv /\ EvidenceInv /\ [Next]_vars => EvidenceInv'
  BY PlanKept, ExportedKept, AdmittedKept, VerdictKept DEF EvidenceInv, SealInv

\* What leaves the run is what was sealed: the references of a sealed run that
\* are handed over are of the sealed bytes, and a run is called passed only if
\* it was sealed as passed, no hook of it failed and it was removed - unless
\* the seal and the retained result were both rewritten since.
THEOREM EvidenceHolds == Spec => []EvidenceTrue
<1>1. Spec => [](TypeInv /\ SealInv /\ EvidenceInv)
  <2>1. TypeInv /\ SealInv /\ EvidenceInv /\ [Next]_vars => (TypeInv /\ SealInv /\ EvidenceInv)'
    BY TypeSteps, SealKept, EvidenceKept
  <2> QED BY TypeInit, SealInit, EvidenceInit, <2>1, PTL DEF Spec
<1>2. TypeInv /\ EvidenceInv => EvidenceTrue
  <2> SUFFICES ASSUME TypeInv, EvidenceInv PROVE TypeOK /\ ExportSealed /\ QualifiedTrue
    BY DEF EvidenceTrue
  <2>1. TypeOK /\ ExportSealed /\ AdmittedInv /\ VerdictInv
    BY DEF TypeInv, EvidenceInv
  <2>2. ASSUME qualified # None PROVE QualifiedTrue
    <3>1. /\ qualified = aggregate.verdict /\ ~post /\ exported.attempt = 0
          /\ ~host.failed /\ exported.done /\ outcome = [released |-> TRUE, error |-> FALSE]
      BY <2>1, <2>2 DEF AdmittedInv, CompletionPassed
    <3>2. Compared
      BY <2>2 DEF Compared
    <3> QED BY <2>1, <2>2, <3>1, <3>2 DEF ExportSealed, VerdictInv, QualifiedTrue
  <2> QED BY <2>1, <2>2 DEF QualifiedTrue
<1> QED BY <1>1, <1>2, PTL
-----------------------------------------------------------------------------
(* Nobody else's container, once more: its theorem rests on what is known  *)
(* of the qualification.                                                   *)

LEMMA SparedStep ==
  ASSUME TypeInv, SparedInv, [Next]_vars, foreign # "none", foreign' = "none"
  PROVE  host.pc = "down" /\ foreign = "late"
<1>0. foreign \in {"none", "there", "late"}
  BY DEF TypeInv, TypeOK
<1>1. CASE Start /\ Quiet
  BY <1>1, StartTyped DEF TypeInv
<1>2. CASE Measure /\ Quiet
  BY <1>2, MeasureTyped DEF TypeInv
<1>3. CASE Cleanup
  BY <1>0, <1>3 DEF Cleanup, BindParent, ObserveOwnership, Down, VerifyCleanup, SparedInv
<1>4. CASE (JobFails /\ UNCHANGED <<box, foreign, providerVars, source>>) \/ Seal \/ Export \/ Qualify
  BY <1>4 DEF Seal, Export, Qualify
<1>5. CASE WorldStep \/ Edit \/ UNCHANGED vars
  BY <1>5, WorldForeign
<1> QED BY <1>1, <1>2, <1>3, <1>4, <1>5, NextIs

\* The verification of the cleanup is the only step that calls a run released,
\* and it does so only when nobody's container is left.
Verified == Qualifying \cup {"completed", "postclean", "end"}

ReleasedInv ==
  /\ outcome.released => host.pc \in Verified
  /\ foreign # "none" => ~outcome.released

\* Who is not the cleanup leaves the outcome and lets come a container only
\* while the cleanup runs.
LEMMA OutsideCleanup ==
  ASSUME TypeInv, [Next]_vars, ~Cleanup
  PROVE  /\ UNCHANGED outcome
         /\ foreign' = foreign \/ host.pc \in Cleaning
<1>1. CASE Start /\ Quiet
  BY <1>1, StartTyped DEF TypeInv
<1>2. CASE Measure /\ Quiet
  BY <1>2, MeasureTyped DEF TypeInv, providerVars
<1>3. CASE (JobFails /\ UNCHANGED <<box, foreign, providerVars, source>>) \/ Seal \/ Export \/ Qualify
  BY <1>3 DEF Seal, Export, Qualify, providerVars
<1>4. CASE WorldStep
  BY <1>4 DEF WorldStep, Observer, Deadline, Engine, ForeignAppears, Ends, providerVars, Cleaning,
              ObserverMarks, ObserverEnds
<1>5. CASE Edit \/ UNCHANGED vars
  BY <1>5 DEF Edit, vars, providerVars
<1> QED BY <1>1, <1>2, <1>3, <1>4, <1>5, NextIs

LEMMA CleaningFirst == Cleaning \cap Verified = {}
  BY DEF Cleaning, Verified, Qualifying

LEMMA ReleasedKept ==
  ASSUME TypeInv, ReleasedInv, [Next]_vars
  PROVE  ReleasedInv'
<1>0. /\ TypeOK /\ host \in HostState /\ outcome \in [released : BOOLEAN, error : BOOLEAN]
      /\ foreign \in {"none", "there", "late"}
  BY DEF TypeInv, TypeOK
<1>1. CASE Cleanup
  <2>1. host.pc \in Cleaning /\ foreign' \in {foreign, "none"}
    BY <1>0, <1>1, CleanupTyped
  <2>2. ~outcome.released
    BY <2>1, CleaningFirst DEF ReleasedInv
  <2>3. CASE VerifyCleanup
    <3>1. PICK seen \in {~Remains, FALSE} : outcome' = [outcome EXCEPT !.released = seen]
      BY <2>3 DEF VerifyCleanup
    <3>2. UNCHANGED foreign /\ Goto("completed")
      BY <2>3 DEF VerifyCleanup
    <3>3. outcome'.released = seen /\ host'.pc = "completed"
      BY <1>0, <3>1, <3>2 DEF Goto, HostState
    <3>4. foreign # "none" => ~seen
      BY <3>1 DEF Remains
    <3> QED BY <3>2, <3>3, <3>4 DEF ReleasedInv, Verified
  <2>4. CASE BindParent \/ ObserveOwnership \/ Down
    <3>1. outcome'.released = outcome.released
      BY <1>0, <2>4 DEF BindParent, ObserveOwnership, Down, CleanupThrows
    <3> QED BY <2>2, <3>1 DEF ReleasedInv
  <2> QED BY <1>1, <2>3, <2>4 DEF Cleanup
<1>2. CASE ~Cleanup
  <2>1. UNCHANGED outcome
    BY <1>2, OutsideCleanup
  <2>2. foreign' = foreign \/ host.pc \in Cleaning
    BY <1>2, OutsideCleanup
  <2>3. host.pc \in Verified => host'.pc \in Verified
    BY <1>2, Phases, JobFailsTyped DEF Verified, Starting, Measuring, Sealing, Exporting, Qualifying, Wanders,
              TypeInv, TypeOK, HostState
  <2> QED BY <2>1, <2>2, <2>3, CleaningFirst DEF ReleasedInv
<1> QED BY <1>1, <1>2

\* A container of another run is removed only by compose down, and only when it
\* came after the ownership was observed; a run beside which one is left is
\* neither released nor qualified.
THEOREM OthersSpared == Spec => ForeignSpared
<1>1. Init => SparedInv /\ ReleasedInv
  BY DEF Init, SparedInv, ReleasedInv
<1>2. TypeInv /\ SparedInv /\ ReleasedInv /\ [Next]_vars => (TypeInv /\ SparedInv /\ ReleasedInv)'
  BY TypeSteps, SparedKept, ReleasedKept
<1>3. TypeInv /\ SparedInv /\ [Next]_vars
        => [foreign # "none" /\ foreign' = "none" => host.pc = "down" /\ foreign = "late"]_vars
  BY SparedStep
<1>4. EvidenceTrue /\ ReleasedInv => (foreign # "none" => ~outcome.released /\ qualified = None)
  BY DEF EvidenceTrue, QualifiedTrue, ReleasedInv
<1> QED BY TypeInit, EvidenceHolds, <1>1, <1>2, <1>3, <1>4, PTL DEF Spec, ForeignSpared

=============================================================================
