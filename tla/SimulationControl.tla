------------------------- MODULE SimulationControl -------------------------
(***************************************************************************)
(* The client of a simulator's standard interfaces (simulation_control.py) *)
(* and the reset probe built on it (reset.py), against a simulator that    *)
(* may not keep to those interfaces.                                       *)
(*                                                                         *)
(* The client learns the simulator's time only from samples of /clock,     *)
(* which may be lost and arrive late; its checks must not take an old      *)
(* sample for the present time.  StableFor is the time the client asks a   *)
(* clock to stand still for, MaxDelay, which is not less, the age a sample *)
(* may have when a spin delivers it.  Nothing in the client tells a clock  *)
(* that stands from one whose samples are that late, or do not come;       *)
(* `stale' records that a wait has returned such a reading.  Time is       *)
(* counted in ticks; a simulator that runs advances its clock in each.     *)
(***************************************************************************)
EXTENDS Integers, Sequences, FiniteSetsExt

CONSTANTS Programs,      \* what is run: "verify", "step", "reset"
          Faults,        \* how the simulator may misbehave, "none" among them
          Steps,         \* steps of one step_simulation request
          MaxDelay, StableFor, CollectFor, Timeout, Latency,
          MaxClock       \* bound: where the exploration stops the clock

ASSUME ControlAssumption ==
  /\ Programs \subseteq {"verify", "step", "reset"}
  /\ "none" \in Faults
  /\ Faults \subseteq {"none", "featureless", "refusing", "short", "long", "deaf",
                       "resumes", "meddled", "partial", "idle_reset", "refused_reset",
                       "kept_model"}
  /\ {Steps, StableFor, CollectFor, Timeout, MaxClock} \subseteq Nat \ {0}
  /\ MaxDelay \in Nat /\ Latency \in Nat
  /\ StableFor <= MaxDelay /\ StableFor <= CollectFor

\* the calls each program makes, in their order
Script ==
  [verify |-> <<"features", "play", "playing?", "advances", "pause", "paused?", "quiescent",
                "step", "reached", "still", "exact", "is_paused", "play",
                "advances", "playing?", "end">>,
   step |-> <<"pause", "paused?", "quiescent", "step", "reached", "paused?",
              "exact", "again">>,
   reset |-> <<"features", "play", "playing?", "advances", "spawn", "spawned?", "pause",
               "paused?", "quiescent", "move", "quiescent", "partial", "still",
               "is_paused", "unchanged", "reset", "collect", "read", "pause",
               "paused?", "quiescent", "end">>]

\* the calls a service answers, and those that wait for the clock
Services == {"features", "play", "playing?", "pause", "paused?", "step", "is_paused", "spawn",
             "spawned?", "move", "partial", "reset", "read"}
ClockWaits == {"advances", "quiescent", "reached", "still"}

VARIABLES
  \* the client
  program, pc, view, age, cursor, quiet, left, mark, epoch, flags, result,
  \* the simulator
  fault, wanted, state, coasting, clock, past, todo, entity,
  \* history: the true clock when the last step was asked for, and whether a
  \* clock was taken to stand still by a reading as old as it had to stand
  before, stale

client == <<program, pc, view, age, cursor, quiet, left, mark, epoch, flags, result>>
simulator == <<fault, wanted, state, coasting, clock, past, todo, entity>>
history == <<before, stale>>
vars == <<client, simulator, history>>

None == -1

Init ==
  /\ program \in Programs /\ pc = 1
  /\ view = None /\ age = MaxDelay + 1 /\ cursor = None /\ quiet = 0
  /\ left = Timeout /\ mark = None /\ epoch = FALSE
  /\ flags = {} /\ result = "none"
  /\ fault \in Faults /\ state \in {"playing", "paused"} /\ wanted = state
  /\ coasting = 0 /\ clock = 1 /\ past = [a \in 1 .. MaxDelay |-> 1]
  /\ todo = 0 /\ entity \in {"absent", "spawned"}
  /\ before = 0 /\ stale = FALSE

(***************************************************************************)
(* The simulator.                                                          *)
(***************************************************************************)
\* it runs on for a moment after a pause, or, deaf, for good
Running == state = "playing" \/ coasting > 0 \/ fault = "deaf"

\* one tick: the clock of a running simulator advances, requested steps are
\* taken one by one or together
Tick ==
  /\ result = "none"
  /\ \E d \in IF Running THEN {1} ELSE IF todo > 0 THEN 1 .. todo ELSE {0} :
       /\ clock + d <= MaxClock
       /\ clock' = clock + d
       /\ todo' = IF Running THEN todo ELSE todo - d
       /\ state' = IF fault = "resumes" /\ todo > 0 /\ todo' = 0
                   THEN "playing" ELSE state
       /\ wanted' = IF fault = "resumes" /\ todo > 0 /\ todo' = 0
                    THEN "playing" ELSE wanted
  /\ past' = [a \in 1 .. MaxDelay |-> IF a = 1 THEN clock ELSE past[a - 1]]
  /\ coasting' = Max({0, coasting - 1})
  /\ age' = Min({age + 1, MaxDelay + 1})
  /\ quiet' = Min({quiet + 1, Max({StableFor, CollectFor})})
  /\ left' = Max({0, left - 1})
  /\ UNCHANGED <<program, pc, view, cursor, mark, epoch, flags, result, fault,
                 entity, history>>

\* the requested state is taken some time after the answer
TakeState ==
  /\ wanted # state /\ state' = wanted
  /\ coasting' \in (IF wanted = "paused" THEN 0 .. Latency ELSE {0})
  /\ UNCHANGED <<client, fault, wanted, clock, past, todo, entity, history>>

\* somebody else plays the simulation for a while
Meddle ==
  /\ fault = "meddled" /\ state = "paused" /\ wanted = "paused" /\ coasting = 0
  /\ coasting' \in 1 .. Latency
  /\ UNCHANGED <<client, fault, wanted, state, clock, past, todo, entity, history>>

(***************************************************************************)
(* The client: the pieces of its calls.                                    *)
(***************************************************************************)
At(call) == result = "none" /\ Script[program][pc] = call

\* the value of the clock that a sample of age a carries
Sample(a) == IF a = 0 THEN clock ELSE past[a]

\* spin_once: it delivers a sample no older than the last one or, in the end,
\* nothing.  (A spin that delivers nothing before the last sample is as old as
\* the window is one that delivers that sample again.)
Hears(v) ==
  \/ \E a \in 0 .. Min({age, MaxDelay}) : v = Sample(a) /\ view' = v /\ age' = a
  \/ v = view /\ age >= StableFor /\ UNCHANGED <<view, age>>
Heard == {Sample(a) : a \in 0 .. Min({age, MaxDelay})} \union ({view} \ {None})

\* the next call starts with its deadline and its reference values
Proceed == /\ pc' = pc + 1 /\ left' = Timeout /\ quiet' = 0
           /\ UNCHANGED <<program, result>>
Stay == UNCHANGED <<program, pc, left, result>>
Refuse == /\ result' = "failed"
          /\ UNCHANGED <<program, pc, left, quiet>>

\* a service call spins until it is answered
SpinInCall ==
  /\ \E call \in Services : At(call)
  /\ \E v \in Heard : Hears(v)
  /\ UNCHANGED <<program, pc, cursor, quiet, left, mark, epoch, flags, result,
                 simulator, history>>

\* a wait that reaches its deadline, and a service that does not answer
TimesOut ==
  /\ \E call \in Services \union ClockWaits : At(call)
  /\ left = 0 /\ Refuse
  /\ UNCHANGED <<view, age, cursor, mark, epoch, flags, simulator, history>>

\* _require_ok, and the probe's own assertions: a service that now and then
\* answers with an error ends the program
Refused ==
  /\ fault = "refusing" /\ \E call \in Services \ {"features", "reset"} : At(call)
  /\ Refuse
  /\ UNCHANGED <<view, age, cursor, mark, epoch, flags, simulator, history>>

\* features: the ones the program will use must be there; verify will measure
\* an advance from what it knows now
Features ==
  /\ At("features")
  /\ IF fault = "featureless" THEN Refuse ELSE Proceed
  /\ cursor' = IF program = "verify" THEN view ELSE None
  /\ UNCHANGED <<view, age, mark, epoch, flags, simulator, history>>

\* set_state: the answer only says that the request was taken
SetState ==
  /\ \/ At("play") /\ wanted' = "playing"
     \/ At("pause") /\ wanted' = "paused"
  /\ Proceed
  /\ UNCHANGED <<view, age, cursor, mark, epoch, flags, fault, state, coasting, clock, past,
                 todo, entity, history>>

\* wait_for_state: the deadline is looked at before the state
WaitForState ==
  /\ \/ At("playing?") /\ state = "playing"
     \/ At("paused?") /\ state = "paused"
  /\ left > 0 /\ Proceed
  /\ UNCHANGED <<view, age, cursor, mark, epoch, flags, simulator, history>>

\* wait_for_clock_after: the first sample is a cursor, not an advance
WaitForClockAfter ==
  /\ At("advances") /\ left > 0
  /\ \E v \in Heard :
       /\ Hears(v)
       /\ IF cursor = None THEN cursor' = v /\ Stay /\ UNCHANGED quiet
          ELSE IF v > cursor THEN cursor' = v /\ Proceed
          ELSE Stay /\ UNCHANGED <<cursor, quiet>>
  /\ UNCHANGED <<mark, epoch, flags, simulator, history>>

\* the reading that a watched clock is taken to stand at
Settled == stale' = (stale \/ (pc' # pc /\ age' >= StableFor))

\* the reading after a pause taken for a standing clock
WaitForQuiescentClockAtOnce ==
  /\ (At("quiescent") \/ At("still")) /\ left > 0
  /\ \E v \in Heard : Hears(v) /\ Proceed
  /\ IF At("quiescent") THEN mark' = view' /\ UNCHANGED cursor
     ELSE cursor' = view' /\ UNCHANGED mark
  /\ Settled /\ UNCHANGED <<epoch, flags, simulator, before>>

\* wait_for_quiescent_clock: the value must not change for StableFor, counted
\* from the last change the client has seen; what it returns is a reading to
\* measure from, or to be measured
WaitForQuiescentClock ==
  /\ (At("quiescent") \/ At("still")) /\ left > 0
  /\ \E v \in Heard :
       /\ Hears(v)
       /\ IF v # view THEN quiet' = 0 /\ Stay
          ELSE IF quiet >= StableFor THEN Proceed
          ELSE Stay /\ UNCHANGED quiet
  /\ mark' = IF pc' # pc /\ At("quiescent") THEN view' ELSE mark
  /\ cursor' = IF pc' # pc /\ At("still") THEN view' ELSE cursor
  /\ Settled /\ UNCHANGED <<epoch, flags, simulator, before>>

\* one step too many asked for
StepMore ==
  /\ At("step") /\ Proceed
  /\ todo' = Steps + 1 /\ before' = clock
  /\ UNCHANGED <<view, age, cursor, mark, epoch, flags, fault, wanted, state, coasting,
                 clock, past, entity, stale>>

\* step: the simulator answers and takes the steps afterwards
Step ==
  /\ At("step") /\ Proceed
  /\ todo' = Steps + (CASE fault = "short" -> -1 [] fault = "long" -> 1 [] OTHER -> 0)
  /\ before' = clock
  /\ UNCHANGED <<view, age, cursor, mark, epoch, flags, fault, wanted, state, coasting,
                 clock, past, entity, stale>>

WaitForClockAtLeast ==
  /\ At("reached") /\ left > 0
  /\ \E v \in Heard :
       /\ Hears(v)
       /\ IF v >= mark + Steps THEN Proceed ELSE Stay /\ UNCHANGED quiet
  /\ UNCHANGED <<cursor, mark, epoch, flags, simulator, history>>

\* far enough is enough
ExactOrMore ==
  /\ At("exact")
  /\ IF view >= mark + Steps THEN Proceed /\ mark' = view
     ELSE Refuse /\ UNCHANGED mark
  /\ UNCHANGED <<view, age, cursor, epoch, flags, simulator, history>>

\* the clock is where the requested steps lead, neither short of it nor beyond
Exact ==
  /\ At("exact")
  /\ IF view = mark + Steps THEN Proceed /\ mark' = view
     ELSE Refuse /\ UNCHANGED mark
  /\ UNCHANGED <<view, age, cursor, epoch, flags, simulator, history>>

IsPaused ==
  /\ At("is_paused")
  /\ IF state = "paused" THEN Proceed ELSE Refuse
  /\ UNCHANGED <<view, age, cursor, mark, epoch, flags, simulator, history>>

\* the loop of "step" goes around
Again ==
  /\ At("again") /\ pc' = 4
  /\ left' = Timeout /\ quiet' = 0
  /\ UNCHANGED <<program, view, age, cursor, mark, epoch, flags, result, simulator, history>>

(***************************************************************************)
(* The reset probe.                                                        *)
(***************************************************************************)
Spawn ==
  /\ At("spawn")
  /\ IF entity = "absent" THEN Proceed ELSE Refuse
  /\ entity' = "spawned"
  /\ UNCHANGED <<view, age, cursor, mark, epoch, flags, fault, wanted, state, coasting,
                 clock, past, todo, history>>

Spawned ==
  /\ At("spawned?") /\ entity = "spawned" /\ Proceed
  /\ UNCHANGED <<view, age, cursor, mark, epoch, flags, simulator, history>>

Move ==
  /\ At("move") /\ Proceed /\ entity' = "moved"
  /\ UNCHANGED <<view, age, cursor, mark, epoch, flags, fault, wanted, state, coasting,
                 clock, past, todo, history>>

\* a partial reset is answered as unsupported and must then have no effect
PartialReset ==
  /\ At("partial") /\ Proceed
  /\ clock' = IF fault = "partial" THEN 0 ELSE clock
  /\ UNCHANGED <<view, age, cursor, mark, epoch, flags, fault, wanted, state, coasting,
                 past, todo, entity, history>>

Unchanged ==
  /\ At("unchanged")
  /\ IF cursor = mark /\ entity = "moved"
     THEN Proceed /\ flags' = flags \union {"unsupportedPartialEffectAbsent"}
     ELSE Refuse /\ UNCHANGED flags
  /\ UNCHANGED <<view, age, cursor, mark, epoch, simulator, history>>

\* a full reset rewinds the clock and removes what was spawned; whether it
\* also plays is left to the simulator.  An error is noted, not raised.
ResetAll ==
  /\ At("reset") /\ Proceed
  /\ flags' = flags \union (IF fault = "refused_reset" THEN {} ELSE {"resetResultOk"})
  /\ clock' = IF fault \in {"idle_reset", "refused_reset"} THEN clock ELSE 0
  /\ entity' = IF fault \in {"kept_model", "refused_reset"} THEN entity ELSE "absent"
  /\ IF fault = "refused_reset" THEN UNCHANGED <<state, wanted>>
     ELSE state' \in {"paused", "playing"} /\ wanted' = state'
  /\ UNCHANGED <<view, age, cursor, mark, epoch, fault, coasting, past, todo, history>>

\* the samples of a while; the list that keeps them may be full
Collect ==
  /\ At("collect")
  /\ \E v \in Heard : Hears(v) /\ epoch' \in {epoch, epoch \/ v < mark}
  /\ IF quiet >= CollectFor THEN Proceed ELSE Stay /\ UNCHANGED quiet
  /\ UNCHANGED <<cursor, mark, flags, simulator, history>>

ReadBack ==
  /\ At("read") /\ Proceed
  /\ flags' = flags \union (IF epoch THEN {"resetClockEpochObserved"} ELSE {})
                   \union (IF entity = "absent" THEN {"spawnedModelDespawned"} ELSE {})
  /\ UNCHANGED <<view, age, cursor, mark, epoch, simulator, history>>

ResetFlags == {"unsupportedPartialEffectAbsent", "resetResultOk",
               "resetClockEpochObserved", "spawnedModelDespawned"}

End ==
  /\ At("end")
  /\ result' = IF program = "reset" /\ flags # ResetFlags THEN "failed" ELSE "passed"
  /\ UNCHANGED <<program, pc, left, quiet, view, age, cursor, mark, epoch, flags,
                 simulator, history>>

Client ==
  \/ SpinInCall \/ TimesOut \/ Refused \/ Features \/ SetState \/ WaitForState \/ WaitForClockAfter
  \/ WaitForQuiescentClock \/ Step \/ WaitForClockAtLeast \/ Exact \/ IsPaused
  \/ Again \/ Spawn \/ Spawned \/ Move \/ PartialReset \/ Unchanged \/ ResetAll
  \/ Collect \/ ReadBack \/ End

Next == Client \/ Tick \/ TakeState \/ Meddle

Spec == Init /\ [][Next]_vars

(***************************************************************************)
(* Properties.                                                             *)
(***************************************************************************)
Clock == 0 .. MaxClock

\* Every variable stays in its range.
TypeOK ==
  /\ program \in Programs /\ pc \in 1 .. Len(Script[program])
  /\ {view, cursor, mark} \subseteq Clock \union {None} /\ age \in 0 .. MaxDelay + 1
  /\ quiet \in 0 .. Max({StableFor, CollectFor}) /\ left \in 0 .. Timeout
  /\ epoch \in BOOLEAN /\ flags \subseteq ResetFlags
  /\ result \in {"none", "passed", "failed"}
  /\ fault \in Faults /\ {state, wanted} \subseteq {"playing", "paused"}
  /\ coasting \in 0 .. Latency /\ clock \in Clock /\ past \in [1 .. MaxDelay -> Clock]
  /\ todo \in 0 .. Steps + 1 /\ entity \in {"absent", "spawned", "moved"}
  /\ before \in Clock /\ stale \in BOOLEAN

\* verify passes no simulator that lacks what it needs and, unless it took a
\* clock to stand by a reading too old to tell, none that takes another number
\* of steps, does not stop when it is paused, or does not stay paused after
\* its steps.
VerifyDetects ==
  program = "verify" /\ result = "passed" =>
    /\ fault # "featureless"
    /\ ~stale => fault \notin {"short", "long", "deaf", "resumes"}

\* The probe passes no simulator whose full reset leaves the clock or the model
\* as they were and, unless a reading was too old to tell, none whose refused
\* partial reset has an effect.
ResetDetects ==
  program = "reset" /\ result = "passed" =>
    /\ fault \notin {"idle_reset", "refused_reset", "kept_model"}
    /\ ~stale => fault # "partial"

\* A simulator that keeps to the interfaces, and whose samples come in time, is
\* refused by verify and by the stepping loop only when a deadline passes.
ConformingAccepted ==
  fault = "none" /\ program # "reset" /\ result = "failed" /\ ~stale => left = 0

\* A program passes only what it is there to find conforming, and refuses a
\* conforming simulator only over time; nothing leaves its kind.
VerdictTrue ==
  /\ TypeOK
  /\ VerifyDetects
  /\ ResetDetects
  /\ ConformingAccepted

\* The reading that the steps are measured from is the simulator's own time
\* when they are asked for, even when somebody else plays the simulation in
\* between: otherwise the measurement is refused.  That the clock stood was
\* read off samples; all rests on these being younger than the time it stood.
MeasuredFromTruth ==
  [][program = "verify" /\ At("exact") /\ pc' # pc /\ ~stale => mark = before]_vars

\* Between two rounds of the stepping loop the client knows the time of a
\* simulator that keeps to the interfaces exactly, however late the samples of
\* its rounds are, when the one reading it began with was not too old to tell.
StepKnowsTime ==
  program = "step" /\ fault = "none" /\ At("again") /\ ~stale => mark = clock /\ todo = 0
=============================================================================
