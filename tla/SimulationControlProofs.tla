------------------------ MODULE SimulationControlProofs ------------------------
(***************************************************************************)
(* What the checks of the control client are worth, for any number of      *)
(* steps, any age of samples, any latency of a state change, any deadline  *)
(* and any window a clock must stand still for, as long as no clock was    *)
(* taken to stand by a reading as old as that window (stale).              *)
(*                                                                         *)
(* The argument is about what a late sample says of the present.  While a  *)
(* clock is watched, every sample the client may still hear is either the  *)
(* time of a clock that stands for good, or as many ticks beyond the last  *)
(* reading as the clock had time for since (WatchInv).  A reading that     *)
(* stayed the same for longer than it is old can only be of the first      *)
(* kind: the clock stands and its time is known (SettlesStill).  From      *)
(* there the known time, the steps that are left and the reference of the  *)
(* measurement are followed to each verdict.  An older one says nothing:   *)
(* what follows from a standing clock is kept only while stale is FALSE    *)
(* (FreshInv), the rest holds in any case.                                 *)
(***************************************************************************)
EXTENDS SimulationControl, TLAPS

-----------------------------------------------------------------------------
(* Where the programs are. *)

\* The calls of verify.
LEMMA VerifyCalls ==
  ASSUME program = "verify"
  PROVE  /\ Len(Script[program]) = 16
         /\ Script[program][1] = "features" /\ Script[program][2] = "play"
         /\ Script[program][3] = "playing?" /\ Script[program][4] = "advances"
         /\ Script[program][5] = "pause" /\ Script[program][6] = "paused?"
         /\ Script[program][7] = "quiescent" /\ Script[program][8] = "step"
         /\ Script[program][9] = "reached" /\ Script[program][10] = "still"
         /\ Script[program][11] = "exact" /\ Script[program][12] = "is_paused"
         /\ Script[program][13] = "play" /\ Script[program][14] = "advances"
         /\ Script[program][15] = "playing?" /\ Script[program][16] = "end"
  BY DEF Script

\* The calls of step.
LEMMA StepCalls ==
  ASSUME program = "step"
  PROVE  /\ Len(Script[program]) = 8
         /\ Script[program][1] = "pause" /\ Script[program][2] = "paused?"
         /\ Script[program][3] = "quiescent" /\ Script[program][4] = "step"
         /\ Script[program][5] = "reached" /\ Script[program][6] = "paused?"
         /\ Script[program][7] = "exact" /\ Script[program][8] = "again"
  BY DEF Script

\* The calls of reset.
LEMMA ResetCalls ==
  ASSUME program = "reset"
  PROVE  /\ Len(Script[program]) = 22
         /\ Script[program][1] = "features" /\ Script[program][2] = "play"
         /\ Script[program][3] = "playing?" /\ Script[program][4] = "advances"
         /\ Script[program][5] = "spawn" /\ Script[program][6] = "spawned?"
         /\ Script[program][7] = "pause" /\ Script[program][8] = "paused?"
         /\ Script[program][9] = "quiescent" /\ Script[program][10] = "move"
         /\ Script[program][11] = "quiescent" /\ Script[program][12] = "partial"
         /\ Script[program][13] = "still" /\ Script[program][14] = "is_paused"
         /\ Script[program][15] = "unchanged" /\ Script[program][16] = "reset"
         /\ Script[program][17] = "collect" /\ Script[program][18] = "read"
         /\ Script[program][19] = "pause" /\ Script[program][20] = "paused?"
         /\ Script[program][21] = "quiescent" /\ Script[program][22] = "end"
  BY DEF Script

\* Where each call stands.
CallsStand ==
  /\ At("features") => \/ program = "verify" /\ pc = 1
                       \/ program = "reset" /\ pc = 1
  /\ At("play") => \/ program = "verify" /\ pc \in {2, 13}
                   \/ program = "reset" /\ pc = 2
  /\ At("playing?") => \/ program = "verify" /\ pc \in {3, 15}
                       \/ program = "reset" /\ pc = 3
  /\ At("advances") => \/ program = "verify" /\ pc \in {4, 14}
                       \/ program = "reset" /\ pc = 4
  /\ At("pause") => \/ program = "verify" /\ pc = 5
                    \/ program = "step" /\ pc = 1
                    \/ program = "reset" /\ pc \in {7, 19}
  /\ At("paused?") => \/ program = "verify" /\ pc = 6
                      \/ program = "step" /\ pc \in {2, 6}
                      \/ program = "reset" /\ pc \in {8, 20}
  /\ At("quiescent") => \/ program = "verify" /\ pc = 7
                        \/ program = "step" /\ pc = 3
                        \/ program = "reset" /\ pc \in {9, 11, 21}
  /\ At("step") => \/ program = "verify" /\ pc = 8
                   \/ program = "step" /\ pc = 4
  /\ At("reached") => \/ program = "verify" /\ pc = 9
                      \/ program = "step" /\ pc = 5
  /\ At("still") => \/ program = "verify" /\ pc = 10
                    \/ program = "reset" /\ pc = 13
  /\ At("exact") => \/ program = "verify" /\ pc = 11
                    \/ program = "step" /\ pc = 7
  /\ At("is_paused") => \/ program = "verify" /\ pc = 12
                        \/ program = "reset" /\ pc = 14
  /\ At("end") => \/ program = "verify" /\ pc = 16
                  \/ program = "reset" /\ pc = 22
  /\ At("again") => program = "step" /\ pc = 8
  /\ At("spawn") => program = "reset" /\ pc = 5
  /\ At("spawned?") => program = "reset" /\ pc = 6
  /\ At("move") => program = "reset" /\ pc = 10
  /\ At("partial") => program = "reset" /\ pc = 12
  /\ At("unchanged") => program = "reset" /\ pc = 15
  /\ At("reset") => program = "reset" /\ pc = 16
  /\ At("collect") => program = "reset" /\ pc = 17
  /\ At("read") => program = "reset" /\ pc = 18

LEMMA Where ==
  ASSUME program \in Programs, pc \in 1 .. Len(Script[program])
  PROVE  CallsStand
<1>1. CASE program = "verify"
  <2>0. pc \in 1 .. 16 BY <1>1, VerifyCalls
  <2>1. CASE pc = 1 BY <1>1, <2>1, VerifyCalls DEF At, CallsStand
  <2>2. CASE pc = 2 BY <1>1, <2>2, VerifyCalls DEF At, CallsStand
  <2>3. CASE pc = 3 BY <1>1, <2>3, VerifyCalls DEF At, CallsStand
  <2>4. CASE pc = 4 BY <1>1, <2>4, VerifyCalls DEF At, CallsStand
  <2>5. CASE pc = 5 BY <1>1, <2>5, VerifyCalls DEF At, CallsStand
  <2>6. CASE pc = 6 BY <1>1, <2>6, VerifyCalls DEF At, CallsStand
  <2>7. CASE pc = 7 BY <1>1, <2>7, VerifyCalls DEF At, CallsStand
  <2>8. CASE pc = 8 BY <1>1, <2>8, VerifyCalls DEF At, CallsStand
  <2>9. CASE pc = 9 BY <1>1, <2>9, VerifyCalls DEF At, CallsStand
  <2>10. CASE pc = 10 BY <1>1, <2>10, VerifyCalls DEF At, CallsStand
  <2>11. CASE pc = 11 BY <1>1, <2>11, VerifyCalls DEF At, CallsStand
  <2>12. CASE pc = 12 BY <1>1, <2>12, VerifyCalls DEF At, CallsStand
  <2>13. CASE pc = 13 BY <1>1, <2>13, VerifyCalls DEF At, CallsStand
  <2>14. CASE pc = 14 BY <1>1, <2>14, VerifyCalls DEF At, CallsStand
  <2>15. CASE pc = 15 BY <1>1, <2>15, VerifyCalls DEF At, CallsStand
  <2>16. CASE pc = 16 BY <1>1, <2>16, VerifyCalls DEF At, CallsStand
  <2> QED BY <2>0, <2>1, <2>2, <2>3, <2>4, <2>5, <2>6, <2>7, <2>8, <2>9, <2>10, <2>11, <2>12, <2>13, <2>14, <2>15, <2>16
<1>2. CASE program = "step"
  <2>0. pc \in 1 .. 8 BY <1>2, StepCalls
  <2>1. CASE pc = 1 BY <1>2, <2>1, StepCalls DEF At, CallsStand
  <2>2. CASE pc = 2 BY <1>2, <2>2, StepCalls DEF At, CallsStand
  <2>3. CASE pc = 3 BY <1>2, <2>3, StepCalls DEF At, CallsStand
  <2>4. CASE pc = 4 BY <1>2, <2>4, StepCalls DEF At, CallsStand
  <2>5. CASE pc = 5 BY <1>2, <2>5, StepCalls DEF At, CallsStand
  <2>6. CASE pc = 6 BY <1>2, <2>6, StepCalls DEF At, CallsStand
  <2>7. CASE pc = 7 BY <1>2, <2>7, StepCalls DEF At, CallsStand
  <2>8. CASE pc = 8 BY <1>2, <2>8, StepCalls DEF At, CallsStand
  <2> QED BY <2>0, <2>1, <2>2, <2>3, <2>4, <2>5, <2>6, <2>7, <2>8
<1>3. CASE program = "reset"
  <2>0. pc \in 1 .. 22 BY <1>3, ResetCalls
  <2>1. CASE pc = 1 BY <1>3, <2>1, ResetCalls DEF At, CallsStand
  <2>2. CASE pc = 2 BY <1>3, <2>2, ResetCalls DEF At, CallsStand
  <2>3. CASE pc = 3 BY <1>3, <2>3, ResetCalls DEF At, CallsStand
  <2>4. CASE pc = 4 BY <1>3, <2>4, ResetCalls DEF At, CallsStand
  <2>5. CASE pc = 5 BY <1>3, <2>5, ResetCalls DEF At, CallsStand
  <2>6. CASE pc = 6 BY <1>3, <2>6, ResetCalls DEF At, CallsStand
  <2>7. CASE pc = 7 BY <1>3, <2>7, ResetCalls DEF At, CallsStand
  <2>8. CASE pc = 8 BY <1>3, <2>8, ResetCalls DEF At, CallsStand
  <2>9. CASE pc = 9 BY <1>3, <2>9, ResetCalls DEF At, CallsStand
  <2>10. CASE pc = 10 BY <1>3, <2>10, ResetCalls DEF At, CallsStand
  <2>11. CASE pc = 11 BY <1>3, <2>11, ResetCalls DEF At, CallsStand
  <2>12. CASE pc = 12 BY <1>3, <2>12, ResetCalls DEF At, CallsStand
  <2>13. CASE pc = 13 BY <1>3, <2>13, ResetCalls DEF At, CallsStand
  <2>14. CASE pc = 14 BY <1>3, <2>14, ResetCalls DEF At, CallsStand
  <2>15. CASE pc = 15 BY <1>3, <2>15, ResetCalls DEF At, CallsStand
  <2>16. CASE pc = 16 BY <1>3, <2>16, ResetCalls DEF At, CallsStand
  <2>17. CASE pc = 17 BY <1>3, <2>17, ResetCalls DEF At, CallsStand
  <2>18. CASE pc = 18 BY <1>3, <2>18, ResetCalls DEF At, CallsStand
  <2>19. CASE pc = 19 BY <1>3, <2>19, ResetCalls DEF At, CallsStand
  <2>20. CASE pc = 20 BY <1>3, <2>20, ResetCalls DEF At, CallsStand
  <2>21. CASE pc = 21 BY <1>3, <2>21, ResetCalls DEF At, CallsStand
  <2>22. CASE pc = 22 BY <1>3, <2>22, ResetCalls DEF At, CallsStand
  <2> QED BY <2>0, <2>1, <2>2, <2>3, <2>4, <2>5, <2>6, <2>7, <2>8, <2>9, <2>10, <2>11, <2>12, <2>13, <2>14, <2>15, <2>16, <2>17, <2>18, <2>19, <2>20, <2>21, <2>22
<1> QED BY <1>1, <1>2, <1>3, ControlAssumption
-----------------------------------------------------------------------------
(* Types. *)

\* The delays and the bounds are numbers.
LEMMA Numbers ==
  /\ Steps \in Nat \ {0} /\ StableFor \in Nat \ {0} /\ CollectFor \in Nat \ {0}
  /\ Timeout \in Nat \ {0} /\ MaxClock \in Nat \ {0} /\ MaxDelay \in Nat /\ Latency \in Nat
  BY ControlAssumption

\* The lesser and the greater of two numbers.
LEMMA MinIs ==
  ASSUME NEW a \in Int, NEW b \in Int
  PROVE  Min({a, b}) = IF a <= b THEN a ELSE b
<1>1. PICK x \in {a, b} : \A y \in {a, b} : x <= y
  OBVIOUS
<1> DEFINE m == Min({a, b})
<1>2. m \in {a, b} /\ \A y \in {a, b} : m <= y
  BY <1>1 DEF Min
<1> QED BY <1>2

LEMMA MinBelow ==
  ASSUME NEW a \in Int, NEW b \in Int
  PROVE  Min({a, b}) <= a
  BY MinIs

LEMMA MaxIs ==
  ASSUME NEW a \in Int, NEW b \in Int
  PROVE  Max({a, b}) = IF a >= b THEN a ELSE b
<1>1. PICK x \in {a, b} : \A y \in {a, b} : x >= y
  OBVIOUS
<1> DEFINE m == Max({a, b})
<1>2. m \in {a, b} /\ \A y \in {a, b} : m >= y
  BY <1>1 DEF Max
<1> QED BY <1>2

\* What runs down stops at zero.
LEMMA DownIs ==
  ASSUME NEW n \in Nat
  PROVE  Max({0, n - 1}) = IF n >= 1 THEN n - 1 ELSE 0
<1>1. n - 1 \in Int /\ 0 \in Int
  OBVIOUS
<1> QED BY <1>1, MaxIs

\* A spin delivers a sample that is no older than what is known.
Ages == 0 .. MaxDelay
Hearing == \E a \in Ages : a <= age /\ view' = Sample(a) /\ age' = a

\* It may deliver nothing.
Learns == Hearing \/ UNCHANGED <<view, age>>

LEMMA HearsIs ==
  ASSUME TypeOK, NEW v, Hears(v)
  PROVE  Learns /\ view' = v /\ (age' < StableFor => Hearing)
<1>1. CASE v = view /\ age >= StableFor /\ UNCHANGED <<view, age>>
  <2>1. ~(age' < StableFor)
    BY <1>1, Numbers DEF TypeOK
  <2> QED BY <1>1, <2>1 DEF Learns
<1>2. CASE \E a \in 0 .. Min({age, MaxDelay}) : v = Sample(a) /\ view' = v /\ age' = a
  <2>1. age \in 0 .. MaxDelay + 1 /\ age \in Int /\ MaxDelay \in Nat
    BY Numbers DEF TypeOK
  <2>2. PICK a \in 0 .. Min({age, MaxDelay}) : v = Sample(a) /\ view' = v /\ age' = a
    BY <1>2
  <2>3. Min({age, MaxDelay}) = IF age <= MaxDelay THEN age ELSE MaxDelay
    BY <2>1, MinIs
  <2>4. a \in Ages /\ a <= age
    BY <2>1, <2>2, <2>3 DEF Ages
  <2> QED BY <2>2, <2>4 DEF Learns, Hearing
<1> QED BY <1>1, <1>2 DEF Hears

LEMMA HearingTyped ==
  ASSUME TypeOK, Learns
  PROVE  view' \in Clock \union {None} /\ age' \in 0 .. MaxDelay + 1
  BY Numbers DEF TypeOK, Learns, Hearing, Ages, Sample, Clock

\* What is left of the client: its place and its result.
Placed == /\ program \in Programs /\ pc \in 1 .. Len(Script[program])
          /\ quiet \in 0 .. Max({StableFor, CollectFor}) /\ left \in 0 .. Timeout
          /\ result \in {"none", "passed", "failed"}
Learned == /\ {view, cursor, mark} \subseteq Clock \union {None} /\ age \in 0 .. MaxDelay + 1
           /\ epoch \in BOOLEAN /\ flags \subseteq ResetFlags
Simulated == /\ fault \in Faults /\ {state, wanted} \subseteq {"playing", "paused"}
             /\ coasting \in 0 .. Latency /\ clock \in Clock /\ past \in [1 .. MaxDelay -> Clock]
             /\ todo \in 0 .. Steps + 1 /\ entity \in {"absent", "spawned", "moved"}
             /\ before \in Clock /\ stale \in BOOLEAN

LEMMA TypeParts == TypeOK <=> Placed /\ Learned /\ Simulated
  BY DEF TypeOK, Placed, Learned, Simulated

LEMMA Window ==
  /\ Max({StableFor, CollectFor}) \in Nat \ {0}
  /\ Max({StableFor, CollectFor}) >= StableFor
  BY Numbers, MaxIs

\* How many calls a program makes.
LEMMA Lengths ==
  ASSUME program \in Programs
  PROVE  Len(Script[program]) = CASE program = "verify" -> 16 [] program = "step" -> 8
                                  [] program = "reset" -> 22
<1>1. CASE program = "verify" BY <1>1, VerifyCalls
<1>2. CASE program = "step" BY <1>2, StepCalls
<1>3. CASE program = "reset" BY <1>3, ResetCalls
<1> QED BY <1>1, <1>2, <1>3, ControlAssumption

LEMMA InitTyped == Init => TypeOK
<1> SUFFICES ASSUME Init PROVE TypeOK
  OBVIOUS
<1>1. Placed
  <2>1. pc = 1 /\ program \in Programs
    BY DEF Init
  <2>2. program = "verify" \/ program = "step" \/ program = "reset"
    BY <2>1, ControlAssumption
  <2>3. pc \in 1 .. Len(Script[program])
    BY <2>1, <2>2, Lengths
  <2> QED BY <2>1, <2>3, Numbers, Window DEF Init, Placed
<1>2. Learned
  <2>1. epoch = FALSE /\ flags = {} /\ age = MaxDelay + 1 /\ view = None /\ cursor = None /\ mark = None
    BY DEF Init
  <2>2. epoch \in BOOLEAN /\ flags \subseteq ResetFlags /\ {view, cursor, mark} \subseteq Clock \union {None}
    BY <2>1
  <2> QED BY <2>1, <2>2, Numbers DEF Learned
<1>3. Simulated
  <2>1. stale \in BOOLEAN
    BY DEF Init
  <2> QED BY <2>1, Numbers DEF Init, Simulated, Clock
<1> QED BY <1>1, <1>2, <1>3, TypeParts

\* No program ends with a call that proceeds.
LEMMA Onward ==
  ASSUME TypeOK, NEW c, At(c), c \notin {"end", "again"}, Proceed
  PROVE  Placed'
<1>1. pc # Len(Script[program])
  <2>1. program = "verify" \/ program = "step" \/ program = "reset"
    BY ControlAssumption DEF TypeOK
  <2> QED BY <2>1, VerifyCalls, StepCalls, ResetCalls DEF At
<1>2. Len(Script[program]) \in Nat
  <2>1. program \in Programs /\ (program = "verify" \/ program = "step" \/ program = "reset")
    BY ControlAssumption DEF TypeOK
  <2> QED BY <2>1, Lengths
<1> QED BY <1>1, <1>2, Numbers, Window DEF TypeOK, Placed, Proceed

LEMMA StayTyped ==
  ASSUME TypeOK, Stay, quiet' \in {0, quiet}
  PROVE  Placed'
  BY Window DEF TypeOK, Stay, Placed

LEMMA RefuseTyped ==
  ASSUME TypeOK, Refuse
  PROVE  Placed'
  BY DEF TypeOK, Refuse, Placed

LEMMA TickTyped ==
  ASSUME TypeOK, Tick
  PROVE  TypeOK'
<1>1. Placed'
  <2>1. quiet' = IF quiet + 1 <= Max({StableFor, CollectFor}) THEN quiet + 1
                 ELSE Max({StableFor, CollectFor})
    <3>1. quiet + 1 \in Int /\ Max({StableFor, CollectFor}) \in Int
      BY Window DEF TypeOK
    <3> QED BY <3>1, MinIs DEF Tick
  <2>2. left' = IF left >= 1 THEN left - 1 ELSE 0
    <3>1. left' = Max({0, left - 1})
      BY DEF Tick
    <3>2. left \in Nat
      BY Numbers DEF TypeOK
    <3> QED BY <3>1, <3>2, DownIs
  <2>3. quiet' \in 0 .. Max({StableFor, CollectFor})
    BY <2>1, Window DEF TypeOK
  <2>4. left' \in 0 .. Timeout
    BY <2>2, Numbers DEF TypeOK
  <2>5. UNCHANGED <<program, pc, result>>
    BY DEF Tick
  <2> QED BY <2>3, <2>4, <2>5 DEF TypeOK, Placed
<1>2. Learned'
  <2>1. age' = IF age + 1 <= MaxDelay + 1 THEN age + 1 ELSE MaxDelay + 1
    <3>1. age' = Min({age + 1, MaxDelay + 1})
      BY DEF Tick
    <3>2. age + 1 \in Int /\ MaxDelay + 1 \in Int
      BY Numbers DEF TypeOK
    <3> QED BY <3>1, <3>2, MinIs
  <2> QED BY <2>1, Numbers DEF TypeOK, Tick, Learned, Clock, ResetFlags
<1>3. Simulated'
  <2>1. coasting' = IF coasting >= 1 THEN coasting - 1 ELSE 0
    <3>1. coasting' = Max({0, coasting - 1})
      BY DEF Tick
    <3>2. coasting \in Nat
      BY Numbers DEF TypeOK
    <3> QED BY <3>1, <3>2, DownIs
  <2>2. PICK d \in IF Running THEN {1} ELSE IF todo > 0 THEN 1 .. todo ELSE {0} :
          /\ clock + d <= MaxClock /\ clock' = clock + d
          /\ todo' = IF Running THEN todo ELSE todo - d
    BY DEF Tick
  <2>3. clock' \in Clock /\ todo' \in 0 .. Steps + 1
    BY <2>2, Numbers DEF TypeOK, Clock
  <2>4. past' \in [1 .. MaxDelay -> Clock]
    BY Numbers DEF TypeOK, Tick, Clock
  <2>5. {state', wanted'} \subseteq {"playing", "paused"}
    BY DEF TypeOK, Tick
  <2>6. UNCHANGED <<fault, entity, before, stale>>
    BY DEF Tick, history
  <2>7. coasting' \in 0 .. Latency
    BY <2>1, Numbers DEF TypeOK
  <2> QED BY <2>3, <2>4, <2>5, <2>6, <2>7 DEF TypeOK, Simulated
<1> QED BY <1>1, <1>2, <1>3, TypeParts DEF TypeOK, Placed, Learned, Simulated

\* The client's calls.
LEMMA ClientPlaced ==
  ASSUME TypeOK, Client
  PROVE  Placed'
<1> USE Onward, StayTyped, RefuseTyped
<1>1. CASE SpinInCall BY <1>1 DEF SpinInCall, Placed, TypeOK
<1>2. CASE TimesOut BY <1>2 DEF TimesOut
<1>3. CASE Refused BY <1>3 DEF Refused
<1>4. CASE Features BY <1>4 DEF Features
<1>5. CASE SetState BY <1>5 DEF SetState
<1>6. CASE WaitForState BY <1>6 DEF WaitForState
<1>7. CASE WaitForClockAfter BY <1>7 DEF WaitForClockAfter
<1>8. CASE WaitForQuiescentClock BY <1>8 DEF WaitForQuiescentClock
<1>9. CASE Step BY <1>9 DEF Step
<1>10. CASE WaitForClockAtLeast BY <1>10 DEF WaitForClockAtLeast
<1>11. CASE Exact BY <1>11 DEF Exact
<1>12. CASE IsPaused BY <1>12 DEF IsPaused
<1>13. CASE Again
  <2>1. program = "step"
    BY <1>13, Where DEF Again, TypeOK, CallsStand
  <2>2. pc' = 4 /\ left' = Timeout /\ quiet' = 0 /\ UNCHANGED <<program, result>>
    BY <1>13 DEF Again
  <2>3. Len(Script[program]) = 8
    BY <2>1, StepCalls
  <2>4. pc' \in 1 .. Len(Script[program])'
    BY <2>2, <2>3
  <2>5. quiet' \in 0 .. Max({StableFor, CollectFor}) /\ left' \in 0 .. Timeout
    BY <2>2, Window, Numbers
  <2> QED BY <2>2, <2>4, <2>5 DEF Placed, TypeOK
<1>14. CASE Spawn BY <1>14 DEF Spawn
<1>15. CASE Spawned BY <1>15 DEF Spawned
<1>16. CASE Move BY <1>16 DEF Move
<1>17. CASE PartialReset BY <1>17 DEF PartialReset
<1>18. CASE Unchanged BY <1>18 DEF Unchanged
<1>19. CASE ResetAll BY <1>19 DEF ResetAll
<1>20. CASE Collect BY <1>20 DEF Collect
<1>21. CASE ReadBack BY <1>21 DEF ReadBack
<1>22. CASE End
  <2>1. result' \in {"passed", "failed"} /\ UNCHANGED <<program, pc, quiet, left>>
    BY <1>22 DEF End
  <2> QED BY <2>1 DEF Placed, TypeOK
<1> QED BY <1>1, <1>2, <1>3, <1>4, <1>5, <1>6, <1>7, <1>8, <1>9, <1>10, <1>11, <1>12, <1>13,
           <1>14, <1>15, <1>16, <1>17, <1>18, <1>19, <1>20, <1>21, <1>22 DEF Client

LEMMA ClientLearned ==
  ASSUME TypeOK, Client
  PROVE  Learned'
<1>0. Learned /\ clock \in Clock
  BY DEF TypeOK, Learned
<1>1. \A v \in Heard : Hears(v) => Learns /\ view' = v
  BY HearsIs
<1>2. Learns => view' \in Clock \union {None} /\ age' \in 0 .. MaxDelay + 1
  BY HearingTyped
<1>3. CASE SpinInCall BY <1>0, <1>1, <1>2, <1>3 DEF SpinInCall, Learned
<1>4. CASE WaitForClockAfter BY <1>0, <1>1, <1>2, <1>4 DEF WaitForClockAfter, Learned
<1>5. CASE WaitForQuiescentClock BY <1>0, <1>1, <1>2, <1>5 DEF WaitForQuiescentClock, Learned
<1>6. CASE WaitForClockAtLeast BY <1>0, <1>1, <1>2, <1>6 DEF WaitForClockAtLeast, Learned
<1>7. CASE Collect BY <1>0, <1>1, <1>2, <1>7 DEF Collect, Learned
<1>8. CASE Features BY <1>0, <1>8 DEF Features, Learned
<1>9. CASE Exact BY <1>0, <1>9 DEF Exact, Learned
<1>10. CASE Unchanged BY <1>0, <1>10 DEF Unchanged, Learned, ResetFlags
<1>11. CASE ResetAll BY <1>0, <1>11 DEF ResetAll, Learned, ResetFlags
<1>12. CASE ReadBack BY <1>0, <1>12 DEF ReadBack, Learned, ResetFlags
<1>13. CASE \/ TimesOut \/ Refused \/ SetState \/ WaitForState \/ Step \/ IsPaused \/ Again
            \/ Spawn \/ Spawned \/ Move \/ PartialReset \/ End
  BY <1>0, <1>13 DEF TimesOut, Refused, SetState, WaitForState, Step, IsPaused, Again,
                     Spawn, Spawned, Move, PartialReset, End, Learned
<1> QED BY <1>3, <1>4, <1>5, <1>6, <1>7, <1>8, <1>9, <1>10, <1>11, <1>12, <1>13 DEF Client

LEMMA ClientSimulated ==
  ASSUME TypeOK, Client
  PROVE  Simulated'
<1>0. Simulated /\ 0 \in Clock
  BY Numbers DEF TypeOK, Simulated, Clock
<1>1. CASE \/ SpinInCall \/ TimesOut \/ Refused \/ Features \/ WaitForState \/ WaitForClockAfter
           \/ WaitForClockAtLeast \/ Exact \/ IsPaused \/ Again \/ Spawned
           \/ Unchanged \/ Collect \/ ReadBack \/ End
  <2>1. UNCHANGED simulator /\ UNCHANGED <<before, stale>>
    BY <1>1 DEF history, SpinInCall, TimesOut, Refused, Features, WaitForState,
                WaitForClockAfter, WaitForClockAtLeast, Exact, IsPaused, Again, Spawned,
                Unchanged, Collect, ReadBack, End
  <2> QED BY <1>0, <2>1 DEF simulator, Simulated
<1>2. CASE SetState BY <1>0, <1>2 DEF SetState, Simulated, history
<1>3. CASE Step
  <2>1. UNCHANGED <<fault, wanted, state, coasting, clock, past, entity>> /\ before' = clock
        /\ stale' = stale
    BY <1>3 DEF Step
  <2>2. todo' \in 0 .. Steps + 1
    BY <1>3, Numbers DEF Step
  <2> QED BY <1>0, <2>1, <2>2 DEF Simulated
<1>4. CASE Spawn \/ Move BY <1>0, <1>4 DEF Spawn, Move, Simulated, history
<1>5. CASE PartialReset BY <1>0, <1>5 DEF PartialReset, Simulated, history
<1>6. CASE ResetAll BY <1>0, <1>6 DEF ResetAll, Simulated, history
<1>7. CASE WaitForQuiescentClock
  <2>1. UNCHANGED simulator /\ before' = before /\ stale' \in BOOLEAN
    <3>1. stale' = (stale \/ (pc' # pc /\ age' >= StableFor))
      BY <1>7 DEF WaitForQuiescentClock, Settled
    <3> QED BY <1>7, <3>1 DEF WaitForQuiescentClock
  <2> QED BY <1>0, <2>1 DEF simulator, Simulated
<1> QED BY <1>1, <1>2, <1>3, <1>4, <1>5, <1>6, <1>7 DEF Client

LEMMA NextTyped == TypeOK /\ [Next]_vars => TypeOK'
<1> SUFFICES ASSUME TypeOK, [Next]_vars PROVE TypeOK'
  OBVIOUS
<1>0. TypeOK' <=> Placed' /\ Learned' /\ Simulated'
  BY DEF TypeOK, Placed, Learned, Simulated
<1>1. CASE Client BY <1>0, <1>1, ClientPlaced, ClientLearned, ClientSimulated
<1>2. CASE Tick BY <1>2, TickTyped
<1>3. CASE TakeState \/ Meddle
  <2>1. coasting' \in 0 .. Latency
    BY <1>3, Numbers DEF TakeState, Meddle
  <2> QED BY <1>0, <1>3, <2>1 DEF TakeState, Meddle, client, history, TypeOK, Placed, Learned, Simulated
<1>4. CASE UNCHANGED vars
  BY <1>0, <1>4 DEF vars, client, simulator, history, TypeOK, Placed, Learned, Simulated
<1> QED BY <1>1, <1>2, <1>3, <1>4 DEF Next

\* The client's readings, its place and the simulator's clock stay in their
\* ranges, whatever the simulator does.
THEOREM TypeCorrect == Spec => []TypeOK
  BY InitTyped, NextTyped, PTL DEF Spec

-----------------------------------------------------------------------------
(* What a call of the client comes to, and where. *)

In(p, places) == program = p /\ pc \in places

\* where a clock is watched whose standing matters
Watching == In("verify", {7, 10}) \/ In("step", {3}) \/ In("reset", {9, 11, 13})

Goes == pc' = pc + 1 /\ quiet' = 0 /\ UNCHANGED <<program, result>>
Rests == UNCHANGED <<program, pc, result>>
Untouched == UNCHANGED <<epoch, flags, fault, wanted, state, coasting, clock, past, todo, entity,
                         before>>

Spins == /\ ~Watching /\ ~In("verify", {11}) /\ ~In("step", {7}) /\ ~In("reset", {15, 17})
         /\ Rests /\ Learns /\ mark' = mark /\ Untouched
         /\ In("reset", {14}) => cursor' = cursor

Stops == /\ result' = "failed"
         /\ UNCHANGED <<program, pc, view, age, mark, epoch, flags, quiet, fault, wanted, state,
                        coasting, clock, past, todo, before>>
         /\ program = "reset" /\ pc >= 11 => UNCHANGED <<cursor, entity>>
         /\ \/ left' = 0 \/ fault # "none" \/ program = "reset"
            \/ (In("verify", {11}) \/ In("step", {7})) /\ view # mark + Steps
            \/ In("verify", {12}) /\ state # "paused"

Passes == /\ \/ In("verify", {1, 3, 4, 6, 12, 14, 15}) \/ In("step", {2, 6})
             \/ In("reset", {1, 3, 4, 6, 8, 14, 20, 21})
          /\ Goes /\ Learns /\ Untouched
          /\ mark' = mark \/ In("reset", {21})
          /\ In("reset", {14}) => cursor' = cursor
          /\ In("verify", {1}) => fault # "featureless"
          /\ In("verify", {6}) \/ In("step", {2, 6}) \/ In("reset", {8}) => state = "paused"

Watches == /\ Watching /\ Rests /\ Learns /\ UNCHANGED <<cursor, mark>> /\ Untouched
           /\ \/ view' # view /\ quiet' = 0
              \/ view' = view /\ quiet' = quiet

Settles == /\ Watching /\ quiet >= StableFor
           /\ Goes /\ Learns /\ view' = view /\ Untouched
           /\ ~stale' => Hearing /\ age' < StableFor
           /\ IF In("verify", {10}) \/ In("reset", {13})
              THEN cursor' = view /\ mark' = mark
              ELSE mark' = view

Requests == /\ Goes
            /\ UNCHANGED <<view, age, cursor, mark, epoch, flags, fault, state, coasting, clock,
                           past, todo, entity, before>>
            /\ \/ (In("verify", {2, 13}) \/ In("reset", {2})) /\ wanted' = "playing"
               \/ /\ In("verify", {5}) \/ In("step", {1}) \/ In("reset", {7, 19})
                  /\ wanted' = "paused"

Asked == Steps + (CASE fault = "short" -> -1 [] fault = "long" -> 1 [] OTHER -> 0)
Asks == /\ In("verify", {8}) \/ In("step", {4})
        /\ Goes /\ todo' = Asked /\ before' = clock
        /\ UNCHANGED <<view, age, cursor, mark, epoch, flags, fault, wanted, state, coasting,
                       clock, past, entity>>

Reaches == /\ In("verify", {9}) \/ In("step", {5})
           /\ Goes /\ Learns /\ view' >= mark + Steps /\ mark' = mark /\ Untouched

Measures == /\ In("verify", {11}) \/ In("step", {7})
            /\ Goes /\ view = mark + Steps /\ mark' = view /\ UNCHANGED <<view, age>> /\ Untouched

Loops == /\ In("step", {8}) /\ pc' = 4 /\ quiet' = 0
         /\ UNCHANGED <<program, result, view, age, mark>> /\ Untouched

Shapes == /\ In("reset", {5, 10}) /\ Goes
          /\ UNCHANGED <<view, age, cursor, mark, epoch, flags, fault, wanted, state, coasting,
                         clock, past, todo, before>>
          /\ In("reset", {10}) => entity' = "moved"

Rewinds == /\ In("reset", {12}) /\ Goes
           /\ clock' = IF fault = "partial" THEN 0 ELSE clock
           /\ UNCHANGED <<view, age, cursor, mark, epoch, flags, fault, wanted, state, coasting,
                          past, todo, entity, before>>

Compares == /\ In("reset", {15}) /\ Goes /\ cursor = mark
            /\ flags' = flags \union {"unsupportedPartialEffectAbsent"}
            /\ UNCHANGED <<view, age, cursor, mark, epoch, fault, wanted, state, coasting, clock,
                           past, todo, entity, before>>

Resets == /\ In("reset", {16}) /\ Goes
          /\ flags' = flags \union (IF fault = "refused_reset" THEN {} ELSE {"resetResultOk"})
          /\ clock' = IF fault \in {"idle_reset", "refused_reset"} THEN clock ELSE 0
          /\ entity' = IF fault \in {"kept_model", "refused_reset"} THEN entity ELSE "absent"
          /\ UNCHANGED <<view, age, cursor, mark, epoch, fault, coasting, past, todo, before>>

Collects == /\ In("reset", {17}) /\ pc' \in {17, 18} /\ Learns
            /\ epoch' \in {epoch, epoch \/ view' < mark}
            /\ UNCHANGED <<program, result, cursor, mark, flags, fault, wanted, state, coasting,
                           clock, past, todo, entity, before>>

Reads == /\ In("reset", {18}) /\ Goes
         /\ flags' = flags \union (IF epoch THEN {"resetClockEpochObserved"} ELSE {})
                          \union (IF entity = "absent" THEN {"spawnedModelDespawned"} ELSE {})
         /\ UNCHANGED <<view, age, cursor, mark, epoch, fault, wanted, state, coasting, clock,
                        past, todo, entity, before>>

Ends == /\ In("verify", {16}) \/ In("reset", {22})
        /\ \/ result' = "passed" /\ (program = "reset" => flags = ResetFlags)
           \/ result' = "failed" /\ program = "reset"
        /\ UNCHANGED <<program, pc, left, quiet, view, age, cursor, mark>> /\ Untouched

Effect == \/ Spins \/ Stops \/ Passes \/ Watches \/ Settles \/ Requests \/ Asks \/ Reaches
          \/ Measures \/ Loops \/ Shapes \/ Rewinds \/ Compares \/ Resets \/ Collects \/ Reads
          \/ Ends

\* A call answered by a service is none of the waits, nor one of the checks.
LEMMA ServicesStand ==
  ASSUME NEW call \in Services, At(call)
  PROVE  /\ ~Watching /\ ~In("verify", {11}) /\ ~In("step", {7}) /\ ~In("reset", {15, 17})
<1>1. call = Script[program][pc]
  BY DEF At
<1>2. ~In("verify", {7, 10, 11})
  BY <1>1, VerifyCalls DEF In, Services
<1>3. ~In("step", {3, 7})
  BY <1>1, StepCalls DEF In, Services
<1>4. ~In("reset", {9, 11, 13})
  BY <1>1, ResetCalls DEF In, Services
<1>5. ~In("reset", {15, 17})
  BY <1>1, ResetCalls DEF In, Services
<1> QED BY <1>2, <1>3, <1>4, <1>5 DEF Watching, In

LEMMA ClientIs ==
  ASSUME TypeOK, Client
  PROVE  Effect /\ result = "none"
<1>0. CallsStand /\ \A v \in Heard : Hears(v) => Learns /\ view' = v /\ (age' < StableFor => Hearing)
  BY Where, HearsIs DEF TypeOK
<1>1. CASE SpinInCall
  <2>1. Spins
    BY <1>0, <1>1, ServicesStand DEF SpinInCall, Spins, Rests, Untouched, history, simulator
  <2> QED BY <1>1, <2>1 DEF SpinInCall, At, Effect
<1>2. CASE TimesOut \/ Refused
  <2>1. Stops
    BY <1>0, <1>2 DEF TimesOut, Refused, Refuse, Stops, simulator, history
  <2> QED BY <1>2, <2>1 DEF TimesOut, Refused, At, Effect
<1>3. CASE Features
  <2>0. In("verify", {1}) \/ In("reset", {1})
    BY <1>0, <1>3 DEF Features, CallsStand, In
  <2>1. Passes \/ Stops
    BY <1>3, <2>0 DEF Features, Refuse, Proceed, Stops, Passes, Goes, Learns, Untouched, history, simulator, In
  <2> QED BY <1>3, <2>1 DEF Features, At, Effect
<1>4. CASE SetState
  <2>1. Requests
    BY <1>0, <1>4 DEF SetState, Proceed, Requests, Goes, CallsStand, In, history
  <2> QED BY <1>4, <2>1 DEF SetState, At, Effect
<1>5. CASE WaitForState
  <2>0. \/ In("verify", {3, 15}) \/ In("reset", {3})
        \/ (In("verify", {6}) \/ In("step", {2, 6}) \/ In("reset", {8, 20})) /\ state = "paused"
    BY <1>0, <1>5 DEF WaitForState, CallsStand, In
  <2>1. Passes
    BY <1>5, <2>0 DEF WaitForState, Proceed, Passes, Goes, Learns, Untouched, history, simulator, In
  <2> QED BY <1>5, <2>1 DEF WaitForState, At, Effect
<1>6. CASE WaitForClockAfter
  <2>0. In("verify", {4, 14}) \/ In("reset", {4})
    BY <1>0, <1>6 DEF WaitForClockAfter, CallsStand, In
  <2>1. Learns /\ mark' = mark /\ Untouched /\ (Goes \/ Rests)
    BY <1>0, <1>6 DEF WaitForClockAfter, Proceed, Stay, Rests, Goes, Untouched, history, simulator
  <2>2. Goes => Passes
    BY <2>0, <2>1 DEF Passes, In
  <2>3. Rests => Spins
    BY <2>0, <2>1 DEF Spins, In, Watching
  <2> QED BY <1>6, <2>1, <2>2, <2>3 DEF WaitForClockAfter, At, Effect
<1>7. CASE WaitForQuiescentClock
  <2>0. \/ At("still") /\ (In("verify", {10}) \/ In("reset", {13}))
        \/ At("quiescent") /\ (In("verify", {7}) \/ In("step", {3}) \/ In("reset", {9, 11, 21}))
    BY <1>0, <1>7 DEF WaitForQuiescentClock, CallsStand, In
  <2>1. Learns /\ Untouched /\ (age' < StableFor => Hearing)
        /\ stale' = (stale \/ (pc' # pc /\ age' >= StableFor))
    BY <1>0, <1>7 DEF WaitForQuiescentClock, Settled, Untouched, history, simulator
  <2>2. \/ Rests /\ view' # view /\ quiet' = 0
        \/ Rests /\ view' = view /\ quiet' = quiet
        \/ Goes /\ view' = view /\ quiet >= StableFor
    BY <1>0, <1>7 DEF WaitForQuiescentClock, Proceed, Stay, Rests, Goes
  <2>3. CASE Rests
    <3>1. mark' = mark /\ cursor' = cursor
      BY <1>7, <2>3 DEF WaitForQuiescentClock, Rests
    <3>2. ~Goes
      BY <2>3 DEF Goes, Rests, TypeOK
    <3>3. Watching => Watches
      BY <2>1, <2>2, <2>3, <3>1, <3>2 DEF Watches
    <3>4. ~Watching => Spins
      BY <2>0, <2>1, <2>3, <3>1 DEF Spins, Watching, In
    <3> QED BY <2>0, <3>3, <3>4 DEF Effect, At
  <2>4. CASE Goes /\ view' = view /\ quiet >= StableFor
    <3>1. pc' # pc
      BY <2>4 DEF Goes, TypeOK
    <3>0. ~stale' => Hearing /\ age' < StableFor
      <4>1. age' \in Int /\ StableFor \in Int
        BY <2>1, HearingTyped, Numbers
      <4>2. ~stale' => ~(age' >= StableFor)
        BY <2>1, <3>1
      <4> QED BY <2>1, <4>1, <4>2
    <3>2. CASE At("still") /\ (In("verify", {10}) \/ In("reset", {13}))
      <4>1. ~At("quiescent")
        BY <3>2 DEF At
      <4>2. cursor' = view /\ mark' = mark
        BY <1>7, <2>4, <3>1, <3>2, <4>1 DEF WaitForQuiescentClock
      <4>3. Watching
        BY <3>2 DEF Watching, In
      <4> QED BY <2>1, <2>4, <3>0, <3>2, <4>2, <4>3 DEF Settles, Effect, At
    <3>3. CASE At("quiescent") /\ (In("verify", {7}) \/ In("step", {3}) \/ In("reset", {9, 11, 21}))
      <4>1. mark' = view
        BY <1>7, <2>4, <3>1, <3>3 DEF WaitForQuiescentClock
      <4>2. In("reset", {21}) => Passes
        BY <2>1, <2>4 DEF Passes, In
      <4>3. ~In("reset", {21}) => Settles
        BY <2>1, <2>4, <3>0, <3>3, <4>1 DEF Settles, Watching, In
      <4> QED BY <3>3, <4>2, <4>3 DEF Effect, At
    <3> QED BY <2>0, <3>2, <3>3
  <2> QED BY <2>2, <2>3, <2>4
<1>8. CASE Step
  <2>1. Asks
    BY <1>0, <1>8 DEF Step, Proceed, Asks, Asked, Goes, CallsStand, In
  <2> QED BY <1>8, <2>1 DEF Step, At, Effect
<1>9. CASE WaitForClockAtLeast
  <2>0. In("verify", {9}) \/ In("step", {5})
    BY <1>0, <1>9 DEF WaitForClockAtLeast, CallsStand, In
  <2>1. \/ Goes /\ view' >= mark + Steps
        \/ Rests
    BY <1>0, <1>9 DEF WaitForClockAtLeast, Proceed, Stay, Rests, Goes
  <2>2. Learns /\ mark' = mark /\ Untouched
    BY <1>0, <1>9 DEF WaitForClockAtLeast, Untouched, history, simulator
  <2>3. Reaches \/ Spins
    BY <2>0, <2>1, <2>2 DEF Reaches, Spins, In, Watching
  <2> QED BY <1>9, <2>3 DEF WaitForClockAtLeast, At, Effect
<1>10. CASE Exact
  <2>1. Measures \/ Stops
    BY <1>0, <1>10 DEF Exact, Proceed, Refuse, Measures, Stops, Goes, Untouched, history, simulator, CallsStand, In
  <2> QED BY <1>10, <2>1 DEF Exact, At, Effect
<1>11. CASE IsPaused
  <2>0. In("verify", {12}) \/ In("reset", {14})
    BY <1>0, <1>11 DEF IsPaused, CallsStand, In
  <2>1. CASE state = "paused"
    <3>0. Proceed /\ UNCHANGED <<view, age, cursor, mark>> /\ Untouched
      BY <1>11, <2>1 DEF IsPaused, Untouched, history, simulator
    <3>1. Passes
      BY <2>0, <2>1, <3>0 DEF Proceed, Passes, Goes, Learns, Untouched, history, simulator, In
    <3> QED BY <1>11, <3>1 DEF IsPaused, At, Effect
  <2>2. CASE state # "paused"
    <3>1. Stops
      BY <1>11, <2>0, <2>2 DEF IsPaused, Refuse, Stops, simulator, In, history
    <3> QED BY <1>11, <3>1 DEF IsPaused, At, Effect
  <2> QED BY <2>1, <2>2
<1>12. CASE Again
  <2>1. Loops
    BY <1>0, <1>12 DEF Again, Loops, Untouched, history, simulator, CallsStand, In
  <2> QED BY <1>12, <2>1 DEF Again, At, Effect
<1>13. CASE Spawn
  <2>0. In("reset", {5})
    BY <1>0, <1>13 DEF Spawn, CallsStand, In
  <2>1. Shapes \/ Stops
    BY <1>13, <2>0 DEF Spawn, Proceed, Refuse, Shapes, Stops, Goes, In, history
  <2> QED BY <1>13, <2>1 DEF Spawn, At, Effect
<1>14. CASE Spawned
  <2>0. In("reset", {6})
    BY <1>0, <1>14 DEF Spawned, CallsStand, In
  <2>1. Passes
    BY <1>14, <2>0 DEF Spawned, Proceed, Passes, Goes, Learns, Untouched, history, simulator, In
  <2> QED BY <1>14, <2>1 DEF Spawned, At, Effect
<1>15. CASE Move
  <2>1. Shapes
    BY <1>0, <1>15 DEF Move, Proceed, Shapes, Goes, CallsStand, In, history
  <2> QED BY <1>15, <2>1 DEF Move, At, Effect
<1>16. CASE PartialReset
  <2>1. Rewinds
    BY <1>0, <1>16 DEF PartialReset, Proceed, Rewinds, Goes, CallsStand, In, history
  <2> QED BY <1>16, <2>1 DEF PartialReset, At, Effect
<1>17. CASE Unchanged
  <2>1. Compares \/ Stops
    BY <1>0, <1>17 DEF Unchanged, Proceed, Refuse, Compares, Stops, Goes, simulator, history, CallsStand, In
  <2> QED BY <1>17, <2>1 DEF Unchanged, At, Effect
<1>18. CASE ResetAll
  <2>1. Resets
    BY <1>0, <1>18 DEF ResetAll, Proceed, Resets, Goes, CallsStand, In, history
  <2> QED BY <1>18, <2>1 DEF ResetAll, At, Effect
<1>19. CASE Collect
  <2>0. In("reset", {17})
    BY <1>0, <1>19 DEF Collect, CallsStand, In
  <2>1. Collects
    BY <1>0, <1>19, <2>0 DEF Collect, Proceed, Stay, Collects, simulator, In, history
  <2> QED BY <1>19, <2>1 DEF Collect, At, Effect
<1>20. CASE ReadBack
  <2>1. Reads
    BY <1>0, <1>20 DEF ReadBack, Proceed, Reads, Goes, simulator, CallsStand, In, history
  <2> QED BY <1>20, <2>1 DEF ReadBack, At, Effect
<1>21. CASE End
  <2>1. Ends
    BY <1>0, <1>21 DEF End, Ends, Untouched, history, simulator, CallsStand, In
  <2> QED BY <1>21, <2>1 DEF End, At, Effect
<1> QED BY <1>1, <1>2, <1>3, <1>4, <1>5, <1>6, <1>7, <1>8, <1>9, <1>10, <1>11, <1>12, <1>13,
           <1>14, <1>15, <1>16, <1>17, <1>18, <1>19, <1>20, <1>21 DEF Client

-----------------------------------------------------------------------------
(* The clock and what is heard of it. *)

\* The clock has been set back, on purpose or against the interface.
Rewound ==
  program = "reset" /\ \/ fault = "partial" /\ pc >= 13
                       \/ fault \notin {"idle_reset", "refused_reset"} /\ pc >= 17

\* The clock only grows, and nothing heard is newer than what may be heard.
MonoInv ==
  ~Rewound =>
    /\ \A a \in Ages : Sample(a) >= 1
    /\ \A a, b \in Ages : a <= b => Sample(b) <= Sample(a)
    /\ \A a \in Ages : a <= age => view <= Sample(a)

\* A tick, in terms of the ages of samples.
Shifts == \A a \in Ages : Sample(a)' = IF a = 0 THEN clock' ELSE Sample(a - 1)

LEMMA Readings ==
  ASSUME TypeOK
  PROVE  /\ \A a \in Ages : Sample(a) \in Nat
         /\ 0 \in Ages /\ Sample(0) = clock
         /\ clock \in Nat /\ todo \in Nat /\ age \in Nat /\ quiet \in Nat /\ coasting \in Nat
         /\ view \in Int /\ mark \in Int /\ cursor \in Int /\ before \in Nat
         /\ view >= -1 /\ mark >= -1 /\ pc \in Int
<1>1. \A a \in Ages : Sample(a) \in Nat
  BY Numbers DEF TypeOK, Ages, Sample, Clock
<1>2. pc \in Int
  BY Numbers DEF TypeOK
<1> QED BY <1>1, <1>2, Numbers DEF TypeOK, Ages, Sample, Clock, None

LEMMA TickIs ==
  ASSUME TypeOK, Tick
  PROVE  /\ UNCHANGED <<program, pc, view, cursor, mark, epoch, flags, result, fault, entity, before, stale>>
         /\ Shifts
         /\ Running => clock' = clock + 1 /\ todo' = todo
         /\ ~Running => /\ clock' + todo' = clock + todo /\ clock' >= clock
                        /\ todo > 0 => clock' > clock
         /\ age' \in {age + 1, MaxDelay + 1} /\ age' <= age + 1
         /\ quiet' <= quiet + 1
         /\ coasting = 0 => coasting' = 0
         /\ IF fault = "resumes" /\ todo > 0 /\ todo' = 0
            THEN state' = "playing" /\ wanted' = "playing"
            ELSE UNCHANGED <<state, wanted>>
         /\ clock' \in Nat /\ todo' \in Nat /\ age' \in Nat /\ quiet' \in Nat /\ coasting' \in Nat
<1>0. clock' \in Nat /\ todo' \in Nat /\ age' \in Nat /\ quiet' \in Nat /\ coasting' \in Nat
  BY TickTyped, Numbers, Window DEF TypeOK, Clock
<1>1. Shifts
  BY Numbers DEF Tick, Shifts, Ages, Sample, TypeOK
<1>2. PICK d \in IF Running THEN {1} ELSE IF todo > 0 THEN 1 .. todo ELSE {0} :
        /\ clock + d <= MaxClock /\ clock' = clock + d
        /\ todo' = IF Running THEN todo ELSE todo - d
  BY DEF Tick
<1>3. /\ Running => clock' = clock + 1 /\ todo' = todo
      /\ ~Running => /\ clock' + todo' = clock + todo /\ clock' >= clock
                     /\ todo > 0 => clock' > clock
  BY <1>2, Readings
<1>4. age' = IF age + 1 <= MaxDelay + 1 THEN age + 1 ELSE MaxDelay + 1
  <2>1. age + 1 \in Int /\ MaxDelay + 1 \in Int
    BY Numbers, Readings
  <2>2. age' = Min({age + 1, MaxDelay + 1})
    BY DEF Tick
  <2> QED BY <2>1, <2>2, MinIs
<1>5. quiet' <= quiet + 1
  <2>1. Max({StableFor, CollectFor}) \in Int
    BY Window
  <2>2. quiet' = Min({quiet + 1, Max({StableFor, CollectFor})})
    BY DEF Tick
  <2>3. PICK b \in Int : quiet' = Min({quiet + 1, b})
    BY <2>1, <2>2
  <2>4. quiet + 1 \in Int
    BY Readings
  <2> QED BY <2>3, <2>4, MinBelow
<1>6. coasting = 0 => coasting' = 0
  <2>1. coasting' = IF coasting >= 1 THEN coasting - 1 ELSE 0
    <3>1. coasting' = Max({0, coasting - 1})
      BY DEF Tick
    <3>2. coasting \in Nat
      BY Numbers DEF TypeOK
    <3> QED BY <3>1, <3>2, DownIs
  <2> QED BY <2>1
<1>7. age' \in {age + 1, MaxDelay + 1} /\ age' <= age + 1
  BY <1>4, Numbers, Readings
<1> QED BY <1>0, <1>1, <1>3, <1>5, <1>6, <1>7 DEF Tick, history

\* The client never sets the clock, but by a reset.
LEMMA ClientHears ==
  ASSUME TypeOK, Effect
  PROVE  /\ UNCHANGED <<program, fault, past>>
         /\ program = "reset" => pc' \in {pc, pc + 1}
         /\ Learns
         /\ clock' = clock \/ Rewound'
<1> USE DEF Effect, Rests, Goes, Untouched, Learns
<1>1. CASE Spins BY <1>1 DEF Spins
<1>2. CASE Stops BY <1>2 DEF Stops
<1>3. CASE Passes BY <1>3 DEF Passes
<1>4. CASE Watches BY <1>4 DEF Watches
<1>5. CASE Settles BY <1>5 DEF Settles
<1>6. CASE Requests BY <1>6 DEF Requests
<1>7. CASE Asks BY <1>7 DEF Asks
<1>8. CASE Reaches BY <1>8 DEF Reaches
<1>9. CASE Measures BY <1>9 DEF Measures
<1>10. CASE Loops BY <1>10 DEF Loops, In
<1>11. CASE Shapes BY <1>11 DEF Shapes
<1>12. CASE Rewinds BY <1>12, Readings DEF Rewinds, Rewound, In
<1>13. CASE Compares BY <1>13 DEF Compares
<1>14. CASE Resets
  <2>1. program' = "reset" /\ pc' = 17 /\ fault' = fault
    BY <1>14 DEF Resets, In
  <2>2. clock' = clock \/ fault \notin {"idle_reset", "refused_reset"}
    BY <1>14 DEF Resets
  <2>3. clock' = clock \/ Rewound'
    BY <2>1, <2>2 DEF Rewound
  <2> QED BY <1>14, <2>1, <2>3 DEF Resets, In
<1>15. CASE Collects BY <1>15 DEF Collects, In
<1>16. CASE Reads BY <1>16 DEF Reads
<1>17. CASE Ends BY <1>17 DEF Ends
<1> QED BY <1>1, <1>2, <1>3, <1>4, <1>5, <1>6, <1>7, <1>8, <1>9, <1>10, <1>11, <1>12, <1>13,
           <1>14, <1>15, <1>16, <1>17

\* What the client knows only grows, and is never ahead of the clock.
LEMMA HeardLater ==
  ASSUME TypeOK, MonoInv, ~Rewound
  PROVE  /\ clock >= 1 /\ view <= clock
         /\ Learns => view' \in Int /\ view' >= view /\ view' <= clock
<1>1. view <= clock
  BY Readings DEF MonoInv
<1>2. \A a \in Ages : Sample(a) \in Nat /\ Sample(a) <= clock
  BY Readings DEF MonoInv, Ages
<1> QED BY <1>1, <1>2, Readings DEF MonoInv, Learns, Hearing

LEMMA InitMono == Init => MonoInv
  BY Numbers DEF Init, MonoInv, Ages, Sample, None

LEMMA NextMono == TypeOK /\ MonoInv /\ [Next]_vars => MonoInv'
<1> SUFFICES ASSUME TypeOK, MonoInv, [Next]_vars, ~Rewound' PROVE MonoInv'
  BY DEF MonoInv
<1>1. CASE Client
  <2>1. Effect
    BY <1>1, ClientIs
  <2>2. program' = program /\ fault' = fault /\ (program = "reset" => pc' \in {pc, pc + 1})
    BY <2>1, ClientHears
  <2>3. ~Rewound
    <3>1. pc \in Int
      BY Readings
    <3> QED BY <2>2, <3>1 DEF Rewound
  <2>4. past' = past /\ clock' = clock
    BY <2>1, ClientHears
  <2>5. \A a \in Ages : Sample(a)' = Sample(a)
    BY <2>4 DEF Sample
  <2>6. CASE UNCHANGED <<view, age>>
    BY <2>3, <2>5, <2>6 DEF MonoInv
  <2>7. CASE Hearing
    BY <2>3, <2>5, <2>7 DEF MonoInv, Hearing
  <2> QED BY <2>1, <2>6, <2>7, ClientHears DEF Learns
<1>2. CASE Tick
  <2>1. ~Rewound
    BY <1>2, TickIs DEF Rewound
  <2>2. \A a \in Ages : Sample(a)' = IF a = 0 THEN clock' ELSE Sample(a - 1)
    BY <1>2, TickIs DEF Shifts
  <2>3. /\ clock' >= clock /\ clock' \in Nat /\ view' = view
        /\ age' \in Nat /\ age \in Nat /\ age' <= age + 1
    BY <1>2, TickIs, Readings
  <2>4. \A a \in Ages : a # 0 => a - 1 \in Ages
    BY Numbers DEF Ages
  <2>5. clock \in Nat /\ view \in Int /\ clock >= 1 /\ view <= clock
    BY <2>1, HeardLater, Readings
  <2>6. \A a \in Ages : Sample(a) \in Nat /\ Sample(a) <= clock /\ Sample(a) >= 1
    BY <2>1, Readings DEF MonoInv, Ages
  <2>7. ASSUME NEW a \in Ages
        PROVE  /\ Sample(a)' >= 1
               /\ a <= age' => view' <= Sample(a)'
    <3>1. CASE a = 0
      <4>1. Sample(a)' = clock'
        BY <2>2, <3>1
      <4> QED BY <2>3, <2>5, <4>1
    <3>2. CASE a # 0
      <4>1. Sample(a)' = Sample(a - 1) /\ a - 1 \in Ages
        BY <2>2, <2>4, <3>2
      <4>2. a \in Int /\ (a <= age' => a - 1 <= age)
        BY <2>3 DEF Ages
      <4> QED BY <2>1, <2>3, <4>1, <4>2 DEF MonoInv
    <3> QED BY <3>1, <3>2
  <2>8. ASSUME NEW a \in Ages, NEW b \in Ages, a <= b
        PROVE  Sample(b)' <= Sample(a)'
    <3>0. a \in Nat /\ b \in Nat
      BY Numbers DEF Ages
    <3>1. CASE b = 0
      <4>1. a = 0 /\ Sample(a)' = clock' /\ Sample(b)' = clock'
        BY <2>2, <2>8, <3>0, <3>1
      <4> QED BY <2>3, <4>1
    <3>2. CASE b # 0 /\ a = 0
      <4>1. Sample(a)' = clock' /\ Sample(b)' = Sample(b - 1) /\ b - 1 \in Ages
        BY <2>2, <2>4, <3>2
      <4>2. Sample(b - 1) \in Nat /\ Sample(b - 1) <= clock
        BY <2>6, <4>1
      <4> QED BY <2>3, <2>5, <4>1, <4>2
    <3>3. CASE b # 0 /\ a # 0
      <4>1. /\ Sample(a)' = Sample(a - 1) /\ a - 1 \in Ages
            /\ Sample(b)' = Sample(b - 1) /\ b - 1 \in Ages
        BY <2>2, <2>4, <3>3
      <4>2. a - 1 <= b - 1
        BY <2>8, <3>0
      <4> QED BY <2>1, <4>1, <4>2 DEF MonoInv
    <3> QED BY <3>1, <3>2, <3>3
  <2> QED BY <2>7, <2>8 DEF MonoInv
<1>3. CASE TakeState \/ Meddle
  <2>1. UNCHANGED <<program, pc, fault, clock, past, view, age>>
    BY <1>3 DEF TakeState, Meddle, client
  <2> QED BY <2>1 DEF MonoInv, Rewound, Sample
<1>4. CASE UNCHANGED vars
  BY <1>4 DEF MonoInv, Rewound, Sample, vars, client, simulator, history
<1> QED BY <1>1, <1>2, <1>3, <1>4 DEF Next

-----------------------------------------------------------------------------
(* What the simulator has been asked for. *)

Halted == state = "paused" /\ wanted = "paused"

\* In what state the simulator is asked to be, and when steps are outstanding.
ZoneInv ==
  /\ program = "verify" =>
       /\ pc <= 8 => todo = 0
       /\ pc = 6 => wanted = "paused"
       /\ pc \in 7 .. 8 => Halted
       /\ pc \in 9 .. 12 =>
            Halted \/ (fault = "resumes" /\ state = "playing" /\ wanted = "playing")
  /\ program = "step" =>
       /\ pc <= 3 => todo = 0
       /\ pc = 2 => wanted = "paused"
       /\ pc = 3 \/ (pc \in 4 .. 8 /\ fault = "none") => Halted
  /\ program = "reset" =>
       /\ todo = 0
       /\ pc = 8 => wanted = "paused"
       /\ pc \in 9 .. 16 => Halted

LEMMA InitZone == Init => ZoneInv
  BY DEF Init, ZoneInv, Halted

LEMMA NextZone == TypeOK /\ ZoneInv /\ [Next]_vars => ZoneInv'
<1> SUFFICES ASSUME TypeOK, ZoneInv, [Next]_vars PROVE ZoneInv'
  OBVIOUS
<1>0. pc \in Int /\ todo \in Nat
  BY Readings
<1>1. CASE Client
  <2>0. Effect
    BY <1>1, ClientIs
  <2>1. CASE Spins \/ Stops \/ Watches \/ Collects \/ Ends
    <3>1. UNCHANGED <<program, fault, wanted, state, todo>>
      BY <2>1 DEF Spins, Stops, Watches, Collects, Ends, Rests, Untouched
    <3>2. pc' = pc \/ (In("reset", {17}) /\ pc' = 18)
      BY <2>1 DEF Spins, Stops, Watches, Collects, Ends, Rests, In
    <3> QED BY <1>0, <3>1, <3>2 DEF ZoneInv, Halted, In
  <2>2. CASE Passes
    BY <1>0, <2>2 DEF ZoneInv, Halted, Passes, Goes, Untouched, In
  <2>3. CASE Settles
    BY <1>0, <2>3 DEF ZoneInv, Halted, Settles, Watching, Goes, Untouched, In
  <2>4. CASE Requests
    BY <1>0, <2>4 DEF ZoneInv, Halted, Requests, Goes, In
  <2>5. CASE Asks
    BY <1>0, <2>5 DEF ZoneInv, Halted, Asks, Goes, In
  <2>6. CASE Reaches \/ Measures \/ Loops
    BY <1>0, <2>6 DEF ZoneInv, Halted, Reaches, Measures, Loops, Goes, Untouched, In
  <2>7. CASE Shapes \/ Rewinds \/ Compares \/ Resets \/ Reads
    BY <1>0, <2>7 DEF ZoneInv, Halted, Shapes, Rewinds, Compares, Resets, Reads, Goes, In
  <2> QED BY <2>0, <2>1, <2>2, <2>3, <2>4, <2>5, <2>6, <2>7 DEF Effect
<1>2. CASE Tick
  <2>1. UNCHANGED <<program, pc, fault>> /\ todo' \in Nat /\ todo' <= todo
    BY <1>2, TickIs, Readings
  <2>2. IF fault = "resumes" /\ todo > 0 /\ todo' = 0
        THEN state' = "playing" /\ wanted' = "playing"
        ELSE UNCHANGED <<state, wanted>>
    BY <1>2, TickIs
  <2>3. CASE fault = "resumes" /\ todo > 0 /\ todo' = 0
    <3>1. fault' = "resumes" /\ state' = "playing" /\ wanted' = "playing"
      BY <2>1, <2>2, <2>3
    <3>2. program # "reset" /\ (program = "verify" => pc > 8) /\ (program = "step" => pc > 3)
      BY <1>0, <2>3 DEF ZoneInv
    <3> QED BY <1>0, <2>1, <3>1, <3>2 DEF ZoneInv
  <2>4. CASE ~(fault = "resumes" /\ todo > 0 /\ todo' = 0)
    <3>1. UNCHANGED <<state, wanted>>
      BY <2>2, <2>4
    <3> QED BY <1>0, <2>1, <3>1 DEF ZoneInv, Halted
  <2> QED BY <2>3, <2>4
<1>3. CASE TakeState \/ Meddle
  BY <1>0, <1>3 DEF ZoneInv, Halted, TakeState, Meddle, client
<1>4. CASE UNCHANGED vars
  BY <1>4 DEF ZoneInv, Halted, vars, client, simulator, history
<1> QED BY <1>1, <1>2, <1>3, <1>4 DEF Next

-----------------------------------------------------------------------------
(* Watching a clock. *)

\* Nothing moves the clock by itself.
Still == ~Running /\ todo = 0

\* While a clock is watched that nobody meddles with, a sample is of the clock
\* that stands, or at least as many ticks beyond what is known as the clock
\* had time for.
WatchInv ==
  Watching /\ fault # "meddled" =>
    \A a \in Ages : a <= quiet => \/ Still /\ Sample(a) = clock
                                  \/ Sample(a) >= view + (quiet - a)

\* The same for the steps, even when somebody meddles.
StepWatchInv ==
  program = "verify" /\ fault # "short" =>
    /\ pc \in 9 .. 11 => clock + todo >= before + Steps
    /\ pc = 10 => \A a \in Ages : a <= quiet => \/ Sample(a) >= before + Steps
                                                \/ Sample(a) >= view + (quiet - a)
    /\ pc = 11 => view >= before + Steps

\* What the client knows of a clock that was seen to stand.
Known == Still /\ mark = clock /\ view = clock

\* A partial reset that rewinds a standing clock will be seen.
PartialInv ==
  program = "reset" /\ fault = "partial" =>
    /\ pc <= 15
    /\ pc \in {10, 12} => Known
    /\ pc \in 10 .. 15 => Still
    /\ pc \in 11 .. 15 => mark >= 1
    /\ pc \in 13 .. 15 => clock = 0
    /\ pc \in 14 .. 15 => cursor = 0

LEMMA InitWatch == Init => WatchInv /\ StepWatchInv
  BY DEF Init, WatchInv, StepWatchInv, Watching, In

\* At its start a watch knows nothing.
LEMMA WatchStarts ==
  ASSUME TypeOK, MonoInv, [Next]_vars, quiet' = 0, ~Rewound', NEW a \in Ages, a <= quiet'
  PROVE  Sample(a)' >= view' + (quiet' - a)
<1>0. TypeOK' /\ MonoInv'
  BY NextTyped, NextMono
<1>1. a = 0 /\ Sample(a)' = clock'
  BY Numbers DEF Ages, Sample
<1>2. 0 \in Ages /\ age' \in Nat /\ Sample(0)' = clock'
  BY <1>0, Numbers DEF Ages, Sample, TypeOK
<1>3. view' <= clock'
  BY <1>0, <1>2 DEF MonoInv
<1>4. view' \in Clock \union {None} /\ clock' \in Clock
  BY <1>0 DEF TypeOK
<1>5. view' \in Int /\ clock' \in Int
  BY <1>4, Numbers DEF Clock, None
<1> QED BY <1>1, <1>3, <1>5

\* A clock that nobody meddles with stands still for good once it stands.
LEMMA TickStands ==
  ASSUME TypeOK, Tick, Still
  PROVE  Still' /\ clock' = clock
<1>1. ~Running /\ todo = 0 /\ state # "playing" /\ coasting = 0 /\ fault # "deaf"
  BY Readings DEF Still, Running
<1>2. clock' + todo' = clock + todo /\ clock' >= clock /\ clock' \in Nat /\ todo' \in Nat
  BY <1>1, TickIs
<1>3. clock' = clock /\ todo' = 0
  BY <1>1, <1>2, Readings
<1>4. coasting' = 0 /\ state' = state /\ fault' = fault
  BY <1>1, TickIs
<1> QED BY <1>1, <1>3, <1>4 DEF Still, Running

\* Otherwise it advances with every tick.
LEMMA TickAdvances ==
  ASSUME TypeOK, Tick, ~Still
  PROVE  clock' >= clock + 1
<1>1. CASE Running
  BY <1>1, TickIs, Readings
<1>2. CASE ~Running /\ todo > 0
  BY <1>2, TickIs, Readings
<1> QED BY <1>1, <1>2, Readings DEF Still

LEMMA ShiftIs ==
  ASSUME TypeOK, Tick, NEW a \in Ages, a # 0, a <= quiet'
  PROVE  /\ a - 1 \in Ages /\ Sample(a)' = Sample(a - 1) /\ a - 1 <= quiet
         /\ quiet - (a - 1) >= quiet' - a /\ Sample(a - 1) \in Nat
<1>1. a \in Int /\ a - 1 \in Ages
  BY Numbers DEF Ages
<1>2. Sample(a)' = Sample(a - 1)
  BY TickIs DEF Shifts
<1> QED BY <1>1, <1>2, TickIs, Readings

LEMMA TickWatch ==
  ASSUME TypeOK, WatchInv, Tick
  PROVE  WatchInv'
<1> SUFFICES ASSUME Watching', fault' # "meddled", NEW a \in Ages, a <= quiet'
             PROVE  \/ Still' /\ Sample(a)' = clock'
                    \/ Sample(a)' >= view' + (quiet' - a)
  BY DEF WatchInv
<1>1. Watching /\ fault # "meddled" /\ view' = view /\ quiet' <= quiet + 1 /\ quiet' \in Nat
  BY TickIs DEF Watching, In
<1>2. CASE a = 0
  <2>1. Sample(a)' = clock'
    BY <1>2, TickIs DEF Shifts
  <2>2. CASE Still
    BY <2>1, <2>2, TickStands
  <2>3. CASE ~Still
    <3>1. clock >= view + quiet
      <4>1. Sample(0) = clock /\ 0 \in Ages /\ 0 <= quiet
        BY Readings
      <4> QED BY <1>1, <2>3, <4>1, Readings DEF WatchInv
    <3>2. clock' >= clock + 1 /\ clock' \in Nat
      BY <2>3, TickAdvances, TickIs
    <3> QED BY <1>1, <1>2, <2>1, <3>1, <3>2, Readings
  <2> QED BY <2>2, <2>3
<1>3. CASE a # 0
  <2>1. /\ a - 1 \in Ages /\ Sample(a)' = Sample(a - 1) /\ a - 1 <= quiet
        /\ quiet - (a - 1) >= quiet' - a /\ Sample(a - 1) \in Nat
    BY <1>3, ShiftIs
  <2>2. CASE Still /\ Sample(a - 1) = clock
    BY <2>1, <2>2, TickStands
  <2>3. CASE Sample(a - 1) >= view + (quiet - (a - 1))
    <3>1. a \in Int
      BY DEF Ages
    <3> QED BY <1>1, <2>1, <2>3, <3>1, Readings
  <2> QED BY <1>1, <2>1, <2>2, <2>3 DEF WatchInv
<1> QED BY <1>2, <1>3

LEMMA NextWatch ==
  TypeOK /\ MonoInv /\ ZoneInv /\ PartialInv /\ WatchInv /\ [Next]_vars => WatchInv'
<1> SUFFICES ASSUME TypeOK, MonoInv, ZoneInv, PartialInv, WatchInv, [Next]_vars PROVE WatchInv'
  OBVIOUS
<1>0. pc \in Int
  BY Readings
<1>1. CASE Client
  <2>0. Effect
    BY <1>1, ClientIs
  <2>1. ASSUME quiet' = 0, ~Rewound'
        PROVE  WatchInv'
    BY <2>1, WatchStarts DEF WatchInv
  <2>2. CASE Spins \/ Stops \/ Collects \/ Ends
    <3>1. Watching' => Watching /\ UNCHANGED <<fault, quiet, view, state, coasting, todo, clock, past>>
      BY <2>2 DEF Spins, Stops, Collects, Ends, Rests, Untouched, Watching, In
    <3> QED BY <3>1 DEF WatchInv, Still, Running, Sample
  <2>3. CASE Watches
    <3>1. CASE quiet' = quiet /\ view' = view
      <4>1. Watching /\ UNCHANGED <<fault, quiet, view, state, coasting, todo, clock, past>>
        BY <2>3, <3>1 DEF Watches, Untouched
      <4> QED BY <4>1 DEF WatchInv, Still, Running, Sample
    <3>2. CASE quiet' = 0 /\ ~Rewound'
      BY <2>1, <3>2
    <3>3. CASE quiet' = 0 /\ Rewound'
      <4>1. In("reset", {13}) /\ fault = "partial"
        BY <2>3, <3>3 DEF Watches, Watching, In, Rewound, Rests, Untouched
      <4>2. Still /\ UNCHANGED <<fault, state, coasting, todo, clock, past>>
        BY <2>3, <4>1 DEF PartialInv, In, Watches, Untouched
      <4>3. Still' /\ \A a \in Ages : a <= quiet' => a = 0
        BY <3>3, <4>2, Numbers DEF Still, Running, Ages
      <4> QED BY <4>3 DEF WatchInv, Sample
    <3> QED BY <2>3, <3>1, <3>2, <3>3 DEF Watches
  <2>4. CASE Settles \/ Requests \/ Asks \/ Measures \/ Loops \/ Compares \/ Resets \/ Reads
    <3>1. ~Watching'
      BY <2>4 DEF Settles, Requests, Asks, Measures, Loops, Compares, Resets, Reads, Goes,
                  Watching, In
    <3> QED BY <3>1 DEF WatchInv
  <2>5. CASE Passes \/ Reaches \/ Shapes
    <3>1. Watching' => quiet' = 0 /\ ~Rewound'
      BY <2>5 DEF Passes, Reaches, Shapes, Goes, Watching, In, Rewound
    <3> QED BY <2>1, <3>1 DEF WatchInv
  <2>6. CASE Rewinds
    <3>1. quiet' = 0 /\ program' = "reset" /\ pc = 12 /\ pc' = 13 /\ fault' = fault
      BY <2>6 DEF Rewinds, Goes, In
    <3>2. CASE fault = "partial"
      <4>1. Still
        BY <2>6, <3>2 DEF PartialInv, Rewinds, In
      <4>2. Still' /\ \A a \in Ages : a <= quiet' => a = 0
        BY <2>6, <3>1, <4>1, Numbers DEF Still, Running, Ages, Rewinds
      <4> QED BY <4>2 DEF WatchInv, Sample
    <3>3. CASE fault # "partial"
      BY <2>1, <3>1, <3>3 DEF Rewound
    <3> QED BY <3>2, <3>3
  <2> QED BY <2>0, <2>2, <2>3, <2>4, <2>5, <2>6 DEF Effect
<1>2. CASE Tick
  BY <1>2, TickWatch
<1>3. CASE TakeState
  <2>1. Watching => ~(wanted # state)
    BY <1>0 DEF Watching, In, ZoneInv, Halted
  <2>2. ~Watching'
    BY <1>3, <2>1 DEF TakeState, client, Watching, In
  <2> QED BY <2>2 DEF WatchInv
<1>4. CASE Meddle
  BY <1>4 DEF Meddle, WatchInv
<1>5. CASE UNCHANGED vars
  BY <1>5 DEF WatchInv, Still, Running, Sample, Watching, In, vars, client, simulator, history
<1> QED BY <1>1, <1>2, <1>3, <1>4, <1>5 DEF Next

LEMMA AtLeast ==
  ASSUME NEW a \in Int, NEW b \in Int, NEW c \in Int, a >= b, b >= c
  PROVE  a >= c
  OBVIOUS

LEMMA AddsUp ==
  ASSUME NEW a \in Int, NEW b \in Int, NEW c \in Int, b >= c
  PROVE  a + b >= a + c
  OBVIOUS

\* What was heard while nothing changed for as long as it was asked to stand.
LEMMA SettlesOn ==
  ASSUME TypeOK, Settles, ~stale'
  PROVE  \E a \in Ages : a <= quiet /\ Sample(a) = view /\ view + (quiet - a) > view
<1>1. PICK a \in Ages : view' = Sample(a) /\ a < StableFor
  BY DEF Settles, Hearing
<1>2. a \in Int /\ a < quiet /\ Sample(a) = view
  BY <1>1, Numbers, Readings DEF Settles, Ages
<1> QED BY <1>2, Readings

LEMMA NextStepWatch ==
  TypeOK /\ MonoInv /\ StepWatchInv /\ [Next]_vars /\ ~stale' => StepWatchInv'
<1> SUFFICES ASSUME TypeOK, MonoInv, StepWatchInv, [Next]_vars, ~stale',
                    program' = "verify", fault' # "short"
             PROVE  StepWatchInv'
  BY DEF StepWatchInv
<1>0. pc \in Int /\ clock \in Nat /\ todo \in Nat /\ before \in Nat /\ view \in Int /\ Steps \in Nat
  BY Readings, Numbers
<1>1. CASE Client
  <2>0. Effect /\ program = "verify" /\ fault # "short"
    BY <1>1, ClientIs, ClientHears
  <2>1. CASE Spins \/ Stops \/ Ends
    <3>1. /\ UNCHANGED <<program, pc, fault, clock, todo, before, past>>
          /\ pc = 10 \/ pc = 11 => UNCHANGED <<view, quiet>>
      BY <2>0, <2>1 DEF Spins, Stops, Ends, Rests, Untouched, Watching, In
    <3> QED BY <3>1 DEF StepWatchInv, Sample
  <2>2. CASE Watches
    <3>1. UNCHANGED <<program, pc, fault, clock, todo, before, past>> /\ pc # 11
      BY <2>0, <2>2 DEF Watches, Rests, Untouched, Watching, In
    <3>2. CASE UNCHANGED <<view, quiet>>
      BY <3>1, <3>2 DEF StepWatchInv, Sample
    <3>3. CASE quiet' = 0
      <4>1. ~Rewound'
        BY DEF Rewound
      <4>2. \A a \in Ages : a <= quiet' => Sample(a)' >= view' + (quiet' - a)
        BY <3>3, <4>1, WatchStarts
      <4> QED BY <3>1, <4>2 DEF StepWatchInv
    <3> QED BY <2>2, <3>2, <3>3 DEF Watches
  <2>3. CASE Settles
    <3>1. CASE pc = 10
      <4>1. view >= before + Steps
        <5>1. PICK a \in Ages : a <= quiet /\ Sample(a) = view /\ view + (quiet - a) > view
          BY <2>3, SettlesOn
        <5>2. Sample(a) >= before + Steps \/ Sample(a) >= view + (quiet - a)
          BY <2>0, <3>1, <5>1 DEF StepWatchInv
        <5>3. a \in Int /\ quiet \in Int
          BY Readings DEF Ages
        <5> QED BY <1>0, <5>1, <5>2, <5>3
      <4>2. clock + todo >= before + Steps
        BY <2>0, <3>1 DEF StepWatchInv
      <4> QED BY <2>0, <2>3, <3>1, <4>1, <4>2 DEF Settles, Goes, Untouched, StepWatchInv
    <3>2. CASE pc # 10
      <4>1. pc' = 8
        BY <2>0, <2>3, <3>2 DEF Settles, Goes, Watching, In
      <4> QED BY <4>1 DEF StepWatchInv
    <3> QED BY <3>1, <3>2
  <2>4. CASE Asks
    <3>1. pc' = 9 /\ todo' >= Steps /\ before' = clock /\ clock' = clock
      BY <1>0, <2>0, <2>4 DEF Asks, Asked, Goes, In
    <3>2. todo' \in Int
      BY NextTyped DEF TypeOK
    <3>3. clock' + todo' >= before' + Steps
      <4>1. clock + todo' >= clock + Steps
        <5>1. clock \in Int /\ Steps \in Int /\ todo' >= Steps
          BY <1>0, <3>1
        <5> QED BY <3>2, <5>1, AddsUp
      <4> QED BY <3>1, <4>1
    <3> QED BY <3>1, <3>3 DEF StepWatchInv
  <2>5. CASE Reaches
    <3>1. pc = 9 /\ pc' = 10 /\ quiet' = 0 /\ UNCHANGED <<clock, todo, before>>
      BY <2>0, <2>5 DEF Reaches, Goes, Untouched, In
    <3>2. ~Rewound'
      BY DEF Rewound
    <3>3. \A a \in Ages : a <= quiet' => Sample(a)' >= view' + (quiet' - a)
      BY <3>1, <3>2, WatchStarts
    <3> QED BY <2>0, <3>1, <3>3 DEF StepWatchInv
  <2>6. CASE Passes \/ Requests \/ Measures
    <3>1. pc' \notin 9 .. 11
      BY <2>0, <2>6 DEF Passes, Requests, Measures, Goes, In
    <3> QED BY <3>1 DEF StepWatchInv
  <2>7. CASE Loops \/ Shapes \/ Rewinds \/ Compares \/ Resets \/ Collects \/ Reads
    BY <2>0, <2>7 DEF Loops, Shapes, Rewinds, Compares, Resets, Collects, Reads, In
  <2> QED BY <2>0, <2>1, <2>2, <2>3, <2>4, <2>5, <2>6, <2>7 DEF Effect
<1>2. CASE Tick
  <2>1. UNCHANGED <<program, pc, fault, view, before>> /\ clock' \in Nat /\ todo' \in Nat
        /\ clock' + todo' >= clock + todo
    BY <1>0, <1>2, TickIs
  <2>2. pc \in 9 .. 11 => clock + todo >= before + Steps
    BY <2>1 DEF StepWatchInv
  <2>3. ASSUME pc = 10, NEW a \in Ages, a <= quiet'
        PROVE  Sample(a)' >= before + Steps \/ Sample(a)' >= view + (quiet' - a)
    <3>1. CASE a = 0
      <4>1. Sample(a)' = clock' /\ quiet' <= quiet + 1 /\ quiet \in Nat /\ quiet' \in Nat
        BY <1>2, <3>1, TickIs, Readings DEF Shifts
      <4>2. clock >= before + Steps \/ clock >= view + quiet
        <5>1. 0 \in Ages /\ Sample(0) = clock /\ 0 <= quiet
          BY Readings
        <5> QED BY <1>0, <2>1, <2>3, <4>1, <5>1 DEF StepWatchInv
      <4>3. CASE clock >= before + Steps
        <5>1. clock' >= clock
          BY <1>2, TickStands, TickAdvances, <1>0, <2>1
        <5> QED BY <1>0, <2>1, <4>1, <4>3, <5>1
      <4>4. CASE clock < before + Steps
        <5>1. ~Still
          BY <1>0, <2>2, <2>3, <4>4 DEF Still
        <5>2. clock' >= clock + 1
          BY <1>2, <5>1, TickAdvances
        <5> QED BY <1>0, <2>1, <3>1, <4>1, <4>2, <4>4, <5>2
      <4> QED BY <1>0, <4>3, <4>4
    <3>2. CASE a # 0
      <4>1. /\ a - 1 \in Ages /\ Sample(a)' = Sample(a - 1) /\ a - 1 <= quiet
            /\ quiet - (a - 1) >= quiet' - a /\ Sample(a - 1) \in Nat
        BY <1>2, <2>3, <3>2, ShiftIs
      <4>2. Sample(a - 1) >= before + Steps \/ Sample(a - 1) >= view + (quiet - (a - 1))
        BY <2>1, <2>3, <4>1 DEF StepWatchInv
      <4>3. a \in Int /\ quiet \in Int /\ quiet' \in Int
        BY <1>2, TickIs, Readings DEF Ages
      <4>4. CASE Sample(a - 1) >= before + Steps
        BY <4>1, <4>4
      <4>5. CASE Sample(a - 1) >= view + (quiet - (a - 1))
        <5>1. view + (quiet - (a - 1)) >= view + (quiet' - a)
          <6>1. quiet - (a - 1) \in Int /\ quiet' - a \in Int
            BY <4>3
          <6>2. quiet - (a - 1) >= quiet' - a
            BY <1>2, <2>3, <3>2, <6>1, ShiftIs
          <6> QED BY <1>0, <6>1, <6>2, AddsUp
        <5>2. Sample(a - 1) \in Int /\ view + (quiet - (a - 1)) \in Int /\ view + (quiet' - a) \in Int
          BY <1>0, <4>1, <4>3
        <5>3. Sample(a - 1) >= view + (quiet' - a)
          BY <4>5, <5>1, <5>2, AtLeast
        <5> QED BY <4>1, <5>3
      <4> QED BY <4>2, <4>4, <4>5
    <3> QED BY <3>1, <3>2
  <2>4. pc = 11 => view >= before + Steps
    BY <2>1 DEF StepWatchInv
  <2>5. pc \in 9 .. 11 => clock' + todo' >= before + Steps
    <3>1. clock' + todo' \in Int /\ clock + todo \in Int /\ before + Steps \in Int
      BY <1>0, <2>1
    <3> QED BY <2>1, <2>2, <3>1, AtLeast
  <2>6. pc' = pc /\ before' = before /\ view' = view
    BY <2>1
  <2> QED BY <2>3, <2>4, <2>5, <2>6 DEF StepWatchInv
<1>3. CASE TakeState \/ Meddle
  BY <1>3 DEF TakeState, Meddle, client, history, StepWatchInv, Sample
<1>4. CASE UNCHANGED vars
  BY <1>4 DEF vars, client, simulator, history, StepWatchInv, Sample
<1> QED BY <1>1, <1>2, <1>3, <1>4 DEF Next

-----------------------------------------------------------------------------
(* What is known when the clock stands. *)

LEMMA SettlesStill ==
  ASSUME TypeOK, WatchInv, Settles, fault # "meddled", ~stale'
  PROVE  Still /\ view = clock
<1>1. PICK a \in Ages : a <= quiet /\ Sample(a) = view /\ view + (quiet - a) > view
  BY SettlesOn
<1>2. Watching
  BY DEF Settles
<1>3. (Still /\ Sample(a) = clock) \/ Sample(a) >= view + (quiet - a)
  BY <1>1, <1>2 DEF WatchInv
<1>4. view \in Int /\ quiet \in Int /\ a \in Int
  BY Readings DEF Ages
<1> QED BY <1>1, <1>3, <1>4

\* What is known of a standing clock stays known.
LEMMA KnownHeard ==
  ASSUME TypeOK, MonoInv, ~Rewound, Known, Learns,
         UNCHANGED <<mark, fault, state, coasting, todo, clock>>
  PROVE  Known'
<1>1. view' = clock
  BY HeardLater, Readings DEF Known
<1> QED BY <1>1 DEF Known, Still, Running

LEMMA KnownTicks ==
  ASSUME TypeOK, Known, Tick
  PROVE  Known'
  BY TickStands, TickIs DEF Known

LEMMA NextPartial ==
  TypeOK /\ MonoInv /\ ZoneInv /\ WatchInv /\ PartialInv /\ [Next]_vars /\ ~stale' => PartialInv'
<1> SUFFICES ASSUME TypeOK, MonoInv, ZoneInv, WatchInv, PartialInv, [Next]_vars, ~stale',
                    program' = "reset", fault' = "partial"
             PROVE  PartialInv'
  BY DEF PartialInv
<1>0. pc \in Int /\ mark \in Int
  BY Readings
<1>1. CASE Client
  <2>0. Effect /\ program = "reset" /\ fault = "partial" /\ pc <= 15
    BY <1>1, ClientIs, ClientHears DEF PartialInv
  <2>1. CASE Spins \/ Watches
    <3>1. /\ UNCHANGED <<program, pc, fault, mark, state, coasting, todo, clock>>
          /\ pc \in 14 .. 15 => cursor' = cursor
          /\ Learns
      BY <2>0, <2>1 DEF Spins, Watches, Rests, Untouched, In, Watching
    <3>2. pc \in {10, 12} => Known'
      <4>1. pc \in {10, 12} => ~Rewound /\ Known
        BY <2>0 DEF Rewound, PartialInv
      <4> QED BY <3>1, <4>1, KnownHeard
    <3> QED BY <2>0, <3>1, <3>2 DEF PartialInv, Still, Running
  <2>2. CASE Stops
    <3>1. UNCHANGED <<program, pc, fault, view, mark, state, coasting, todo, clock>>
      BY <2>2 DEF Stops
    <3>2. pc >= 11 => cursor' = cursor
      BY <2>0, <2>2 DEF Stops
    <3> QED BY <1>0, <3>1, <3>2 DEF PartialInv, Known, Still, Running
  <2>3. CASE Settles
    <3>1. Still /\ view = clock
      BY <2>0, <2>3, SettlesStill
    <3>2. /\ pc \in {9, 11, 13} /\ pc' = pc + 1 /\ view' = view
          /\ UNCHANGED <<fault, state, coasting, todo, clock>>
          /\ IF pc = 13 THEN cursor' = view /\ mark' = mark ELSE mark' = view
      BY <2>0, <2>3 DEF Settles, Goes, Untouched, Watching, In
    <3>3. Still'
      BY <3>1, <3>2 DEF Still, Running
    <3>4. pc # 13 => clock >= 1
      BY <2>0, <3>2, HeardLater DEF Rewound
    <3>5. CASE pc = 13
      BY <2>0, <3>1, <3>2, <3>3, <3>5 DEF PartialInv
    <3>6. CASE pc # 13
      BY <3>1, <3>2, <3>3, <3>4, <3>6 DEF PartialInv, Known
    <3> QED BY <3>5, <3>6
  <2>4. CASE Shapes \/ Rewinds
    <3>1. CASE pc = 5
      BY <2>4, <3>1 DEF Shapes, Rewinds, Goes, In, PartialInv
    <3>2. CASE pc \in {10, 12}
      <4>1. Known /\ Still
        BY <2>0, <3>2 DEF PartialInv
      <4>2. clock >= 1
        BY <2>0, <3>2, HeardLater DEF Rewound
      <4>3. /\ pc' = pc + 1 /\ UNCHANGED <<fault, mark, state, coasting, todo>>
            /\ pc = 12 => clock' = 0
        BY <2>0, <2>4, <3>2 DEF Shapes, Rewinds, Goes, In
      <4>4. Still'
        BY <4>1, <4>3 DEF Still, Running
      <4> QED BY <3>2, <4>1, <4>2, <4>3, <4>4 DEF PartialInv, Known
    <3> QED BY <2>4, <3>1, <3>2 DEF Shapes, Rewinds, In
  <2>5. CASE Passes
    <3>1. \/ pc = 14 /\ pc' = 15 /\ UNCHANGED <<fault, cursor, mark, state, coasting, todo, clock>>
          \/ pc' <= 9
      BY <2>0, <2>5 DEF Passes, Goes, Untouched, In
    <3>2. CASE pc' <= 9
      <4>1. pc' \in Int /\ pc' \notin 10 .. 15
        BY <1>0, <2>5, <3>2 DEF Passes, Goes
      <4> QED BY <3>2, <4>1 DEF PartialInv
    <3>3. CASE pc = 14 /\ pc' = 15
      BY <2>0, <3>1, <3>3 DEF PartialInv, Still, Running
    <3> QED BY <3>1, <3>2, <3>3
  <2>6. CASE Requests
    <3>1. pc' \in {3, 8}
      BY <2>0, <2>6 DEF Requests, Goes, In
    <3> QED BY <3>1 DEF PartialInv
  <2>7. ~Compares
    BY <2>0 DEF Compares, In, PartialInv
  <2>8. ~(Asks \/ Reaches \/ Measures \/ Loops \/ Resets \/ Collects \/ Reads \/ Ends)
    BY <2>0 DEF Asks, Reaches, Measures, Loops, Resets, Collects, Reads, Ends, In
  <2> QED BY <2>0, <2>1, <2>2, <2>3, <2>4, <2>5, <2>6, <2>7, <2>8 DEF Effect
<1>2. CASE Tick
  <2>1. UNCHANGED <<program, pc, fault, view, mark, cursor>>
    BY <1>2, TickIs
  <2>2. pc \in {10, 12} => Known'
    BY <1>2, <2>1, KnownTicks DEF PartialInv
  <2>3. pc \in 10 .. 15 => Still' /\ clock' = clock
    BY <1>2, <2>1, TickStands DEF PartialInv
  <2> QED BY <1>0, <2>1, <2>2, <2>3 DEF PartialInv
<1>3. CASE TakeState
  <2>1. pc \notin 9 .. 16 /\ UNCHANGED <<program, pc, fault>>
    BY <1>0, <1>3 DEF TakeState, client, ZoneInv, Halted
  <2> QED BY <1>0, <2>1 DEF PartialInv
<1>4. CASE Meddle
  BY <1>4 DEF Meddle
<1>5. CASE UNCHANGED vars
  BY <1>5 DEF PartialInv, Known, Still, Running, vars, client, simulator, history
<1> QED BY <1>1, <1>2, <1>3, <1>4, <1>5 DEF Next

-----------------------------------------------------------------------------
(* verify. *)

\* How far a simulator is when it is asked for its steps, and how far it can
\* then come.
VerifyInv ==
  program = "verify" =>
    /\ pc = 8 => mark <= view
    /\ pc \in 9 .. 11 => mark <= before
    /\ pc = 8 /\ fault # "meddled" => Known
    /\ pc \in 9 .. 11 /\ fault # "meddled" => mark = before
    /\ pc \in 9 .. 11 /\ fault \notin {"meddled", "resumes"} =>
         ~Running /\ clock + todo = mark + Asked
    /\ pc = 9 /\ fault = "resumes" =>
         \/ todo > 0 /\ ~Running /\ clock + todo = mark + Steps
         \/ todo = 0 /\ state = "playing" /\ wanted = "playing"
    /\ pc = 10 /\ fault = "resumes" => todo = 0 /\ state = "playing" /\ wanted = "playing"
    /\ pc = 11 /\ fault # "meddled" => todo = 0 /\ view = clock

\* Where each fault is noticed at the latest.
NoticedInv ==
  program = "verify" =>
    /\ fault = "deaf" => pc <= 7
    /\ fault = "short" => pc <= 9
    /\ fault = "resumes" => pc <= 10
    /\ fault = "long" => pc <= 11

EquippedInv == program = "verify" /\ fault = "featureless" => pc = 1

LEMMA AskedIs ==
  /\ Asked \in Int
  /\ fault = "short" => Asked = Steps - 1
  /\ fault = "long" => Asked = Steps + 1
  /\ fault \notin {"short", "long"} => Asked = Steps
  BY Numbers DEF Asked

\* Where the steps lead is where they have led and those that are left.
LEMMA TickLeads ==
  ASSUME TypeOK, Tick, ~Running, NEW s \in Int, clock + todo = s
  PROVE  clock' + todo' = s
  BY TickIs

LEMMA TickRests ==
  ASSUME TypeOK, Tick, ~Running, fault # "resumes" \/ todo' > 0
  PROVE  ~Running'
<1>1. state' = state /\ fault' = fault
  BY TickIs
<1>2. state # "playing" /\ coasting = 0 /\ fault # "deaf"
  BY Readings DEF Running
<1> QED BY <1>1, <1>2, TickIs DEF Running

LEMMA TickVerify ==
  ASSUME TypeOK, VerifyInv, NoticedInv, Tick
  PROVE  VerifyInv'
<1> SUFFICES ASSUME program' = "verify" PROVE VerifyInv'
  BY DEF VerifyInv
<1>0. /\ program = "verify" /\ UNCHANGED <<pc, fault, view, mark, before>>
      /\ clock' \in Nat /\ todo' \in Nat /\ Asked' = Asked /\ Asked \in Int /\ mark \in Int
      /\ todo \in Nat /\ clock \in Nat /\ pc \in Int /\ Steps \in Int
  BY TickIs, Readings, AskedIs, Numbers DEF Asked
<1>1. pc = 8 /\ fault # "meddled" => Known'
  BY <1>0, KnownTicks DEF VerifyInv
<1>2. ASSUME pc \in 9 .. 11, fault \notin {"meddled", "resumes"}
      PROVE  ~Running' /\ clock' + todo' = mark + Asked
  <2>1. ~Running /\ clock + todo = mark + Asked /\ mark + Asked \in Int
    BY <1>0, <1>2 DEF VerifyInv
  <2> QED BY <1>2, <2>1, TickLeads, TickRests
<1>3. ASSUME pc = 9, fault = "resumes"
      PROVE  \/ todo' > 0 /\ ~Running' /\ clock' + todo' = mark + Steps
             \/ todo' = 0 /\ state' = "playing" /\ wanted' = "playing"
  <2>1. CASE todo > 0 /\ ~Running /\ clock + todo = mark + Steps
    <3>1. clock' + todo' = mark + Steps
      <4>1. mark + Steps \in Int
        BY <1>0
      <4> QED BY <2>1, <4>1, TickLeads
    <3>2. CASE todo' = 0
      BY <1>3, <2>1, <3>2, TickIs
    <3>3. CASE todo' > 0
      BY <2>1, <3>1, <3>3, TickRests
    <3>4. todo' = 0 \/ todo' > 0
      BY <1>0
    <3> QED BY <3>2, <3>3, <3>4
  <2>2. CASE todo = 0 /\ state = "playing" /\ wanted = "playing"
    BY <1>0, <2>2, TickIs DEF Running
  <2> QED BY <1>0, <1>3, <2>1, <2>2 DEF VerifyInv
<1>4. ASSUME pc = 10, fault = "resumes"
      PROVE  todo' = 0 /\ state' = "playing" /\ wanted' = "playing"
  <2>1. todo = 0 /\ state = "playing" /\ wanted = "playing"
    BY <1>0, <1>4 DEF VerifyInv
  <2> QED BY <1>0, <2>1, TickIs DEF Running
<1>5. ASSUME pc = 11, fault # "meddled"
      PROVE  todo' = 0 /\ view = clock'
  <2>1. fault # "resumes" /\ ~Running /\ todo = 0 /\ view = clock
    BY <1>0, <1>5 DEF VerifyInv, NoticedInv
  <2> QED BY <2>1, TickStands DEF Still
<1>6. /\ pc = 8 => mark <= view
      /\ pc \in 9 .. 11 => mark <= before
      /\ pc \in 9 .. 11 /\ fault # "meddled" => mark = before
  BY <1>0 DEF VerifyInv
<1> QED BY <1>0, <1>1, <1>2, <1>3, <1>4, <1>5, <1>6 DEF VerifyInv

LEMMA NextVerify ==
  TypeOK /\ MonoInv /\ ZoneInv /\ WatchInv /\ VerifyInv /\ NoticedInv /\ [Next]_vars /\ ~stale' => VerifyInv'
<1> SUFFICES ASSUME TypeOK, MonoInv, ZoneInv, WatchInv, VerifyInv, NoticedInv, [Next]_vars, ~stale',
                    program' = "verify"
             PROVE  VerifyInv'
  BY DEF VerifyInv
<1>0. /\ pc \in Int /\ mark \in Int /\ clock \in Nat /\ todo \in Nat /\ view \in Int
      /\ Asked \in Int /\ Asked' = Asked /\ Steps \in Nat \ {0}
  <2>1. fault' = fault
    BY TickIs, ClientIs, ClientHears DEF Next, TakeState, Meddle, vars, simulator
  <2> QED BY <2>1, Readings, AskedIs, Numbers DEF Asked
<1>1. CASE Client
  <2>0. Effect /\ program = "verify" /\ fault' = fault /\ ~Rewound
    BY <1>1, ClientIs, ClientHears DEF Rewound
  <2>1. CASE Spins \/ Watches
    <3>1. /\ UNCHANGED <<program, pc, fault, mark, wanted, state, coasting, todo, clock, before>>
          /\ Learns /\ pc # 11
      BY <2>0, <2>1 DEF Spins, Watches, Rests, Untouched, In, Watching
    <3>2. pc = 8 /\ fault # "meddled" => Known'
      BY <2>0, <3>1, KnownHeard DEF VerifyInv
    <3>3. pc = 8 => mark <= view'
      <4>1. view' \in Int /\ view' >= view
        BY <2>0, <3>1, HeardLater
      <4> QED BY <1>0, <2>0, <4>1 DEF VerifyInv
    <3> QED BY <1>0, <2>0, <3>1, <3>2, <3>3 DEF VerifyInv, Running
  <2>2. CASE Stops \/ Ends
    <3>1. UNCHANGED <<program, pc, fault, view, mark, wanted, state, coasting, todo, clock, before>>
      BY <2>2 DEF Stops, Ends, Untouched
    <3> QED BY <1>0, <3>1 DEF VerifyInv, Known, Still, Running
  <2>3. CASE Settles
    <3>1. /\ pc \in {7, 10} /\ pc' = pc + 1 /\ view' = view
          /\ UNCHANGED <<fault, wanted, state, coasting, todo, clock, before>>
          /\ IF pc = 10 THEN mark' = mark ELSE mark' = view
      BY <2>0, <2>3 DEF Settles, Goes, Untouched, Watching, In
    <3>2. fault # "meddled" => Still /\ view = clock
      BY <2>3, SettlesStill
    <3>3. CASE pc = 7
      <4>1. pc' = 8 /\ mark' = view /\ mark' <= view'
        BY <1>0, <3>1, <3>3
      <4>2. fault # "meddled" => Known'
        BY <3>1, <3>2, <4>1 DEF Known, Still, Running
      <4> QED BY <2>0, <4>1, <4>2 DEF VerifyInv
    <3>4. CASE pc = 10
      <4>1. pc' = 11 /\ mark' = mark
        BY <3>1, <3>4
      <4>2. fault # "meddled" => fault # "resumes" /\ todo = 0 /\ view = clock
        BY <2>0, <3>2, <3>4 DEF VerifyInv, Still, Running
      <4> QED BY <1>0, <2>0, <3>1, <3>4, <4>1, <4>2 DEF VerifyInv, Running
    <3> QED BY <3>1, <3>3, <3>4
  <2>4. CASE Asks
    <3>1. /\ pc = 8 /\ pc' = 9 /\ todo' = Asked /\ before' = clock
          /\ UNCHANGED <<view, mark, fault, wanted, state, coasting, clock>>
      BY <2>0, <2>4 DEF Asks, Goes, In
    <3>2. view <= clock /\ mark <= view
      BY <2>0, <3>1, HeardLater DEF VerifyInv
    <3>3. fault # "meddled" => mark = clock /\ ~Running'
      BY <2>0, <3>1 DEF VerifyInv, Known, Still, Running
    <3>4. fault = "resumes" => todo' = Steps /\ todo' > 0
      BY <1>0, <3>1, AskedIs
    <3>5. mark <= clock
      BY <1>0, <3>2
    <3> QED BY <1>0, <2>0, <3>1, <3>3, <3>4, <3>5 DEF VerifyInv
  <2>5. CASE Reaches
    <3>1. /\ pc = 9 /\ pc' = 10 /\ Learns /\ view' >= mark + Steps
          /\ UNCHANGED <<mark, fault, wanted, state, coasting, todo, clock, before>>
      BY <2>0, <2>5 DEF Reaches, Goes, Untouched, In
    <3>2. clock >= mark + Steps
      <4>1. view' \in Int /\ clock >= view' /\ clock \in Int /\ mark + Steps \in Int
        BY <1>0, <2>0, <3>1, HeardLater
      <4> QED BY <3>1, <4>1, AtLeast
    <3>3. fault = "resumes" => todo = 0 /\ state = "playing" /\ wanted = "playing"
      BY <1>0, <2>0, <3>1, <3>2 DEF VerifyInv
    <3> QED BY <1>0, <2>0, <3>1, <3>3 DEF VerifyInv, Running
  <2>6. CASE Passes \/ Requests \/ Measures
    <3>1. pc' \notin 8 .. 11 /\ pc' \in Int
      BY <1>0, <2>0, <2>6 DEF Passes, Requests, Measures, Goes, In
    <3> QED BY <3>1 DEF VerifyInv
  <2>7. ~(Loops \/ Shapes \/ Rewinds \/ Compares \/ Resets \/ Collects \/ Reads)
    BY <2>0 DEF Loops, Shapes, Rewinds, Compares, Resets, Collects, Reads, In
  <2> QED BY <2>0, <2>1, <2>2, <2>3, <2>4, <2>5, <2>6, <2>7 DEF Effect
<1>2. CASE Tick
  BY <1>2, TickVerify
<1>3. CASE TakeState
  <2>1. pc \notin 8 .. 11 /\ UNCHANGED <<program, pc>>
    BY <1>0, <1>3 DEF TakeState, client, ZoneInv, Halted
  <2> QED BY <1>0, <2>1 DEF VerifyInv
<1>4. CASE Meddle
  BY <1>0, <1>4 DEF Meddle, client, history, VerifyInv
<1>5. CASE UNCHANGED vars
  BY <1>0, <1>5 DEF VerifyInv, Known, Still, Running, vars, client, simulator, history
<1> QED BY <1>1, <1>2, <1>3, <1>4, <1>5 DEF Next

LEMMA NextNoticed ==
  TypeOK /\ MonoInv /\ WatchInv /\ VerifyInv /\ NoticedInv /\ [Next]_vars /\ ~stale' => NoticedInv'
<1> SUFFICES ASSUME TypeOK, MonoInv, WatchInv, VerifyInv, NoticedInv, [Next]_vars, ~stale',
                    program' = "verify"
             PROVE  NoticedInv'
  BY DEF NoticedInv
<1>0. /\ pc \in Int /\ mark \in Int /\ clock \in Nat /\ todo \in Nat /\ view \in Int
      /\ Steps \in Nat \ {0}
  BY Readings, Numbers
<1>1. CASE Client
  <2>0. Effect /\ program = "verify" /\ fault' = fault /\ ~Rewound
    BY <1>1, ClientIs, ClientHears DEF Rewound
  <2>1. CASE Spins \/ Watches \/ Stops \/ Ends
    BY <2>0, <2>1 DEF Spins, Watches, Stops, Ends, Rests, NoticedInv
  <2>2. CASE Passes
    <3>1. /\ pc \in {1, 3, 4, 6, 12, 14, 15} /\ pc' = pc + 1
      BY <2>0, <2>2 DEF Passes, Goes, In
    <3> QED BY <2>0, <3>1 DEF NoticedInv
  <2>3. CASE Settles
    <3>1. pc \in {7, 10} /\ pc' = pc + 1
      BY <2>0, <2>3 DEF Settles, Goes, Watching, In
    <3>2. fault \in {"deaf", "resumes"} => Still
      BY <2>3, SettlesStill
    <3>3. fault # "deaf"
      BY <3>2 DEF Still, Running
    <3>4. ~(pc = 10 /\ fault = "resumes")
      BY <2>0, <3>2 DEF Still, Running, VerifyInv
    <3> QED BY <2>0, <3>1, <3>3, <3>4 DEF NoticedInv
  <2>4. CASE Requests \/ Asks
    <3>1. pc \in {2, 5, 8, 13} /\ pc' = pc + 1
      BY <2>0, <2>4 DEF Requests, Asks, Goes, In
    <3> QED BY <2>0, <3>1 DEF NoticedInv
  <2>5. CASE Reaches
    <3>1. /\ pc = 9 /\ pc' = 10 /\ Learns /\ view' >= mark + Steps
      BY <2>0, <2>5 DEF Reaches, Goes, In
    <3>2. clock >= mark + Steps
      <4>1. view' \in Int /\ clock >= view' /\ clock \in Int /\ mark + Steps \in Int
        BY <1>0, <2>0, <3>1, HeardLater
      <4> QED BY <3>1, <4>1, AtLeast
    <3>3. fault # "short"
      <4>1. fault = "short" => clock + todo = mark + (Steps - 1)
        BY <2>0, <3>1, AskedIs DEF VerifyInv
      <4> QED BY <1>0, <3>2, <4>1
    <3> QED BY <2>0, <3>1, <3>3 DEF NoticedInv
  <2>6. CASE Measures
    <3>1. pc = 11 /\ pc' = 12 /\ view = mark + Steps
      BY <2>0, <2>6 DEF Measures, Goes, In
    <3>2. fault # "long"
      <4>1. fault = "long" => clock + todo = mark + (Steps + 1) /\ todo = 0 /\ view = clock
        BY <2>0, <3>1, AskedIs DEF VerifyInv
      <4> QED BY <1>0, <3>1, <4>1
    <3> QED BY <2>0, <3>1, <3>2 DEF NoticedInv
  <2>7. ~(Loops \/ Shapes \/ Rewinds \/ Compares \/ Resets \/ Collects \/ Reads)
    BY <2>0 DEF Loops, Shapes, Rewinds, Compares, Resets, Collects, Reads, In
  <2> QED BY <2>0, <2>1, <2>2, <2>3, <2>4, <2>5, <2>6, <2>7 DEF Effect
<1>2. CASE Tick
  BY <1>2, TickIs DEF NoticedInv
<1>3. CASE TakeState \/ Meddle
  BY <1>3 DEF TakeState, Meddle, client, NoticedInv
<1>4. CASE UNCHANGED vars
  BY <1>4 DEF NoticedInv, vars, client, simulator, history
<1> QED BY <1>1, <1>2, <1>3, <1>4 DEF Next

LEMMA NextEquipped ==
  TypeOK /\ EquippedInv /\ [Next]_vars => EquippedInv'
<1> SUFFICES ASSUME TypeOK, EquippedInv, [Next]_vars, program' = "verify", fault' = "featureless"
             PROVE  pc' = 1
  BY DEF EquippedInv
<1>1. CASE Client
  <2>1. Effect /\ program = "verify" /\ fault = "featureless" /\ pc = 1
    BY <1>1, ClientIs, ClientHears DEF EquippedInv
  <2>2. CASE Spins \/ Stops \/ Ends
    BY <2>1, <2>2 DEF Spins, Stops, Ends, Rests
  <2>3. ~(\/ Passes \/ Watches \/ Settles \/ Requests \/ Asks \/ Reaches \/ Measures \/ Loops
          \/ Shapes \/ Rewinds \/ Compares \/ Resets \/ Collects \/ Reads)
    BY <2>1 DEF Passes, Watches, Settles, Requests, Asks, Reaches, Measures, Loops, Shapes,
                Rewinds, Compares, Resets, Collects, Reads, Watching, In
  <2> QED BY <2>1, <2>2, <2>3 DEF Effect
<1>2. CASE Tick
  BY <1>2 DEF Tick, EquippedInv
<1>3. CASE TakeState \/ Meddle
  BY <1>3 DEF TakeState, Meddle, client, EquippedInv
<1>4. CASE UNCHANGED vars
  BY <1>4 DEF EquippedInv, vars, client, simulator
<1> QED BY <1>1, <1>2, <1>3, <1>4 DEF Next

-----------------------------------------------------------------------------
(* step. *)

\* Between two rounds the client knows the time of a conforming simulator; in
\* a round the clock and the steps that are left add up to where it must come.
LoopInv ==
  program = "step" /\ fault = "none" =>
    /\ pc \in {4, 8} => Known
    /\ pc \in 5 .. 7 => ~Running /\ clock + todo = mark + Steps
    /\ pc \in 6 .. 7 => view >= mark + Steps

\* A reading that is the one awaited is the time of a clock that stands.
LEMMA Arrived ==
  ASSUME TypeOK, MonoInv, ~Rewound, ~Running, clock + todo = mark + Steps, view = mark + Steps
  PROVE  view = clock /\ todo = 0
<1>1. view <= clock /\ clock \in Nat /\ todo \in Nat /\ mark \in Int /\ Steps \in Int
  BY HeardLater, Readings, Numbers
<1> QED BY <1>1

LEMMA NextLoop ==
  TypeOK /\ MonoInv /\ ZoneInv /\ WatchInv /\ LoopInv /\ [Next]_vars /\ ~stale' => LoopInv'
<1> SUFFICES ASSUME TypeOK, MonoInv, ZoneInv, WatchInv, LoopInv, [Next]_vars, ~stale',
                    program' = "step", fault' = "none"
             PROVE  LoopInv'
  BY DEF LoopInv
<1>0. /\ pc \in Int /\ mark \in Int /\ clock \in Nat /\ todo \in Nat /\ view \in Int
      /\ Steps \in Nat \ {0}
  BY Readings, Numbers
<1>1. CASE Client
  <2>0. Effect /\ program = "step" /\ fault = "none" /\ ~Rewound
    BY <1>1, ClientIs, ClientHears DEF Rewound
  <2>1. CASE Spins \/ Watches
    <3>1. /\ UNCHANGED <<program, pc, fault, mark, state, coasting, todo, clock>>
          /\ Learns
      BY <2>0, <2>1 DEF Spins, Watches, Rests, Untouched
    <3>2. pc \in {4, 8} => Known'
      BY <2>0, <3>1, KnownHeard DEF LoopInv
    <3>3. pc \in 6 .. 7 => view' >= mark + Steps
      <4>1. view' \in Int /\ view' >= view /\ mark + Steps \in Int
        BY <1>0, <2>0, <3>1, HeardLater
      <4> QED BY <1>0, <2>0, <4>1, AtLeast DEF LoopInv
    <3> QED BY <2>0, <3>1, <3>2, <3>3 DEF LoopInv, Running
  <2>2. CASE Stops
    <3>1. UNCHANGED <<program, pc, fault, view, mark, state, coasting, todo, clock>>
      BY <2>2 DEF Stops
    <3> QED BY <3>1 DEF LoopInv, Known, Still, Running
  <2>3. CASE Passes
    <3>1. /\ (pc = 2 /\ pc' = 3) \/ (pc = 6 /\ pc' = 7)
          /\ Learns
          /\ UNCHANGED <<fault, mark, state, coasting, todo, clock>>
      BY <2>0, <2>3 DEF Passes, Goes, Untouched, In
    <3>2. pc = 6 => view' >= mark + Steps
      <4>1. view' \in Int /\ view' >= view /\ mark + Steps \in Int
        BY <1>0, <2>0, <3>1, HeardLater
      <4> QED BY <1>0, <2>0, <4>1, AtLeast DEF LoopInv
    <3> QED BY <2>0, <3>1, <3>2 DEF LoopInv, Running
  <2>4. CASE Settles
    <3>1. /\ pc = 3 /\ pc' = 4 /\ view' = view /\ mark' = view
          /\ UNCHANGED <<fault, state, coasting, todo, clock>>
      BY <2>0, <2>4 DEF Settles, Goes, Untouched, Watching, In
    <3>2. Still /\ view = clock
      BY <2>0, <2>4, SettlesStill
    <3> QED BY <3>1, <3>2 DEF LoopInv, Known, Still, Running
  <2>5. CASE Requests
    <3>1. pc' = 2
      BY <2>0, <2>5 DEF Requests, Goes, In
    <3> QED BY <3>1 DEF LoopInv
  <2>6. CASE Asks
    <3>1. /\ pc = 4 /\ pc' = 5 /\ todo' = Asked
          /\ UNCHANGED <<mark, fault, state, coasting, clock>>
      BY <2>0, <2>6 DEF Asks, Goes, In
    <3>2. ~Running /\ mark = clock /\ Asked = Steps
      BY <2>0, <3>1, AskedIs DEF LoopInv, Known, Still
    <3> QED BY <3>1, <3>2 DEF LoopInv, Running
  <2>7. CASE Reaches
    <3>1. /\ pc = 5 /\ pc' = 6 /\ view' >= mark + Steps
          /\ UNCHANGED <<mark, fault, state, coasting, todo, clock>>
      BY <2>0, <2>7 DEF Reaches, Goes, Untouched, In
    <3> QED BY <2>0, <3>1 DEF LoopInv, Running
  <2>8. CASE Measures
    <3>1. /\ pc = 7 /\ pc' = 8 /\ view = mark + Steps /\ mark' = view /\ view' = view
          /\ UNCHANGED <<fault, state, coasting, todo, clock>>
      BY <2>0, <2>8 DEF Measures, Goes, Untouched, In
    <3>2. ~Running /\ view = clock /\ todo = 0
      BY <2>0, <3>1, Arrived DEF LoopInv, Known, Still
    <3> QED BY <3>1, <3>2 DEF LoopInv, Known, Still, Running
  <2>9. CASE Loops
    <3>1. pc = 8 /\ pc' = 4 /\ UNCHANGED <<view, mark, fault, state, coasting, todo, clock>>
      BY <2>9 DEF Loops, Untouched, In
    <3> QED BY <2>0, <3>1 DEF LoopInv, Known, Still, Running
  <2>10. ~(Shapes \/ Rewinds \/ Compares \/ Resets \/ Collects \/ Reads \/ Ends)
    BY <2>0 DEF Shapes, Rewinds, Compares, Resets, Collects, Reads, Ends, In
  <2> QED BY <2>0, <2>1, <2>2, <2>3, <2>4, <2>5, <2>6, <2>7, <2>8, <2>9, <2>10 DEF Effect
<1>2. CASE Tick
  <2>0. UNCHANGED <<program, pc, fault, view, mark>> /\ program = "step" /\ fault = "none"
    BY <1>2, TickIs
  <2>1. pc \in {4, 8} => Known'
    BY <1>2, <2>0, KnownTicks DEF LoopInv
  <2>2. ASSUME pc \in 5 .. 7
        PROVE  ~Running' /\ clock' + todo' = mark + Steps
    <3>1. ~Running /\ clock + todo = mark + Steps /\ mark + Steps \in Int
      BY <1>0, <2>0, <2>2 DEF LoopInv
    <3> QED BY <1>2, <2>0, <3>1, TickLeads, TickRests
  <2> QED BY <2>0, <2>1, <2>2 DEF LoopInv
<1>3. CASE TakeState
  <2>1. pc \notin 4 .. 8 /\ UNCHANGED <<program, pc>>
    BY <1>0, <1>3 DEF TakeState, client, ZoneInv, Halted
  <2> QED BY <1>0, <2>1 DEF LoopInv
<1>4. CASE Meddle
  BY <1>4 DEF Meddle
<1>5. CASE UNCHANGED vars
  BY <1>5 DEF LoopInv, Known, Still, Running, vars, client, simulator, history
<1> QED BY <1>1, <1>2, <1>3, <1>4, <1>5 DEF Next

-----------------------------------------------------------------------------
(* reset. *)

\* A clock that a reset leaves alone is never seen to jump back.
IdleInv ==
  program = "reset" /\ fault = "idle_reset" =>
    /\ pc \in 12 .. 18 => mark <= view
    /\ ~epoch /\ "resetClockEpochObserved" \notin flags

\* An error of the reset, and a model that stays, leave their flag unset.
FlagsInv ==
  program = "reset" =>
    /\ fault = "refused_reset" => "resetResultOk" \notin flags
    /\ fault = "kept_model" => /\ pc >= 11 => entity = "moved"
                               /\ "spawnedModelDespawned" \notin flags

LEMMA NextIdle ==
  TypeOK /\ MonoInv /\ IdleInv /\ [Next]_vars => IdleInv'
<1> SUFFICES ASSUME TypeOK, MonoInv, IdleInv, [Next]_vars,
                    program' = "reset", fault' = "idle_reset"
             PROVE  IdleInv'
  BY DEF IdleInv
<1>0. pc \in Int /\ mark \in Int /\ view \in Int
  BY Readings
<1>1. CASE Client
  <2>0. Effect /\ program = "reset" /\ fault = "idle_reset" /\ ~Rewound
    BY <1>1, ClientIs, ClientHears DEF Rewound
  <2>1. view' \in Int /\ view' >= view
    BY <2>0, <1>0, ClientHears, HeardLater
  <2>2. CASE Spins \/ Stops \/ Watches \/ Ends
    <3>1. UNCHANGED <<pc, mark, epoch, flags>>
      BY <2>2 DEF Spins, Stops, Watches, Ends, Rests, Untouched
    <3> QED BY <1>0, <2>0, <2>1, <3>1 DEF IdleInv
  <2>3. CASE Passes
    <3>1. pc' = pc + 1 /\ UNCHANGED <<epoch, flags>>
          /\ (pc' \in 12 .. 18 => pc = 14 /\ mark' = mark)
      BY <1>0, <2>0, <2>3 DEF Passes, Goes, Untouched, In
    <3> QED BY <1>0, <2>0, <2>1, <3>1 DEF IdleInv
  <2>4. CASE Settles
    <3>1. pc' = pc + 1 /\ UNCHANGED <<epoch, flags>> /\ view' = view
          /\ ((pc = 13 /\ mark' = mark) \/ mark' = view)
      BY <2>0, <2>4 DEF Settles, Goes, Untouched, In
    <3> QED BY <1>0, <2>0, <3>1 DEF IdleInv
  <2>5. CASE Requests \/ Shapes
    <3>1. pc' \in {3, 6, 8, 11, 20} /\ UNCHANGED <<epoch, flags>>
      BY <2>0, <2>5 DEF Requests, Shapes, Goes, In
    <3> QED BY <2>0, <3>1 DEF IdleInv
  <2>6. CASE Rewinds \/ Compares \/ Resets
    <3>1. pc \in 12 .. 16 /\ pc' = pc + 1 /\ UNCHANGED <<view, mark, epoch>>
          /\ ("resetClockEpochObserved" \in flags' => "resetClockEpochObserved" \in flags)
      BY <2>0, <2>6 DEF Rewinds, Compares, Resets, Goes, In
    <3> QED BY <1>0, <2>0, <3>1 DEF IdleInv
  <2>7. CASE Collects
    <3>1. pc = 17 /\ UNCHANGED <<mark, flags>> /\ epoch' \in {epoch, epoch \/ view' < mark}
      BY <2>0, <2>7 DEF Collects, In
    <3>2. ~epoch /\ mark <= view
      BY <2>0, <3>1 DEF IdleInv
    <3>3. mark <= view' /\ ~(view' < mark)
      BY <1>0, <2>1, <3>2
    <3>4. ~epoch'
      BY <3>1, <3>2, <3>3
    <3> QED BY <2>0, <3>1, <3>3, <3>4 DEF IdleInv
  <2>8. CASE Reads
    <3>1. pc = 18 /\ pc' = 19 /\ epoch' = epoch
          /\ flags' = flags \union (IF epoch THEN {"resetClockEpochObserved"} ELSE {})
                            \union (IF entity = "absent" THEN {"spawnedModelDespawned"} ELSE {})
      BY <2>0, <2>8 DEF Reads, Goes, In
    <3>2. ~epoch /\ "resetClockEpochObserved" \notin flags
      BY <2>0 DEF IdleInv
    <3>3. "resetClockEpochObserved" \notin flags'
      BY <3>1, <3>2
    <3> QED BY <3>1, <3>2, <3>3 DEF IdleInv
  <2>9. ~(Asks \/ Reaches \/ Measures \/ Loops)
    BY <2>0 DEF Asks, Reaches, Measures, Loops, In
  <2> QED BY <2>0, <2>2, <2>3, <2>4, <2>5, <2>6, <2>7, <2>8, <2>9 DEF Effect
<1>2. CASE Tick
  BY <1>2, TickIs DEF IdleInv
<1>3. CASE TakeState \/ Meddle
  BY <1>3 DEF TakeState, Meddle, client, IdleInv
<1>4. CASE UNCHANGED vars
  BY <1>4 DEF IdleInv, vars, client, simulator, history
<1> QED BY <1>1, <1>2, <1>3, <1>4 DEF Next

LEMMA NextFlags ==
  TypeOK /\ FlagsInv /\ [Next]_vars => FlagsInv'
<1> SUFFICES ASSUME TypeOK, FlagsInv, [Next]_vars, program' = "reset"
             PROVE  FlagsInv'
  BY DEF FlagsInv
<1>0. pc \in Int
  BY Readings
<1>1. CASE Client
  <2>0. Effect /\ program = "reset" /\ fault' = fault
    BY <1>1, ClientIs, ClientHears
  <2>1. CASE \/ Spins \/ Passes \/ Watches \/ Settles \/ Requests \/ Rewinds \/ Collects \/ Ends
    <3>1. UNCHANGED <<entity, flags>> /\ pc' \in {pc, pc + 1} /\ (pc' >= 11 => pc >= 11)
      BY <1>0, <2>0, <2>1 DEF Spins, Passes, Watches, Settles, Requests, Rewinds, Collects, Ends,
                              Rests, Goes, Untouched, Watching, In
    <3> QED BY <2>0, <3>1 DEF FlagsInv
  <2>2. CASE Stops
    <3>1. UNCHANGED <<pc, flags>> /\ (pc >= 11 => entity' = entity)
      BY <2>0, <2>2 DEF Stops
    <3> QED BY <2>0, <3>1 DEF FlagsInv
  <2>3. CASE Shapes
    <3>1. flags' = flags /\ (pc' >= 11 => entity' = "moved")
      BY <2>0, <2>3 DEF Shapes, Goes, In
    <3> QED BY <2>0, <3>1 DEF FlagsInv
  <2>4. CASE Compares
    <3>1. /\ flags' = flags \union {"unsupportedPartialEffectAbsent"} /\ entity' = entity
          /\ pc = 15
      BY <2>4 DEF Compares, In
    <3> QED BY <2>0, <3>1 DEF FlagsInv
  <2>5. CASE Resets
    <3>1. /\ flags' = flags \union (IF fault = "refused_reset" THEN {} ELSE {"resetResultOk"})
          /\ entity' = IF fault \in {"kept_model", "refused_reset"} THEN entity ELSE "absent"
          /\ pc = 16
      BY <2>5 DEF Resets, In
    <3> QED BY <2>0, <3>1 DEF FlagsInv
  <2>6. CASE Reads
    <3>1. /\ flags' = flags \union (IF epoch THEN {"resetClockEpochObserved"} ELSE {})
                            \union (IF entity = "absent" THEN {"spawnedModelDespawned"} ELSE {})
          /\ entity' = entity /\ pc = 18
      BY <2>6 DEF Reads, In
    <3> QED BY <2>0, <3>1 DEF FlagsInv
  <2>7. ~(Asks \/ Reaches \/ Measures \/ Loops)
    BY <2>0 DEF Asks, Reaches, Measures, Loops, In
  <2> QED BY <2>0, <2>1, <2>2, <2>3, <2>4, <2>5, <2>6, <2>7 DEF Effect
<1>2. CASE Tick
  BY <1>2, TickIs DEF FlagsInv
<1>3. CASE TakeState \/ Meddle
  BY <1>3 DEF TakeState, Meddle, client, FlagsInv
<1>4. CASE UNCHANGED vars
  BY <1>4 DEF FlagsInv, vars, client, simulator, history
<1> QED BY <1>1, <1>2, <1>3, <1>4 DEF Next

-----------------------------------------------------------------------------
(* Verdicts. *)

\* A program passes only at its end, and the reset probe with all its flags.
PassInv ==
  result = "passed" => \/ In("verify", {16})
                       \/ In("reset", {22}) /\ flags = ResetFlags

LEMMA InitRest ==
  Init => PartialInv /\ VerifyInv /\ NoticedInv /\ LoopInv /\ EquippedInv /\ IdleInv /\ FlagsInv
          /\ PassInv /\ ConformingAccepted
  BY DEF Init, PartialInv, VerifyInv, NoticedInv, LoopInv, EquippedInv, IdleInv, FlagsInv, PassInv,
         ConformingAccepted

LEMMA NextPass ==
  TypeOK /\ PassInv /\ [Next]_vars => PassInv'
<1> SUFFICES ASSUME TypeOK, PassInv, [Next]_vars, result' = "passed"
             PROVE  PassInv'
  BY DEF PassInv
<1>1. CASE Client
  <2>1. Effect /\ result = "none"
    BY <1>1, ClientIs
  <2>2. Ends
    BY <2>1 DEF Effect, Spins, Stops, Passes, Watches, Settles, Requests, Asks, Reaches, Measures,
                Loops, Shapes, Rewinds, Compares, Resets, Collects, Reads, Goes, Rests
  <2> QED BY <2>2 DEF Ends, PassInv, In, Untouched
<1>2. CASE Tick
  BY <1>2 DEF Tick, PassInv, In
<1>3. CASE TakeState \/ Meddle
  BY <1>3 DEF TakeState, Meddle, client, PassInv, In
<1>4. CASE UNCHANGED vars
  BY <1>4 DEF PassInv, In, vars, client, simulator, history
<1> QED BY <1>1, <1>2, <1>3, <1>4 DEF Next

\* The measurement of a conforming simulator is where its steps lead, and it
\* is still paused.
LEMMA ConformingMeasures ==
  ASSUME TypeOK, MonoInv, ZoneInv, VerifyInv, LoopInv, fault = "none"
  PROVE  /\ In("verify", {11}) \/ In("step", {7}) => view = mark + Steps
         /\ In("verify", {12}) => state = "paused"
<1>0. view \in Int /\ clock \in Int /\ todo \in Nat /\ mark \in Int /\ Steps \in Int
  BY Readings, Numbers
<1>1. In("verify", {11}) => view = mark + Steps
  <2>1. In("verify", {11}) => clock + todo = mark + Asked /\ todo = 0 /\ view = clock
    BY DEF VerifyInv, In
  <2>2. Asked = Steps
    BY AskedIs
  <2> QED BY <1>0, <2>1, <2>2
<1>2. In("step", {7}) => view = mark + Steps
  <2>1. In("step", {7}) => view >= mark + Steps /\ clock + todo = mark + Steps
    BY DEF LoopInv, In
  <2>2. In("step", {7}) => view <= clock
    BY HeardLater DEF Rewound, In
  <2> QED BY <1>0, <2>1, <2>2
<1>3. In("verify", {12}) => state = "paused"
  BY DEF ZoneInv, Halted, In
<1> QED BY <1>1, <1>2, <1>3

LEMMA NextAccepted ==
  TypeOK /\ MonoInv /\ ZoneInv /\ VerifyInv /\ LoopInv /\ ConformingAccepted /\ ~stale /\ [Next]_vars
  => ConformingAccepted'
<1> SUFFICES ASSUME TypeOK, MonoInv, ZoneInv, VerifyInv, LoopInv, ConformingAccepted, ~stale,
                    [Next]_vars, fault' = "none", program' # "reset", result' = "failed"
             PROVE  left' = 0
  BY DEF ConformingAccepted
<1>1. CASE Client
  <2>1. Effect /\ result = "none" /\ program # "reset" /\ fault = "none"
    BY <1>1, ClientIs, ClientHears
  <2>2. Stops
    BY <2>1 DEF Effect, Spins, Passes, Watches, Settles, Requests, Asks, Reaches, Measures,
                Loops, Shapes, Rewinds, Compares, Resets, Collects, Reads, Ends, Goes, Rests
  <2> QED BY <2>1, <2>2, ConformingMeasures DEF Stops
<1>2. CASE Tick
  BY <1>2 DEF Tick
<1>3. CASE TakeState \/ Meddle
  BY <1>3 DEF TakeState, Meddle, client, ConformingAccepted
<1>4. CASE UNCHANGED vars
  BY <1>4 DEF ConformingAccepted, vars, client, simulator, history
<1> QED BY <1>1, <1>2, <1>3, <1>4 DEF Next

\* What is told by a clock that was seen to stand.
FreshInv == ~stale => /\ WatchInv
                      /\ StepWatchInv
                      /\ PartialInv
                      /\ VerifyInv
                      /\ NoticedInv
                      /\ LoopInv
                      /\ ConformingAccepted

\* A reading that was too old is not forgotten.
LEMMA StaleStays ==
  ASSUME [Next]_vars, ~stale'
  PROVE  ~stale
<1>1. CASE WaitForQuiescentClock
  BY <1>1 DEF WaitForQuiescentClock, Settled
<1>2. CASE Client /\ ~WaitForQuiescentClock
  <2>1. stale' = stale
    BY <1>2 DEF Client, SpinInCall, TimesOut, Refused, Features, SetState, WaitForState,
                WaitForClockAfter, Step, WaitForClockAtLeast, Exact, IsPaused, Again, Spawn,
                Spawned, Move, PartialReset, Unchanged, ResetAll, Collect, ReadBack, End, history
  <2> QED BY <2>1
<1>3. CASE Tick \/ TakeState \/ Meddle \/ UNCHANGED vars
  BY <1>3 DEF Tick, TakeState, Meddle, vars, history
<1> QED BY <1>1, <1>2, <1>3 DEF Next

LEMMA NextFresh ==
  TypeOK /\ MonoInv /\ ZoneInv /\ FreshInv /\ [Next]_vars => FreshInv'
<1> SUFFICES ASSUME TypeOK, MonoInv, ZoneInv, FreshInv, [Next]_vars, ~stale'
             PROVE  FreshInv'
  BY DEF FreshInv
<1>1. ~stale
  BY StaleStays
<1>2. /\ WatchInv /\ StepWatchInv /\ PartialInv /\ VerifyInv /\ NoticedInv /\ LoopInv
      /\ ConformingAccepted
  BY <1>1 DEF FreshInv
<1>3. /\ WatchInv' /\ StepWatchInv' /\ PartialInv' /\ VerifyInv' /\ NoticedInv' /\ LoopInv'
      /\ ConformingAccepted'
  BY <1>1, <1>2, NextWatch, NextStepWatch, NextPartial, NextVerify, NextNoticed, NextLoop,
     NextAccepted
<1> QED BY <1>3 DEF FreshInv

\* All of it together.
IndInv ==
  /\ TypeOK
  /\ MonoInv
  /\ ZoneInv
  /\ FreshInv
  /\ EquippedInv
  /\ IdleInv
  /\ FlagsInv
  /\ PassInv

LEMMA InitInd == Init => IndInv
  BY InitTyped, InitMono, InitZone, InitWatch, InitRest DEF IndInv, FreshInv

LEMMA NextInd == IndInv /\ [Next]_vars => IndInv'
  BY NextTyped, NextMono, NextZone, NextFresh, NextEquipped, NextIdle, NextFlags, NextPass
     DEF IndInv

THEOREM Inductive == Spec => []IndInv
  BY InitInd, NextInd, PTL DEF Spec

-----------------------------------------------------------------------------
(* The results. *)

\* For any number of steps, any age of samples, any delay of state changes and
\* any window: verify passes no simulator without the features it needs, the
\* reset probe none whose full reset leaves the clock or the model alone.  The
\* faults that only a standing clock tells are not passed, and a conforming
\* simulator is refused only over a deadline, as long as no clock was taken to
\* stand by a reading as old as the window.
THEOREM VerdictAlwaysTrue == Spec => []VerdictTrue
<1>1. IndInv => VerdictTrue
  <2> SUFFICES ASSUME IndInv PROVE VerdictTrue
    OBVIOUS
  <2>1. TypeOK
    BY DEF IndInv
  <2>2. VerifyDetects
    <3> SUFFICES ASSUME program = "verify", result = "passed"
                 PROVE  /\ fault # "featureless"
                        /\ ~stale => fault \notin {"short", "long", "deaf", "resumes"}
      BY DEF VerifyDetects
    <3>1. pc = 16
      BY DEF IndInv, PassInv, In
    <3> QED BY <3>1 DEF IndInv, EquippedInv, FreshInv, NoticedInv
  <2>3. ResetDetects
    <3> SUFFICES ASSUME program = "reset", result = "passed"
                 PROVE  /\ fault \notin {"idle_reset", "refused_reset", "kept_model"}
                        /\ ~stale => fault # "partial"
      BY DEF ResetDetects
    <3>1. pc = 22 /\ flags = ResetFlags
      BY DEF IndInv, PassInv, In
    <3>2. ~stale => fault # "partial"
      BY <3>1 DEF IndInv, FreshInv, PartialInv
    <3>3. fault # "idle_reset"
      BY <3>1 DEF IndInv, IdleInv, ResetFlags
    <3>4. fault # "refused_reset" /\ fault # "kept_model"
      BY <3>1 DEF IndInv, FlagsInv, ResetFlags
    <3> QED BY <3>2, <3>3, <3>4
  <2>4. ConformingAccepted
    BY DEF IndInv, FreshInv, ConformingAccepted
  <2> QED BY <2>1, <2>2, <2>3, <2>4 DEF VerdictTrue
<1> QED BY <1>1, Inductive, PTL

\* However many rounds the stepping loop makes, and however late the samples of
\* a round are, what it measures the next round from is a conforming
\* simulator's own time, if the reading it began with was younger than the
\* window its clock stood for.
THEOREM StepAlwaysKnowsTime == Spec => []StepKnowsTime
<1>1. IndInv => StepKnowsTime
  <2> SUFFICES ASSUME IndInv, program = "step", fault = "none", At("again"), ~stale
               PROVE  mark = clock /\ todo = 0
    BY DEF StepKnowsTime
  <2>1. CallsStand
    BY Where DEF IndInv, TypeOK
  <2>2. pc = 8
    BY <2>1 DEF CallsStand
  <2> QED BY <2>2 DEF IndInv, FreshInv, LoopInv, Known, Still
<1> QED BY <1>1, Inductive, PTL

\* verify accepts a measurement only if the reading it is measured from was
\* the simulator's time when the steps were asked for, also when somebody
\* played the simulation unseen after the clock had been seen to stand; but
\* not when a reading as old as the window was taken for a clock that stands.
LEMMA MeasuresFromTruth ==
  ASSUME IndInv, Next, program = "verify", At("exact"), pc' # pc, ~stale
  PROVE  mark = before
<1>1. /\ TypeOK /\ CallsStand
      /\ StepWatchInv /\ VerifyInv /\ NoticedInv
  BY Where DEF IndInv, FreshInv, TypeOK
<1>2. pc = 11
  BY <1>1 DEF CallsStand
<1>3. Client
  BY DEF Next, Tick, TakeState, Meddle, client
<1>4. Effect
  BY <1>1, <1>3, ClientIs
<1>5. Measures
  BY <1>2, <1>4 DEF Effect, Spins, Stops, Passes, Watches, Settles, Requests, Asks, Reaches,
                    Loops, Shapes, Rewinds, Compares, Resets, Collects, Reads, Ends, Goes, Rests,
                    Watching, In
<1>6. view = mark + Steps
  BY <1>5 DEF Measures
<1>7. CASE fault = "meddled"
  <2>1. view >= before + Steps /\ mark <= before
    BY <1>1, <1>2, <1>7 DEF StepWatchInv, VerifyInv
  <2>2. mark \in Int /\ before \in Int /\ Steps \in Int /\ view \in Int
    BY <1>1, Readings, Numbers
  <2> QED BY <1>6, <2>1, <2>2
<1>8. CASE fault # "meddled"
  BY <1>1, <1>2, <1>8 DEF VerifyInv
<1> QED BY <1>7, <1>8

THEOREM MeasuredAlwaysFromTruth == Spec => MeasuredFromTruth
<1>1. IndInv /\ [Next]_vars => [program = "verify" /\ At("exact") /\ pc' # pc /\ ~stale => mark = before]_vars
  BY MeasuresFromTruth
<1> QED BY <1>1, Inductive, PTL DEF Spec, MeasuredFromTruth
=============================================================================
