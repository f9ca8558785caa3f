------------------------ MODULE PhysicalAttachProofs ------------------------
(***************************************************************************)
(* Runs of physical-attach.sh work one at a time: whoever has something on *)
(* the host and is still alive holds the lock.  The lock is given back,    *)
(* and of the runs with the same time evidence one succeeds at most.  What *)
(* a run says at its end is so, and it touches nobody else's things.       *)
(***************************************************************************)
EXTENDS PhysicalAttach, TLAPS

Statuses == {0, 1, 70, 73, 75, 77, 137}

Process == [phase : Phases, at : 1 .. Len(Script), status : Statuses,
            flags : SUBSET Resources, identified : SUBSET Compared,
            named : SUBSET Resources, pending : BOOLEAN]

\* What the proofs need to know of the script: where it begins and ends, and
\* that its rows name resources.
LEMMA ScriptRows ==
  /\ Len(Script) = 28
  /\ Script[1].op = "lock" /\ Script[28].op = "finalize"
  /\ \A i \in 1 .. 28 :
       /\ Script[i].op \in {"create", "flag", "unflag", "name", "forget", "remove"}
            => Script[i].res \in Resources
       /\ Script[i].op = "identify" => Script[i].res \in Compared
  BY DEF Script, Row, Resources, Shared, Private, Compared

\* There are nine resources to take down.
LEMMA TeardownRows ==
  Len(Teardown) = 9 /\ DOMAIN Teardown = 1 .. 9
  BY DEF Teardown

\* A process that has not begun is one.
LEMMA NewTyped == New \in Process
  BY ScriptRows DEF New, Process, Phases, Statuses, Resources, Shared, Private

\* A process stays one when its fields are given values of their kinds.
LEMMA WithPhase ==
  ASSUME NEW p \in Process, NEW ph \in Phases
  PROVE  [p EXCEPT !.phase = ph] \in Process
  BY DEF Process

\* The same with a status, and when the pending report is done with.
LEMMA WithStatus ==
  ASSUME NEW p \in Process, NEW ph \in Phases, NEW st \in Statuses
  PROVE  /\ [p EXCEPT !.phase = ph, !.status = st] \in Process
         /\ [p EXCEPT !.phase = ph, !.pending = FALSE, !.status = st] \in Process
<1>1. [p EXCEPT !.phase = ph, !.status = st] \in Process
  BY DEF Process
<1>2. [p EXCEPT !.phase = ph, !.pending = FALSE, !.status = st] \in Process
  BY Zenon DEF Process
<1> QED BY <1>1, <1>2

\* The same with a place in the script, and when the report becomes pending.
LEMMA WithPlace ==
  ASSUME NEW p \in Process, NEW ph \in Phases, NEW n \in 1 .. Len(Script)
  PROVE  /\ [p EXCEPT !.at = n] \in Process
         /\ [p EXCEPT !.phase = ph, !.at = n, !.pending = TRUE] \in Process
<1>1. [p EXCEPT !.at = n] \in Process
  BY DEF Process
<1>2. [p EXCEPT !.phase = ph, !.at = n, !.pending = TRUE] \in Process
  BY Zenon DEF Process
<1> QED BY <1>1, <1>2

\* The same with both, and when the script is left.
LEMMA WithPlaceAndStatus ==
  ASSUME NEW p \in Process, NEW st \in Statuses, NEW n \in 1 .. Len(Script)
  PROVE  /\ [p EXCEPT !.at = n, !.status = st] \in Process
         /\ [p EXCEPT !.phase = "teardown", !.at = n, !.status = st] \in Process
<1>1. [p EXCEPT !.at = n, !.status = st] \in Process
  BY DEF Process
<1>2. [p EXCEPT !.phase = "teardown", !.at = n, !.status = st] \in Process
  BY DEF Process, Phases
<1> QED BY <1>1, <1>2

\* The statuses that the actions set.
LEMMA StatusesGiven == {0, 1, 70, 73, 75, 77, 137} \subseteq Statuses
  BY DEF Statuses

\* TypeOK with the processes named.
LEMMA TypeProcess == TypeOK => run \in [Runs -> Process]
  BY DEF TypeOK, Process, Statuses

\* A step that only changes r's process to another process keeps the types.
LEMMA Retyped ==
  ASSUME TypeOK, NEW r \in Runs, NEW p \in Process,
         run' = [run EXCEPT ![r] = p],
         lock' \in Runs \cup {None}, report' \in Runs \cup {None},
         owned' \in [Runs \cup {Site} -> SUBSET Resources],
         used' \in [Runs -> BOOLEAN]
  PROVE  TypeOK'
<1>1. run' \in [Runs -> Process]
  BY TypeProcess
<1> QED BY <1>1 DEF TypeOK, Process, Statuses

\* The types hold initially.
LEMMA InitTyped == Init => TypeOK
<1> SUFFICES ASSUME Init PROVE TypeOK
  OBVIOUS
<1>1. run \in [Runs -> Process]
  BY NewTyped DEF Init
<1>2. owned \in [Runs \cup {Site} -> SUBSET Resources]
  BY DEF Init, Resources
<1> QED BY <1>1, <1>2 DEF Init, TypeOK, Process, Statuses

\* Every step keeps the types.
LEMMA NextTyped == TypeOK /\ [Next]_vars => TypeOK'
<1> SUFFICES ASSUME TypeOK, [Next]_vars PROVE TypeOK'
  OBVIOUS
<1>0. /\ run \in [Runs -> Process]
      /\ lock \in Runs \cup {None} /\ report \in Runs \cup {None}
      /\ owned \in [Runs \cup {Site} -> SUBSET Resources]
      /\ used \in [Runs -> BOOLEAN]
  BY TypeProcess DEF TypeOK
<1>1. ASSUME NEW r \in Runs, NEW p \in Process, run' = [run EXCEPT ![r] = p],
             lock' \in {lock, r, None}, report' \in {report, r, None},
             owned' \in [Runs \cup {Site} -> SUBSET Resources],
             used' \in [Runs -> BOOLEAN]
      PROVE  TypeOK'
  BY <1>0, <1>1, Retyped
<1>2. ASSUME NEW r \in Runs, run[r].phase = "script", Script[run[r].at].op # "finalize"
      PROVE  run[r].at + 1 \in 1 .. Len(Script)
  BY <1>0, <1>2, ScriptRows DEF Process
<1>3. ASSUME NEW r \in Runs, NEW st \in Statuses, Leave(r, st),
             UNCHANGED <<lock, owned, used, report>>
      PROVE  TypeOK'
  <2> DEFINE p == [run[r] EXCEPT !.phase = "teardown", !.at = 1, !.status = st]
  <2>1. p \in Process
    <3>1. run[r] \in Process /\ 1 \in 1 .. Len(Script)
      BY <1>0, ScriptRows
    <3> QED BY <3>1, WithPlaceAndStatus
  <2>2. run' = [run EXCEPT ![r] = p]
    BY <1>3 DEF Leave
  <2> HIDE DEF p
  <2> QED BY <1>0, <1>1, <1>3, <2>1, <2>2
<1>4. ASSUME NEW r \in Runs, NEW ph \in Phases, NEW st \in Statuses, Over(r, ph, st),
             lock' \in {lock, r, None}, UNCHANGED <<owned, used, report>>
      PROVE  TypeOK'
  <2> DEFINE p == [New EXCEPT !.phase = ph, !.status = st]
  <2>1. p \in Process
    BY NewTyped, WithStatus
  <2>2. run' = [run EXCEPT ![r] = p]
    BY <1>4 DEF Over
  <2> HIDE DEF p
  <2> QED BY <1>0, <1>1, <1>4, <2>1, <2>2
<1>5. ASSUME NEW r \in Runs, run[r].phase = "script", Script[run[r].at].op # "finalize",
             run' = [run EXCEPT ![r].at = @ + 1],
             lock' \in {lock, r}, report' = report,
             owned' \in [Runs \cup {Site} -> SUBSET Resources],
             used' \in [Runs -> BOOLEAN]
      PROVE  TypeOK'
  <2> DEFINE p == [run[r] EXCEPT !.at = run[r].at + 1]
  <2>1. p \in Process
    BY <1>0, <1>2, <1>5 DEF Process
  <2>2. run' = [run EXCEPT ![r] = p]
    BY <1>5
  <2> HIDE DEF p
  <2> QED BY <1>1, <1>5, <2>1, <2>2
<1>6. ASSUME NEW r \in Runs, Begin(r) PROVE TypeOK'
  <2> DEFINE p == [run[r] EXCEPT !.phase = "script"]
  <2>1. p \in Process
    BY <1>0 DEF Process, Phases
  <2>2. run' = [run EXCEPT ![r] = p]
    BY <1>6 DEF Begin
  <2> HIDE DEF p
  <2> QED BY <1>0, <1>1, <1>6, <2>1, <2>2 DEF Begin
<1>7. ASSUME NEW r \in Runs, AcquireHostLock(r) PROVE TypeOK'
  BY <1>0, <1>3, <1>5, <1>7 DEF AcquireHostLock, At, Statuses
<1>8. ASSUME NEW r \in Runs, CheckHost(r) PROVE TypeOK'
  BY <1>0, <1>3, <1>5, <1>8 DEF CheckHost, At, Statuses
<1>9. ASSUME NEW r \in Runs, Create(r) PROVE TypeOK'
  <2>1. run[r].at \in 1 .. 28 /\ Res(r) \in Resources
    BY <1>0, <1>9, ScriptRows DEF Create, At, Res, Process
  <2>2. owned' \in [Runs \cup {Site} -> SUBSET Resources]
    BY <1>0, <1>9, <2>1 DEF Create
  <2> QED BY <1>0, <1>5, <1>9, <2>2 DEF Create, At
<1>10. ASSUME NEW r \in Runs, Note(r) PROVE TypeOK'
  <2>1. run[r].at \in 1 .. 28 /\ run[r].at + 1 \in 1 .. Len(Script)
    BY <1>0, <1>2, <1>10, ScriptRows DEF Note, At, Process
  <2>2. \E p \in Process : run' = [run EXCEPT ![r] = p]
    <3>1. CASE At(r, "flag") /\ run' = [run EXCEPT ![r].flags = @ \cup {Res(r)}, ![r].at = @ + 1]
      <4>1. [run[r] EXCEPT !.flags = @ \cup {Res(r)}, !.at = @ + 1] \in Process
        BY <1>0, <2>1, <3>1, ScriptRows DEF At, Res, Process
      <4> QED BY <3>1, <4>1
    <3>2. CASE At(r, "unflag") /\ run' = [run EXCEPT ![r].flags = @ \ {Res(r)}, ![r].at = @ + 1]
      <4>1. [run[r] EXCEPT !.flags = @ \ {Res(r)}, !.at = @ + 1] \in Process
        BY <1>0, <2>1, <3>2 DEF Process
      <4> QED BY <3>2, <4>1
    <3>3. CASE At(r, "identify") /\ run' = [run EXCEPT ![r].identified = @ \cup {Res(r)}, ![r].at = @ + 1]
      <4>1. [run[r] EXCEPT !.identified = @ \cup {Res(r)}, !.at = @ + 1] \in Process
        BY <1>0, <2>1, <3>3, ScriptRows DEF At, Res, Process
      <4> QED BY <3>3, <4>1
    <3>4. CASE At(r, "name") /\ run' = [run EXCEPT ![r].named = @ \cup {Res(r)}, ![r].at = @ + 1]
      <4>1. [run[r] EXCEPT !.named = @ \cup {Res(r)}, !.at = @ + 1] \in Process
        BY <1>0, <2>1, <3>4, ScriptRows DEF At, Res, Process
      <4> QED BY <3>4, <4>1
    <3>5. CASE At(r, "forget") /\ run' = [run EXCEPT ![r].named = @ \ {Res(r)}, ![r].at = @ + 1]
      <4>1. [run[r] EXCEPT !.named = @ \ {Res(r)}, !.at = @ + 1] \in Process
        BY <1>0, <2>1, <3>5 DEF Process
      <4> QED BY <3>5, <4>1
    <3> QED BY <1>10, <3>1, <3>2, <3>3, <3>4, <3>5 DEF Note
  <2> QED BY <1>0, <1>1, <1>10, <2>2 DEF Note
<1>11. ASSUME NEW r \in Runs, RemoveNetwork(r) PROVE TypeOK'
  <2>1. owned' \in [Runs \cup {Site} -> SUBSET Resources]
    BY <1>0, <1>11 DEF RemoveNetwork
  <2> QED BY <1>0, <1>5, <1>11, <2>1 DEF RemoveNetwork, At
<1>12. ASSUME NEW r \in Runs, VerifyTimeEvidence(r) PROVE TypeOK'
  <2>1. CASE Leave(r, 77) /\ UNCHANGED used
    BY <1>3, <1>12, <2>1 DEF VerifyTimeEvidence, Statuses
  <2>2. CASE used' = [used EXCEPT ![r] = TRUE] /\ run' = [run EXCEPT ![r].at = @ + 1]
    <3>1. used' \in [Runs -> BOOLEAN]
      BY <1>0, <2>2
    <3> QED BY <1>0, <1>5, <1>12, <2>2, <3>1 DEF VerifyTimeEvidence, At
  <2> QED BY <1>12, <2>1, <2>2 DEF VerifyTimeEvidence
<1>13. ASSUME NEW r \in Runs, FinalizeRun(r) PROVE TypeOK'
  <2>1. CASE Leave(r, 73)
    BY <1>3, <1>13, <2>1 DEF FinalizeRun, Statuses
  <2>2. CASE ~Leave(r, 73)
    <3> DEFINE p == [run[r] EXCEPT !.phase = "teardown", !.at = 1, !.pending = TRUE]
    <3>1. p \in Process
      <4>1. run[r] \in Process /\ "teardown" \in Phases /\ 1 \in 1 .. Len(Script)
        BY <1>0, ScriptRows DEF Phases
      <4> QED BY <4>1, WithPlace
    <3>2. run' = [run EXCEPT ![r] = p]
      BY <1>13, <2>2 DEF FinalizeRun
    <3> HIDE DEF p
    <3> QED BY <1>0, <1>1, <1>13, <3>1, <3>2 DEF FinalizeRun
  <2> QED BY <2>1, <2>2
<1>14. ASSUME NEW r \in Runs, Interrupt(r) PROVE TypeOK'
  BY <1>3, <1>14 DEF Interrupt, Statuses
<1>15. ASSUME NEW r \in Runs, TearDown(r) PROVE TypeOK'
  <2>1. owned' \in [Runs \cup {Site} -> SUBSET Resources]
    BY <1>0, <1>15 DEF TearDown
  <2>2. run[r].at + 1 \in 1 .. Len(Script)
    BY <1>0, <1>15, ScriptRows, TeardownRows DEF TearDown
  <2>3. /\ [run[r] EXCEPT !.at = @ + 1] \in Process
        /\ [run[r] EXCEPT !.at = @ + 1, !.status = 70] \in Process
    <3>1. run[r] \in Process /\ 70 \in Statuses /\ "teardown" \in Phases
      BY <1>0 DEF Statuses, Phases
    <3>2. [run[r] EXCEPT !.at = run[r].at + 1] \in Process
      BY <2>2, <3>1, WithPlace
    <3>3. [run[r] EXCEPT !.at = run[r].at + 1, !.status = 70] \in Process
      BY <2>2, <3>1, WithPlaceAndStatus
    <3> QED BY <3>2, <3>3
  <2>4. \E p \in Process : run' = [run EXCEPT ![r] = p]
    BY <1>15, <2>3 DEF TearDown
  <2> QED BY <1>0, <1>1, <1>15, <2>1, <2>4 DEF TearDown
<1>16. ASSUME NEW r \in Runs, CheckResidue(r) PROVE TypeOK'
  <2>1. PICK st \in {run[r].status, 70} :
          run' = [run EXCEPT ![r].phase = "publish", ![r].status = st]
    BY <1>16 DEF CheckResidue
  <2>2. [run[r] EXCEPT !.phase = "publish", !.status = st] \in Process
    <3>1. run[r] \in Process /\ "publish" \in Phases /\ st \in Statuses
      BY <1>0, StatusesGiven DEF Phases, Process
    <3> QED BY <3>1, WithStatus, ZenonT(30)
  <2>3. run' = [run EXCEPT ![r] = [run[r] EXCEPT !.phase = "publish", !.status = st]]
    BY <1>0, <2>1, ZenonT(60)
  <2> QED BY <1>0, <1>1, <1>16, <2>2, <2>3 DEF CheckResidue
<1>17. ASSUME NEW r \in Runs, PublishReport(r) PROVE TypeOK'
  <2> DEFINE st == IF run[r].status = 0 THEN 70 ELSE run[r].status
  <2>1. /\ run[r] \in Process /\ "confirm" \in Phases /\ "release" \in Phases
        /\ st \in Statuses
    BY <1>0, StatusesGiven DEF Phases, Process
  <2>2. CASE run' = [run EXCEPT ![r].phase = "confirm"]
    <3>1. [run[r] EXCEPT !.phase = "confirm"] \in Process
      BY <2>1, WithPhase
    <3> QED BY <1>0, <1>1, <1>17, <2>2, <3>1 DEF PublishReport
  <2>3. CASE run' = [run EXCEPT ![r].phase = "release", ![r].pending = FALSE,
                                ![r].status = st]
    <3>1. [run[r] EXCEPT !.phase = "release", !.pending = FALSE, !.status = st] \in Process
      BY <2>1, WithStatus
    <3> HIDE DEF st
    <3>2. run' = [run EXCEPT ![r] = [run[r] EXCEPT !.phase = "release", !.pending = FALSE,
                                                  !.status = st]]
      BY <2>3
    <3> QED BY <1>0, <1>1, <1>17, <3>1, <3>2 DEF PublishReport
  <2> QED BY <1>17, <2>2, <2>3 DEF PublishReport
<1>18. ASSUME NEW r \in Runs, ConfirmReport(r) PROVE TypeOK'
  <2> DEFINE st == IF report = None THEN 70 ELSE run[r].status
  <2>1. run[r] \in Process /\ "release" \in Phases /\ st \in Statuses
    BY <1>0, StatusesGiven DEF Phases, Process
  <2>2. [run[r] EXCEPT !.phase = "release", !.pending = FALSE, !.status = st] \in Process
    BY <2>1, WithStatus
  <2>3. run' = [run EXCEPT ![r] = [run[r] EXCEPT !.phase = "release", !.pending = FALSE,
                                                !.status = st]]
    BY <1>18 DEF ConfirmReport
  <2> HIDE DEF st
  <2> QED BY <1>0, <1>1, <1>18, <2>2, <2>3 DEF ConfirmReport
<1>19. ASSUME NEW r \in Runs, ReleaseHostLock(r) PROVE TypeOK'
  <2>1. run[r].status \in Statuses
    BY <1>0 DEF Process
  <2> QED BY <1>4, <1>19, <2>1 DEF ReleaseHostLock, Phases
<1>20. ASSUME NEW r \in Runs, Kill(r) PROVE TypeOK'
  BY <1>4, <1>20 DEF Kill, Phases, Statuses
<1>21. ASSUME NEW r \in Runs, BridgeEnds(r) PROVE TypeOK'
  <2>1. owned' \in [Runs \cup {Site} -> SUBSET Resources]
    BY <1>0, <1>21 DEF BridgeEnds
  <2> QED BY <1>0, <1>21, <2>1 DEF BridgeEnds, TypeOK
<1>22. CASE UNCHANGED vars
  BY <1>22 DEF vars, TypeOK
<1> QED BY <1>6, <1>7, <1>8, <1>9, <1>10, <1>11, <1>12, <1>13, <1>14, <1>15, <1>16,
           <1>17, <1>18, <1>19, <1>20, <1>21, <1>22 DEF Next, Step

\* The types hold in every state of physical-attach.sh's runs.
THEOREM TypeCorrect == Spec => []TypeOK
  BY InitTyped, NextTyped, PTL DEF Spec
-----------------------------------------------------------------------------
(* One run at a time. *)

Alive(r) == run[r].phase \notin {"over", "killed"}

\* A run that is past the lock, or has anything on the host, holds the lock
\* while it is alive; before that it has nothing.
LockInv ==
  \A r \in Runs :
    /\ run[r].phase = "new" => run[r].at = 1 /\ owned[r] = {}
    /\ run[r].phase = "script" /\ run[r].at = 1 => owned[r] = {}
    /\ run[r].phase = "script" /\ run[r].at # 1 => lock = r
    /\ Alive(r) /\ owned[r] # {} => lock = r

\* Every step keeps LockInv.
LEMMA NextLock == TypeOK /\ LockInv /\ [Next]_vars => LockInv'
<1> SUFFICES ASSUME TypeOK, LockInv, [Next]_vars PROVE LockInv'
  OBVIOUS
<1>0. /\ run \in [Runs -> Process]
      /\ owned \in [Runs \cup {Site} -> SUBSET Resources]
  BY TypeProcess DEF TypeOK
<1>1. \A r \in Runs : run[r].at \in 1 .. 28 /\ run[r].at + 1 # 1
  BY <1>0, ScriptRows DEF Process
<1>2. ASSUME NEW r \in Runs, Leave(r, 1) \/ Leave(r, 73) \/ Leave(r, 75) \/ Leave(r, 77),
             run[r].phase = "script", UNCHANGED <<lock, owned>>
      PROVE  LockInv'
  <2>1. run'[r].phase = "teardown" /\ \A q \in Runs \ {r} : run'[q] = run[q]
    BY <1>0, <1>2 DEF Leave, Process
  <2> QED BY <1>2, <2>1 DEF LockInv, Alive
<1>3. ASSUME NEW r \in Runs, run[r].phase = "script", run[r].at # 1,
             run'[r].phase = "script", run'[r].at = run[r].at + 1,
             \A q \in Runs \ {r} : run'[q] = run[q] /\ owned'[q] \subseteq owned[q],
             UNCHANGED lock
      PROVE  LockInv'
  BY <1>0, <1>1, <1>3 DEF LockInv, Alive
<1>4. ASSUME NEW r \in Runs, NEW op, At(r, op), op # "lock" PROVE run[r].at # 1
  BY <1>4, ScriptRows DEF At
<1>5. ASSUME NEW r \in Runs, Begin(r) PROVE LockInv'
  <2>1. run[r].phase = "new" /\ run'[r].phase = "script"
    BY <1>0, <1>5 DEF Begin, Process
  <2>2. \A q \in Runs \ {r} : run'[q] = run[q]
    BY <1>0, <1>5 DEF Begin
  <2>3. run'[r].at = 1
    BY <1>0, <1>5 DEF Begin, LockInv, Process
  <2> QED BY <1>5, <2>1, <2>2, <2>3 DEF Begin, LockInv, Alive
<1>6. ASSUME NEW r \in Runs, AcquireHostLock(r) PROVE LockInv'
  <2>1. CASE Leave(r, 75) /\ UNCHANGED lock
    BY <1>2, <1>6, <2>1 DEF AcquireHostLock, At
  <2>2. CASE lock = None /\ lock' = r /\ run' = [run EXCEPT ![r].at = @ + 1]
    <3>1. /\ run'[r].phase = "script" /\ run'[r].at = run[r].at + 1
          /\ \A q \in Runs \ {r} : run'[q] = run[q]
      BY <1>0, <1>6, <2>2 DEF AcquireHostLock, At, Process
    <3>2. \A q \in Runs : lock # q
      BY <2>2, ConstantsAssumption
    <3> QED BY <1>1, <1>6, <2>2, <3>1, <3>2 DEF AcquireHostLock, LockInv, Alive
  <2> QED BY <1>6, <2>1, <2>2 DEF AcquireHostLock
<1>7. ASSUME NEW r \in Runs, CheckHost(r) PROVE LockInv'
  <2>1. run[r].phase = "script" /\ run[r].at # 1
    BY <1>4, <1>7 DEF CheckHost, At
  <2>2. CASE Leave(r, 73)
    BY <1>2, <1>7, <2>1, <2>2 DEF CheckHost
  <2>3. CASE run' = [run EXCEPT ![r].at = @ + 1]
    <3>1. /\ run'[r].phase = "script" /\ run'[r].at = run[r].at + 1
          /\ \A q \in Runs \ {r} : run'[q] = run[q]
      BY <1>0, <2>1, <2>3 DEF Process
    <3> QED BY <1>3, <1>7, <2>1, <3>1 DEF CheckHost
  <2> QED BY <1>7, <2>2, <2>3 DEF CheckHost
<1>8. ASSUME NEW r \in Runs, Create(r) \/ Note(r) \/ RemoveNetwork(r) PROVE LockInv'
  <2>1. run[r].phase = "script" /\ run[r].at # 1
    BY <1>4, <1>8 DEF Create, Note, RemoveNetwork, At
  <2>2. /\ run'[r].phase = "script" /\ run'[r].at = run[r].at + 1
        /\ \A q \in Runs \ {r} : run'[q] = run[q]
    BY <1>0, <1>8, <2>1 DEF Create, Note, RemoveNetwork, Process
  <2>3. \A q \in Runs \ {r} : owned'[q] \subseteq owned[q]
    BY <1>0, <1>8 DEF Create, Note, RemoveNetwork
  <2>4. UNCHANGED lock
    BY <1>8 DEF Create, Note, RemoveNetwork
  <2> QED BY <1>3, <2>1, <2>2, <2>3, <2>4
<1>9. ASSUME NEW r \in Runs, VerifyTimeEvidence(r) PROVE LockInv'
  <2>1. run[r].phase = "script" /\ run[r].at # 1
    BY <1>4, <1>9 DEF VerifyTimeEvidence, At
  <2>2. CASE Leave(r, 77)
    BY <1>2, <1>9, <2>1, <2>2 DEF VerifyTimeEvidence
  <2>3. CASE run' = [run EXCEPT ![r].at = @ + 1]
    <3>1. /\ run'[r].phase = "script" /\ run'[r].at = run[r].at + 1
          /\ \A q \in Runs \ {r} : run'[q] = run[q]
      BY <1>0, <2>1, <2>3 DEF Process
    <3> QED BY <1>3, <1>9, <2>1, <3>1 DEF VerifyTimeEvidence
  <2> QED BY <1>9, <2>2, <2>3 DEF VerifyTimeEvidence
<1>10. ASSUME NEW r \in Runs, FinalizeRun(r) PROVE LockInv'
  BY <1>0, <1>10 DEF FinalizeRun, Leave, At, LockInv, Alive, Process
<1>11. ASSUME NEW r \in Runs, Interrupt(r) PROVE LockInv'
  BY <1>2, <1>11 DEF Interrupt
<1>12. ASSUME NEW r \in Runs,
              \/ TearDown(r) \/ CheckResidue(r) \/ PublishReport(r) \/ ConfirmReport(r)
       PROVE  LockInv'
  <2>1. /\ run[r].phase \in {"teardown", "publish", "confirm"}
        /\ run'[r].phase \in {"teardown", "publish", "confirm", "release"}
        /\ \A q \in Runs \ {r} : run'[q] = run[q]
    BY <1>0, <1>12 DEF TearDown, CheckResidue, PublishReport, ConfirmReport, Process
  <2>2. (\A q \in Runs : owned'[q] \subseteq owned[q]) /\ UNCHANGED lock
    BY <1>0, <1>12 DEF TearDown, CheckResidue, PublishReport, ConfirmReport
  <2> QED BY <2>1, <2>2 DEF LockInv, Alive
<1>13. ASSUME NEW r \in Runs, ReleaseHostLock(r) \/ Kill(r) PROVE LockInv'
  <2>1. /\ run'[r].phase \in {"over", "killed"}
        /\ \A q \in Runs \ {r} : run'[q] = run[q]
    BY <1>0, <1>13 DEF ReleaseHostLock, Kill, Over, New
  <2>2. \A q \in Runs \ {r} : lock = q => lock' = q
    BY <1>13 DEF ReleaseHostLock, Kill
  <2>3. UNCHANGED owned
    BY <1>13 DEF ReleaseHostLock, Kill
  <2> QED BY <2>1, <2>2, <2>3 DEF LockInv, Alive
<1>14. ASSUME NEW r \in Runs, BridgeEnds(r) PROVE LockInv'
  <2>1. UNCHANGED run /\ \A q \in Runs : owned'[q] \subseteq owned[q]
    BY <1>0, <1>14 DEF BridgeEnds
  <2>2. \A q \in Runs : Alive(q) /\ lock = q => lock' = q
    BY <1>14 DEF BridgeEnds, Alive
  <2> QED BY <2>1, <2>2 DEF LockInv, Alive
<1>15. CASE UNCHANGED vars
  BY <1>15 DEF vars, LockInv, Alive
<1> QED BY <1>5, <1>6, <1>7, <1>8, <1>9, <1>10, <1>11, <1>12, <1>13, <1>14, <1>15 DEF Next, Step

\* However many runs there are, and wherever they are interrupted or killed, two
\* of them never have something on the host while both can still act: the lock
\* is given back only after cleanup_owned_host_resources.
THEOREM OneRunAtATime == Spec => []OneAtATime
<1>1. ASSUME Init PROVE LockInv
  <2>1. \A r \in Runs : run[r].phase = "new" /\ run[r].at = 1
    BY <1>1 DEF Init, New
  <2>2. \A r \in Runs : owned[r] = {}
    BY <1>1, ConstantsAssumption DEF Init
  <2> QED BY <2>1, <2>2 DEF LockInv, Alive
<1>2. LockInv => OneAtATime
  BY DEF LockInv, OneAtATime, Alive
<1> QED BY <1>1, <1>2, NextLock, TypeCorrect, PTL DEF Spec
-----------------------------------------------------------------------------
(* The lock is given back. *)

\* A step of a run that goes on leaves the lock with its holder or takes it.
LEMMA GoesOnWithLock ==
  ASSUME LockGivenBack, NEW r \in Runs, lock' \in {lock, r},
         run'[r].phase \notin {"over", "killed"},
         \A q \in Runs \ {r} : /\ run'[q] = run[q]
                               /\ "serial" \in owned[q] => "serial" \in owned'[q]
  PROVE  LockGivenBack'
  BY DEF LockGivenBack

\* Every step keeps LockGivenBack.
LEMMA NextGivenBack == TypeOK /\ LockGivenBack /\ [Next]_vars => LockGivenBack'
<1> SUFFICES ASSUME TypeOK, LockGivenBack, [Next]_vars PROVE LockGivenBack'
  OBVIOUS
<1>0. /\ run \in [Runs -> Process]
      /\ owned \in [Runs \cup {Site} -> SUBSET Resources]
  BY TypeProcess DEF TypeOK
<1>1. ASSUME NEW r \in Runs, Begin(r) PROVE LockGivenBack'
  <2>1. run'[r].phase = "script" /\ \A q \in Runs \ {r} : run'[q] = run[q]
    BY <1>0, <1>1 DEF Begin, Process
  <2> QED BY <1>1, <2>1, GoesOnWithLock DEF Begin
<1>2. ASSUME NEW r \in Runs, AcquireHostLock(r) \/ CheckHost(r) \/ Note(r)
      PROVE  LockGivenBack'
  <2>1. run'[r].phase \in {"script", "teardown"} /\ \A q \in Runs \ {r} : run'[q] = run[q]
    BY <1>0, <1>2 DEF AcquireHostLock, CheckHost, Note, At, Leave, Process
  <2>2. lock' \in {lock, r} /\ UNCHANGED owned
    BY <1>2 DEF AcquireHostLock, CheckHost, Note
  <2> QED BY <2>1, <2>2, GoesOnWithLock
<1>3. ASSUME NEW r \in Runs, Create(r) \/ RemoveNetwork(r) PROVE LockGivenBack'
  <2>1. run'[r].phase = "script" /\ \A q \in Runs \ {r} : run'[q] = run[q]
    BY <1>0, <1>3 DEF Create, RemoveNetwork, At, Process
  <2>2. \A q \in Runs \ {r} : "serial" \in owned[q] => "serial" \in owned'[q]
    BY <1>0, <1>3 DEF Create, RemoveNetwork, Shared
  <2>3. UNCHANGED lock
    BY <1>3 DEF Create, RemoveNetwork
  <2> QED BY <2>1, <2>2, <2>3, GoesOnWithLock
<1>4. ASSUME NEW r \in Runs, VerifyTimeEvidence(r) \/ FinalizeRun(r) \/ Interrupt(r)
      PROVE  LockGivenBack'
  <2>1. run'[r].phase \in {"script", "teardown"} /\ \A q \in Runs \ {r} : run'[q] = run[q]
    BY <1>0, <1>4 DEF VerifyTimeEvidence, FinalizeRun, Interrupt, At, Leave, Process
  <2>2. UNCHANGED <<lock, owned>>
    BY <1>4 DEF VerifyTimeEvidence, FinalizeRun, Interrupt
  <2> QED BY <2>1, <2>2, GoesOnWithLock
<1>5. ASSUME NEW r \in Runs,
             TearDown(r) \/ CheckResidue(r) \/ PublishReport(r) \/ ConfirmReport(r)
      PROVE  LockGivenBack'
  <2>1. /\ run'[r].phase \in {"teardown", "publish", "confirm", "release"}
        /\ \A q \in Runs \ {r} : run'[q] = run[q]
    BY <1>0, <1>5 DEF TearDown, CheckResidue, PublishReport, ConfirmReport, Process
  <2>2. (\A q \in Runs \ {r} : owned'[q] = owned[q]) /\ UNCHANGED lock
    BY <1>0, <1>5 DEF TearDown, CheckResidue, PublishReport, ConfirmReport
  <2> QED BY <2>1, <2>2, GoesOnWithLock
<1>6. ASSUME NEW r \in Runs, ReleaseHostLock(r) PROVE LockGivenBack'
  <2>1. (\A q \in Runs \ {r} : run'[q] = run[q]) /\ UNCHANGED owned
    BY <1>0, <1>6 DEF ReleaseHostLock, Over
  <2>2. lock' # r /\ lock' \in {lock, None}
    BY <1>6, ConstantsAssumption DEF ReleaseHostLock
  <2> QED BY <2>1, <2>2, ConstantsAssumption DEF LockGivenBack
<1>7. ASSUME NEW r \in Runs, Kill(r) PROVE LockGivenBack'
  <2>1. /\ run'[r].phase = "killed" /\ UNCHANGED owned
        /\ \A q \in Runs \ {r} : run'[q] = run[q]
    BY <1>0, <1>7 DEF Kill, Over, New
  <2>2. lock' \in {lock, None} /\ (lock' = r => "serial" \in owned[r])
    BY <1>7, ConstantsAssumption DEF Kill
  <2> QED BY <2>1, <2>2, ConstantsAssumption DEF LockGivenBack
<1>8. ASSUME NEW r \in Runs, BridgeEnds(r) PROVE LockGivenBack'
  <2>1. UNCHANGED run /\ \A q \in Runs \ {r} : owned'[q] = owned[q]
    BY <1>0, <1>8 DEF BridgeEnds
  <2>2. lock' \in {lock, None} /\ (run[r].phase = "killed" => lock' # r)
    BY <1>8, ConstantsAssumption DEF BridgeEnds
  <2> QED BY <2>1, <2>2, ConstantsAssumption DEF LockGivenBack
<1>9. CASE UNCHANGED vars
  BY <1>9 DEF vars, LockGivenBack
<1> QED BY <1>1, <1>2, <1>3, <1>4, <1>5, <1>6, <1>7, <1>8, <1>9 DEF Next, Step

\* A run that ends gives the lock back although its serial bridge has inherited
\* it, and after a kill the lock lives no longer than the bridge does.
THEOREM LockComesBack == Spec => []LockGivenBack
<1>1. Init => LockGivenBack
  BY ConstantsAssumption DEF Init, LockGivenBack
<1> QED BY <1>1, NextGivenBack, TypeCorrect, PTL DEF Spec
-----------------------------------------------------------------------------
(* A measurement of the host's time serves one report. *)

\* The row of the script that makes the replay token.
Consume == 21

\* No other row of the script makes one.
LEMMA ConsumeRow ==
  \A i \in 1 .. 28 : Script[i].op = "consume" <=> i = Consume
  BY DEF Script, Row, Consume

\* A process that claims success, or is on its way to claim it, has made the
\* token of its evidence: u says whether it has.
Earned(p, u) ==
  /\ p.phase = "new" => p.at = 1 /\ ~p.pending
  /\ p.phase = "script" /\ p.at > Consume => u
  /\ p.pending => u
  /\ p.phase \in {"confirm", "release", "over"} /\ p.status = 0 => u

EarnedInv ==
  /\ \A r \in Runs : Earned(run[r], used[r])
  /\ \A r, q \in Runs : used[r] /\ used[q] /\ Evidence[r] = Evidence[q] => r = q

\* A step of one process that makes no token.
LEMMA EarnedByOne ==
  ASSUME EarnedInv, NEW r \in Runs, UNCHANGED used,
         \A q \in Runs \ {r} : run'[q] = run[q], Earned(run'[r], used[r])
  PROVE  EarnedInv'
  BY DEF EarnedInv

\* Every step keeps EarnedInv.
LEMMA NextEarned == TypeOK /\ EarnedInv /\ [Next]_vars => EarnedInv'
<1> SUFFICES ASSUME TypeOK, EarnedInv, [Next]_vars PROVE EarnedInv'
  OBVIOUS
<1>0. run \in [Runs -> Process] /\ used \in [Runs -> BOOLEAN]
  BY TypeProcess DEF TypeOK
<1>1. \A r \in Runs : run[r].at \in 1 .. 28 /\ Earned(run[r], used[r])
  BY <1>0, ScriptRows DEF Process, EarnedInv
<1>2. ASSUME NEW r \in Runs, NEW op, At(r, op), op # "consume"
      PROVE  run[r].phase = "script" /\ run[r].at # Consume
  BY <1>1, <1>2, ConsumeRow DEF At
<1>3. ASSUME NEW r \in Runs, run[r].phase = "script", UNCHANGED used,
             \A q \in Runs \ {r} : run'[q] = run[q],
             run'[r].phase = "teardown", run'[r].pending = run[r].pending
      PROVE  EarnedInv'
  BY <1>1, <1>3, EarnedByOne DEF Earned
<1>4. ASSUME NEW r \in Runs, run[r].phase = "script", run[r].at # Consume, UNCHANGED used,
             \A q \in Runs \ {r} : run'[q] = run[q],
             run'[r].phase = "script", run'[r].pending = run[r].pending,
             run'[r].at = run[r].at + 1
      PROVE  EarnedInv'
  <2>1. run'[r].at > Consume => run[r].at > Consume
    BY <1>1, <1>4 DEF Consume
  <2> QED BY <1>1, <1>4, <2>1, EarnedByOne DEF Earned
<1>5. ASSUME NEW r \in Runs, Begin(r) PROVE EarnedInv'
  <2>1. /\ run[r].phase = "new" /\ run'[r].phase = "script" /\ run'[r].at = run[r].at
        /\ run'[r].pending = run[r].pending
        /\ \A q \in Runs \ {r} : run'[q] = run[q]
    BY <1>0, <1>5 DEF Begin, Process
  <2>2. UNCHANGED used /\ ~(run'[r].at > Consume)
    BY <1>1, <1>5, <2>1 DEF Begin, Earned, Consume
  <2> QED BY <1>1, <2>1, <2>2, EarnedByOne DEF Earned
<1>6. ASSUME NEW r \in Runs, AcquireHostLock(r) \/ CheckHost(r) \/ Interrupt(r)
      PROVE  EarnedInv'
  <2>1. /\ run[r].phase = "script" /\ UNCHANGED used
        /\ Interrupt(r) \/ run[r].at # Consume
    BY <1>2, <1>6 DEF AcquireHostLock, CheckHost, Interrupt
  <2>2. /\ run'[r].pending = run[r].pending
        /\ \A q \in Runs \ {r} : run'[q] = run[q]
        /\ \/ run'[r].phase = "teardown"
           \/ /\ run'[r].phase = "script" /\ run'[r].at = run[r].at + 1
              /\ ~Interrupt(r)
    BY <1>0, <1>6, <2>1 DEF AcquireHostLock, CheckHost, Interrupt, Leave, Process
  <2> QED BY <1>3, <1>4, <2>1, <2>2
<1>7. ASSUME NEW r \in Runs, Create(r) \/ Note(r) \/ RemoveNetwork(r) PROVE EarnedInv'
  <2>1. run[r].phase = "script" /\ run[r].at # Consume
    BY <1>2, <1>7 DEF Create, Note, RemoveNetwork
  <2>2. /\ run'[r].phase = "script" /\ run'[r].at = run[r].at + 1
        /\ run'[r].pending = run[r].pending
        /\ \A q \in Runs \ {r} : run'[q] = run[q]
    BY <1>0, <1>7, <2>1 DEF Create, Note, RemoveNetwork, Process
  <2>3. UNCHANGED used
    BY <1>7 DEF Create, Note, RemoveNetwork
  <2> QED BY <1>4, <2>1, <2>2, <2>3
<1>8. ASSUME NEW r \in Runs, VerifyTimeEvidence(r) PROVE EarnedInv'
  <2>1. run[r].phase = "script" /\ run[r].at = Consume
    BY <1>1, <1>8, ConsumeRow DEF VerifyTimeEvidence, At
  <2>2. CASE Leave(r, 77) /\ UNCHANGED used
    <3>1. /\ run'[r].phase = "teardown" /\ run'[r].pending = run[r].pending
          /\ \A q \in Runs \ {r} : run'[q] = run[q]
      BY <1>0, <2>2 DEF Leave, Process
    <3> QED BY <1>3, <2>1, <2>2, <3>1
  <2>3. CASE /\ ~\E q \in Runs : used[q] /\ Evidence[q] = Evidence[r]
             /\ used' = [used EXCEPT ![r] = TRUE]
             /\ run' = [run EXCEPT ![r].at = @ + 1]
    <3>1. run'[r].phase = "script" /\ \A q \in Runs \ {r} : run'[q] = run[q]
      BY <1>0, <2>1, <2>3 DEF Process
    <3>2. used'[r] /\ \A q \in Runs \ {r} : used'[q] = used[q]
      BY <1>0, <2>3
    <3>3. \A q \in Runs : Earned(run'[q], used'[q])
      <4>1. Earned(run'[r], used'[r])
        BY <3>1, <3>2 DEF Earned
      <4> QED BY <1>1, <3>1, <3>2, <4>1
    <3>4. \A p, q \in Runs : used'[p] /\ used'[q] /\ Evidence[p] = Evidence[q] => p = q
      BY <2>3, <3>2 DEF EarnedInv
    <3> QED BY <3>3, <3>4 DEF EarnedInv
  <2> QED BY <1>8, <2>2, <2>3 DEF VerifyTimeEvidence
<1>9. ASSUME NEW r \in Runs, FinalizeRun(r) PROVE EarnedInv'
  <2>1. run[r].phase = "script" /\ Script[run[r].at].op = "finalize"
    BY <1>9 DEF FinalizeRun, At
  <2>2. run[r].at > Consume
    BY <1>1, <2>1, SMTT(30) DEF Script, Row, Consume
  <2>3. used[r] /\ UNCHANGED used
    BY <1>1, <1>9, <2>1, <2>2 DEF Earned, FinalizeRun
  <2>4. run'[r].phase = "teardown" /\ \A q \in Runs \ {r} : run'[q] = run[q]
    BY <1>0, <1>9 DEF FinalizeRun, Leave, Process
  <2> QED BY <2>3, <2>4, EarnedByOne DEF Earned
<1>10. ASSUME NEW r \in Runs, TearDown(r) \/ CheckResidue(r) PROVE EarnedInv'
  <2>1. /\ run'[r].phase \in {"teardown", "publish"} /\ run'[r].pending = run[r].pending
        /\ \A q \in Runs \ {r} : run'[q] = run[q]
    BY <1>0, <1>10 DEF TearDown, CheckResidue, Process
  <2>2. UNCHANGED used
    BY <1>10 DEF TearDown, CheckResidue
  <2> QED BY <1>1, <2>1, <2>2, EarnedByOne DEF Earned
<1>11. ASSUME NEW r \in Runs, PublishReport(r) PROVE EarnedInv'
  <2>1. (\A q \in Runs \ {r} : run'[q] = run[q]) /\ UNCHANGED used
    BY <1>0, <1>11 DEF PublishReport
  <2>2. CASE run[r].pending
    BY <1>0, <1>1, <1>11, <2>1, <2>2, EarnedByOne DEF PublishReport, Earned, Process
  <2>3. CASE ~run[r].pending
    <3>1. /\ run'[r].phase = "release" /\ ~run'[r].pending /\ run'[r].status # 0
      BY <1>0, <1>11, <2>3 DEF PublishReport, Process
    <3> QED BY <2>1, <3>1, EarnedByOne DEF Earned
  <2> QED BY <2>2, <2>3
<1>12. ASSUME NEW r \in Runs, ConfirmReport(r) PROVE EarnedInv'
  <2>1. /\ run[r].phase = "confirm" /\ run'[r].phase = "release" /\ ~run'[r].pending
        /\ run'[r].status = 0 => run[r].status = 0
        /\ \A q \in Runs \ {r} : run'[q] = run[q]
    BY <1>0, <1>12 DEF ConfirmReport, Process
  <2>2. UNCHANGED used
    BY <1>12 DEF ConfirmReport
  <2> QED BY <1>1, <2>1, <2>2, EarnedByOne DEF Earned
<1>13. ASSUME NEW r \in Runs, ReleaseHostLock(r) PROVE EarnedInv'
  <2>1. /\ run[r].phase = "release"
        /\ run'[r].phase = "over" /\ ~run'[r].pending /\ run'[r].status = run[r].status
        /\ \A q \in Runs \ {r} : run'[q] = run[q]
    BY <1>0, <1>13 DEF ReleaseHostLock, Over, New
  <2>2. UNCHANGED used
    BY <1>13 DEF ReleaseHostLock
  <2> QED BY <1>1, <2>1, <2>2, EarnedByOne DEF Earned
<1>14. ASSUME NEW r \in Runs, Kill(r) PROVE EarnedInv'
  <2>1. /\ run'[r].phase = "killed" /\ ~run'[r].pending
        /\ \A q \in Runs \ {r} : run'[q] = run[q]
    BY <1>0, <1>14 DEF Kill, Over, New
  <2>2. UNCHANGED used
    BY <1>14 DEF Kill
  <2> QED BY <2>1, <2>2, EarnedByOne DEF Earned
<1>15. CASE (\E r \in Runs : BridgeEnds(r)) \/ UNCHANGED vars
  <2>1. UNCHANGED <<run, used>>
    BY <1>15 DEF BridgeEnds, vars
  <2> QED BY <2>1 DEF EarnedInv
<1> QED BY <1>5, <1>6, <1>7, <1>8, <1>9, <1>10, <1>11, <1>12, <1>13, <1>14, <1>15
        DEF Next, Step

\* Of the runs that present the same time evidence, however often the job is
\* retried and wherever a run is killed, at most one ends with success.
THEOREM EvidenceServesOnce == Spec => []EvidenceOnce
<1>1. ASSUME Init PROVE EarnedInv
  <2>1. \A r \in Runs : run[r] = New /\ used[r] = FALSE
    BY <1>1 DEF Init
  <2> QED BY <2>1 DEF EarnedInv, Earned, New
<1>2. EarnedInv => EvidenceOnce
  BY DEF EarnedInv, Earned, EvidenceOnce
<1> QED BY <1>1, <1>2, NextEarned, TypeCorrect, PTL DEF Spec
-----------------------------------------------------------------------------
(* What a run says of its end. *)

\* The row of the script at which a thing that was just created has no flag yet.
Unflagged(i) ==
  {res \in Resources : <<i, res>> \in {<<3, "serial">>, <<6, "vcan">>, <<11, "template">>,
                                       <<17, "denied">>, <<25, "attach">>}}

\* The row of the script at which a thing is created that has its flag already.
Preflagged(i) ==
  {res \in Resources : <<i, res>> \in {<<9, "can">>, <<14, "service">>, <<23, "security">>,
                                       <<27, "real">>}}

\* What cleanup has not come to yet when it is at row i.
Left(i) == {Teardown[j] : j \in {k \in 1 .. 9 : k >= i}}

\* The two things that a signal can leave behind unnoticed.
Unnoticed == {"serial", "template"}

\* A process p that has o on the host knows it: in the script all but the last
\* thing is flagged; in the teardown the rest is flagged and still to come, or
\* will be looked for, unless the failure is on record already.
Told(p, o) ==
  /\ p.phase = "new" => p = New /\ o = {}
  /\ p.phase = "script" =>
       /\ o \subseteq p.flags \cup Unflagged(p.at)
       /\ Preflagged(p.at) \subseteq p.flags
       /\ {"attach", "vcan"} \subseteq p.named
       /\ p.at \in 16 .. 19 => "denied" \in p.named
       /\ p.at >= 19 => "denied" \notin o
       /\ ~p.pending
  /\ p.phase = "teardown" /\ p.status # 70 =>
       /\ o \subseteq (p.flags \cap Left(p.at)) \cup p.named \cup Unnoticed
       /\ p.pending => o \subseteq p.flags \cap Left(p.at)
  /\ p.phase \in {"publish", "confirm", "release", "over"} /\ p.status # 70 =>
       o \subseteq Unnoticed
  /\ p.phase = "publish" /\ p.status # 70 /\ p.pending => o = {}

ToldInv ==
  /\ \A r \in Runs : Told(run[r], owned[r])
  /\ report # None => /\ owned[report] = {}
                      /\ run[report].phase \in {"confirm", "release", "over", "killed"}

\* The rows of the script, as the flags see them.
LEMMA FlagRowsNamed ==
  ASSUME NEW i \in 1 .. 28, NEW op, NEW res, op = Script[i].op, res = Script[i].res
  PROVE  /\ op = "create" => /\ Unflagged(i) = {} /\ Preflagged(i + 1) = {}
                             /\ res \in Unflagged(i + 1) \cup Preflagged(i)
                             /\ res = "denied" => i = 16
         /\ op = "flag" => /\ Unflagged(i) \subseteq {res}
                           /\ Preflagged(i + 1) \subseteq {res}
         /\ op \notin {"create", "flag"} => /\ Unflagged(i) = {}
                                            /\ Preflagged(i + 1) = {}
  BY DEF Script, Row, Unflagged, Preflagged, Resources, Shared, Private

\* The same, of the row's own operation and resource.
LEMMA FlagRows ==
  ASSUME NEW i \in 1 .. 28
  PROVE  /\ Script[i].op = "create" => /\ Unflagged(i) = {} /\ Preflagged(i + 1) = {}
                                       /\ Script[i].res \in Unflagged(i + 1) \cup Preflagged(i)
                                       /\ Script[i].res = "denied" => i = 16
         /\ Script[i].op = "flag" => /\ Unflagged(i) \subseteq {Script[i].res}
                                     /\ Preflagged(i + 1) \subseteq {Script[i].res}
         /\ Script[i].op \notin {"create", "flag"} => /\ Unflagged(i) = {}
                                                      /\ Preflagged(i + 1) = {}
<1> DEFINE op == Script[i].op
           res == Script[i].res
<1>1. op = Script[i].op /\ res = Script[i].res
  OBVIOUS
<1> HIDE DEF op, res
<1>2. /\ op = "create" => /\ Unflagged(i) = {} /\ Preflagged(i + 1) = {}
                          /\ res \in Unflagged(i + 1) \cup Preflagged(i)
                          /\ res = "denied" => i = 16
      /\ op = "flag" => /\ Unflagged(i) \subseteq {res}
                        /\ Preflagged(i + 1) \subseteq {res}
      /\ op \notin {"create", "flag"} => /\ Unflagged(i) = {}
                                         /\ Preflagged(i + 1) = {}
  BY <1>1, FlagRowsNamed
<1> QED BY <1>1, <1>2, Zenon

\* The rows about the network that is to be denied.
LEMMA DeniedRows ==
  ASSUME NEW i \in 1 .. 28, NEW op, NEW res, op = Script[i].op, res = Script[i].res
  PROVE  /\ op = "name" <=> i = 15
         /\ op = "remove" <=> i = 18
         /\ op = "forget" <=> i = 19
         /\ op = "unflag" <=> i = 20
         /\ op \in {"name", "remove", "forget", "unflag"} => res = "denied"
  BY DEF Script, Row

\* A step of one process, which adds to nothing else on the host.
LEMMA ToldByOne ==
  ASSUME ToldInv, NEW r \in Runs, Told(run'[r], owned'[r]),
         \A q \in Runs \ {r} : run'[q] = run[q] /\ owned'[q] \subseteq owned[q],
         owned' \in [Runs \cup {Site} -> SUBSET Resources],
         report' \in Runs \cup {None},
         report' # None =>
           \/ report' = report /\ owned'[report] \subseteq owned[report]
              /\ run'[report].phase \in {"confirm", "release", "over", "killed"}
           \/ report' = r /\ owned'[r] = {} /\ run'[r].phase = "confirm"
  PROVE  ToldInv'
<1>1. \A q \in Runs \ {r} : Told(run'[q], owned'[q])
  <2>1. ASSUME NEW p, NEW o, NEW s, s \subseteq o, Told(p, o) PROVE Told(p, s)
    BY <2>1 DEF Told
  <2> QED BY <2>1 DEF ToldInv
<1> QED BY <1>1 DEF ToldInv

\* The script is left, however far it has come.
LEMMA LeavingTold ==
  ASSUME NEW p \in Process, NEW o \in SUBSET Resources, Told(p, o), p.phase = "script",
         NEW q \in Process, q.phase = "teardown", q.at = 1, q.flags = p.flags,
         q.named = p.named, q.pending => o \subseteq p.flags
  PROVE  Told(q, o)
<1>1. Resources \subseteq Left(1)
  BY DEF Left, Teardown, Resources, Shared, Private
<1>2. p.at \in 1 .. 28
  BY ScriptRows DEF Process
<1>3. Unflagged(p.at) \subseteq p.named \cup Unnoticed
  BY <1>2 DEF Told, Unflagged, Unnoticed
<1>4. o \subseteq p.flags \cup Unflagged(p.at)
  BY DEF Told
<1> QED BY <1>1, <1>3, <1>4 DEF Told

\* A command or an assignment of the script.
LEMMA ScriptTold ==
  ASSUME TypeOK, ToldInv, NEW r \in Runs, Create(r) \/ Note(r) \/ RemoveNetwork(r)
  PROVE  ToldInv'
<1> DEFINE p == run[r]
<1> DEFINE i == run[r].at
<1> DEFINE res == Script[i].res
<1>0. /\ run \in [Runs -> Process] /\ report \in Runs \cup {None}
      /\ owned \in [Runs \cup {Site} -> SUBSET Resources]
      /\ p \in Process /\ i \in 1 .. 28 /\ p.flags \in SUBSET Resources
  BY TypeProcess, ScriptRows DEF TypeOK, Process
<1>1. Told(p, owned[r]) /\ p.phase = "script" /\ ~p.pending
  BY DEF ToldInv, Told, Create, Note, RemoveNetwork, At
<1>2. /\ owned[r] \subseteq p.flags \cup Unflagged(i)
      /\ {"attach", "vcan"} \subseteq p.named
      /\ Preflagged(i) \subseteq p.flags
      /\ i \in 16 .. 19 => "denied" \in p.named
      /\ i >= 19 => "denied" \notin owned[r]
  BY <1>1 DEF Told
<1>3. UNCHANGED <<report, lock>> /\ \A q \in Runs \ {r} : run'[q] = run[q]
  BY <1>0 DEF Create, Note, RemoveNetwork
<1>4. owned' \in [Runs \cup {Site} -> SUBSET Resources]
  <2>1. Create(r) => Res(r) \in Resources
    BY <1>0, ScriptRows DEF Create, At, Res
  <2> QED BY <1>0, <2>1 DEF Create, Note, RemoveNetwork
<1>5. \A q \in Runs \ {r} : owned'[q] \subseteq owned[q]
  BY <1>0 DEF Create, Note, RemoveNetwork
<1>6. ASSUME run'[r].phase = "script", run'[r].at = i + 1, ~run'[r].pending,
             owned'[r] \subseteq run'[r].flags \cup Unflagged(i + 1),
             Preflagged(i + 1) \subseteq run'[r].flags,
             {"attach", "vcan"} \subseteq run'[r].named,
             i + 1 \in 16 .. 19 => "denied" \in run'[r].named,
             i + 1 >= 19 => "denied" \notin owned'[r]
      PROVE  ToldInv'
  <2>1. Told(run'[r], owned'[r])
    BY <1>6 DEF Told
  <2>2. report # None => report # r /\ run[report].phase \in {"confirm", "release", "over", "killed"}
    BY <1>1 DEF ToldInv
  <2> QED BY <1>0, <1>3, <1>4, <1>5, <2>1, <2>2, ToldByOne
<1>7. CASE Create(r)
  <2>1. /\ run'[r].phase = "script" /\ run'[r].at = i + 1 /\ run'[r].flags = p.flags
        /\ run'[r].named = p.named /\ run'[r].pending = p.pending
    BY <1>0, <1>1, <1>7 DEF Create, Process
  <2>2. Script[i].op = "create" /\ owned'[r] = owned[r] \cup {res}
    BY <1>0, <1>7 DEF Create, At, Res
  <2>3. /\ Unflagged(i) = {} /\ Preflagged(i + 1) = {}
        /\ res \in Unflagged(i + 1) \cup Preflagged(i)
        /\ res = "denied" => i = 16
    BY <1>0, <2>2, FlagRows
  <2>4. i # 15
    BY <1>0, <2>2, DeniedRows
  <2> HIDE DEF p, i, res
  <2>5. i + 1 \in 16 .. 19 => "denied" \in p.named
    BY <1>0, <1>2, <2>4
  <2>6. i + 1 >= 19 => "denied" \notin owned'[r]
    <3>1. i # 18
      BY <1>0, <2>2, DeniedRows DEF i
    <3> QED BY <1>0, <1>2, <2>2, <2>3, <3>1
  <2> QED BY <1>1, <1>2, <1>6, <2>1, <2>2, <2>3, <2>5, <2>6
<1>8. CASE RemoveNetwork(r)
  <2>1. /\ run'[r].phase = "script" /\ run'[r].at = i + 1 /\ run'[r].flags = p.flags
        /\ run'[r].named = p.named /\ run'[r].pending = p.pending
    BY <1>0, <1>1, <1>8 DEF RemoveNetwork, Process
  <2>2. Script[i].op = "remove" /\ owned'[r] = owned[r] \ {res}
    BY <1>0, <1>8 DEF RemoveNetwork, At, Res
  <2>3. /\ Unflagged(i) = {} /\ Preflagged(i + 1) = {} /\ i = 18 /\ res = "denied"
    <3>1. Unflagged(i) = {} /\ Preflagged(i + 1) = {}
      BY <1>0, <2>2, FlagRows
    <3>2. i = 18 /\ res = "denied"
      BY <1>0, <2>2, DeniedRows
    <3> QED BY <3>1, <3>2
  <2> HIDE DEF p, i, res
  <2> QED BY <1>1, <1>2, <1>6, <2>1, <2>2, <2>3
<1>9. CASE Note(r)
  <2>1. run'[r].phase = "script" /\ run'[r].at = i + 1 /\ run'[r].pending = p.pending
    BY <1>0, <1>1, <1>9 DEF Note, Process
  <2>2. owned'[r] = owned[r]
    BY <1>9 DEF Note
  <2>3. CASE Script[i].op = "flag" /\ run' = [run EXCEPT ![r].flags = @ \cup {Res(r)}, ![r].at = @ + 1]
    <3>1. run'[r].flags = p.flags \cup {res} /\ run'[r].named = p.named
      BY <1>0, <2>3 DEF Process, Res
    <3>2. Unflagged(i) \subseteq {res} /\ Preflagged(i + 1) \subseteq {res}
      BY <1>0, <2>3, FlagRows
    <3>3. i \notin {15, 18}
      BY <1>0, <2>3, DeniedRows
    <3> HIDE DEF p, i, res
    <3> QED BY <1>0, <1>1, <1>2, <1>6, <2>1, <2>2, <3>1, <3>2, <3>3
  <2>4. CASE Script[i].op = "unflag" /\ run' = [run EXCEPT ![r].flags = @ \ {Res(r)}, ![r].at = @ + 1]
    <3>1. run'[r].flags = p.flags \ {res} /\ run'[r].named = p.named
      BY <1>0, <2>4 DEF Process, Res
    <3>2. Unflagged(i) = {} /\ Preflagged(i + 1) = {}
      BY <1>0, <2>4, FlagRows
    <3>3. i = 20 /\ res = "denied"
      BY <1>0, <2>4, DeniedRows
    <3> HIDE DEF p, i, res
    <3> QED BY <1>1, <1>2, <1>6, <2>1, <2>2, <3>1, <3>2, <3>3
  <2>5. CASE Script[i].op = "identify" /\ run' = [run EXCEPT ![r].identified = @ \cup {Res(r)}, ![r].at = @ + 1]
    <3>1. run'[r].flags = p.flags /\ run'[r].named = p.named
      BY <1>0, <2>5 DEF Process
    <3>2. Unflagged(i) = {} /\ Preflagged(i + 1) = {}
      BY <1>0, <2>5, FlagRows
    <3>3. i \notin {15, 18}
      BY <1>0, <2>5, DeniedRows
    <3> HIDE DEF p, i, res
    <3> QED BY <1>0, <1>1, <1>2, <1>6, <2>1, <2>2, <3>1, <3>2, <3>3
  <2>6. CASE Script[i].op = "name" /\ run' = [run EXCEPT ![r].named = @ \cup {Res(r)}, ![r].at = @ + 1]
    <3>1. run'[r].flags = p.flags /\ run'[r].named = p.named \cup {res}
      BY <1>0, <2>6 DEF Process, Res
    <3>2. Unflagged(i) = {} /\ Preflagged(i + 1) = {}
      BY <1>0, <2>6, FlagRows
    <3>3. i = 15 /\ res = "denied"
      BY <1>0, <2>6, DeniedRows
    <3> HIDE DEF p, i, res
    <3> QED BY <1>1, <1>2, <1>6, <2>1, <2>2, <3>1, <3>2, <3>3
  <2>7. CASE Script[i].op = "forget" /\ run' = [run EXCEPT ![r].named = @ \ {Res(r)}, ![r].at = @ + 1]
    <3>1. run'[r].flags = p.flags /\ run'[r].named = p.named \ {res}
      BY <1>0, <2>7 DEF Process, Res
    <3>2. Unflagged(i) = {} /\ Preflagged(i + 1) = {}
      BY <1>0, <2>7, FlagRows
    <3>3. i = 19 /\ res = "denied"
      BY <1>0, <2>7, DeniedRows
    <3> HIDE DEF p, i, res
    <3> QED BY <1>1, <1>2, <1>6, <2>1, <2>2, <3>1, <3>2, <3>3
  <2> QED BY <1>9, <2>3, <2>4, <2>5, <2>6, <2>7 DEF Note, At
<1> QED BY <1>7, <1>8, <1>9

\* One row of the teardown, and the look for what is left.
LEMMA CleanupTold ==
  ASSUME TypeOK, ToldInv, NEW r \in Runs, TearDown(r) \/ CheckResidue(r)
  PROVE  ToldInv'
<1> DEFINE p == run[r]
<1>0. /\ run \in [Runs -> Process] /\ report \in Runs \cup {None}
      /\ owned \in [Runs \cup {Site} -> SUBSET Resources]
      /\ p \in Process /\ p.at \in 1 .. 28
  BY TypeProcess, ScriptRows DEF TypeOK, Process
<1>1. Told(p, owned[r]) /\ p.phase = "teardown"
  BY DEF ToldInv, TearDown, CheckResidue
<1>2. UNCHANGED report /\ \A q \in Runs \ {r} : run'[q] = run[q] /\ owned'[q] = owned[q]
  BY <1>0 DEF TearDown, CheckResidue
<1>3. owned' \in [Runs \cup {Site} -> SUBSET Resources] /\ owned'[r] \subseteq owned[r]
  BY <1>0 DEF TearDown, CheckResidue
<1>4. ASSUME Told(run'[r], owned'[r]) PROVE ToldInv'
  <2>1. report # None => report # r /\ run[report].phase \in {"confirm", "release", "over", "killed"}
    BY <1>1 DEF ToldInv
  <2> QED BY <1>0, <1>2, <1>3, <1>4, <2>1, ToldByOne
<1>5. CASE TearDown(r)
  <2> DEFINE res == Teardown[p.at]
  <2>1. /\ p.at \in 1 .. 9
        /\ run'[r].phase = "teardown" /\ run'[r].at = p.at + 1 /\ run'[r].flags = p.flags
        /\ run'[r].named = p.named /\ run'[r].pending = p.pending
        /\ run'[r].status \in {p.status, 70}
    BY <1>0, <1>1, <1>5, TeardownRows DEF TearDown, Process
  <2>2. run'[r].status # 70 =>
          \/ res \notin p.flags /\ owned'[r] = owned[r]
          \/ owned'[r] = owned[r] \ {res}
    BY <1>0, <1>5 DEF TearDown, Process
  <2>3. Left(p.at) \subseteq {res} \cup Left(p.at + 1)
    <3> SUFFICES ASSUME NEW j \in 1 .. 9, j >= p.at
                 PROVE  Teardown[j] \in {res} \cup Left(p.at + 1)
      BY <2>1 DEF Left
    <3>1. CASE j = p.at
      BY <3>1
    <3>2. CASE j >= p.at + 1
      BY <3>2 DEF Left
    <3> QED BY <2>1, <3>1, <3>2
  <2> HIDE DEF p, res
  <2>4. p.status # 70 =>
          /\ owned[r] \subseteq (p.flags \cap Left(p.at)) \cup p.named \cup Unnoticed
          /\ p.pending => owned[r] \subseteq p.flags \cap Left(p.at)
    BY <1>1 DEF Told
  <2>5. Told(run'[r], owned'[r])
    BY <2>1, <2>2, <2>3, <2>4 DEF Told
  <2> QED BY <1>4, <2>5
<1>6. CASE CheckResidue(r)
  <2>1. /\ p.at = 10 /\ UNCHANGED owned
        /\ run'[r].phase = "publish" /\ run'[r].status \in {p.status, 70}
        /\ run'[r].pending = p.pending
    BY <1>0, <1>6, TeardownRows DEF CheckResidue, Process
  <2>2. Left(10) = {}
    BY DEF Left
  <2>3. run'[r].status # 70 => owned[r] \cap p.named = {}
    <3> SUFFICES ASSUME NEW res \in owned[r], res \in p.named PROVE run'[r].status = 70
      OBVIOUS
    <3>1. res \in Looked(r)
      BY DEF Looked
    <3>2. Exists(r, res)
      BY DEF Exists
    <3> QED BY <1>0, <1>6, <3>1, <3>2 DEF CheckResidue, Process
  <2> HIDE DEF p
  <2>4. p.status # 70 =>
          /\ owned[r] \subseteq (p.flags \cap Left(p.at)) \cup p.named \cup Unnoticed
          /\ p.pending => owned[r] \subseteq p.flags \cap Left(p.at)
    BY <1>1 DEF Told
  <2>5. Told(run'[r], owned'[r])
    BY <2>1, <2>2, <2>3, <2>4 DEF Told
  <2> QED BY <1>4, <2>5
<1> QED BY <1>5, <1>6

\* The end of a run: its report, the lock, its death.
LEMMA EndTold ==
  ASSUME TypeOK, ToldInv, NEW r \in Runs,
         PublishReport(r) \/ ConfirmReport(r) \/ ReleaseHostLock(r) \/ Kill(r)
  PROVE  ToldInv'
<1> DEFINE p == run[r]
<1>0. /\ run \in [Runs -> Process] /\ report \in Runs \cup {None}
      /\ owned \in [Runs \cup {Site} -> SUBSET Resources]
      /\ p \in Process
  BY TypeProcess DEF TypeOK
<1>1. Told(p, owned[r]) /\ UNCHANGED owned /\ \A q \in Runs \ {r} : run'[q] = run[q]
  BY <1>0 DEF ToldInv, PublishReport, ConfirmReport, ReleaseHostLock, Kill, Over
<1>2. ASSUME Told(run'[r], owned[r]),
             run'[r].phase \in {"confirm", "release", "over", "killed"},
             \/ UNCHANGED report
             \/ report' = r /\ owned[r] = {} /\ run'[r].phase = "confirm"
      PROVE  ToldInv'
  <2>1. report # None => run[report].phase \in {"confirm", "release", "over", "killed"}
    BY DEF ToldInv
  <2>2. report' \in Runs \cup {None}
    BY <1>0, <1>2
  <2> QED BY <1>0, <1>1, <1>2, <2>1, <2>2, ToldByOne
<1>3. CASE PublishReport(r)
  <2>1. CASE p.status = 0 /\ p.pending /\ report = None
    <3>1. /\ p.phase = "publish" /\ report' = r
          /\ run'[r].phase = "confirm" /\ run'[r].status = p.status
      BY <1>0, <1>3, <2>1 DEF PublishReport, Process
    <3> HIDE DEF p
    <3>2. owned[r] = {}
      BY <1>1, <2>1, <3>1 DEF Told
    <3>3. Told(run'[r], owned[r])
      BY <3>1, <3>2 DEF Told
    <3> QED BY <1>2, <3>1, <3>2, <3>3
  <2>2. CASE ~(p.status = 0 /\ p.pending /\ report = None)
    <3>1. /\ p.phase = "publish" /\ UNCHANGED report
          /\ run'[r].phase = "release" /\ run'[r].status \in {p.status, 70}
      BY <1>0, <1>3, <2>2 DEF PublishReport, Process
    <3> HIDE DEF p
    <3>2. Told(run'[r], owned[r])
      BY <1>1, <3>1 DEF Told
    <3> QED BY <1>2, <3>1, <3>2
  <2> QED BY <2>1, <2>2
<1>4. CASE ConfirmReport(r)
  <2>1. /\ p.phase = "confirm" /\ UNCHANGED report
        /\ run'[r].phase = "release" /\ run'[r].status \in {p.status, 70}
    BY <1>0, <1>4 DEF ConfirmReport, Process
  <2> HIDE DEF p
  <2>2. Told(run'[r], owned[r])
    BY <1>1, <2>1 DEF Told
  <2> QED BY <1>2, <2>1, <2>2
<1>5. CASE ReleaseHostLock(r)
  <2>1. /\ p.phase = "release" /\ UNCHANGED report
        /\ run'[r].phase = "over" /\ run'[r].status = p.status
    BY <1>0, <1>5 DEF ReleaseHostLock, Over, New
  <2> HIDE DEF p
  <2>2. Told(run'[r], owned[r])
    BY <1>1, <2>1 DEF Told
  <2> QED BY <1>2, <2>1, <2>2
<1>6. CASE Kill(r)
  <2>1. UNCHANGED report /\ run'[r].phase = "killed"
    BY <1>0, <1>6 DEF Kill, Over, New
  <2>2. Told(run'[r], owned[r])
    BY <2>1 DEF Told
  <2> QED BY <1>2, <2>1, <2>2
<1> QED BY <1>3, <1>4, <1>5, <1>6

\* A row of the script that changes nothing on the host, or ends the script.
LEMMA ControlTold ==
  ASSUME TypeOK, ToldInv, NEW r \in Runs,
         \/ AcquireHostLock(r) \/ CheckHost(r) \/ VerifyTimeEvidence(r)
         \/ FinalizeRun(r) \/ Interrupt(r)
  PROVE  ToldInv'
<1> DEFINE p == run[r]
<1>0. /\ run \in [Runs -> Process] /\ report \in Runs \cup {None}
      /\ owned \in [Runs \cup {Site} -> SUBSET Resources]
      /\ p \in Process /\ p.at \in 1 .. 28
      /\ run' \in [Runs -> Process] /\ run'[r] \in Process
  <2>1. [Next]_vars
    BY DEF Next, Step
  <2>2. TypeOK'
    BY <2>1, NextTyped
  <2> QED BY <2>2, TypeProcess, ScriptRows DEF TypeOK, Process, Statuses
<1>1. /\ Told(p, owned[r]) /\ UNCHANGED <<owned, report>>
      /\ p.phase = "script" /\ ~p.pending
      /\ \A q \in Runs \ {r} : run'[q] = run[q]
  BY <1>0 DEF ToldInv, Told, AcquireHostLock, CheckHost, VerifyTimeEvidence, FinalizeRun,
              Interrupt, At, Leave
<1>2. ASSUME Told(run'[r], owned[r]) PROVE ToldInv'
  <2>1. report # None => report # r /\ run[report].phase \in {"confirm", "release", "over", "killed"}
    BY <1>1 DEF ToldInv
  <2> QED BY <1>0, <1>1, <1>2, <2>1, ToldByOne
<1>3. ASSUME run'[r].phase = "teardown", run'[r].at = 1, run'[r].flags = p.flags,
             run'[r].named = p.named, run'[r].pending => owned[r] \subseteq p.flags
      PROVE  ToldInv'
  BY <1>0, <1>1, <1>2, <1>3, LeavingTold
<1>4. ASSUME NEW st \in Statuses, Leave(r, st) PROVE ToldInv'
  <2>1. /\ run'[r].phase = "teardown" /\ run'[r].at = 1 /\ run'[r].flags = p.flags
        /\ run'[r].named = p.named /\ run'[r].pending = p.pending
    BY <1>0, <1>4 DEF Leave, Process
  <2> QED BY <1>1, <1>3, <2>1
<1>5. CASE FinalizeRun(r) /\ report = None
  <2>1. /\ run'[r].phase = "teardown" /\ run'[r].at = 1 /\ run'[r].flags = p.flags
        /\ run'[r].named = p.named
    BY <1>0, <1>5 DEF FinalizeRun, Process
  <2>2. Unflagged(p.at) = {}
    BY <1>0, <1>5, FlagRows DEF FinalizeRun, At
  <2>3. owned[r] \subseteq p.flags
    BY <1>1, <2>2 DEF Told
  <2> QED BY <1>3, <2>1, <2>3
<1>6. CASE run' = [run EXCEPT ![r].at = @ + 1] /\ ~FinalizeRun(r) /\ ~Interrupt(r)
  <2>1. /\ run'[r].phase = "script" /\ run'[r].at = p.at + 1 /\ run'[r].flags = p.flags
        /\ run'[r].named = p.named /\ run'[r].pending = p.pending
    BY <1>0, <1>1, <1>6 DEF Process
  <2>2. Script[p.at].op \in {"lock", "check", "consume"}
    BY <1>6 DEF AcquireHostLock, CheckHost, VerifyTimeEvidence, At
  <2>3. Unflagged(p.at) = {} /\ Preflagged(p.at + 1) = {}
    <3>1. Script[p.at].op \notin {"create", "flag"}
      BY <2>2
    <3> HIDE DEF p
    <3> QED BY <1>0, <3>1, FlagRows
  <2>4. p.at \notin {15, 18}
    BY <1>0, <2>2, DeniedRows
  <2> HIDE DEF p
  <2>5. Told(run'[r], owned[r])
    BY <1>0, <1>1, <2>1, <2>3, <2>4 DEF Told
  <2> QED BY <1>2, <2>5
<1>7. {1, 73, 75, 77} \subseteq Statuses
  BY DEF Statuses
<1> QED BY <1>4, <1>5, <1>6, <1>7
        DEF AcquireHostLock, CheckHost, VerifyTimeEvidence, FinalizeRun, Interrupt

\* Every step keeps ToldInv.
LEMMA NextTold == TypeOK /\ ToldInv /\ [Next]_vars => ToldInv'
<1> SUFFICES ASSUME TypeOK, ToldInv, [Next]_vars PROVE ToldInv'
  OBVIOUS
<1>0. /\ run \in [Runs -> Process] /\ report \in Runs \cup {None}
      /\ owned \in [Runs \cup {Site} -> SUBSET Resources]
  BY TypeProcess DEF TypeOK
<1>1. ASSUME NEW r \in Runs, Begin(r) PROVE ToldInv'
  <2>1. run[r] = New /\ owned[r] = {} /\ UNCHANGED owned /\ report' = None
    BY <1>1 DEF Begin, ToldInv, Told
  <2>2. /\ run'[r].phase = "script" /\ run'[r].at = 1 /\ ~run'[r].pending
        /\ run'[r].named = {"attach", "vcan", "service"}
        /\ \A q \in Runs \ {r} : run'[q] = run[q]
    BY <1>0, <1>1, <2>1 DEF Begin, New
  <2>3. Preflagged(1) = {}
    BY DEF Preflagged
  <2>4. Told(run'[r], owned'[r])
    BY <2>1, <2>2, <2>3 DEF Told
  <2> QED BY <1>0, <2>1, <2>2, <2>4, ToldByOne
<1>2. ASSUME NEW r \in Runs, BridgeEnds(r) PROVE ToldInv'
  <2>1. UNCHANGED <<run, report>> /\ \A q \in Runs : owned'[q] \subseteq owned[q]
    BY <1>0, <1>2 DEF BridgeEnds
  <2>2. ASSUME NEW p, NEW o, NEW s, s \subseteq o, Told(p, o) PROVE Told(p, s)
    BY <2>2 DEF Told
  <2> QED BY <1>0, <2>1, <2>2 DEF ToldInv
<1>3. CASE UNCHANGED vars
  BY <1>3 DEF vars, ToldInv
<1> QED BY <1>1, <1>2, <1>3, ScriptTold, CleanupTold, EndTold, ControlTold DEF Next, Step

\* A report is out only while its run has nothing left on the host, and a run
\* that ends by itself with another status than 70 has left nothing but what a
\* signal let it make unnoticed: cleanup_owned_host_resources and the check of
\* what remains miss nothing else, wherever the script was interrupted.
THEOREM OutcomeAlwaysTrue == Spec => []OutcomeTrue
<1>1. ASSUME Init PROVE ToldInv
  <2>1. \A r \in Runs : run[r] = New /\ owned[r] = {}
    BY <1>1, ConstantsAssumption DEF Init
  <2> QED BY <1>1, <2>1 DEF ToldInv, Told, New, Init
<1>2. ToldInv => OutcomeTrue
  BY DEF ToldInv, Told, OutcomeTrue, ReportOnlyClean, LeftoversTold, Unnoticed
<1> QED BY <1>1, <1>2, NextTold, TypeCorrect, PTL DEF Spec
-----------------------------------------------------------------------------
(* Nobody else's resources are touched. *)

\* Between the look at the host's names and the command that takes one of them,
\* nobody else has anything under that name.
HostFree ==
  \A r \in Runs, o \in Runs \cup {Site} :
    run[r].phase = "script" /\ o # r =>
      /\ run[r].at \in 5 .. 9 => "can" \notin owned[o]
      /\ run[r].at \in 5 .. 10 => "template" \notin owned[o]

\* Where the script looks at the names, and where it takes them.
LEMMA SharedRows ==
  ASSUME NEW i \in 1 .. 28
  PROVE  /\ i = 4 <=> Script[i].op = "check"
         /\ i \in {1, 5, 6, 7, 8} => Script[i].op # "create" \/ Script[i].res \notin Shared
         /\ Script[i].op = "create" /\ Script[i].res \in Shared =>
              <<i, Script[i].res>> \in {<<9, "can">>, <<10, "template">>}
  BY DEF Script, Row, Shared

\* A step of a process that does not reach a row where the names must be free,
\* or had got that far before, and after which nobody else has more.
LEMMA HostFreeByOne ==
  ASSUME HostFree, NEW r \in Runs,
         \A q \in Runs \ {r} : run'[q] = run[q],
         run'[r].phase = "script" /\ run'[r].at \in 5 .. 10 =>
           run[r].phase = "script" /\ run[r].at \in Nat /\ run'[r].at = run[r].at + 1 /\ run[r].at # 4,
         \A o \in (Runs \cup {Site}) : owned'[o] \cap Shared \subseteq owned[o]
  PROVE  HostFree'
<1>1. ASSUME NEW q \in Runs, NEW o \in Runs \cup {Site}, o # q, run'[q].phase = "script"
      PROVE  /\ run'[q].at \in 5 .. 9 => "can" \notin owned'[o]
             /\ run'[q].at \in 5 .. 10 => "template" \notin owned'[o]
  <2>1. run'[q].at \in 5 .. 10 =>
          run[q].phase = "script" /\ run[q].at \in 5 .. 10 /\ run[q].at \in {run'[q].at, run'[q].at - 1}
    BY <1>1
  <2> QED BY <1>1, <2>1 DEF HostFree, Shared
<1> QED BY <1>1 DEF HostFree

\* Every step keeps HostFree.
LEMMA NextFree == TypeOK /\ LockInv /\ HostFree /\ [Next]_vars => HostFree'
<1> SUFFICES ASSUME TypeOK, LockInv, HostFree, [Next]_vars PROVE HostFree'
  OBVIOUS
<1>0. /\ run \in [Runs -> Process]
      /\ owned \in [Runs \cup {Site} -> SUBSET Resources]
      /\ \A r \in Runs : run[r].at \in 1 .. 28
  BY TypeProcess, ScriptRows DEF TypeOK, Process
<1>1. ASSUME NEW r \in Runs, run'[r].phase # "script",
             \A q \in Runs \ {r} : run'[q] = run[q],
             \A o \in Runs \cup {Site} : owned'[o] \subseteq owned[o]
      PROVE  HostFree'
  BY <1>1, HostFreeByOne
<1>2. ASSUME NEW r \in Runs, run[r].phase = "script", run[r].at # 4,
             run' = [run EXCEPT ![r].at = @ + 1],
             \A o \in Runs \cup {Site} : owned'[o] \subseteq owned[o]
      PROVE  HostFree'
  <2>1. run'[r].at = run[r].at + 1 /\ \A q \in Runs \ {r} : run'[q] = run[q]
    BY <1>0, <1>2 DEF Process
  <2> QED BY <1>0, <1>2, <2>1, HostFreeByOne
<1>3. ASSUME NEW r \in Runs, NEW st, Leave(r, st), UNCHANGED owned PROVE HostFree'
  <2>1. run'[r].phase = "teardown" /\ \A q \in Runs \ {r} : run'[q] = run[q]
    BY <1>0, <1>3 DEF Leave, Process
  <2> QED BY <1>1, <1>3, <2>1
<1>4. ASSUME NEW r \in Runs, Begin(r) PROVE HostFree'
  <2>1. /\ run'[r].phase = "script" /\ run'[r].at = run[r].at
        /\ \A q \in Runs \ {r} : run'[q] = run[q]
    BY <1>0, <1>4 DEF Begin, Process
  <2>2. run[r].at = 1 /\ UNCHANGED owned
    BY <1>4 DEF Begin, LockInv
  <2> QED BY <1>0, <2>1, <2>2, HostFreeByOne
<1>5. ASSUME NEW r \in Runs, AcquireHostLock(r) \/ VerifyTimeEvidence(r) PROVE HostFree'
  <2>1. run[r].phase = "script" /\ run[r].at # 4 /\ UNCHANGED owned
    BY <1>0, <1>5, SharedRows DEF AcquireHostLock, VerifyTimeEvidence, At
  <2> QED BY <1>2, <1>3, <1>5, <2>1 DEF AcquireHostLock, VerifyTimeEvidence
<1>6. ASSUME NEW r \in Runs, CheckHost(r) PROVE HostFree'
  <2>1. CASE \E res \in Shared : Exists(r, res)
    BY <1>3, <1>6, <2>1 DEF CheckHost
  <2>2. CASE ~\E res \in Shared : Exists(r, res)
    <3>1. \A o \in Runs \cup {Site} : "can" \notin owned[o] /\ "template" \notin owned[o]
      BY <2>2 DEF Exists, Shared
    <3>2. (\A q \in Runs \ {r} : run'[q] = run[q]) /\ UNCHANGED owned
      BY <1>0, <1>6, <2>2 DEF CheckHost
    <3> QED BY <3>1, <3>2 DEF HostFree
  <2> QED BY <2>1, <2>2
<1>7. ASSUME NEW r \in Runs, Create(r) PROVE HostFree'
  <2>1. run[r].phase = "script" /\ run[r].at # 4 /\ run[r].at # 1
    BY <1>0, <1>7, SharedRows, ScriptRows DEF Create, At
  <2>2. /\ run'[r].phase = "script" /\ run'[r].at = run[r].at + 1
        /\ \A q \in Runs \ {r} : run'[q] = run[q]
    BY <1>0, <1>7, <2>1 DEF Create, Process
  <2>3. /\ \A o \in (Runs \cup {Site}) \ {r} : owned'[o] \subseteq owned[o]
        /\ owned'[r] = owned[r] \cup {Res(r)}
    BY <1>0, <1>7 DEF Create
  <2>4. \A q \in Runs \ {r} : ~(run[q].phase = "script" /\ run[q].at # 1)
    BY <2>1 DEF LockInv
  <2>5. ASSUME NEW q \in Runs, NEW o \in Runs \cup {Site}, o # q, run'[q].phase = "script"
        PROVE  /\ run'[q].at \in 5 .. 9 => "can" \notin owned'[o]
               /\ run'[q].at \in 5 .. 10 => "template" \notin owned'[o]
    <3>1. CASE q = r
      <4>1. run'[q].at \in 5 .. 10 => run[q].at \in 5 .. 9 /\ run[q].at = run'[q].at - 1
        BY <1>0, <2>1, <2>2, <3>1
      <4> QED BY <2>1, <2>3, <2>5, <3>1, <4>1 DEF HostFree
    <3>2. CASE q # r
      BY <2>2, <2>4, <2>5, <3>2
    <3> QED BY <3>1, <3>2
  <2> QED BY <2>5 DEF HostFree
<1>8. ASSUME NEW r \in Runs, Note(r) \/ RemoveNetwork(r) PROVE HostFree'
  <2>1. run[r].phase = "script" /\ run[r].at # 4
    BY <1>0, <1>8, SharedRows DEF Note, RemoveNetwork, At
  <2>2. /\ run'[r].phase = "script" /\ run'[r].at = run[r].at + 1
        /\ \A q \in Runs \ {r} : run'[q] = run[q]
    BY <1>0, <1>8, <2>1 DEF Note, RemoveNetwork, Process
  <2>3. \A o \in Runs \cup {Site} : owned'[o] \subseteq owned[o]
    BY <1>0, <1>8 DEF Note, RemoveNetwork
  <2> QED BY <1>0, <2>1, <2>2, <2>3, HostFreeByOne
<1>9. ASSUME NEW r \in Runs, FinalizeRun(r) \/ Interrupt(r) PROVE HostFree'
  <2>1. /\ run'[r].phase = "teardown" /\ UNCHANGED owned
        /\ \A q \in Runs \ {r} : run'[q] = run[q]
    BY <1>0, <1>9 DEF FinalizeRun, Interrupt, Leave, Process
  <2> QED BY <1>1, <2>1
<1>10. ASSUME NEW r \in Runs,
              \/ TearDown(r) \/ CheckResidue(r) \/ PublishReport(r) \/ ConfirmReport(r)
       PROVE  HostFree'
  <2>1. /\ run'[r].phase \in {"teardown", "publish", "confirm", "release"}
        /\ \A q \in Runs \ {r} : run'[q] = run[q]
    BY <1>0, <1>10 DEF TearDown, CheckResidue, PublishReport, ConfirmReport, Process
  <2>2. \A o \in Runs \cup {Site} : owned'[o] \subseteq owned[o]
    BY <1>0, <1>10 DEF TearDown, CheckResidue, PublishReport, ConfirmReport
  <2> QED BY <1>1, <2>1, <2>2
<1>11. ASSUME NEW r \in Runs, ReleaseHostLock(r) \/ Kill(r) PROVE HostFree'
  <2>1. /\ run'[r].phase \in {"over", "killed"} /\ UNCHANGED owned
        /\ \A q \in Runs \ {r} : run'[q] = run[q]
    BY <1>0, <1>11 DEF ReleaseHostLock, Kill, Over, New
  <2> QED BY <1>1, <2>1
<1>12. ASSUME NEW r \in Runs, BridgeEnds(r) PROVE HostFree'
  <2>1. UNCHANGED run /\ \A o \in Runs \cup {Site} : owned'[o] \subseteq owned[o]
    BY <1>0, <1>12 DEF BridgeEnds
  <2> QED BY <2>1 DEF HostFree
<1>13. CASE UNCHANGED vars
  BY <1>13 DEF vars, HostFree
<1> QED BY <1>4, <1>5, <1>6, <1>7, <1>8, <1>9, <1>10, <1>11, <1>12, <1>13 DEF Next, Step

\* What a step leaves of what others have on the host.
LEMMA NextSpares ==
  TypeOK /\ HostFree /\ [Next]_vars =>
    /\ owned'[Site] = owned[Site]
    /\ \A r \in Runs :
         run[r].phase \in {"over", "killed"} => owned[r] \ {"serial"} \subseteq owned'[r]
<1> SUFFICES ASSUME TypeOK, HostFree, [Next]_vars
             PROVE  /\ owned'[Site] = owned[Site]
                    /\ \A r \in Runs : run[r].phase \in {"over", "killed"} =>
                                         owned[r] \ {"serial"} \subseteq owned'[r]
  OBVIOUS
<1>0. /\ owned \in [Runs \cup {Site} -> SUBSET Resources]
      /\ \A r \in Runs : run[r].at \in 1 .. 28
  BY TypeProcess, ScriptRows DEF TypeOK, Process
<1>1. ASSUME NEW r \in Runs, Create(r)
      PROVE  \A o \in (Runs \cup {Site}) \ {r} : owned'[o] = owned[o]
  <2> SUFFICES ASSUME NEW o \in Runs \cup {Site}, o # r
               PROVE  (Shared \cap {Res(r)}) \cap owned[o] = {}
    BY <1>0, <1>1 DEF Create
  <2>1. run[r].phase = "script" /\ Script[run[r].at].op = "create" /\ Res(r) = Script[run[r].at].res
    BY <1>1 DEF Create, At, Res
  <2>2. Res(r) \in Shared => <<run[r].at, Res(r)>> \in {<<9, "can">>, <<10, "template">>}
    BY <1>0, <2>1, SharedRows
  <2> QED BY <2>1, <2>2 DEF HostFree
<1>2. ASSUME NEW r \in Runs, Create(r) \/ RemoveNetwork(r) \/ TearDown(r)
      PROVE  /\ run[r].phase \in {"script", "teardown"} /\ Site # r
             /\ \A o \in (Runs \cup {Site}) \ {r} : owned'[o] = owned[o]
  BY <1>0, <1>1, <1>2, ConstantsAssumption DEF Create, RemoveNetwork, TearDown, At
<1>3. ASSUME NEW r \in Runs, BridgeEnds(r)
      PROVE  /\ owned'[Site] = owned[Site]
             /\ \A q \in Runs : owned[q] \ {"serial"} \subseteq owned'[q]
  BY <1>0, <1>3, ConstantsAssumption DEF BridgeEnds
<1>4. CASE UNCHANGED owned
  BY <1>4
<1>5. \/ UNCHANGED owned
      \/ \E r \in Runs : Create(r) \/ RemoveNetwork(r) \/ TearDown(r) \/ BridgeEnds(r)
  BY DEF Next, Step, vars, Begin, AcquireHostLock, CheckHost, Note, VerifyTimeEvidence,
         FinalizeRun, Interrupt, CheckResidue, PublishReport, ConfirmReport,
         ReleaseHostLock, Kill
<1> QED BY <1>2, <1>3, <1>4, <1>5

\* Of any number of runs none takes away what the site has, or what a run that
\* was killed or is over has left for a person to look at: under a shared name
\* nobody else can have put anything since prepare_vcan_gateway looked.
THEOREM SparesOthers == Spec => OthersUntouched
<1>1. ASSUME Init PROVE LockInv /\ HostFree
  <2>1. \A r \in Runs : run[r].phase = "new" /\ run[r].at = 1 /\ owned[r] = {}
    BY <1>1, ConstantsAssumption DEF Init, New
  <2> QED BY <2>1 DEF LockInv, HostFree, Alive
<1> QED BY <1>1, NextLock, NextFree, NextSpares, TypeCorrect, PTL DEF Spec, OthersUntouched
=============================================================================
