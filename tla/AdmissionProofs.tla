--------------------------- MODULE AdmissionProofs ---------------------------
(***************************************************************************)
(* What is let in before anything is executed.  First the permit gate, for *)
(* any number of sessions, permits, nonces and output directories; then    *)
(* the inputs and the result of a playback, for any number of recordings   *)
(* and any number of changes made to them.  The two share nothing.         *)
(***************************************************************************)
EXTENDS PermitPreflight, Playback, TLAPS, SequenceTheorems

-----------------------------------------------------------------------------
(* The permit gate. *)


\* A session's documents are there when its phase needs them; v is what the
\* output directories hold.
SessionSet(x, v) ==
  /\ x.pc # "idle" => x.case \in Cases /\ x.out \in Dirs
  /\ x.pc \in {"consume", "publish"} => x.draft \in Verification
  /\ x.pc = "manifest" => v[x.out] # None
  /\ x.pc = "materialize" => x.draft \in Manifest

TypeInv == TypeOK /\ \A s \in Sessions : SessionSet(session[s], verification)

\* A slot without a session is well typed.
LEMMA IdleTyped == Idle \in Session /\ SessionSet(Idle, verification)
  BY DEF Idle, Session, SessionSet, Phases

\* The initial state is well typed.
LEMMA InitTyped == Init => TypeInv
  BY IdleTyped DEF Init, TypeInv, TypeOK

\* A session that is in a case has its permit and its nonce.
LEMMA CaseTyped ==
  ASSUME TypeInv, NEW s \in Sessions, session[s].pc # "idle"
  PROVE  /\ session[s].case \in Cases /\ session[s].out \in Dirs
         /\ session[s].case.permit \in Permit /\ Nonce(s) \in Nonces
<1>1. session[s].case \in Cases /\ session[s].out \in Dirs
  BY DEF TypeInv, SessionSet
<1>2. session[s].case \in Case
  BY <1>1, ConstantsAssumption
<1>3. session[s].case.permit \in Permit
  BY <1>2 DEF Case
<1> QED BY <1>1, <1>3 DEF Nonce, Permit

\* One session's variables change, to well-typed ones, and no verification
\* is taken away.
LEMMA SessionUpdate ==
  ASSUME TypeInv, NEW s \in Sessions, NEW x \in Session,
         SessionSet(x, verification'), session' = [session EXCEPT ![s] = x],
         \A o \in Dirs : verification[o] # None => verification'[o] # None
  PROVE  session' \in [Sessions -> Session] /\ \A q \in Sessions : SessionSet(session'[q], verification')
<1>1. session' \in [Sessions -> Session]
  BY DEF TypeInv, TypeOK
<1>2. ASSUME NEW q \in Sessions, q # s PROVE SessionSet(session'[q], verification')
  <2>1. session'[q] = session[q] /\ SessionSet(session[q], verification) /\ session[q] \in Session
    BY <1>2 DEF TypeInv, TypeOK
  <2> QED BY <2>1 DEF SessionSet, Session
<1>3. SessionSet(session'[s], verification')
  <2>1. session'[s] = x
    BY DEF TypeInv, TypeOK
  <2> QED BY <2>1 DEF SessionSet
<1> QED BY <1>1, <1>2, <1>3

\* A step that only ends session s.
LEMMA ExitTyped ==
  ASSUME TypeInv, NEW s \in Sessions, Exit(s),
         UNCHANGED <<now, nonces, verification, manifest, grants>>,
         disturbed' \subseteq Sessions
  PROVE  TypeInv'
<1>1. Idle \in Session /\ SessionSet(Idle, verification')
  BY IdleTyped DEF SessionSet, Idle
<1>2. session' \in [Sessions -> Session] /\ \A q \in Sessions : SessionSet(session'[q], verification')
  BY <1>1, SessionUpdate DEF Exit
<1> QED BY <1>2 DEF TypeInv, TypeOK

\* Starting a session, verifying its roles and deciding.
LEMMA DecisionTyped ==
  ASSUME TypeInv, NEW s \in Sessions,
         StartPreflight(s) \/ VerifyRoles(s) \/ Decide(s)
  PROVE  TypeInv'
<1>1. session[s] \in Session /\ SessionSet(session[s], verification)
  BY DEF TypeInv, TypeOK
<1>2. UNCHANGED <<now, nonces, verification, manifest, grants>> /\ disturbed' \subseteq Sessions
  BY DEF StartPreflight, VerifyRoles, Decide, TypeInv, TypeOK
<1>3. CASE StartPreflight(s)
  <2>1. PICK c \in Cases, o \in OutDirs[s], m \in Modes :
          session' = [session EXCEPT ![s] =
                        [Idle EXCEPT !.pc = "verify", !.case = c, !.out = o,
                                     !.mode = m]]
    BY <1>3 DEF StartPreflight
  <2> DEFINE x == [Idle EXCEPT !.pc = "verify", !.case = c, !.out = o, !.mode = m]
  <2>2. o \in Dirs /\ m \in Commands
    BY ConstantsAssumption DEF Dirs
  <2>3. x \in Session
    BY <2>2 DEF Idle, Session, Phases
  <2>4. SessionSet(x, verification')
    BY <2>2 DEF Idle, SessionSet
  <2>5. session' = [session EXCEPT ![s] = x]
    BY <2>1
  <2> HIDE DEF x
  <2> QED BY <1>2, <2>3, <2>4, <2>5, SessionUpdate DEF TypeInv, TypeOK
<1>4. CASE VerifyRoles(s)
  <2>1. CASE Exit(s)
    BY <1>2, <2>1, ExitTyped
  <2> DEFINE t == Transparency(session[s].mode)
             x == [session[s] EXCEPT !.pc = "decide", !.transparency = t]
  <2>2. CASE session' = [session EXCEPT ![s].pc = "decide", ![s].transparency = t]
    <3>1. t \in BOOLEAN
      BY DEF Transparency
    <3>2. session' = [session EXCEPT ![s] = x]
      BY <2>2 DEF TypeInv, TypeOK
    <3> HIDE DEF t
    <3>3. x \in Session
      BY <1>1, <3>1 DEF Session, Phases
    <3>4. SessionSet(x, verification')
      BY <1>1, <1>4 DEF VerifyRoles, Session, SessionSet
    <3> HIDE DEF x
    <3> QED BY <1>2, <3>2, <3>3, <3>4, SessionUpdate DEF TypeInv, TypeOK
  <2> QED BY <1>4, <2>1, <2>2 DEF VerifyRoles
<1>5. CASE Decide(s)
  <2>1. CASE Exit(s)
    BY <1>2, <2>1, ExitTyped
  <2> DEFINE c == session[s].case
             d == [permit |-> c.permit, case |-> c,
                   transparency |-> session[s].transparency, at |-> now]
             x == [session[s] EXCEPT !.pc = "consume", !.draft = d]
  <2>2. CASE session' = [session EXCEPT ![s].pc = "consume", ![s].draft = d]
    <3>1. c \in Cases /\ c.permit \in Permit
      BY <1>5, CaseTyped DEF Decide
    <3>2. d \in Verification
      BY <1>1, <3>1 DEF Session, Verification, TypeInv, TypeOK
    <3>3. session' = [session EXCEPT ![s] = x]
      BY <2>2 DEF TypeInv, TypeOK
    <3> HIDE DEF d
    <3>4. x \in Session
      BY <1>1, <3>2 DEF Session, Phases
    <3>5. SessionSet(x, verification')
      BY <1>1, <1>5, <3>2 DEF Decide, Session, SessionSet
    <3> HIDE DEF x
    <3> QED BY <1>2, <3>3, <3>4, <3>5, SessionUpdate DEF TypeInv, TypeOK
  <2> QED BY <1>5, <2>1, <2>2 DEF Decide
<1> QED BY <1>3, <1>4, <1>5

\* Consuming the nonce and publishing the documents.
LEMMA PublicationTyped ==
  ASSUME TypeInv, NEW s \in Sessions,
         \/ ConsumeNonce(s) \/ PublishVerification(s) \/ ReadDocuments(s)
         \/ PublishManifest(s)
  PROVE  TypeInv'
<1>1. session[s] \in Session /\ SessionSet(session[s], verification) /\ session[s].pc # "idle"
  BY DEF TypeInv, TypeOK, ConsumeNonce, PublishVerification, ReadDocuments,
         PublishManifest
<1>2. /\ session[s].case \in Cases /\ session[s].out \in Dirs
      /\ session[s].case.permit \in Permit /\ Nonce(s) \in Nonces
  BY <1>1, CaseTyped
<1>7. disturbed' \subseteq Sessions
  BY DEF TypeInv, TypeOK, ConsumeNonce, PublishVerification, ReadDocuments, PublishManifest, Beside
<1>3. CASE ConsumeNonce(s)
  <2>1. CASE Exit(s) /\ UNCHANGED nonces
    BY <1>3, <1>7, <2>1, ExitTyped DEF ConsumeNonce
  <2>2. CASE /\ nonces' = [nonces EXCEPT ![Nonce(s)] = session[s].case.permit]
             /\ Goto(s, "publish")
    <3> DEFINE x == [session[s] EXCEPT !.pc = "publish"]
    <3>1. x \in Session
      BY <1>1 DEF Session, Phases
    <3>2. SessionSet(x, verification')
      BY <1>1, <1>3 DEF ConsumeNonce, Session, SessionSet
    <3>3. session' = [session EXCEPT ![s] = x] /\ verification' = verification
      BY <1>3, <2>2 DEF ConsumeNonce, Goto, TypeInv, TypeOK
    <3> HIDE DEF x
    <3>4. session' \in [Sessions -> Session] /\ \A q \in Sessions : SessionSet(session'[q], verification')
      BY <3>1, <3>2, <3>3, SessionUpdate
    <3>5. nonces' \in [Nonces -> Permit \cup {None}]
      BY <1>2, <2>2 DEF TypeInv, TypeOK
    <3> QED BY <1>3, <1>7, <3>4, <3>5 DEF ConsumeNonce, TypeInv, TypeOK
  <2> QED BY <1>3, <2>1, <2>2 DEF ConsumeNonce
<1>4. CASE PublishVerification(s)
  <2> DEFINE x == [session[s] EXCEPT !.pc = "manifest"]
  <2>1. session[s].draft \in Verification /\ session[s].draft # None
    BY <1>1, <1>4, NoneAssumption DEF PublishVerification, SessionSet
  <2>2. /\ verification' \in [Dirs -> Verification \cup {None}]
        /\ verification'[session[s].out] # None
        /\ \A o \in Dirs : verification[o] # None => verification'[o] # None
    BY <1>2, <1>4, <2>1 DEF PublishVerification, TypeInv, TypeOK
  <2>3. x \in Session
    BY <1>1 DEF Session, Phases
  <2>4. SessionSet(x, verification')
    BY <1>1, <1>2, <1>4, <2>2 DEF PublishVerification, Session, SessionSet
  <2>5. session' = [session EXCEPT ![s] = x]
    BY <1>4 DEF PublishVerification, Goto, TypeInv, TypeOK
  <2> HIDE DEF x
  <2>6. session' \in [Sessions -> Session] /\ \A q \in Sessions : SessionSet(session'[q], verification')
    BY <2>2, <2>3, <2>4, <2>5, SessionUpdate
  <2>7. grants' \in [Nonces -> Nat]
    BY <1>2, <1>4 DEF PublishVerification, TypeInv, TypeOK
  <2> QED BY <1>7, <1>4, <2>2, <2>6, <2>7 DEF PublishVerification, TypeInv, TypeOK
<1>5. CASE ReadDocuments(s)
  <2>1. CASE Exit(s)
    BY <1>5, <1>7, <2>1, ExitTyped DEF ReadDocuments
  <2> DEFINE d == [permit |-> session[s].case.permit,
                   verification |-> verification[session[s].out]]
             x == [session[s] EXCEPT !.pc = "materialize", !.draft = d]
  <2>2. CASE session' = [session EXCEPT ![s].pc = "materialize", ![s].draft = d]
    <3>1. verification[session[s].out] \in Verification
      BY <1>1, <1>2, <1>5 DEF ReadDocuments, SessionSet, TypeInv, TypeOK
    <3>2. d \in Manifest
      BY <1>2, <3>1 DEF Manifest
    <3>3. session' = [session EXCEPT ![s] = x]
      BY <2>2 DEF TypeInv, TypeOK
    <3> HIDE DEF d
    <3>4. x \in Session
      BY <1>1, <3>2 DEF Session, Phases
    <3>5. SessionSet(x, verification')
      BY <1>1, <1>5, <3>2 DEF ReadDocuments, Session, SessionSet
    <3> HIDE DEF x
    <3> QED BY <1>5, <1>7, <3>3, <3>4, <3>5, SessionUpdate DEF ReadDocuments, TypeInv, TypeOK
  <2> QED BY <1>5, <2>1, <2>2 DEF ReadDocuments
<1>6. CASE PublishManifest(s)
  <2> DEFINE x == [session[s] EXCEPT !.pc = "observe", !.draft = None]
  <2>1. session[s].draft \in Manifest
    BY <1>1, <1>6 DEF PublishManifest, SessionSet
  <2>2. manifest' \in [Dirs -> Manifest \cup {None}]
    BY <1>2, <1>6, <2>1 DEF PublishManifest, TypeInv, TypeOK
  <2>3. x \in Session
    BY <1>1 DEF Session, Phases
  <2>4. SessionSet(x, verification')
    BY <1>1, <1>6 DEF PublishManifest, Session, SessionSet
  <2>5. session' = [session EXCEPT ![s] = x] /\ verification' = verification
    BY <1>6 DEF PublishManifest, TypeInv, TypeOK
  <2> HIDE DEF x
  <2>6. session' \in [Sessions -> Session] /\ \A q \in Sessions : SessionSet(session'[q], verification')
    BY <2>3, <2>4, <2>5, SessionUpdate
  <2> QED BY <1>7, <1>6, <2>2, <2>6 DEF PublishManifest, TypeInv, TypeOK
<1> QED BY <1>3, <1>4, <1>5, <1>6

\* Every step keeps TypeInv.
LEMMA NextTyped == TypeInv /\ [Next]_vars => TypeInv'
<1> SUFFICES ASSUME TypeInv, [Next]_vars PROVE TypeInv'
  OBVIOUS
<1>1. ASSUME NEW s \in Sessions, Stop(s) PROVE TypeInv'
  BY <1>1, ExitTyped DEF Stop, TypeInv, TypeOK
<1>2. CASE Tick
  BY <1>2 DEF Tick, TypeInv, TypeOK, SessionSet
<1>3. CASE UNCHANGED vars
  BY <1>3 DEF vars, TypeInv, TypeOK, SessionSet
<1> QED BY <1>1, <1>2, <1>3, DecisionTyped, PublicationTyped DEF Next

\* Every document of the permit gate has its type in every reachable state.
THEOREM TypeCorrect == Spec => []TypeOK
<1>1. Spec => []TypeInv
  BY InitTyped, NextTyped, PTL DEF Spec
<1>2. TypeInv => TypeOK
  BY DEF TypeInv
<1> QED BY <1>1, <1>2, PTL

-----------------------------------------------------------------------------
(* NonceOnce.  Between mkdir and mv a session owns its nonce: nobody else  *)
(* is there with the same one, and nothing was published for it before.    *)

NonceOwned ==
  /\ \A n \in Nonces : grants[n] <= 1 /\ (nonces[n] = None => grants[n] = 0)
  /\ \A s \in Sessions :
       session[s].pc = "publish" => /\ nonces[Nonce(s)] # None
                                    /\ grants[Nonce(s)] = 0
  /\ \A s, q \in Sessions :
       session[s].pc = "publish" /\ session[q].pc = "publish"
         /\ Nonce(s) = Nonce(q) => s = q

\* A step that sends session s anywhere but to "publish", and leaves nonces and
\* grants alone, keeps NonceOwned.
LEMMA QuietOwned ==
  ASSUME TypeInv, NonceOwned, NEW s \in Sessions, UNCHANGED <<nonces, grants>>,
         \A q \in Sessions \ {s} : session'[q] = session[q],
         session'[s].pc # "publish"
  PROVE  NonceOwned'
  BY DEF NonceOwned, Nonce

\* Every step keeps NonceOwned.
LEMMA NextOwned == TypeInv /\ NonceOwned /\ [Next]_vars => NonceOwned'
<1> SUFFICES ASSUME TypeInv, NonceOwned, [Next]_vars PROVE NonceOwned'
  OBVIOUS
<1>0. session \in [Sessions -> Session]
  BY DEF TypeInv, TypeOK
<1>1. ASSUME NEW s \in Sessions,
             \/ StartPreflight(s) \/ VerifyRoles(s) \/ Decide(s)
             \/ ReadDocuments(s) \/ PublishManifest(s) \/ Stop(s)
      PROVE  NonceOwned'
  <2>1. UNCHANGED <<nonces, grants>>
    BY <1>1 DEF StartPreflight, VerifyRoles, Decide, ReadDocuments,
                PublishManifest, Stop
  <2>2. session'[s].pc # "publish" /\ \A q \in Sessions \ {s} : session'[q] = session[q]
    <3>1. session[s] \in Session
      BY <1>0
    <3>2. CASE StartPreflight(s)
      BY <1>0, <3>1, <3>2 DEF StartPreflight, Idle
    <3>3. CASE VerifyRoles(s) \/ Decide(s)
      BY <1>0, <3>1, <3>3 DEF VerifyRoles, Decide, Exit, Idle, Session
    <3>4. CASE ReadDocuments(s) \/ PublishManifest(s) \/ Stop(s)
      BY <1>0, <3>1, <3>4 DEF ReadDocuments, PublishManifest, Stop, Exit, Idle, Session
    <3> QED BY <1>1, <3>2, <3>3, <3>4
  <2> QED BY <2>1, <2>2, QuietOwned
<1>2. ASSUME NEW s \in Sessions, ConsumeNonce(s) PROVE NonceOwned'
  <2>1. CASE Exit(s) /\ UNCHANGED nonces
    <3>1. session'[s].pc # "publish" /\ \A q \in Sessions \ {s} : session'[q] = session[q]
      BY <1>0, <2>1 DEF Exit, Idle
    <3> QED BY <1>2, <2>1, <3>1, QuietOwned DEF ConsumeNonce
  <2>2. CASE /\ nonces[Nonce(s)] = None
             /\ nonces' = [nonces EXCEPT ![Nonce(s)] = session[s].case.permit]
             /\ Goto(s, "publish")
    <3>1. Nonce(s) \in Nonces /\ session[s].case.permit # None
      BY <1>2, CaseTyped, NoneAssumption DEF ConsumeNonce
    <3>2. /\ \A q \in Sessions \ {s} : session'[q] = session[q]
          /\ session'[s].case = session[s].case
          /\ UNCHANGED grants
      BY <1>0, <1>2, <2>2 DEF ConsumeNonce, Goto, Session
    <3>3. \A q \in Sessions : session[q].pc = "publish" => Nonce(q) # Nonce(s)
      BY <2>2 DEF NonceOwned
    <3>4. \A q \in Sessions : session'[q].case.permit.nonce = Nonce(q)
      BY <3>2 DEF Nonce
    <3>5. \A n \in Nonces : nonces'[n] = IF n = Nonce(s) THEN session[s].case.permit
                                                         ELSE nonces[n]
      BY <2>2, <3>1 DEF TypeInv, TypeOK
    <3>6. \A q \in Sessions : session[q].pc = "publish" => Nonce(q) \in Nonces
      BY CaseTyped
    <3> QED BY <2>2, <3>1, <3>2, <3>3, <3>4, <3>5, <3>6 DEF NonceOwned, Nonce
  <2> QED BY <1>2, <2>1, <2>2 DEF ConsumeNonce
<1>3. ASSUME NEW s \in Sessions, PublishVerification(s) PROVE NonceOwned'
  <2>1. Nonce(s) \in Nonces /\ session[s].pc = "publish"
    BY <1>3, CaseTyped DEF PublishVerification
  <2>2. /\ \A q \in Sessions \ {s} : session'[q] = session[q]
        /\ session'[s].pc = "manifest"
        /\ UNCHANGED nonces
    BY <1>0, <1>3 DEF PublishVerification, Goto, Session
  <2>3. \A n \in Nonces : grants'[n] = IF n = Nonce(s) THEN 1 ELSE grants[n]
    BY <1>3, <2>1 DEF PublishVerification, NonceOwned, TypeInv, TypeOK
  <2>4. \A q \in Sessions \ {s} : session[q].pc = "publish" => /\ Nonce(q) # Nonce(s)
                                                               /\ Nonce(q) \in Nonces
    BY <2>1, CaseTyped DEF NonceOwned
  <2>5. \A q \in Sessions \ {s} : session'[q].case.permit.nonce = Nonce(q)
    BY <2>2 DEF Nonce
  <2>6. nonces[Nonce(s)] # None
    BY <2>1 DEF NonceOwned
  <2> QED BY <2>1, <2>2, <2>3, <2>4, <2>5, <2>6 DEF NonceOwned, Nonce
<1>4. CASE Tick \/ UNCHANGED vars
  BY <1>4 DEF Tick, vars, NonceOwned, Nonce
<1> QED BY <1>1, <1>2, <1>3, <1>4 DEF Next

\* A nonce never yields two verifications, however many sessions compete for
\* it and whenever they are killed.
THEOREM NonceUsedOnce == Spec => []NonceOnce
<1>1. Spec => []TypeInv
  BY InitTyped, NextTyped, PTL DEF Spec
<1>2. Init => NonceOwned
  BY DEF Init, NonceOwned, Idle
<1>3. Spec => []NonceOwned
  BY <1>1, <1>2, NextOwned, PTL DEF Spec
<1>4. NonceOwned => NonceOnce
  BY DEF NonceOwned, NonceOnce
<1> QED BY <1>3, <1>4, PTL

-----------------------------------------------------------------------------
(* What a session may rely on in each phase: the roles' attestations until *)
(* the decision, the policy's verdict until the nonce is consumed, and     *)
(* after that the documents in its own output directory.                   *)

\* A verification of permit p that was given rightly.
Given(v, p) ==
  /\ v.permit = p /\ v.case.permit = p
  /\ Signed(v.case)
  /\ p.issued <= v.at /\ v.at <= p.expires

\* Session x before its nonce is consumed.
Decided(x) ==
  /\ x.pc = "decide" => /\ \A role \in Roles : RoleAttested(x.case, role, x.mode)
                        /\ x.transparency = Transparency(x.mode)
  /\ x.pc \in {"consume", "publish"} => /\ Signed(x.case)
                                        /\ Given(x.draft, x.case.permit)

\* Every permit in the nonce store was rightly decided.
SignedInv ==
  /\ \A s \in Sessions : Decided(session[s])
  /\ ConsumedOnlySigned

\* The policy's verdict on attested roles means that the permit is signed.
LEMMA AllowedSigned ==
  ASSUME NEW c \in Cases, NEW m, NEW t \in Nat,
         \A role \in Roles : RoleAttested(c, role, m),
         Allowed(c, Transparency(m), t)
  PROVE  Signed(c) /\ c.permit.issued <= t /\ t <= c.permit.expires
<1>1. c \in Case /\ c.permit \in Permit
  BY ConstantsAssumption DEF Case
<1>2. c.permit.issued \in Nat /\ c.permit.expires \in Nat
  BY <1>1 DEF Permit
<1>3. RoleBundle(c, "operator").time \in Nat /\ RoleBundle(c, "approver").time \in Nat
  BY <1>1 DEF RoleBundle, Case, Bundle
<1>4. m # "authorize-offline-test"
  BY DEF Allowed, Transparency
<1> QED BY <1>2, <1>3, <1>4 DEF Signed, Allowed, RoleAttested, Roles

\* A step that changes session s to a rightly decided one and leaves the nonce
\* store alone keeps SignedInv.
LEMMA SessionDecided ==
  ASSUME TypeInv, SignedInv, NEW s \in Sessions, UNCHANGED nonces,
         \A q \in Sessions \ {s} : session'[q] = session[q], Decided(session'[s])
  PROVE  SignedInv'
<1>1. \A q \in Sessions : Decided(session'[q])
  BY DEF SignedInv
<1>2. ConsumedOnlySigned'
  BY DEF SignedInv, ConsumedOnlySigned
<1> QED BY <1>1, <1>2 DEF SignedInv

\* Every step keeps SignedInv.
LEMMA NextSigned == TypeInv /\ SignedInv /\ [Next]_vars => SignedInv'
<1> SUFFICES ASSUME TypeInv, SignedInv, [Next]_vars PROVE SignedInv'
  OBVIOUS
<1>0. session \in [Sessions -> Session] /\ \A s \in Sessions : session[s] \in Session
  BY DEF TypeInv, TypeOK
<1>1. ASSUME NEW s \in Sessions, Exit(s), UNCHANGED nonces PROVE SignedInv'
  <2>1. session'[s] = Idle /\ \A q \in Sessions \ {s} : session'[q] = session[q]
    BY <1>0, <1>1 DEF Exit
  <2> QED BY <1>1, <2>1, SessionDecided DEF Decided, Idle
<1>2. ASSUME NEW s \in Sessions, StartPreflight(s) PROVE SignedInv'
  <2>1. session'[s].pc = "verify" /\ \A q \in Sessions \ {s} : session'[q] = session[q]
    BY <1>0, <1>2 DEF StartPreflight, Idle
  <2> QED BY <1>2, <2>1, SessionDecided DEF StartPreflight, Decided
<1>3. ASSUME NEW s \in Sessions, VerifyRoles(s) PROVE SignedInv'
  <2>1. CASE Exit(s)
    BY <1>1, <1>3, <2>1 DEF VerifyRoles
  <2>2. CASE ~Exit(s)
    <3>1. /\ \A role \in Roles : RoleAttested(session[s].case, role, session[s].mode)
          /\ session' = [session EXCEPT ![s].pc = "decide",
                              ![s].transparency = Transparency(session[s].mode)]
      BY <1>3, <2>2 DEF VerifyRoles
    <3>2. /\ session'[s].pc = "decide" /\ session'[s].case = session[s].case
          /\ session'[s].mode = session[s].mode
          /\ session'[s].transparency = Transparency(session[s].mode)
          /\ \A q \in Sessions \ {s} : session'[q] = session[q]
      BY <1>0, <3>1 DEF Session
    <3> QED BY <1>3, <3>1, <3>2, SessionDecided DEF VerifyRoles, Decided
  <2> QED BY <2>1, <2>2
<1>4. ASSUME NEW s \in Sessions, Decide(s) PROVE SignedInv'
  <2>1. CASE Exit(s)
    BY <1>1, <1>4, <2>1 DEF Decide
  <2>2. CASE ~Exit(s)
    <3> DEFINE c == session[s].case
               d == [permit |-> c.permit, case |-> c,
                     transparency |-> session[s].transparency, at |-> now]
    <3>1. /\ Allowed(c, session[s].transparency, now)
          /\ session' = [session EXCEPT ![s].pc = "consume", ![s].draft = d]
      BY <1>4, <2>2 DEF Decide
    <3>2. c \in Cases /\ now \in Nat
      BY <1>0, <1>4, CaseTyped DEF Decide, Session, TypeInv, TypeOK
    <3>3. /\ \A role \in Roles : RoleAttested(c, role, session[s].mode)
          /\ session[s].transparency = Transparency(session[s].mode)
      BY <1>4 DEF Decide, SignedInv, Decided
    <3>4. Signed(c) /\ c.permit.issued <= now /\ now <= c.permit.expires
      BY <3>1, <3>2, <3>3, AllowedSigned
    <3>5. /\ session'[s].pc = "consume" /\ session'[s].case = c
          /\ session'[s].draft = d
          /\ \A q \in Sessions \ {s} : session'[q] = session[q]
      BY <1>0, <3>1 DEF Session
    <3>6. Given(d, c.permit)
      BY <3>4 DEF Given
    <3> HIDE DEF c, d
    <3> QED BY <1>4, <3>4, <3>5, <3>6, SessionDecided DEF Decide, Decided
  <2> QED BY <2>1, <2>2
<1>5. ASSUME NEW s \in Sessions, ConsumeNonce(s) PROVE SignedInv'
  <2>1. CASE Exit(s) /\ UNCHANGED nonces
    BY <1>1, <2>1
  <2>2. CASE /\ nonces' = [nonces EXCEPT ![Nonce(s)] = session[s].case.permit]
             /\ Goto(s, "publish")
    <3>1. session[s].case \in Cases /\ Nonce(s) \in Nonces
      BY <1>5, CaseTyped DEF ConsumeNonce
    <3>2. Signed(session[s].case) /\ Given(session[s].draft, session[s].case.permit)
      BY <1>5 DEF ConsumeNonce, SignedInv, Decided
    <3>3. \A n \in Nonces : nonces'[n] \in {nonces[n], session[s].case.permit}
      BY <2>2, <3>1 DEF TypeInv, TypeOK
    <3>4. ConsumedOnlySigned'
      BY <3>1, <3>2, <3>3 DEF SignedInv, ConsumedOnlySigned
    <3>5. /\ session'[s].case = session[s].case /\ session'[s].draft = session[s].draft
          /\ session'[s].pc = "publish"
          /\ \A q \in Sessions \ {s} : session'[q] = session[q]
      BY <1>0, <2>2 DEF Goto, Session
    <3>6. \A q \in Sessions : Decided(session'[q])
      BY <3>2, <3>5 DEF SignedInv, Decided
    <3> QED BY <3>4, <3>6 DEF SignedInv
  <2> QED BY <1>5, <2>1, <2>2 DEF ConsumeNonce
<1>6. ASSUME NEW s \in Sessions,
             PublishVerification(s) \/ ReadDocuments(s) \/ PublishManifest(s)
      PROVE  SignedInv'
  <2>1. CASE Exit(s) /\ UNCHANGED nonces
    BY <1>1, <2>1
  <2>2. CASE ~Exit(s)
    <3>1. /\ session'[s].pc \in {"manifest", "materialize", "observe"}
          /\ \A q \in Sessions \ {s} : session'[q] = session[q]
      BY <1>0, <1>6, <2>2 DEF PublishVerification, ReadDocuments, PublishManifest,
                              Goto, Session
    <3> QED BY <1>6, <3>1, SessionDecided DEF PublishVerification, ReadDocuments,
                                              PublishManifest, Decided
  <2> QED BY <1>6, <2>1, <2>2 DEF PublishVerification, ReadDocuments, PublishManifest
<1>7. CASE Tick \/ UNCHANGED vars
  BY <1>7 DEF Tick, vars, SignedInv, ConsumedOnlySigned
<1> QED BY <1>1, <1>2, <1>3, <1>4, <1>5, <1>6, <1>7 DEF Next, Stop

\* Before anything happened nothing is claimed.
LEMMA InitSigned == Init => SignedInv
  BY DEF Init, SignedInv, Decided, ConsumedOnlySigned, Idle

\* A nonce is consumed only for a permit that both roles signed in the log
\* within its lifetime.
THEOREM SignedConsumed == Spec => []ConsumedOnlySigned
<1>1. Spec => []TypeInv
  BY InitTyped, NextTyped, PTL DEF Spec
<1>2. Spec => []SignedInv
  BY <1>1, InitSigned, NextSigned, PTL DEF Spec
<1>3. SignedInv => ConsumedOnlySigned
  BY DEF SignedInv
<1> QED BY <1>2, <1>3, PTL

-----------------------------------------------------------------------------
(* The gate implements the ledger: mkdir of a nonce is Spend, the mv of its *)
(* verification is Authorize, and all the rest is invisible.        *)

\* Every step of the gate is a step of the ledger or a stutter.
LEMMA NextLedger ==
  ASSUME TypeInv, NonceOwned, SignedInv, [Next]_vars
  PROVE  [Ledger!Next]_<<nonces, grants>>
<1>1. ASSUME NEW s \in Sessions, ConsumeNonce(s), nonces[Nonce(s)] = None
      PROVE  Ledger!Next
  <2> DEFINE p == session[s].case.permit
  <2>1. Nonce(s) \in Nonces /\ session[s].case \in Cases
    BY <1>1, CaseTyped DEF ConsumeNonce
  <2>2. Signed(session[s].case)
    BY <1>1 DEF ConsumeNonce, SignedInv, Decided
  <2>3. p \in SignedPermits
    BY <2>1, <2>2 DEF SignedPermits
  <2>4. p.nonce = Nonce(s)
    BY DEF Nonce
  <2>5. nonces' = [nonces EXCEPT ![Nonce(s)] = p] /\ UNCHANGED grants
    BY <1>1 DEF ConsumeNonce
  <2> HIDE DEF p
  <2>6. Ledger!Spend(Nonce(s), p)
    BY <1>1, <2>4, <2>5 DEF Ledger!Spend
  <2> QED BY <2>1, <2>3, <2>6 DEF Ledger!Next
<1>2. ASSUME NEW s \in Sessions, ConsumeNonce(s), nonces[Nonce(s)] # None
      PROVE  UNCHANGED <<nonces, grants>>
  BY <1>2 DEF ConsumeNonce
<1>3. ASSUME NEW s \in Sessions, PublishVerification(s)
      PROVE  Ledger!Next
  <2>1. Nonce(s) \in Nonces
    BY <1>3, CaseTyped DEF PublishVerification
  <2>2. nonces[Nonce(s)] # None /\ grants[Nonce(s)] = 0
    BY <1>3 DEF PublishVerification, NonceOwned
  <2>3. grants' = [grants EXCEPT ![Nonce(s)] = 1] /\ UNCHANGED nonces
    BY <1>3, <2>1, <2>2 DEF PublishVerification, TypeInv, TypeOK
  <2>4. Ledger!Authorize(Nonce(s))
    BY <2>2, <2>3 DEF Ledger!Authorize
  <2> QED BY <2>1, <2>4 DEF Ledger!Next
<1>4. ASSUME NEW s \in Sessions,
             \/ StartPreflight(s) \/ VerifyRoles(s) \/ Decide(s)
             \/ ReadDocuments(s) \/ PublishManifest(s) \/ Stop(s)
      PROVE  UNCHANGED <<nonces, grants>>
  BY <1>4 DEF StartPreflight, VerifyRoles, Decide, ReadDocuments, PublishManifest, Stop
<1>5. ASSUME Tick \/ UNCHANGED vars PROVE UNCHANGED <<nonces, grants>>
  BY <1>5 DEF Tick, vars
<1> QED BY <1>1, <1>2, <1>3, <1>4, <1>5 DEF Next

\* The permit gate implements the ledger, for any number of sessions, permits,
\* nonces, output directories and restarts.
THEOREM ImplementsLedger == Spec => LedgerKept
<1>1. Spec => []TypeInv
  BY InitTyped, NextTyped, PTL DEF Spec
<1>2. Init => NonceOwned
  BY DEF Init, NonceOwned, Idle
<1>3. Spec => []NonceOwned
  BY <1>1, <1>2, NextOwned, PTL DEF Spec
<1>4. Spec => []SignedInv
  BY <1>1, InitSigned, NextSigned, PTL DEF Spec
<1>5. Init => Ledger!Init
  BY DEF Init, Ledger!Init
<1>6. TypeInv /\ NonceOwned /\ SignedInv /\ [Next]_vars
        => [Ledger!Next]_<<nonces, grants>>
  BY NextLedger
<1> QED BY <1>1, <1>3, <1>4, <1>5, <1>6, PTL DEF Spec, LedgerKept, Ledger!Spec

-----------------------------------------------------------------------------
(* The documents.  What lies in a directory was earned, whoever put it     *)
(* there, and stays so: a nonce that is used up stays used up for the same *)
(* permit.                                                                 *)

\* w was earned, when the nonce store is ns.
EarnedBy(w, ns) ==
  /\ Signed(w.case)
  /\ w.case.permit = w.permit
  /\ w.permit.issued <= w.at /\ w.at <= w.permit.expires
  /\ ns[w.permit.nonce] = w.permit

\* What session x has done, when the nonce store is ns and the directories hold
\* the manifests m.
Reached(x, ns, m) ==
  /\ x.pc \in {"publish", "manifest", "materialize", "observe"} =>
       ns[x.case.permit.nonce] = x.case.permit
  /\ x.pc = "materialize" => EarnedBy(x.draft.verification, ns)
  /\ x.pc = "observe" => m[x.out] # None

DocumentsInv ==
  /\ \A o \in Dirs :
       /\ verification[o] # None => EarnedBy(verification[o], nonces)
       /\ manifest[o] # None => EarnedBy(manifest[o].verification, nonces)
  /\ \A s \in Sessions : Reached(session[s], nonces, manifest)

\* A verification that was earned stays earned while no nonce is given back.
LEMMA StillEarned ==
  ASSUME NEW w \in Verification, EarnedBy(w, nonces),
         \A n \in Nonces : nonces[n] # None => nonces'[n] = nonces[n]
  PROVE  EarnedBy(w, nonces')
<1>1. w.permit \in Permit /\ w.permit # None
  BY NoneAssumption DEF Verification
<1>2. w.permit.nonce \in Nonces
  BY <1>1 DEF Permit
<1> QED BY <1>1, <1>2 DEF EarnedBy

\* A step of session s that takes no nonce that is used up, and publishes only
\* what was earned.
LEMMA SessionReached ==
  ASSUME TypeInv, DocumentsInv, NEW s \in Sessions,
         \A q \in Sessions \ {s} : session'[q] = session[q],
         \A n \in Nonces : nonces[n] # None => nonces'[n] = nonces[n],
         \A o \in Dirs : \/ verification'[o] = verification[o]
                         \/ EarnedBy(verification'[o], nonces'),
         \A o \in Dirs : \/ manifest'[o] = manifest[o]
                         \/ manifest'[o] # None /\ EarnedBy(manifest'[o].verification, nonces'),
         Reached(session'[s], nonces', manifest')
  PROVE  DocumentsInv'
<1>1. ASSUME NEW o \in Dirs
      PROVE  /\ verification'[o] # None => EarnedBy(verification'[o], nonces')
             /\ manifest'[o] # None => EarnedBy(manifest'[o].verification, nonces')
  <2>1. verification[o] # None => EarnedBy(verification[o], nonces')
    BY StillEarned DEF TypeInv, TypeOK, DocumentsInv
  <2>2. manifest[o] # None => EarnedBy(manifest[o].verification, nonces')
    <3>1. manifest[o] # None => manifest[o].verification \in Verification
      BY DEF TypeInv, TypeOK, Manifest
    <3> QED BY <3>1, StillEarned DEF DocumentsInv
  <2> QED BY <2>1, <2>2
<1>2. ASSUME NEW q \in Sessions, q # s PROVE Reached(session'[q], nonces', manifest')
  <2> DEFINE x == session[q]
  <2>1. session'[q] = x /\ Reached(x, nonces, manifest)
    BY <1>2 DEF DocumentsInv
  <2>2. CASE x.pc = "idle"
    BY <2>1, <2>2 DEF Reached
  <2>3. CASE x.pc # "idle"
    <3>1. x.out \in Dirs /\ x.case.permit.nonce \in Nonces /\ x.case.permit # None
      BY <2>3, CaseTyped, NoneAssumption DEF Nonce
    <3>2. nonces[x.case.permit.nonce] = x.case.permit => nonces'[x.case.permit.nonce] = x.case.permit
      BY <3>1
    <3>3. manifest[x.out] # None => manifest'[x.out] # None
      BY <3>1
    <3>4. x.pc = "materialize" => EarnedBy(x.draft.verification, nonces')
      <4>1. x.pc = "materialize" => x.draft.verification \in Verification
        BY DEF TypeInv, SessionSet, Manifest
      <4> QED BY <2>1, <4>1, StillEarned DEF Reached
    <3> HIDE DEF x
    <3> QED BY <2>1, <3>2, <3>3, <3>4 DEF Reached
  <2> QED BY <2>2, <2>3
<1> QED BY <1>1, <1>2 DEF DocumentsInv

\* A step of session s that changes no document and no nonce.
LEMMA QuietReached ==
  ASSUME TypeInv, DocumentsInv, NEW s \in Sessions,
         UNCHANGED <<nonces, verification, manifest>>,
         \A q \in Sessions \ {s} : session'[q] = session[q],
         Reached(session'[s], nonces, manifest)
  PROVE  DocumentsInv'
BY SessionReached

\* Every step keeps DocumentsInv.
LEMMA NextDocuments ==
  ASSUME TypeInv, SignedInv, DocumentsInv, [Next]_vars
  PROVE  DocumentsInv'
<1>0. /\ session \in [Sessions -> Session] /\ \A s \in Sessions : session[s] \in Session
      /\ verification \in [Dirs -> Verification \cup {None}] /\ manifest \in [Dirs -> Manifest \cup {None}]
      /\ nonces \in [Nonces -> Permit \cup {None}]
  BY DEF TypeInv, TypeOK
<1>1. ASSUME NEW s \in Sessions, session[s].pc # "idle"
      PROVE  /\ session[s].out \in Dirs /\ Nonce(s) \in Nonces
             /\ session[s].case.permit # None
  BY <1>1, CaseTyped, NoneAssumption
<1>2. ASSUME NEW s \in Sessions, Exit(s), UNCHANGED <<nonces, verification, manifest>>
      PROVE  DocumentsInv'
  <2>1. session'[s] = Idle /\ \A q \in Sessions \ {s} : session'[q] = session[q]
    BY <1>0, <1>2 DEF Exit
  <2> QED BY <1>2, <2>1, QuietReached DEF Reached, Idle
<1>3. ASSUME NEW s \in Sessions, StartPreflight(s) \/ VerifyRoles(s) \/ Decide(s)
      PROVE  DocumentsInv'
  <2>1. /\ UNCHANGED <<nonces, verification, manifest>>
        /\ \A q \in Sessions \ {s} : session'[q] = session[q]
        /\ session'[s].pc \in {"idle", "verify", "decide", "consume"}
    <3>1. CASE StartPreflight(s)
      <4>1. PICK c \in Cases, o \in OutDirs[s], m \in Modes :
              session' = [session EXCEPT ![s] = [Idle EXCEPT !.pc = "verify", !.case = c, !.out = o,
                                                             !.mode = m]]
        BY <3>1 DEF StartPreflight
      <4> QED BY <1>0, <3>1, <4>1 DEF StartPreflight, Idle
    <3>2. CASE VerifyRoles(s)
      BY <1>0, <3>2 DEF VerifyRoles, Exit, Idle, Session
    <3>3. CASE Decide(s)
      BY <1>0, <3>3 DEF Decide, Exit, Idle, Session
    <3> QED BY <1>3, <3>1, <3>2, <3>3
  <2> QED BY <2>1, QuietReached DEF Reached
<1>4. ASSUME NEW s \in Sessions, ConsumeNonce(s) PROVE DocumentsInv'
  <2>1. CASE Exit(s) /\ UNCHANGED nonces
    BY <1>2, <1>4, <2>1 DEF ConsumeNonce
  <2>2. CASE /\ nonces[Nonce(s)] = None
             /\ nonces' = [nonces EXCEPT ![Nonce(s)] = session[s].case.permit]
             /\ Goto(s, "publish")
    <3>1. session[s].pc = "consume" /\ UNCHANGED <<verification, manifest>>
      BY <1>4 DEF ConsumeNonce
    <3>2. /\ session'[s].pc = "publish" /\ session'[s].case = session[s].case
          /\ \A q \in Sessions \ {s} : session'[q] = session[q]
      BY <1>0, <2>2 DEF Goto, Session
    <3>3. /\ nonces'[Nonce(s)] = session[s].case.permit
          /\ \A n \in Nonces : nonces[n] # None => nonces'[n] = nonces[n]
      BY <1>0, <1>1, <2>2, <3>1
    <3>4. Reached(session'[s], nonces', manifest')
      BY <3>2, <3>3 DEF Reached, Nonce
    <3> QED BY <3>1, <3>2, <3>3, <3>4, SessionReached
  <2> QED BY <1>4, <2>1, <2>2 DEF ConsumeNonce
<1>5. ASSUME NEW s \in Sessions, PublishVerification(s) PROVE DocumentsInv'
  <2>1. session[s].pc = "publish" /\ UNCHANGED <<nonces, manifest>>
    BY <1>5 DEF PublishVerification
  <2>2. EarnedBy(session[s].draft, nonces') /\ nonces[session[s].case.permit.nonce] = session[s].case.permit
    BY <2>1 DEF SignedInv, Decided, Given, EarnedBy, DocumentsInv, Reached
  <2>3. /\ session'[s].pc = "manifest" /\ session'[s].case = session[s].case
        /\ \A q \in Sessions \ {s} : session'[q] = session[q]
    BY <1>0, <1>5 DEF PublishVerification, Goto, Session
  <2>4. \A o \in Dirs : verification'[o] = verification[o] \/ verification'[o] = session[s].draft
    BY <1>0, <1>5 DEF PublishVerification
  <2>5. Reached(session'[s], nonces', manifest')
    BY <2>1, <2>2, <2>3 DEF Reached
  <2> QED BY <2>1, <2>2, <2>3, <2>4, <2>5, SessionReached
<1>6. ASSUME NEW s \in Sessions, ReadDocuments(s) PROVE DocumentsInv'
  <2>1. session[s].pc = "manifest" /\ UNCHANGED <<nonces, verification, manifest>>
    BY <1>6 DEF ReadDocuments
  <2>2. CASE Exit(s)
    BY <1>2, <2>1, <2>2
  <2>3. CASE ~Exit(s)
    <3>1. /\ session'[s].pc = "materialize" /\ session'[s].case = session[s].case
          /\ session'[s].draft.verification = verification[session[s].out]
          /\ \A q \in Sessions \ {s} : session'[q] = session[q]
      BY <1>0, <1>6, <2>3 DEF ReadDocuments, Session
    <3>2. verification[session[s].out] # None /\ session[s].out \in Dirs
      BY <1>1, <2>1 DEF TypeInv, SessionSet
    <3>3. /\ EarnedBy(session'[s].draft.verification, nonces)
          /\ nonces[session[s].case.permit.nonce] = session[s].case.permit
      BY <2>1, <3>1, <3>2 DEF DocumentsInv, Reached
    <3>4. Reached(session'[s], nonces, manifest)
      BY <3>1, <3>3 DEF Reached
    <3> QED BY <2>1, <3>1, <3>4, QuietReached
  <2> QED BY <2>2, <2>3
<1>7. ASSUME NEW s \in Sessions, PublishManifest(s) PROVE DocumentsInv'
  <2>1. session[s].pc = "materialize" /\ UNCHANGED <<nonces, verification>>
    BY <1>7 DEF PublishManifest
  <2>2. /\ session'[s].pc = "observe" /\ session'[s].out = session[s].out
        /\ session'[s].case = session[s].case
        /\ \A q \in Sessions \ {s} : session'[q] = session[q]
    BY <1>0, <1>7 DEF PublishManifest, Session
  <2>3. session[s].draft # None /\ EarnedBy(session[s].draft.verification, nonces)
    BY <2>1, NoneAssumption DEF TypeInv, SessionSet, DocumentsInv, Reached
  <2>4. /\ manifest'[session[s].out] = session[s].draft
        /\ \A o \in Dirs : manifest'[o] = manifest[o] \/ manifest'[o] = session[s].draft
    BY <1>0, <1>1, <1>7, <2>1 DEF PublishManifest
  <2>5. Reached(session'[s], nonces', manifest')
    BY <2>1, <2>2, <2>3, <2>4 DEF DocumentsInv, Reached
  <2> QED BY <2>1, <2>2, <2>3, <2>4, <2>5, SessionReached
<1>8. ASSUME NEW s \in Sessions, Stop(s) PROVE DocumentsInv'
  BY <1>2, <1>8 DEF Stop
<1>9. CASE Tick \/ UNCHANGED vars
  BY <1>9 DEF Tick, vars, DocumentsInv
<1> QED BY <1>3, <1>4, <1>5, <1>6, <1>7, <1>8, <1>9 DEF Next

-----------------------------------------------------------------------------
(* Whose documents they are.  A session in whose directory nobody else has *)
(* published since it looked finds there what it put there itself: nothing *)
(* until it publishes, then its own verification, then its own manifest.   *)

\* What such a session x may rely on, when the directories hold v and m.
Backed(x, v, m) ==
  /\ x.pc \in {"verify", "decide", "consume", "publish"} => v[x.out] = None
  /\ x.pc = "manifest" => v[x.out].permit = x.case.permit
  /\ x.pc = "materialize" => /\ x.draft.permit = x.case.permit
                             /\ x.draft.verification.permit = x.case.permit
  /\ x.pc = "observe" => /\ m[x.out].permit = x.case.permit
                         /\ m[x.out].verification.permit = x.case.permit

BackedInv ==
  \A s \in Sessions \ disturbed : Backed(session[s], verification, manifest)

\* A step of session s that disturbs every other session whose documents it
\* replaces.
LEMMA SessionBacked ==
  ASSUME TypeInv, BackedInv, NEW s \in Sessions,
         \A q \in Sessions \ {s} : session'[q] = session[q],
         \A q \in Sessions \ {s} :
           q \notin disturbed' /\ session[q].pc # "idle" =>
             /\ q \notin disturbed
             /\ verification'[session[q].out] = verification[session[q].out]
             /\ manifest'[session[q].out] = manifest[session[q].out],
         s \notin disturbed' => Backed(session'[s], verification', manifest')
  PROVE  BackedInv'
<1>1. ASSUME NEW q \in Sessions \ disturbed', q # s
      PROVE  Backed(session'[q], verification', manifest')
  <2> DEFINE x == session[q]
  <2>1. CASE x.pc = "idle"
    BY <1>1, <2>1 DEF Backed
  <2>2. CASE x.pc # "idle"
    <3>1. /\ session'[q] = x /\ Backed(x, verification, manifest)
          /\ verification'[x.out] = verification[x.out] /\ manifest'[x.out] = manifest[x.out]
      BY <1>1, <2>2 DEF BackedInv
    <3> HIDE DEF x
    <3> QED BY <3>1 DEF Backed
  <2> QED BY <2>1, <2>2
<1> QED BY <1>1 DEF BackedInv

\* A step of session s that changes no document and disturbs nobody.
LEMMA QuietBacked ==
  ASSUME TypeInv, BackedInv, NEW s \in Sessions,
         UNCHANGED <<verification, manifest, disturbed>>,
         \A q \in Sessions \ {s} : session'[q] = session[q],
         s \notin disturbed => Backed(session'[s], verification, manifest)
  PROVE  BackedInv'
BY SessionBacked

\* Every step keeps BackedInv.
LEMMA NextBacked ==
  ASSUME TypeInv, SignedInv, BackedInv, [Next]_vars
  PROVE  BackedInv'
<1>0. /\ session \in [Sessions -> Session] /\ \A s \in Sessions : session[s] \in Session
      /\ verification \in [Dirs -> Verification \cup {None}] /\ manifest \in [Dirs -> Manifest \cup {None}]
  BY DEF TypeInv, TypeOK
<1>1. ASSUME NEW s \in Sessions, session[s].pc # "idle"
      PROVE  /\ session[s].out \in Dirs
             /\ s \notin disturbed => Backed(session[s], verification, manifest)
  BY <1>1, CaseTyped DEF BackedInv
<1>2. ASSUME NEW s \in Sessions, Exit(s), UNCHANGED <<verification, manifest, disturbed>>
      PROVE  BackedInv'
  <2>1. session'[s] = Idle /\ \A q \in Sessions \ {s} : session'[q] = session[q]
    BY <1>0, <1>2 DEF Exit
  <2> QED BY <1>2, <2>1, QuietBacked DEF Idle, Backed
<1>3. ASSUME NEW s \in Sessions, StartPreflight(s) PROVE BackedInv'
  <2>1. PICK c \in Cases, o \in OutDirs[s], m \in Modes :
          /\ verification[o] = None
          /\ session' = [session EXCEPT ![s] = [Idle EXCEPT !.pc = "verify", !.case = c, !.out = o,
                                                            !.mode = m]]
    BY <1>3 DEF StartPreflight
  <2>2. /\ session'[s].pc = "verify" /\ session'[s].out = o
        /\ \A q \in Sessions \ {s} : session'[q] = session[q]
    BY <1>0, <2>1 DEF Idle
  <2>3. UNCHANGED <<verification, manifest>> /\ disturbed' = disturbed \ {s}
    BY <1>3 DEF StartPreflight
  <2>4. Backed(session'[s], verification', manifest')
    BY <2>1, <2>2, <2>3 DEF Backed
  <2> QED BY <2>2, <2>3, <2>4, SessionBacked
<1>4. ASSUME NEW s \in Sessions, VerifyRoles(s) \/ Decide(s) \/ ConsumeNonce(s)
      PROVE  BackedInv'
  <2>1. /\ UNCHANGED <<verification, manifest, disturbed>>
        /\ session[s].pc \in {"verify", "decide", "consume"}
    BY <1>4 DEF VerifyRoles, Decide, ConsumeNonce
  <2>2. CASE Exit(s)
    BY <1>2, <2>1, <2>2
  <2>3. CASE ~Exit(s)
    <3>1. /\ session'[s].pc \in {"decide", "consume", "publish"}
          /\ session'[s].out = session[s].out
          /\ \A q \in Sessions \ {s} : session'[q] = session[q]
      BY <1>0, <1>4, <2>3 DEF VerifyRoles, Decide, ConsumeNonce, Goto, Session
    <3>2. s \notin disturbed => Backed(session'[s], verification, manifest)
      BY <1>1, <2>1, <3>1 DEF Backed
    <3> QED BY <2>1, <3>1, <3>2, QuietBacked
  <2> QED BY <2>2, <2>3
<1>5. ASSUME NEW s \in Sessions, PublishVerification(s) PROVE BackedInv'
  <2>1. session[s].pc = "publish" /\ UNCHANGED manifest /\ disturbed' = disturbed \cup Beside(s)
    BY <1>5 DEF PublishVerification
  <2>2. session[s].draft.permit = session[s].case.permit
    BY <2>1 DEF SignedInv, Decided, Given
  <2>3. /\ session'[s].pc = "manifest" /\ session'[s].out = session[s].out
        /\ session'[s].case = session[s].case
        /\ \A q \in Sessions \ {s} : session'[q] = session[q]
    BY <1>0, <1>5 DEF PublishVerification, Goto, Session
  <2>4. /\ verification'[session[s].out] = session[s].draft
        /\ \A o \in Dirs \ {session[s].out} : verification'[o] = verification[o]
    BY <1>0, <1>1, <1>5, <2>1 DEF PublishVerification
  <2>5. Backed(session'[s], verification', manifest')
    BY <2>2, <2>3, <2>4 DEF Backed
  <2>6. ASSUME NEW q \in Sessions \ {s}, q \notin disturbed', session[q].pc # "idle"
        PROVE  q \notin disturbed /\ verification'[session[q].out] = verification[session[q].out]
    BY <1>1, <2>1, <2>4, <2>6 DEF Beside
  <2> QED BY <2>1, <2>3, <2>5, <2>6, SessionBacked
<1>6. ASSUME NEW s \in Sessions, ReadDocuments(s) PROVE BackedInv'
  <2>1. session[s].pc = "manifest" /\ UNCHANGED <<verification, manifest, disturbed>>
    BY <1>6 DEF ReadDocuments
  <2>2. CASE Exit(s)
    BY <1>2, <2>1, <2>2
  <2>3. CASE ~Exit(s)
    <3>1. /\ session'[s].pc = "materialize" /\ session'[s].out = session[s].out
          /\ session'[s].case = session[s].case
          /\ session'[s].draft.permit = session[s].case.permit
          /\ session'[s].draft.verification = verification[session[s].out]
          /\ \A q \in Sessions \ {s} : session'[q] = session[q]
      BY <1>0, <1>6, <2>3 DEF ReadDocuments, Session
    <3>2. s \notin disturbed => Backed(session'[s], verification, manifest)
      BY <1>1, <2>1, <3>1 DEF Backed
    <3> QED BY <2>1, <3>1, <3>2, QuietBacked
  <2> QED BY <2>2, <2>3
<1>7. ASSUME NEW s \in Sessions, PublishManifest(s) PROVE BackedInv'
  <2>1. session[s].pc = "materialize" /\ UNCHANGED verification /\ disturbed' = disturbed \cup Beside(s)
    BY <1>7 DEF PublishManifest
  <2>2. /\ session'[s].pc = "observe" /\ session'[s].out = session[s].out
        /\ session'[s].case = session[s].case
        /\ \A q \in Sessions \ {s} : session'[q] = session[q]
    BY <1>0, <1>7 DEF PublishManifest, Session
  <2>3. /\ manifest'[session[s].out] = session[s].draft
        /\ \A o \in Dirs \ {session[s].out} : manifest'[o] = manifest[o]
    BY <1>0, <1>1, <1>7, <2>1 DEF PublishManifest
  <2>4. s \notin disturbed' => Backed(session'[s], verification', manifest')
    BY <1>1, <2>1, <2>2, <2>3 DEF Backed
  <2>5. ASSUME NEW q \in Sessions \ {s}, q \notin disturbed', session[q].pc # "idle"
        PROVE  q \notin disturbed /\ manifest'[session[q].out] = manifest[session[q].out]
    BY <1>1, <2>1, <2>3, <2>5 DEF Beside
  <2> QED BY <2>1, <2>2, <2>4, <2>5, SessionBacked
<1>8. ASSUME NEW s \in Sessions, Stop(s) PROVE BackedInv'
  BY <1>2, <1>8 DEF Stop
<1>9. CASE Tick \/ UNCHANGED vars
  BY <1>9 DEF Tick, vars, BackedInv
<1> QED BY <1>3, <1>4, <1>5, <1>6, <1>7, <1>8, <1>9 DEF Next

\* Before anything happened nothing is claimed of documents or sessions.
LEMMA InitBacked == Init => DocumentsInv /\ BackedInv
<1> SUFFICES ASSUME Init PROVE DocumentsInv /\ BackedInv
  OBVIOUS
<1>1. \A s \in Sessions : session[s].pc = "idle"
  BY DEF Init, Idle
<1>2. \A o \in Dirs : verification[o] = None /\ manifest[o] = None
  BY DEF Init
<1> QED BY <1>1, <1>2 DEF DocumentsInv, Reached, BackedInv, Backed

\* What always holds of the documents and of the sessions.
LEMMA AlwaysBacked == Spec => [](TypeInv /\ SignedInv /\ DocumentsInv /\ BackedInv)
<1>1. Init => TypeInv /\ SignedInv /\ DocumentsInv /\ BackedInv
  BY InitTyped, InitSigned, InitBacked
<1>2. TypeInv /\ SignedInv /\ DocumentsInv /\ BackedInv /\ [Next]_vars
        => (TypeInv /\ SignedInv /\ DocumentsInv /\ BackedInv)'
  BY NextTyped, NextSigned, NextDocuments, NextBacked
<1> QED BY <1>1, <1>2, PTL DEF Spec

\* An observer runs only when its session has used up its own nonce, beside a
\* manifest bound to a verification that was earned; and both are for the
\* session's permit unless another session has published in the same directory
\* since this one looked for its output.
THEOREM ObserversAuthorized == Spec => []ObserverAuthorized
<1>1. TypeInv /\ DocumentsInv /\ BackedInv => ObserverAuthorized
  <2> SUFFICES ASSUME TypeInv, DocumentsInv, BackedInv, NEW s \in Sessions, session[s].pc = "observe"
               PROVE  LET m == manifest[session[s].out]
                          p == session[s].case.permit
                      IN  /\ m # None
                          /\ Earned(m.verification)
                          /\ nonces[p.nonce] = p
                          /\ s \notin disturbed => m.permit = p /\ m.verification.permit = p
    BY DEF ObserverAuthorized
  <2> DEFINE m == manifest[session[s].out]
             p == session[s].case.permit
  <2>1. session[s].out \in Dirs
    BY CaseTyped
  <2>2. m # None /\ nonces[p.nonce] = p
    BY DEF DocumentsInv, Reached
  <2>3. Earned(m.verification)
    BY <2>1, <2>2 DEF DocumentsInv, Earned, EarnedBy
  <2>4. s \notin disturbed => m.permit = p /\ m.verification.permit = p
    BY DEF BackedInv, Backed
  <2> QED BY <2>2, <2>3, <2>4
<1> QED BY <1>1, AlwaysBacked, PTL

\* A verification is replaced only by a session that was disturbed.
LEMMA StepStands ==
  ASSUME TypeInv, BackedInv, [Next]_vars
  PROVE  \A o \in Dirs :
           verification[o] # None /\ verification'[o] # verification[o] =>
             \E s \in disturbed : session[s].pc = "publish" /\ session[s].out = o
<1>1. ASSUME NEW s \in Sessions, PublishVerification(s), NEW o \in Dirs,
             verification[o] # None, verification'[o] # verification[o]
      PROVE  s \in disturbed /\ session[s].pc = "publish" /\ session[s].out = o
  <2>1. session[s].pc = "publish" /\ session[s].out = o
    BY <1>1 DEF PublishVerification, TypeInv, TypeOK
  <2>2. s \notin disturbed => verification[session[s].out] = None
    BY <2>1 DEF BackedInv, Backed
  <2> QED BY <1>1, <2>1, <2>2
<1>2. ASSUME NEW s \in Sessions,
             \/ StartPreflight(s) \/ VerifyRoles(s) \/ Decide(s) \/ ConsumeNonce(s)
             \/ ReadDocuments(s) \/ PublishManifest(s) \/ Stop(s)
      PROVE  UNCHANGED verification
  BY <1>2 DEF StartPreflight, VerifyRoles, Decide, ConsumeNonce, ReadDocuments,
              PublishManifest, Stop
<1>3. CASE Tick \/ UNCHANGED vars
  BY <1>3 DEF Tick, vars
<1> QED BY <1>1, <1>2, <1>3 DEF Next

\* However sessions share directories, are killed and are started again, a
\* verification is replaced only by a session in whose directory another one has
\* published since it looked.
THEOREM OutputsStand == Spec => OutputStands
<1>1. TypeInv /\ BackedInv /\ [Next]_vars
        => [\A o \in Dirs :
              verification[o] # None /\ verification'[o] # verification[o] =>
                \E s \in disturbed : session[s].pc = "publish" /\ session[s].out = o]_vars
  BY StepStands
<1> QED BY <1>1, AlwaysBacked, PTL DEF Spec, OutputStands

-----------------------------------------------------------------------------
(* The playback: what is known at each place of its script. *)


\* The turn of an operation: the blocks of the script come in this order.
Turn(op) ==
  CASE op \in {"admit", "check", "identity", "expect"} -> 1
    [] op = "mkdir" -> 2
    [] op \in {"same", "hash", "bytes", "compare"} -> 3
    [] op = "before" -> 4
    [] op = "lookup" -> 5
    [] op = "refer" -> 6
    [] op = "scan" -> 7
    [] op = "again" -> 8
    [] op = "counts" -> 9
    [] op \in {"write", "offset"} -> 10
    [] op = "retain" -> 11
    [] op = "list" -> 12
    [] op = "configure" -> 13
    [] op = "play" -> 14
    [] op = "exit" -> 15
    [] op \in {"terminal", "load", "observe"} -> 16
    [] op = "source" -> 17
    [] op = "members" -> 18
    [] op = "fact" -> 19
    [] op = "result" -> 20
    [] op = "publish" -> 21
    [] OTHER -> 0

ThisTurn == Turn(Script[pc][1])

\* An entry has been executed; it is still to be executed.
Done(op, f) ==
  \E k \in 1 .. Len(Script) : Script[k] = <<op, f>> /\ (k < pc \/ result = "published")
Ahead(op, f) == \E k \in pc .. Len(Script) : Script[k] = <<op, f>>

Played == ToSet(Executed)

FilesInv ==
  /\ \A f \in Retained : source[f] \in Versions(f)
  /\ result = "none" =>
       \A f \in Retained :
         expected[f] \in IF f \in Pairs \union {Schema} THEN Versions(f) \ {"absent"}
                         ELSE {"signed"}

\* Members that nobody has changed behind the comparison are the signed ones.
SwappedInv ==
  result = "none" =>
    \A f \in Pairs \ swapped :
      /\ Unbound(f) => source[f] = "signed"
      /\ expected[f] = "signed"

\* What holds of the copies while they are made and decoded.
CopiesInv ==
  result = "none" /\ InPrepare =>
    /\ ThisTurn >= 3 => made = "now"
    /\ \A f \in Retained :
         /\ ThisTurn \in 3 .. 6 /\ Done("compare", f) /\ ~Ahead("compare", f) =>
              out[f] = expected[f]
         /\ ThisTurn >= 7 => out[f] \in {expected[f], "rewritten"}
         /\ Done("before", f) => before[f] = expected[f]
         /\ Done("refer", f) => refs[f] = expected[f]
         /\ Done("scan", f) => \/ scanned[f] = expected[f]
                               \/ scanned[f] = "rewritten" /\ out[f] = "rewritten"
         /\ Done("again", f) => out[f] = expected[f]
    /\ \A i \in 1 .. Segments : Done("lookup", Rec(i)) => expected[Rec(i)] = Names(expected[Sum(i)])

WritingInv ==
  /\ InPrepare => "inputs" \notin written
  /\ InPrepare /\ result = "none" =>
       /\ \A d \in Documents : Done("write", File(d)) => d \in written
       /\ Done("offset", File("inputs")) => ~early

PreparedInv == IsPrepared => RetainedSigned /\ DatasetTrue /\ written = Documents /\ ~early

\* What holds of the player and of the result made of it.
PlayedInv ==
  result # "failed" =>
    /\ \A f \in Played :
         /\ Done("list", f) => run[f] \in {listed[f], "rewritten"}
         /\ Done("play", f) => \/ played[f] = listed[f]
                               \/ played[f] = "rewritten" /\ run[f] = "rewritten"
         /\ Done("source", f) /\ config = "configured" => evidence[f] = listed[f]
         /\ Done("publish", f) /\ config = "configured" => played[f] = listed[f]
    /\ Done("publish", Config) => evidence[Config] = config
    /\ Done("exit", File("player")) => player # Unread
    /\ Done("terminal", File("player")) => player # "stopped"
    /\ Done("observe", File("player")) => player # "no_probe"

PlaybackInv ==
  /\ PlaybackTypeOK /\ FilesInv /\ SwappedInv /\ CopiesInv /\ WritingInv /\ PreparedInv /\ PlayedInv

-----------------------------------------------------------------------------
(* The script. *)

Recs == {Rec(i) : i \in 1 .. Segments}

\* What each operation is applied to.
Entries ==
  ({"admit", "same"} \X {Schema})
  \union ({"check", "hash", "bytes", "compare", "before", "again"} \X Retained)
  \union ({"identity", "lookup", "scan"} \X Recs)
  \union ({"expect"} \X Pairs)
  \union ({"refer"} \X (Pairs \union {File("metadata")}))
  \union ({"write"} \X {File(d) : d \in Documents})
  \union ({"retain", "list", "play", "source"} \X Played)
  \union ({"configure", "load", "fact"} \X {Config})
  \union ({"publish"} \X Provided)
  \union {<<"mkdir", File("output")>>, <<"counts", File("metadata")>>,
          <<"offset", File("inputs")>>, <<"exit", File("player")>>,
          <<"terminal", File("player")>>, <<"observe", File("player")>>,
          <<"members", File("metadata")>>, <<"result", File("result")>>}

\* A part of the script: its entries come in turn, and the bytes of a file
\* are compared as soon as they are copied.
Ordered(s, lo, hi) ==
  /\ s \in Seq(Entries)
  /\ \A k \in 1 .. Len(s) : Turn(s[k][1]) \in lo .. hi
  /\ \A j, k \in 1 .. Len(s) : j <= k => Turn(s[j][1]) <= Turn(s[k][1])
  /\ \A k \in 1 .. Len(s) :
       s[k][1] = "bytes" => k + 1 <= Len(s) /\ s[k + 1] = <<"compare", s[k][2]>>

\* What a member's copy will be held to is hashed after its last comparison
\* with the statement.
CheckedFirst(s) ==
  \A j, k \in 1 .. Len(s) : \A f \in Pairs :
    s[j] = <<"expect", f>> /\ s[k] = <<"check", f>> => k < j

\* The turns, one by one.
LEMMA Turns ==
  /\ Turn("admit") = 1 /\ Turn("check") = 1 /\ Turn("identity") = 1 /\ Turn("expect") = 1
  /\ Turn("mkdir") = 2
  /\ Turn("same") = 3 /\ Turn("hash") = 3 /\ Turn("bytes") = 3 /\ Turn("compare") = 3
  /\ Turn("before") = 4 /\ Turn("lookup") = 5 /\ Turn("refer") = 6 /\ Turn("scan") = 7
  /\ Turn("again") = 8 /\ Turn("counts") = 9 /\ Turn("write") = 10 /\ Turn("offset") = 10
  /\ Turn("retain") = 11 /\ Turn("list") = 12 /\ Turn("configure") = 13
  /\ Turn("play") = 14 /\ Turn("exit") = 15
  /\ Turn("terminal") = 16 /\ Turn("load") = 16 /\ Turn("observe") = 16
  /\ Turn("source") = 17 /\ Turn("members") = 18 /\ Turn("fact") = 19
  /\ Turn("result") = 20 /\ Turn("publish") = 21
  BY DEF Turn

\* What stands in either part of a script stands in the whole.
LEMMA JoinedSets ==
  ASSUME NEW S, NEW s \in Seq(S), NEW t \in Seq(S)
  PROVE  /\ s \o t \in Seq(S)
         /\ ToSet(s \o t) = ToSet(s) \union ToSet(t)
<1>1. /\ s \o t \in Seq(S)
      /\ Len(s \o t) = Len(s) + Len(t)
      /\ \A i \in 1 .. Len(s) + Len(t) :
           (s \o t)[i] = IF i <= Len(s) THEN s[i] ELSE t[i - Len(s)]
  BY ConcatProperties
<1>2. DOMAIN s = 1 .. Len(s) /\ DOMAIN t = 1 .. Len(t) /\ DOMAIN (s \o t) = 1 .. Len(s \o t)
      /\ Len(s) \in Nat /\ Len(t) \in Nat
  BY <1>1
<1>3. \A i \in 1 .. Len(s) : i \in 1 .. Len(s) + Len(t) /\ (s \o t)[i] = s[i]
  BY <1>1, <1>2
<1>4. \A i \in 1 .. Len(t) :
        Len(s) + i \in 1 .. Len(s) + Len(t) /\ (s \o t)[Len(s) + i] = t[i]
  BY <1>1, <1>2
<1>5. \A i \in 1 .. Len(s) + Len(t) :
        \/ i \in 1 .. Len(s) /\ (s \o t)[i] = s[i]
        \/ i - Len(s) \in 1 .. Len(t) /\ (s \o t)[i] = t[i - Len(s)]
  BY <1>1, <1>2
<1>6. ToSet(s \o t) \subseteq ToSet(s) \union ToSet(t)
  BY <1>1, <1>2, <1>5 DEF ToSet
<1>7. ToSet(s) \subseteq ToSet(s \o t)
  BY <1>1, <1>2, <1>3 DEF ToSet
<1>8. ToSet(t) \subseteq ToSet(s \o t)
  <2>1. ASSUME NEW i \in 1 .. Len(t) PROVE t[i] \in ToSet(s \o t)
    <3>1. Len(s) + i \in DOMAIN (s \o t) /\ (s \o t)[Len(s) + i] = t[i]
      BY <1>1, <1>2, <1>4
    <3> QED BY <3>1 DEF ToSet
  <2> QED BY <2>1, <1>2 DEF ToSet
<1> QED BY <1>1, <1>6, <1>7, <1>8

\* Two parts of the script in order are one.
LEMMA JoinedParts ==
  ASSUME NEW a \in Nat, NEW b \in Nat, NEW c \in Nat, NEW d \in Nat,
         a <= b, b <= c, c <= d,
         NEW s, NEW t, Ordered(s, a, b), Ordered(t, c, d)
  PROVE  Ordered(s \o t, a, d) /\ ToSet(s \o t) = ToSet(s) \union ToSet(t)
<1> DEFINE r == s \o t
<1>1. s \in Seq(Entries) /\ t \in Seq(Entries)
  BY DEF Ordered
<1>2. /\ r \in Seq(Entries) /\ Len(r) = Len(s) + Len(t)
      /\ \A i \in 1 .. Len(s) + Len(t) : r[i] = IF i <= Len(s) THEN s[i] ELSE t[i - Len(s)]
  BY <1>1, ConcatProperties
<1>3. Len(s) \in Nat /\ Len(t) \in Nat
  BY <1>1
<1> HIDE DEF r
<1>4. ASSUME NEW k \in 1 .. Len(r)
      PROVE  \/ k \in 1 .. Len(s) /\ r[k] = s[k]
             \/ k > Len(s) /\ k - Len(s) \in 1 .. Len(t) /\ r[k] = t[k - Len(s)]
  BY <1>2, <1>3
<1>5. /\ \A k \in 1 .. Len(s) : Turn(s[k][1]) \in a .. b
      /\ \A k \in 1 .. Len(t) : Turn(t[k][1]) \in c .. d
  BY DEF Ordered
<1>6. ASSUME NEW k \in 1 .. Len(r) PROVE Turn(r[k][1]) \in a .. d
  <2>1. a .. b \subseteq a .. d /\ c .. d \subseteq a .. d
    OBVIOUS
  <2>2. CASE k \in 1 .. Len(s) /\ r[k] = s[k]
    BY <2>1, <2>2, <1>5
  <2>3. CASE k - Len(s) \in 1 .. Len(t) /\ r[k] = t[k - Len(s)]
    BY <2>1, <2>3, <1>5
  <2> QED BY <2>2, <2>3, <1>4
<1>7. ASSUME NEW j \in 1 .. Len(r), NEW k \in 1 .. Len(r), j <= k
      PROVE  Turn(r[j][1]) <= Turn(r[k][1])
  <2>1. CASE k <= Len(s)
    <3>1. j \in 1 .. Len(s) /\ k \in 1 .. Len(s) /\ r[j] = s[j] /\ r[k] = s[k]
      <4>1. ~(j > Len(s)) /\ ~(k > Len(s))
        BY <2>1, <1>2, <1>3, <1>7
      <4> QED BY <4>1, <1>4
    <3> QED BY <3>1, <1>7 DEF Ordered
  <2>2. CASE j > Len(s)
    <3>1. /\ j - Len(s) \in 1 .. Len(t) /\ k - Len(s) \in 1 .. Len(t)
          /\ r[j] = t[j - Len(s)] /\ r[k] = t[k - Len(s)]
      <4>1. j \in Nat /\ k \in Nat /\ ~(j <= Len(s)) /\ ~(k <= Len(s))
        BY <2>2, <1>7, <1>3
      <4>2. ~(j \in 1 .. Len(s)) /\ ~(k \in 1 .. Len(s))
        BY <4>1, <1>3
      <4> QED BY <4>2, <1>4
    <3>2. j - Len(s) <= k - Len(s)
      BY <1>7, <1>3
    <3> QED BY <3>1, <3>2 DEF Ordered
  <2>3. CASE j <= Len(s) /\ k > Len(s)
    <3>1. /\ j \in 1 .. Len(s) /\ r[j] = s[j]
          /\ k - Len(s) \in 1 .. Len(t) /\ r[k] = t[k - Len(s)]
      <4>1. j \in 1 .. Len(s) /\ ~(k \in 1 .. Len(s)) /\ ~(j > Len(s))
        BY <2>3, <1>3
      <4> QED BY <4>1, <1>4
    <3>2. Turn(r[j][1]) \in a .. b /\ Turn(r[k][1]) \in c .. d
      BY <3>1, <1>5
    <3> QED BY <3>2
  <2> QED BY <2>1, <2>2, <2>3, <1>3
<1>8. ASSUME NEW k \in 1 .. Len(r), r[k][1] = "bytes"
      PROVE  k + 1 <= Len(r) /\ r[k + 1] = <<"compare", r[k][2]>>
  <2>1. CASE k <= Len(s)
    <3>1. k \in 1 .. Len(s) /\ r[k] = s[k]
      BY <2>1, <1>4, <1>3
    <3>2. k + 1 <= Len(s) /\ s[k + 1] = <<"compare", s[k][2]>>
      BY <3>1, <1>8 DEF Ordered
    <3>3. r[k + 1] = s[k + 1]
      <4>1. k + 1 \in 1 .. Len(s) + Len(t) /\ k + 1 <= Len(s)
        BY <3>1, <3>2, <1>3
      <4> QED BY <4>1, <1>2
    <3> QED BY <3>1, <3>2, <3>3, <1>2, <1>3
  <2>2. CASE k > Len(s)
    <3>1. k - Len(s) \in 1 .. Len(t) /\ r[k] = t[k - Len(s)]
      <4>1. ~(k \in 1 .. Len(s))
        BY <2>2, <1>3
      <4> QED BY <4>1, <1>4
    <3>2. k - Len(s) + 1 <= Len(t) /\ t[k - Len(s) + 1] = <<"compare", t[k - Len(s)][2]>>
      BY <3>1, <1>8 DEF Ordered
    <3>3. r[k + 1] = t[k - Len(s) + 1]
      <4>1. k + 1 \in 1 .. Len(s) + Len(t) /\ ~(k + 1 <= Len(s))
        BY <2>2, <3>1, <3>2, <1>3
      <4>2. (k + 1) - Len(s) = k - Len(s) + 1
        BY <2>2, <1>3
      <4> QED BY <4>1, <4>2, <1>2
    <3> QED BY <3>1, <3>2, <3>3, <1>2, <1>3
  <2> QED BY <2>1, <2>2, <1>3
<1>9. ToSet(s \o t) = ToSet(s) \union ToSet(t)
  BY <1>1, JoinedSets
<1> QED BY <1>2, <1>6, <1>7, <1>8, <1>9 DEF Ordered, r

\* What is appended compares no member with the statement.
LEMMA CheckedJoined ==
  ASSUME NEW s \in Seq(Entries), NEW t \in Seq(Entries), CheckedFirst(s),
         \A k \in 1 .. Len(t) : \A f \in Pairs : t[k] # <<"check", f>>
  PROVE  CheckedFirst(s \o t)
<1> DEFINE r == s \o t
<1>1. /\ Len(r) = Len(s) + Len(t) /\ Len(s) \in Nat /\ Len(t) \in Nat
      /\ \A i \in 1 .. Len(s) + Len(t) : r[i] = IF i <= Len(s) THEN s[i] ELSE t[i - Len(s)]
  BY ConcatProperties
<1> HIDE DEF r
<1> SUFFICES ASSUME NEW j \in 1 .. Len(r), NEW k \in 1 .. Len(r), NEW f \in Pairs,
                    r[j] = <<"expect", f>>, r[k] = <<"check", f>>
             PROVE  k < j
  BY DEF CheckedFirst, r
<1>2. k \in 1 .. Len(s) /\ s[k] = <<"check", f>>
  <2>1. CASE k <= Len(s)
    BY <1>1, <2>1
  <2>2. CASE ~(k <= Len(s))
    <3>1. k - Len(s) \in 1 .. Len(t) /\ r[k] = t[k - Len(s)]
      BY <1>1, <2>2
    <3> QED BY <3>1
  <2> QED BY <2>1, <2>2
<1>3. CASE j <= Len(s)
  <2>1. j \in 1 .. Len(s) /\ s[j] = <<"expect", f>>
    BY <1>1, <1>3
  <2> QED BY <1>2, <2>1 DEF CheckedFirst
<1>4. CASE ~(j <= Len(s))
  BY <1>1, <1>2, <1>4
<1> QED BY <1>3, <1>4

\* A part of the script that has its turn after the reading of the capture.
LEMMA CheckedThen ==
  ASSUME NEW a \in Nat, NEW b \in Nat, NEW c \in Nat, NEW d \in Nat, 2 <= c,
         NEW s, NEW t, Ordered(s, a, b), Ordered(t, c, d), CheckedFirst(s)
  PROVE  CheckedFirst(s \o t)
<1>1. s \in Seq(Entries) /\ t \in Seq(Entries)
  BY DEF Ordered
<1>2. ASSUME NEW k \in 1 .. Len(t), NEW f \in Pairs PROVE t[k] # <<"check", f>>
  <2>1. Turn(t[k][1]) \in c .. d /\ Turn("check") = 1
    BY Turns DEF Ordered
  <2> QED BY <2>1
<1> QED BY <1>1, <1>2, CheckedJoined

\* One operation applied to each of the files in turn.
LEMMA EachOne ==
  ASSUME NEW op, NEW F, NEW files \in Seq(F), NEW n \in Nat, {op} \X F \subseteq Entries,
         op # "bytes", Turn(op) = n
  PROVE  /\ Ordered(Each(<<op>>, files), n, n)
         /\ ToSet(Each(<<op>>, files)) = {op} \X ToSet(files)
<1> DEFINE e == Each(<<op>>, files)
<1>1. Len(files) \in Nat /\ DOMAIN files = 1 .. Len(files)
  OBVIOUS
<1>2. e = [k \in 1 .. Len(files) |-> <<op, files[k]>>]
  <2> DEFINE m == Len(files)
  <2>0. Len(<<op>>) = 1
    OBVIOUS
  <2> HIDE DEF m
  <2>1. m \in Nat => 1 * m = m
    OBVIOUS
  <2> USE DEF m
  <2>2. \A k \in 1 .. Len(files) : (k - 1) % 1 = 0 /\ (k - 1) \div 1 = k - 1
    BY <1>1
  <2>3. \A k \in 1 .. Len(files) : 1 + (k - 1) = k
    BY <1>1
  <2>4. e = [k \in 1 .. 1 * m |-> <<<<op>>[1 + ((k - 1) % 1)], files[1 + ((k - 1) \div 1)]>>]
    BY <2>0 DEF Each
  <2>5. <<op>>[1] = op
    OBVIOUS
  <2>6. 1 + 0 = 1
    OBVIOUS
  <2>7. e = [k \in 1 .. m |-> <<<<op>>[1 + ((k - 1) % 1)], files[1 + ((k - 1) \div 1)]>>]
    BY <2>4, <2>1, <1>1
  <2> HIDE DEF e
  <2>8. \A k \in 1 .. Len(files) :
          <<<<op>>[1 + ((k - 1) % 1)], files[1 + ((k - 1) \div 1)]>> = <<op, files[k]>>
    <3> SUFFICES ASSUME NEW k \in 1 .. Len(files)
                 PROVE  <<<<op>>[1 + ((k - 1) % 1)], files[1 + ((k - 1) \div 1)]>>
                          = <<op, files[k]>>
      OBVIOUS
    <3>1. (k - 1) % 1 = 0 /\ 1 + ((k - 1) \div 1) = k
      BY <2>2, <2>3
    <3> QED BY <3>1, <2>5, <2>6
  <2> QED BY <2>7, <2>8
<1> HIDE DEF e
<1>3. \A k \in 1 .. Len(files) : files[k] \in F
  BY <1>1
<1>4. e \in Seq(Entries) /\ Len(e) = Len(files)
  <2>1. e \in [1 .. Len(files) -> Entries]
    BY <1>2, <1>3
  <2> QED BY <2>1, <1>1
<1>5. \A k \in 1 .. Len(e) : e[k][1] = op /\ e[k] = <<op, files[k]>>
  BY <1>2, <1>4
<1>6. Ordered(e, n, n)
  BY <1>4, <1>5 DEF Ordered
<1>7. ToSet(e) = {op} \X ToSet(files)
  <2>1. DOMAIN e = 1 .. Len(files)
    BY <1>2
  <2>2. /\ ToSet(e) = {e[k] : k \in 1 .. Len(files)}
        /\ ToSet(files) = {files[k] : k \in 1 .. Len(files)}
    BY <2>1, <1>1 DEF ToSet
  <2>3. ASSUME NEW x \in {op} \X ToSet(files) PROVE x \in ToSet(e)
    <3>1. PICK k \in 1 .. Len(files) : x = <<op, files[k]>>
      BY <2>2
    <3> QED BY <3>1, <2>2, <1>4, <1>5
  <2>4. ASSUME NEW k \in 1 .. Len(files) PROVE e[k] \in {op} \X ToSet(files)
    <3>1. e[k] = <<op, files[k]>> /\ files[k] \in ToSet(files)
      BY <2>2, <1>4, <1>5
    <3> QED BY <3>1
  <2> QED BY <2>2, <2>3, <2>4
<1> QED BY <1>6, <1>7 DEF e

\* One operation applied to one file.
LEMMA EachSingle ==
  ASSUME NEW op, NEW f, NEW n \in Nat, <<op, f>> \in Entries, op # "bytes", Turn(op) = n
  PROVE  /\ Ordered(Each(<<op>>, <<f>>), n, n)
         /\ <<op, f>> \in ToSet(Each(<<op>>, <<f>>))
<1> DEFINE files == <<f>>
           F == {f}
<1>1. files \in Seq(F) /\ {op} \X F \subseteq Entries /\ ToSet(files) = {f}
  BY DEF ToSet
<1> HIDE DEF files, F
<1>2. /\ Ordered(Each(<<op>>, files), n, n)
      /\ ToSet(Each(<<op>>, files)) = {op} \X ToSet(files)
  BY <1>1, EachOne
<1>3. <<op, f>> \in {op} \X ToSet(files)
  BY <1>1
<1> QED BY <1>2, <1>3 DEF files

\* Where the k-th entry of three operations on each of n files falls.
LEMMA ByThrees ==
  ASSUME NEW n \in Nat
  PROVE  /\ \A k \in 1 .. 3 * n : /\ (k - 1) % 3 \in 0 .. 2
                                  /\ 1 + ((k - 1) \div 3) \in 1 .. n
         /\ \A k \in 1 .. 3 * n : (k - 1) % 3 = 1 =>
              /\ k + 1 \in 1 .. 3 * n
              /\ (k + 1 - 1) % 3 = 2 /\ (k + 1 - 1) \div 3 = (k - 1) \div 3
         /\ \A j \in 1 .. n : /\ 3 * j \in 1 .. 3 * n
                              /\ (3 * j - 1) % 3 = 2 /\ 1 + ((3 * j - 1) \div 3) = j
  OBVIOUS

\* The copies: hash, bytes and comparison of each of the files in turn.
LEMMA EachCopy ==
  ASSUME NEW files \in Seq(Retained)
  PROVE  LET e == Each(<<"hash", "bytes", "compare">>, files)
         IN  Ordered(e, 3, 3) /\ {"compare"} \X ToSet(files) \subseteq ToSet(e)
<1> DEFINE ops == <<"hash", "bytes", "compare">>
           n == Len(files)
           e == Each(ops, files)
<1>1. n \in Nat /\ DOMAIN files = 1 .. n /\ \A j \in 1 .. n : files[j] \in Retained
  OBVIOUS
<1>2. /\ Len(ops) = 3 /\ ops[1] = "hash" /\ ops[2] = "bytes" /\ ops[3] = "compare"
      /\ 1 + 2 = 3 /\ 1 + 1 = 2 /\ 1 + 0 = 1
  OBVIOUS
<1> HIDE DEF ops, n
<1>3. e = [k \in 1 .. 3 * n |-> <<ops[1 + ((k - 1) % 3)], files[1 + ((k - 1) \div 3)]>>]
  BY <1>2 DEF Each, n
<1> HIDE DEF e
<1>4. \A k \in 1 .. 3 * n :
        /\ e[k] = <<ops[1 + ((k - 1) % 3)], files[1 + ((k - 1) \div 3)]>>
        /\ (k - 1) % 3 \in {0, 1, 2} /\ 1 + ((k - 1) \div 3) \in 1 .. n
  <2>1. \A k \in 1 .. 3 * n : (k - 1) % 3 \in 0 .. 2 /\ 1 + ((k - 1) \div 3) \in 1 .. n
    BY <1>1, ByThrees
  <2> QED BY <2>1, <1>3
<1>5. \A k \in 1 .. 3 * n :
        /\ e[k][1] \in {"hash", "bytes", "compare"} /\ e[k][2] \in Retained
        /\ e[k] = <<e[k][1], e[k][2]>> /\ e[k][2] = files[1 + ((k - 1) \div 3)]
        /\ e[k][1] = "bytes" => (k - 1) % 3 = 1
        /\ (k - 1) % 3 = 2 => e[k][1] = "compare"
  <2> TAKE k \in 1 .. 3 * n
  <2> DEFINE f == files[1 + ((k - 1) \div 3)]
  <2>1. e[k] = <<ops[1 + ((k - 1) % 3)], f>> /\ f \in Retained
    BY <1>1, <1>4
  <2> HIDE DEF f
  <2>2. CASE (k - 1) % 3 = 0
    <3>1. e[k] = <<"hash", f>> /\ (k - 1) % 3 # 1 /\ (k - 1) % 3 # 2
      BY <2>1, <2>2, <1>2
    <3> QED BY <3>1, <2>1 DEF f
  <2>3. CASE (k - 1) % 3 = 1
    <3>1. e[k] = <<"bytes", f>> /\ (k - 1) % 3 # 2
      BY <2>1, <2>3, <1>2
    <3> QED BY <3>1, <2>1, <2>3 DEF f
  <2>4. CASE (k - 1) % 3 = 2
    <3>1. e[k] = <<"compare", f>>
      BY <2>1, <2>4, <1>2
    <3> QED BY <3>1, <2>1 DEF f
  <2> QED BY <2>2, <2>3, <2>4, <1>4
<1>6. \A k \in 1 .. 3 * n : e[k] \in Entries /\ Turn(e[k][1]) = 3
  <2> TAKE k \in 1 .. 3 * n
  <2>1. PICK op \in {"hash", "bytes", "compare"}, f \in Retained : e[k] = <<op, f>>
    BY <1>5
  <2> QED BY <2>1, <1>5, Turns DEF Entries
<1>7. e \in Seq(Entries) /\ Len(e) = 3 * n
  <2>1. e \in [1 .. 3 * n -> Entries] /\ 3 * n \in Nat
    BY <1>1, <1>3, <1>6
  <2> QED BY <2>1
<1>8. ASSUME NEW k \in 1 .. 3 * n, e[k][1] = "bytes"
      PROVE  k + 1 <= 3 * n /\ e[k + 1] = <<"compare", e[k][2]>>
  <2>1. /\ k + 1 \in 1 .. 3 * n
        /\ (k + 1 - 1) % 3 = 2 /\ (k + 1 - 1) \div 3 = (k - 1) \div 3
    BY <1>1, <1>5, <1>8, ByThrees
  <2>2. e[k + 1][1] = "compare" /\ e[k + 1][2] = e[k][2]
    BY <2>1, <1>5
  <2>3. e[k + 1] = <<e[k + 1][1], e[k + 1][2]>>
    BY <2>1, <1>5
  <2>4. k + 1 <= 3 * n
    BY <2>1, <1>1
  <2> QED BY <2>2, <2>3, <2>4
<1>9. Ordered(e, 3, 3)
  BY <1>6, <1>7, <1>8 DEF Ordered
<1>10. ASSUME NEW f \in ToSet(files) PROVE <<"compare", f>> \in ToSet(e)
  <2>1. PICK j \in 1 .. n : f = files[j]
    BY <1>1 DEF ToSet
  <2>2. 3 * j \in 1 .. 3 * n /\ (3 * j - 1) % 3 = 2 /\ 1 + ((3 * j - 1) \div 3) = j
    BY <1>1, ByThrees
  <2>3. e[3 * j] = <<"compare", f>>
    BY <2>1, <2>2, <1>5
  <2> QED BY <2>2, <2>3, <1>3 DEF ToSet
<1> QED BY <1>9, <1>10 DEF e, ops

\* The parts with several operations on one file, entry by entry.
LEMMA EachOfOne ==
  /\ Each(<<"same", "hash", "bytes", "compare">>, <<Schema>>)
       = <<<<"same", Schema>>, <<"hash", Schema>>, <<"bytes", Schema>>, <<"compare", Schema>>>>
  /\ Each(<<"offset", "write">>, <<File("inputs")>>)
       = <<<<"offset", File("inputs")>>, <<"write", File("inputs")>>>>
  /\ Each(<<"observe", "terminal">>, <<File("player")>>)
       = <<<<"observe", File("player")>>, <<"terminal", File("player")>>>>
  BY DEF Each

\* Every recording and every summary is among the members.
LEMMA MembersAre ==
  /\ Recordings \in Seq(Recs) /\ ToSet(Recordings) = Recs
  /\ Summaries \in Seq(Pairs)
  /\ Members \in Seq(Pairs) /\ ToSet(Members) = Pairs
<1> USE PlaybackAssumption
<1>1. Recordings \in Seq(Recs)
  BY DEF Recordings, Recs
<1>2. ToSet(Recordings) = Recs
  BY DEF ToSet, Recordings, Recs
<1>3. Summaries \in Seq(Pairs)
  BY DEF Summaries, Pairs, Sums
<1>4. \A i \in 1 .. 2 * Segments :
        (i + 1) \div 2 \in 1 .. Segments \/ (i % 2 # 1 /\ i \div 2 \in 1 .. Segments)
  OBVIOUS
<1>5. \A i \in 1 .. 2 * Segments :
        /\ i % 2 = 1 => (i + 1) \div 2 \in 1 .. Segments
        /\ i % 2 # 1 => i \div 2 \in 1 .. Segments
  OBVIOUS
<1>6. \A i \in 1 .. 2 * Segments : Members[i] \in Pairs
  BY <1>5 DEF Members, Pairs, Sums
<1>7. Members \in Seq(Pairs)
  <2>1. Members \in [1 .. 2 * Segments -> Pairs] /\ 2 * Segments \in Nat
    BY <1>6 DEF Members
  <2> QED BY <2>1
<1>8. \A i \in 1 .. Segments :
        /\ 2 * i \in 1 .. 2 * Segments /\ (2 * i) % 2 # 1 /\ (2 * i) \div 2 = i
        /\ 2 * i - 1 \in 1 .. 2 * Segments /\ (2 * i - 1) % 2 = 1 /\ (2 * i - 1 + 1) \div 2 = i
  OBVIOUS
<1>9. \A i \in 1 .. Segments : Members[2 * i] = Sum(i) /\ Members[2 * i - 1] = Rec(i)
  BY <1>8 DEF Members
<1>10. DOMAIN Members = 1 .. 2 * Segments
  BY DEF Members
<1>11. ToSet(Members) = Pairs
  <2>1. ToSet(Members) = {Members[i] : i \in 1 .. 2 * Segments}
    BY <1>10 DEF ToSet
  <2>2. \A i \in 1 .. Segments : Sum(i) \in ToSet(Members) /\ Rec(i) \in ToSet(Members)
    BY <2>1, <1>8, <1>9
  <2>3. Pairs \subseteq ToSet(Members)
    BY <2>2 DEF Pairs, Sums
  <2> QED BY <2>1, <2>3, <1>6
<1> QED BY <1>1, <1>2, <1>3, <1>7, <1>11

\* The files that are copied and the files that are played.
LEMMA FilesAre ==
  /\ Selected \in Seq(Retained) /\ Retained = ToSet(Selected) \union {Schema}
  /\ Pairs \subseteq Retained /\ Recs \subseteq Pairs
  /\ {File("metadata"), File("context"), File("scenario"), File("runtime"), File("index"),
      File("statement")} \subseteq Retained
  /\ Executed \in Seq(Played) /\ Recs \subseteq Played /\ File("metadata") \in Played
  /\ Provided = Played \union {Config} /\ Config \notin Played
<1> DEFINE first == <<File("metadata"), File("context"), File("scenario"), File("runtime"),
                      File("index"), File("statement"), File("qos"), File("writer")>>
           F == {File("metadata"), File("context"), File("scenario"), File("runtime"),
                 File("index"), File("statement"), File("qos"), File("writer")}
<1>1. first \in Seq(F) /\ ToSet(first) = F
  BY DEF ToSet
<1>2. Selected = first \o Members
  BY DEF Selected
<1> HIDE DEF first
<1>3. ToSet(Selected) = F \union Pairs /\ Selected \in Seq(F \union Pairs)
  <2>1. first \in Seq(F \union Pairs) /\ Members \in Seq(F \union Pairs)
    BY <1>1, MembersAre
  <2> QED BY <2>1, <1>1, <1>2, MembersAre, JoinedSets
<1>4. Retained = F \union Pairs \union {Schema}
  BY <1>3 DEF Retained
<1>5. Recs \subseteq Pairs
  BY DEF Recs, Pairs
<1> DEFINE P == {File("metadata"), File("replay_qos")} \union Recs
<1>6. Executed \in Seq(P) /\ ToSet(Executed) = P
  <2>1. /\ <<File("metadata")>> \in Seq(P) /\ ToSet(<<File("metadata")>>) = {File("metadata")}
        /\ <<File("replay_qos")>> \in Seq(P)
        /\ ToSet(<<File("replay_qos")>>) = {File("replay_qos")}
    BY DEF ToSet
  <2>2. Recordings \in Seq(P) /\ ToSet(Recordings) = Recs
    BY MembersAre
  <2> DEFINE one == <<File("metadata")>>
             last == <<File("replay_qos")>>
  <2> HIDE DEF P, one, last
  <2>3. /\ one \o Recordings \in Seq(P)
        /\ ToSet(one \o Recordings) = {File("metadata")} \union Recs
    <3>1. one \in Seq(P) /\ ToSet(one) = {File("metadata")}
      BY <2>1 DEF one
    <3> QED BY <3>1, <2>2, JoinedSets
  <2>4. last \in Seq(P) /\ ToSet(last) = {File("replay_qos")}
    BY <2>1 DEF last
  <2>5. /\ one \o Recordings \o last \in Seq(P)
        /\ ToSet(one \o Recordings \o last)
             = {File("metadata")} \union Recs \union {File("replay_qos")}
    <3> DEFINE two == one \o Recordings
    <3> HIDE DEF two
    <3>1. two \in Seq(P) /\ ToSet(two) = {File("metadata")} \union Recs
      BY <2>3 DEF two
    <3>2. two \o last \in Seq(P) /\ ToSet(two \o last) = ToSet(two) \union ToSet(last)
      BY <3>1, <2>4, JoinedSets
    <3> QED BY <3>1, <3>2, <2>4 DEF two
  <2>6. Executed = one \o Recordings \o last
    BY DEF Executed, one, last
  <2> QED BY <2>5, <2>6 DEF P
<1>7. Config \notin P
  BY DEF Config, File, Recs, Rec
<1>8. Selected \in Seq(Retained)
  BY <1>3, <1>4
<1>9. Provided = Played \union {Config} /\ Played = P
  BY <1>6 DEF Provided, Played
<1> QED BY <1>3, <1>4, <1>5, <1>6, <1>7, <1>8, <1>9 DEF Retained

\* The reading of the capture.
LEMMA SourceCaptureParts ==
  /\ Ordered(SourceCapture, 1, 1) /\ CheckedFirst(SourceCapture)
  /\ {"check"} \X Pairs \subseteq ToSet(SourceCapture)
<1> DEFINE a == Each(<<"admit">>, <<Schema>>)
           files == <<File("statement"), File("scenario"), File("runtime"), File("metadata")>>
                    \o Summaries \o Recordings \o <<File("index")>> \o Members
           b == Each(<<"check">>, files)
           c == Each(<<"identity">>, Recordings)
           d == Each(<<"expect">>, Members)
           e == Each(<<"check">>, <<File("context")>>)
<1>1. files \in Seq(Retained) /\ Pairs \subseteq ToSet(files)
  <2> DEFINE heads == <<File("statement"), File("scenario"), File("runtime"), File("metadata")>>
             one == <<File("index")>>
             first == heads \o Summaries \o Recordings \o one
  <2>1. /\ heads \in Seq(Retained)
        /\ Summaries \in Seq(Retained) /\ Recordings \in Seq(Retained)
        /\ Members \in Seq(Retained) /\ one \in Seq(Retained)
    BY FilesAre, MembersAre
  <2> HIDE DEF heads, one
  <2>2. first \in Seq(Retained)
    BY <2>1
  <2> HIDE DEF first
  <2>3. /\ first \o Members \in Seq(Retained)
        /\ ToSet(first \o Members) = ToSet(first) \union ToSet(Members)
    BY <2>1, <2>2, JoinedSets
  <2> QED BY <2>3, MembersAre DEF first, heads, one
<1>2. /\ {"admit"} \X {Schema} \subseteq Entries /\ {"check"} \X Retained \subseteq Entries
      /\ {"identity"} \X Recs \subseteq Entries /\ {"expect"} \X Pairs \subseteq Entries
  BY DEF Entries
<1>3. Ordered(a, 1, 1)
  <2>1. Turn("admit") = 1 /\ <<"admit", Schema>> \in Entries
    BY <1>2, Turns
  <2> QED BY <2>1, EachSingle
<1>4. Ordered(b, 1, 1) /\ ToSet(b) = {"check"} \X ToSet(files)
  <2> HIDE DEF files
  <2>1. Turn("check") = 1 /\ {"check"} \X Retained \subseteq Entries
    BY <1>2, Turns
  <2> QED BY <1>1, <2>1, EachOne
<1>5. Ordered(c, 1, 1) /\ ToSet(c) = {"identity"} \X ToSet(Recordings)
  <2>1. Turn("identity") = 1 /\ {"identity"} \X Recs \subseteq Entries
    BY <1>2, Turns
  <2> QED BY <2>1, MembersAre, EachOne
<1>6. Ordered(d, 1, 1) /\ ToSet(d) = {"expect"} \X ToSet(Members)
  <2>1. Turn("expect") = 1 /\ {"expect"} \X Pairs \subseteq Entries
    BY <1>2, Turns
  <2> QED BY <2>1, MembersAre, EachOne
<1>12. Ordered(e, 1, 1) /\ ToSet(e) = {"check"} \X {File("context")}
  <2> DEFINE one == <<File("context")>>
  <2>1. Turn("check") = 1 /\ {"check"} \X Retained \subseteq Entries
    BY <1>2, Turns
  <2>2. one \in Seq(Retained) /\ ToSet(one) = {File("context")}
    BY FilesAre DEF ToSet
  <2> HIDE DEF one
  <2>3. Ordered(Each(<<"check">>, one), 1, 1) /\ ToSet(Each(<<"check">>, one)) = {"check"} \X ToSet(one)
    BY <2>1, <2>2, EachOne
  <2> QED BY <2>2, <2>3 DEF one
<1>13. ToSet(a) = {"admit"} \X {Schema}
  <2> DEFINE one == <<Schema>>
  <2>1. Turn("admit") = 1 /\ {"admit"} \X {Schema} \subseteq Entries
    BY <1>2, Turns
  <2>2. one \in Seq({Schema}) /\ ToSet(one) = {Schema}
    BY DEF ToSet
  <2> HIDE DEF one
  <2>3. ToSet(Each(<<"admit">>, one)) = {"admit"} \X ToSet(one)
    BY <2>1, <2>2, EachOne
  <2> QED BY <2>2, <2>3 DEF one
<1>7. SourceCapture = a \o b \o c \o d \o e
  BY DEF SourceCapture
<1> HIDE DEF a, b, c, d, e
<1> DEFINE s1 == a \o b
           s2 == s1 \o c
           s3 == s2 \o d
           s4 == s3 \o e
<1> HIDE DEF s1, s2, s3, s4
<1>8. Ordered(s1, 1, 1) /\ ToSet(s1) = ToSet(a) \union ToSet(b)
  BY <1>3, <1>4, JoinedParts DEF s1
<1>9. Ordered(s2, 1, 1) /\ ToSet(s2) = ToSet(s1) \union ToSet(c)
  BY <1>8, <1>5, JoinedParts DEF s2
<1>10. Ordered(s3, 1, 1) /\ ToSet(s3) = ToSet(s2) \union ToSet(d)
  BY <1>9, <1>6, JoinedParts DEF s3
<1>11. Ordered(s4, 1, 1) /\ ToSet(s4) = ToSet(s3) \union ToSet(e)
  BY <1>10, <1>12, JoinedParts DEF s4
<1>14. SourceCapture = s4
  BY <1>7 DEF s1, s2, s3, s4
<1>15. CheckedFirst(s2)
  <2>1. ASSUME NEW j \in 1 .. Len(s2), NEW f \in Pairs PROVE s2[j] # <<"expect", f>>
    <3>1. s2[j] \in ToSet(s2)
      BY <1>9 DEF Ordered, ToSet
    <3>2. s2[j] \in ({"admit"} \X {Schema}) \union ({"check"} \X ToSet(files))
                    \union ({"identity"} \X ToSet(Recordings))
      BY <3>1, <1>4, <1>5, <1>8, <1>9, <1>13
    <3> QED BY <3>2
  <2> QED BY <2>1 DEF CheckedFirst
<1>16. CheckedFirst(s3)
  <2>1. ASSUME NEW k \in 1 .. Len(d), NEW f \in Pairs PROVE d[k] # <<"check", f>>
    <3>1. d[k] \in ToSet(d)
      BY <1>6 DEF Ordered, ToSet
    <3> QED BY <3>1, <1>6
  <2> QED BY <2>1, <1>6, <1>9, <1>15, CheckedJoined DEF Ordered, s3
<1>17. CheckedFirst(s4)
  <2>1. ASSUME NEW k \in 1 .. Len(e), NEW f \in Pairs PROVE e[k] # <<"check", f>>
    <3>1. e[k] \in ToSet(e)
      BY <1>12 DEF Ordered, ToSet
    <3>2. File("context") \notin Pairs
      BY DEF File, Pairs, Sums, Rec, Sum
    <3> QED BY <3>1, <3>2, <1>12
  <2> QED BY <2>1, <1>12, <1>10, <1>16, CheckedJoined DEF Ordered, s4
<1>18. {"check"} \X Pairs \subseteq ToSet(s4)
  BY <1>1, <1>4, <1>8, <1>9, <1>10, <1>11
<1> QED BY <1>11, <1>14, <1>17, <1>18

\* The copies, and what is read of them.
LEMMA DecodedParts ==
  /\ Ordered(Decoded, 1, 9) /\ CheckedFirst(Decoded)
  /\ {"check"} \X Pairs \subseteq ToSet(Decoded)
  /\ {<<"mkdir", File("output")>>} \union ({"compare", "before", "again"} \X Retained)
       \union ({"lookup", "scan"} \X Recs) \union ({"refer"} \X (Pairs \union {File("metadata")}))
       \subseteq ToSet(Decoded)
<1> DEFINE all == Selected \o <<Schema>>
           meta == <<File("metadata")>> \o Members
           a == Each(<<"mkdir">>, <<File("output")>>)
           b == Each(<<"same", "hash", "bytes", "compare">>, <<Schema>>)
           c == Each(<<"hash", "bytes", "compare">>, Selected)
           d == Each(<<"before">>, all)
           e == Each(<<"lookup">>, Recordings)
           f == Each(<<"refer">>, meta)
           g == Each(<<"scan">>, Recordings)
           h == Each(<<"again">>, all)
           i == Each(<<"counts">>, <<File("metadata")>>)
           M == Pairs \union {File("metadata")}
<1>1. all \in Seq(Retained) /\ ToSet(all) = Retained
  <2> DEFINE last == <<Schema>>
  <2>1. last \in Seq(Retained) /\ ToSet(last) = {Schema}
    BY FilesAre DEF ToSet
  <2> HIDE DEF last
  <2>2. Selected \o last \in Seq(Retained) /\ ToSet(Selected \o last) = Retained
    BY <2>1, FilesAre, JoinedSets
  <2> QED BY <2>2 DEF last
<1>2. meta \in Seq(M) /\ ToSet(meta) = M
  <2> DEFINE one == <<File("metadata")>>
  <2>1. one \in Seq(M) /\ ToSet(one) = {File("metadata")} /\ Members \in Seq(M)
    BY MembersAre DEF ToSet
  <2> HIDE DEF one, M
  <2>2. one \o Members \in Seq(M) /\ ToSet(one \o Members) = ToSet(one) \union ToSet(Members)
    BY <2>1, JoinedSets
  <2> QED BY <2>1, <2>2, MembersAre DEF one, M
<1>3. /\ {"before"} \X Retained \subseteq Entries /\ {"again"} \X Retained \subseteq Entries
      /\ {"lookup"} \X Recs \subseteq Entries /\ {"scan"} \X Recs \subseteq Entries
      /\ {"refer"} \X M \subseteq Entries
      /\ <<"mkdir", File("output")>> \in Entries /\ <<"counts", File("metadata")>> \in Entries
  BY DEF Entries
<1> HIDE DEF all, meta, M
<1>4. Ordered(a, 2, 2) /\ <<"mkdir", File("output")>> \in ToSet(a)
  <2>1. Turn("mkdir") = 2 /\ <<"mkdir", File("output")>> \in Entries
    BY <1>3, Turns
  <2> QED BY <2>1, EachSingle
<1>5. Ordered(b, 3, 3) /\ <<"compare", Schema>> \in ToSet(b)
  <2>1. b = <<<<"same", Schema>>, <<"hash", Schema>>, <<"bytes", Schema>>, <<"compare", Schema>>>>
    BY EachOfOne
  <2>2. {<<"same", Schema>>, <<"hash", Schema>>, <<"bytes", Schema>>, <<"compare", Schema>>}
          \subseteq Entries
    BY FilesAre DEF Entries
  <2> HIDE DEF b
  <2>3. b \in Seq(Entries) /\ Len(b) = 4
    BY <2>1, <2>2
  <2>4. /\ b[1] = <<"same", Schema>> /\ b[2] = <<"hash", Schema>> /\ b[3] = <<"bytes", Schema>>
        /\ b[4] = <<"compare", Schema>>
    BY <2>1
  <2>5. \A k \in 1 .. 4 : Turn(b[k][1]) = 3
    BY <2>4, Turns
  <2>6. \A k \in 1 .. 4 : b[k][1] = "bytes" => k + 1 <= 4 /\ b[k + 1] = <<"compare", b[k][2]>>
    BY <2>4
  <2>7. Ordered(b, 3, 3)
    BY <2>3, <2>5, <2>6 DEF Ordered
  <2>8. 4 \in DOMAIN b
    BY <2>3
  <2> QED BY <2>4, <2>7, <2>8 DEF ToSet
<1>6. Ordered(c, 3, 3) /\ {"compare"} \X ToSet(Selected) \subseteq ToSet(c)
  BY FilesAre, EachCopy
<1>7. Ordered(d, 4, 4) /\ ToSet(d) = {"before"} \X Retained
  <2>1. Turn("before") = 4 /\ {"before"} \X Retained \subseteq Entries
    BY <1>3, Turns
  <2> QED BY <2>1, <1>1, EachOne
<1>8. Ordered(e, 5, 5) /\ ToSet(e) = {"lookup"} \X Recs
  <2>1. Turn("lookup") = 5 /\ {"lookup"} \X Recs \subseteq Entries
    BY <1>3, Turns
  <2> QED BY <2>1, MembersAre, EachOne
<1>9. Ordered(f, 6, 6) /\ ToSet(f) = {"refer"} \X M
  <2>1. Turn("refer") = 6 /\ {"refer"} \X M \subseteq Entries
    BY <1>3, Turns
  <2> QED BY <2>1, <1>2, EachOne
<1>10. Ordered(g, 7, 7) /\ ToSet(g) = {"scan"} \X Recs
  <2>1. Turn("scan") = 7 /\ {"scan"} \X Recs \subseteq Entries
    BY <1>3, Turns
  <2> QED BY <2>1, MembersAre, EachOne
<1>11. Ordered(h, 8, 8) /\ ToSet(h) = {"again"} \X Retained
  <2>1. Turn("again") = 8 /\ {"again"} \X Retained \subseteq Entries
    BY <1>3, Turns
  <2> QED BY <2>1, <1>1, EachOne
<1>12. Ordered(i, 9, 9)
  <2>1. Turn("counts") = 9 /\ <<"counts", File("metadata")>> \in Entries
    BY <1>3, Turns
  <2> QED BY <2>1, EachSingle
<1>13. Decoded = SourceCapture \o a \o b \o c \o d \o e \o f \o g \o h \o i
  BY DEF Decoded, all, meta
<1> HIDE DEF a, b, c, d, e, f, g, h, i
<1> DEFINE s1 == SourceCapture \o a
           s2 == s1 \o b
           s3 == s2 \o c
           s4 == s3 \o d
           s5 == s4 \o e
           s6 == s5 \o f
           s7 == s6 \o g
           s8 == s7 \o h
           s9 == s8 \o i
<1> HIDE DEF s1, s2, s3, s4, s5, s6, s7, s8, s9
<1>14. Ordered(s1, 1, 2) /\ ToSet(s1) = ToSet(SourceCapture) \union ToSet(a)
  BY SourceCaptureParts, <1>4, JoinedParts DEF s1
<1>15. Ordered(s2, 1, 3) /\ ToSet(s2) = ToSet(s1) \union ToSet(b)
  BY <1>14, <1>5, JoinedParts DEF s2
<1>16. Ordered(s3, 1, 3) /\ ToSet(s3) = ToSet(s2) \union ToSet(c)
  BY <1>15, <1>6, JoinedParts DEF s3
<1>17. Ordered(s4, 1, 4) /\ ToSet(s4) = ToSet(s3) \union ToSet(d)
  BY <1>16, <1>7, JoinedParts DEF s4
<1>18. Ordered(s5, 1, 5) /\ ToSet(s5) = ToSet(s4) \union ToSet(e)
  BY <1>17, <1>8, JoinedParts DEF s5
<1>19. Ordered(s6, 1, 6) /\ ToSet(s6) = ToSet(s5) \union ToSet(f)
  BY <1>18, <1>9, JoinedParts DEF s6
<1>20. Ordered(s7, 1, 7) /\ ToSet(s7) = ToSet(s6) \union ToSet(g)
  BY <1>19, <1>10, JoinedParts DEF s7
<1>21. Ordered(s8, 1, 8) /\ ToSet(s8) = ToSet(s7) \union ToSet(h)
  BY <1>20, <1>11, JoinedParts DEF s8
<1>22. Ordered(s9, 1, 9) /\ ToSet(s9) = ToSet(s8) \union ToSet(i)
  BY <1>21, <1>12, JoinedParts DEF s9
<1>28. CheckedFirst(s1) /\ CheckedFirst(s2) /\ CheckedFirst(s3)
  <2>1. CheckedFirst(s1)
    BY SourceCaptureParts, <1>4, CheckedThen DEF s1
  <2>2. CheckedFirst(s2)
    BY <2>1, <1>14, <1>5, CheckedThen DEF s2
  <2>3. CheckedFirst(s3)
    BY <2>2, <1>15, <1>6, CheckedThen DEF s3
  <2> QED BY <2>1, <2>2, <2>3
<1>29. CheckedFirst(s4) /\ CheckedFirst(s5) /\ CheckedFirst(s6)
  <2>1. CheckedFirst(s4)
    BY <1>28, <1>16, <1>7, CheckedThen DEF s4
  <2>2. CheckedFirst(s5)
    BY <2>1, <1>17, <1>8, CheckedThen DEF s5
  <2>3. CheckedFirst(s6)
    BY <2>2, <1>18, <1>9, CheckedThen DEF s6
  <2> QED BY <2>1, <2>2, <2>3
<1>30. CheckedFirst(s9)
  <2>1. CheckedFirst(s7)
    BY <1>29, <1>19, <1>10, CheckedThen DEF s7
  <2>2. CheckedFirst(s8)
    BY <2>1, <1>20, <1>11, CheckedThen DEF s8
  <2> QED BY <2>2, <1>21, <1>12, CheckedThen DEF s9
<1>31. {"check"} \X Pairs \subseteq ToSet(s9)
  BY SourceCaptureParts, <1>14, <1>15, <1>16, <1>17, <1>18, <1>19, <1>20, <1>21, <1>22
<1>23. Decoded = s9
  BY <1>13 DEF s1, s2, s3, s4, s5, s6, s7, s8, s9
<1>24. /\ ToSet(a) \subseteq ToSet(s9) /\ ToSet(b) \subseteq ToSet(s9)
       /\ ToSet(c) \subseteq ToSet(s9) /\ ToSet(d) \subseteq ToSet(s9)
       /\ ToSet(e) \subseteq ToSet(s9) /\ ToSet(f) \subseteq ToSet(s9)
       /\ ToSet(g) \subseteq ToSet(s9) /\ ToSet(h) \subseteq ToSet(s9)
  BY <1>14, <1>15, <1>16, <1>17, <1>18, <1>19, <1>20, <1>21, <1>22
<1>25. {"compare"} \X Retained \subseteq ToSet(s9)
  BY <1>5, <1>6, <1>24, FilesAre
<1>26. {"compare", "before", "again"} \X Retained \subseteq ToSet(s9)
  BY <1>7, <1>11, <1>24, <1>25
<1>27. {"lookup", "scan"} \X Recs \subseteq ToSet(s9)
  BY <1>8, <1>10, <1>24
<1> QED BY <1>4, <1>9, <1>22, <1>23, <1>24, <1>26, <1>27, <1>30, <1>31 DEF M

\* The documents: playback-inputs.json is the last that is written.
LEMMA PrepareParts ==
  /\ Ordered(Prepare, 1, 10) /\ CheckedFirst(Prepare) /\ ToSet(Decoded) \subseteq ToSet(Prepare)
  /\ {"write"} \X {File(d) : d \in Documents} \subseteq ToSet(Prepare)
  /\ <<"offset", File("inputs")>> \in ToSet(Prepare)
  /\ \A k \in 1 .. Len(Prepare) : Prepare[k] = <<"write", File("inputs")>> => k = Len(Prepare)
<1> DEFINE files == <<File("replay_qos"), File("dataset"), File("replay_scenario"),
                      File("schema_arguments")>>
           F == {File("replay_qos"), File("dataset"), File("replay_scenario"),
                 File("schema_arguments")}
           last == File("inputs")
           a == Each(<<"write">>, files)
           b == Each(<<"offset", "write">>, <<last>>)
           s1 == Decoded \o a
           s2 == s1 \o b
<1>1. files \in Seq(F) /\ ToSet(files) = F
  BY DEF ToSet
<1>2. /\ {File(d) : d \in Documents} = F \union {last} /\ last \notin F
  BY DEF Documents, File
<1>3. /\ {"write"} \X (F \union {last}) \subseteq Entries /\ <<"offset", last>> \in Entries
  BY <1>2 DEF Entries
<1>4. Prepare = s2
  BY DEF Prepare
<1> HIDE DEF files, F, last, a, b, s1, s2
<1>5. Ordered(a, 10, 10) /\ ToSet(a) = {"write"} \X F
  <2>1. Turn("write") = 10 /\ {"write"} \X F \subseteq Entries
    BY <1>3, Turns
  <2> QED BY <2>1, <1>1, EachOne DEF a
<1>6. b = <<<<"offset", last>>, <<"write", last>>>>
  BY EachOfOne DEF b, last
<1>7. /\ b \in Seq(Entries) /\ Len(b) = 2 /\ b[1] = <<"offset", last>> /\ b[2] = <<"write", last>>
  <2>1. <<"offset", last>> \in Entries /\ <<"write", last>> \in Entries
    BY <1>3
  <2> QED BY <1>6, <2>1
<1>8. Ordered(b, 10, 10)
  <2>1. \A k \in 1 .. 2 : Turn(b[k][1]) = 10 /\ b[k][1] # "bytes"
    BY <1>7, Turns
  <2> QED BY <1>7, <2>1 DEF Ordered
<1>9. <<"offset", last>> \in ToSet(b) /\ <<"write", last>> \in ToSet(b)
  <2>1. 1 \in DOMAIN b /\ 2 \in DOMAIN b
    BY <1>7
  <2> QED BY <2>1, <1>7 DEF ToSet
<1>10. Ordered(s1, 1, 10) /\ ToSet(s1) = ToSet(Decoded) \union ToSet(a)
  BY <1>5, DecodedParts, JoinedParts DEF s1
<1>11. Ordered(s2, 1, 10) /\ ToSet(s2) = ToSet(s1) \union ToSet(b)
  BY <1>10, <1>8, JoinedParts DEF s2
<1>12. <<"write", last>> \notin ToSet(s1)
  <2>1. <<"write", last>> \notin ToSet(a)
    BY <1>2, <1>5
  <2>2. ASSUME NEW k \in DOMAIN Decoded PROVE Decoded[k] # <<"write", last>>
    <3>1. Ordered(Decoded, 1, 9)
      BY DecodedParts
    <3>2. k \in 1 .. Len(Decoded)
      BY <3>1 DEF Ordered
    <3>3. Turn(Decoded[k][1]) \in 1 .. 9
      BY <3>1, <3>2 DEF Ordered
    <3>4. Turn("write") = 10
      BY Turns
    <3> QED BY <3>3, <3>4
  <2> QED BY <2>1, <2>2, <1>10 DEF ToSet
<1>13. ASSUME NEW k \in 1 .. Len(s2), s2[k] = <<"write", last>> PROVE k = Len(s2)
  <2>1. /\ s1 \in Seq(Entries) /\ Len(s1) \in Nat /\ Len(s2) = Len(s1) + Len(b)
        /\ s2[k] = IF k <= Len(s1) THEN s1[k] ELSE b[k - Len(s1)]
    <3>1. s1 \in Seq(Entries) /\ b \in Seq(Entries)
      BY <1>10, <1>7 DEF Ordered
    <3> QED BY <3>1, ConcatProperties DEF s2
  <2>2. ~(k <= Len(s1))
    <3>1. k <= Len(s1) => k \in DOMAIN s1 /\ s2[k] = s1[k]
      BY <2>1
    <3> QED BY <3>1, <1>12, <1>13 DEF ToSet
  <2>3. k - Len(s1) \in 1 .. 2 /\ b[k - Len(s1)] = <<"write", last>>
    BY <2>1, <2>2, <1>7, <1>13
  <2>4. k - Len(s1) = 2
    BY <2>3, <1>7
  <2> QED BY <2>1, <2>4, <1>7
<1>14. {"write"} \X (F \union {last}) \subseteq ToSet(s2)
  BY <1>5, <1>9, <1>10, <1>11
<1>15. ToSet(Decoded) \subseteq ToSet(s2) /\ <<"offset", last>> \in ToSet(s2)
  BY <1>9, <1>10, <1>11
<1>16. CheckedFirst(s2)
  <2>1. CheckedFirst(s1)
    BY <1>5, DecodedParts, CheckedThen DEF s1
  <2> QED BY <2>1, <1>8, <1>10, CheckedThen DEF s2
<1> QED BY <1>2, <1>4, <1>11, <1>13, <1>14, <1>15, <1>16 DEF last

\* The runner's copies, its configuration and the playback.
LEMMA RunnerParts ==
  /\ Ordered(Runner, 11, 15)
  /\ {"list", "play"} \X Played \subseteq ToSet(Runner)
  /\ <<"exit", File("player")>> \in ToSet(Runner)
<1> DEFINE a == Each(<<"retain">>, Executed)
           b == Each(<<"list">>, Executed)
           c == Each(<<"configure">>, <<Config>>)
           d == Each(<<"play">>, Executed)
           e == Each(<<"exit">>, <<File("player")>>)
           s1 == a \o b
           s2 == s1 \o c
           s3 == s2 \o d
           s4 == s3 \o e
<1>1. /\ {"retain"} \X Played \subseteq Entries /\ {"list"} \X Played \subseteq Entries
      /\ {"play"} \X Played \subseteq Entries /\ <<"configure", Config>> \in Entries
      /\ <<"exit", File("player")>> \in Entries
  BY DEF Entries
<1>2. Ordered(a, 11, 11)
  <2>1. Turn("retain") = 11 /\ {"retain"} \X Played \subseteq Entries
    BY <1>1, Turns
  <2> QED BY <2>1, FilesAre, EachOne
<1>3. Ordered(b, 12, 12) /\ ToSet(b) = {"list"} \X Played
  <2>1. Turn("list") = 12 /\ {"list"} \X Played \subseteq Entries
    BY <1>1, Turns
  <2> QED BY <2>1, FilesAre, EachOne DEF Played
<1>4. Ordered(c, 13, 13)
  <2>1. Turn("configure") = 13 /\ <<"configure", Config>> \in Entries
    BY <1>1, Turns
  <2> QED BY <2>1, EachSingle
<1>5. Ordered(d, 14, 14) /\ ToSet(d) = {"play"} \X Played
  <2>1. Turn("play") = 14 /\ {"play"} \X Played \subseteq Entries
    BY <1>1, Turns
  <2> QED BY <2>1, FilesAre, EachOne DEF Played
<1>6. Ordered(e, 15, 15) /\ <<"exit", File("player")>> \in ToSet(e)
  <2>1. Turn("exit") = 15 /\ <<"exit", File("player")>> \in Entries
    BY <1>1, Turns
  <2> QED BY <2>1, EachSingle
<1>7. Runner = s4
  BY DEF Runner
<1> HIDE DEF a, b, c, d, e, s1, s2, s3, s4
<1>8. Ordered(s1, 11, 12) /\ ToSet(s1) = ToSet(a) \union ToSet(b)
  BY <1>2, <1>3, JoinedParts DEF s1
<1>9. Ordered(s2, 11, 13) /\ ToSet(s2) = ToSet(s1) \union ToSet(c)
  BY <1>8, <1>4, JoinedParts DEF s2
<1>10. Ordered(s3, 11, 14) /\ ToSet(s3) = ToSet(s2) \union ToSet(d)
  BY <1>9, <1>5, JoinedParts DEF s3
<1>11. Ordered(s4, 11, 15) /\ ToSet(s4) = ToSet(s3) \union ToSet(e)
  BY <1>10, <1>6, JoinedParts DEF s4
<1>12. {"list", "play"} \X Played \subseteq ToSet(s4)
  BY <1>3, <1>5, <1>8, <1>9, <1>10, <1>11
<1> QED BY <1>6, <1>7, <1>11, <1>12

\* What the provider reads, and the check of what it has written.
LEMMA ProviderParts ==
  /\ Ordered(Provider, 16, 21)
  /\ ({"source"} \X Played) \union ({"publish"} \X Provided)
       \union {<<"terminal", File("player")>>, <<"observe", File("player")>>}
       \subseteq ToSet(Provider)
<1> DEFINE p == File("player")
           files == <<Config>> \o Executed
           a == Each(<<"terminal">>, <<p>>)
           b == Each(<<"load">>, <<Config>>)
           c == Each(<<"observe", "terminal">>, <<p>>)
           d == Each(<<"source">>, Executed)
           e == Each(<<"members">>, <<File("metadata")>>)
           f == Each(<<"fact">>, <<Config>>)
           g == Each(<<"result">>, <<File("result")>>)
           h == Each(<<"publish">>, files)
           s1 == a \o b
           s2 == s1 \o c
           s3 == s2 \o d
           s4 == s3 \o e
           s5 == s4 \o f
           s6 == s5 \o g
           s7 == s6 \o h
<1>1. files \in Seq(Provided) /\ ToSet(files) = Provided
  <2> DEFINE one == <<Config>>
  <2>1. one \in Seq(Provided) /\ ToSet(one) = {Config} /\ Executed \in Seq(Provided)
    BY FilesAre DEF ToSet
  <2> HIDE DEF one
  <2>2. /\ one \o Executed \in Seq(Provided)
        /\ ToSet(one \o Executed) = ToSet(one) \union ToSet(Executed)
    BY <2>1, JoinedSets
  <2> QED BY <2>1, <2>2 DEF one, Provided
<1>2. /\ {"source"} \X Played \subseteq Entries /\ {"publish"} \X Provided \subseteq Entries
      /\ <<"load", Config>> \in Entries /\ <<"fact", Config>> \in Entries
      /\ <<"terminal", p>> \in Entries /\ <<"observe", p>> \in Entries
      /\ <<"members", File("metadata")>> \in Entries /\ <<"result", File("result")>> \in Entries
  BY DEF Entries
<1>3. Provider = s7
  BY DEF Provider
<1> HIDE DEF p, files, a, b, c, d, e, f, g, h, s1, s2, s3, s4, s5, s6, s7
<1>4. Ordered(a, 16, 16)
  <2>1. Turn("terminal") = 16
    BY Turns
  <2> QED BY <2>1, <1>2, EachSingle DEF a
<1>5. Ordered(b, 16, 16)
  <2>1. Turn("load") = 16
    BY Turns
  <2> QED BY <2>1, <1>2, EachSingle DEF b
<1>6. /\ Ordered(c, 16, 16)
      /\ <<"observe", p>> \in ToSet(c) /\ <<"terminal", p>> \in ToSet(c)
  <2>1. c = <<<<"observe", p>>, <<"terminal", p>>>>
    BY EachOfOne DEF c, p
  <2>2. /\ c \in Seq(Entries) /\ Len(c) = 2
        /\ c[1] = <<"observe", p>> /\ c[2] = <<"terminal", p>>
    BY <1>2, <2>1
  <2>3. \A k \in 1 .. 2 : Turn(c[k][1]) = 16 /\ c[k][1] # "bytes"
    BY <2>2, Turns
  <2>4. 1 \in DOMAIN c /\ 2 \in DOMAIN c
    BY <2>2
  <2>5. Ordered(c, 16, 16)
    BY <2>2, <2>3 DEF Ordered
  <2> QED BY <2>2, <2>4, <2>5 DEF ToSet
<1>7. Ordered(d, 17, 17) /\ ToSet(d) = {"source"} \X Played
  <2>1. Turn("source") = 17
    BY Turns
  <2>2. Executed \in Seq(Played)
    BY FilesAre
  <2> QED BY <2>1, <2>2, <1>2, EachOne DEF d, Played
<1>8. Ordered(e, 18, 18)
  <2>1. Turn("members") = 18
    BY Turns
  <2> QED BY <2>1, <1>2, EachSingle DEF e
<1>9. Ordered(f, 19, 19)
  <2>1. Turn("fact") = 19
    BY Turns
  <2> QED BY <2>1, <1>2, EachSingle DEF f
<1>10. Ordered(g, 20, 20)
  <2>1. Turn("result") = 20
    BY Turns
  <2> QED BY <2>1, <1>2, EachSingle DEF g
<1>11. Ordered(h, 21, 21) /\ ToSet(h) = {"publish"} \X Provided
  <2>1. Turn("publish") = 21
    BY Turns
  <2> QED BY <2>1, <1>1, <1>2, EachOne DEF h
<1>12. Ordered(s1, 16, 16)
  BY <1>4, <1>5, JoinedParts DEF s1
<1>13. Ordered(s2, 16, 16) /\ ToSet(c) \subseteq ToSet(s2)
  BY <1>12, <1>6, JoinedParts DEF s2
<1>14. Ordered(s3, 16, 17) /\ ToSet(c) \union ToSet(d) \subseteq ToSet(s3)
  <2>1. Ordered(s3, 16, 17) /\ ToSet(s3) = ToSet(s2) \union ToSet(d)
    BY <1>13, <1>7, JoinedParts DEF s3
  <2> QED BY <2>1, <1>13
<1>15. Ordered(s4, 16, 18) /\ ToSet(s4) = ToSet(s3) \union ToSet(e)
  BY <1>14, <1>8, JoinedParts DEF s4
<1>16. Ordered(s5, 16, 19) /\ ToSet(s5) = ToSet(s4) \union ToSet(f)
  BY <1>15, <1>9, JoinedParts DEF s5
<1>17. Ordered(s6, 16, 20) /\ ToSet(s6) = ToSet(s5) \union ToSet(g)
  BY <1>16, <1>10, JoinedParts DEF s6
<1>18. Ordered(s7, 16, 21) /\ ToSet(s7) = ToSet(s6) \union ToSet(h)
  BY <1>17, <1>11, JoinedParts DEF s7
<1>19. ToSet(c) \union ToSet(d) \union ToSet(h) \subseteq ToSet(s7)
  BY <1>14, <1>15, <1>16, <1>17, <1>18
<1>20. {<<"terminal", p>>, <<"observe", p>>} \subseteq ToSet(s7)
  BY <1>6, <1>19
<1>21. ({"source"} \X Played) \union ({"publish"} \X Provided) \subseteq ToSet(s7)
  BY <1>7, <1>11, <1>19
<1> QED BY <1>3, <1>18, <1>20, <1>21 DEF p

\* The entries that every run of the three programs has.
Required ==
  {<<"mkdir", File("output")>>, <<"offset", File("inputs")>>, <<"exit", File("player")>>,
   <<"terminal", File("player")>>, <<"observe", File("player")>>}
  \union ({"check"} \X Pairs)
  \union ({"compare", "before", "again"} \X Retained) \union ({"lookup", "scan"} \X Recs)
  \union ({"refer"} \X (Pairs \union {File("metadata")}))
  \union ({"write"} \X {File(d) : d \in Documents})
  \union ({"list", "play", "source"} \X Played) \union ({"publish"} \X Provided)

\* The whole script: where prepare ends, and what stands in it.
LEMMA ScriptParts ==
  /\ Ordered(Script, 1, 21) /\ Len(Prepare) \in Nat /\ Len(Prepare) < Len(Script)
  /\ \A k \in 1 .. Len(Script) : k <= Len(Prepare) <=> Turn(Script[k][1]) <= 10
  /\ \A k \in 1 .. Len(Script) : Script[k] = <<"write", File("inputs")>> => k = Len(Prepare)
  /\ \A e \in Required : \E k \in 1 .. Len(Script) : Script[k] = e
  /\ CheckedFirst(Script)
<1> DEFINE s1 == Prepare \o Runner
           s2 == s1 \o Provider
<1>1. Script = s2
  BY DEF Script
<1> HIDE DEF s1, s2
<1>2. Ordered(s1, 1, 15) /\ ToSet(s1) = ToSet(Prepare) \union ToSet(Runner)
  <2>1. Ordered(Prepare, 1, 10)
    BY PrepareParts
  <2>2. Ordered(Runner, 11, 15)
    BY RunnerParts
  <2> QED BY <2>1, <2>2, JoinedParts DEF s1
<1>3. Ordered(s2, 1, 21) /\ ToSet(s2) = ToSet(s1) \union ToSet(Provider)
  BY <1>2, ProviderParts, JoinedParts DEF s2
<1>4. /\ Prepare \in Seq(Entries) /\ Runner \in Seq(Entries) /\ Provider \in Seq(Entries)
      /\ s1 \in Seq(Entries)
  BY PrepareParts, RunnerParts, ProviderParts, <1>2 DEF Ordered
<1>5. /\ Len(Prepare) \in Nat /\ Len(Runner) \in Nat /\ Len(Provider) \in Nat
      /\ Len(s1) = Len(Prepare) + Len(Runner)
      /\ \A k \in 1 .. Len(Prepare) + Len(Runner) :
           s1[k] = IF k <= Len(Prepare) THEN Prepare[k] ELSE Runner[k - Len(Prepare)]
  BY <1>4, ConcatProperties DEF s1
<1>6. /\ Len(s2) = Len(s1) + Len(Provider)
      /\ \A k \in 1 .. Len(s1) + Len(Provider) :
           s2[k] = IF k <= Len(s1) THEN s1[k] ELSE Provider[k - Len(s1)]
  BY <1>4, ConcatProperties DEF s2
<1>7. Len(Provider) > 0
  <2>1. <<"observe", File("player")>> \in ToSet(Provider)
    BY ProviderParts
  <2>2. DOMAIN Provider # {} /\ DOMAIN Provider = 1 .. Len(Provider)
    BY <2>1, <1>4 DEF ToSet
  <2> QED BY <2>2, <1>5
<1>8. ASSUME NEW k \in 1 .. Len(s2), k <= Len(Prepare)
      PROVE  k \in 1 .. Len(Prepare) /\ s2[k] = Prepare[k] /\ Turn(s2[k][1]) \in 1 .. 10
  <2>1. k \in 1 .. Len(Prepare) /\ k <= Len(s1) /\ s2[k] = Prepare[k]
    BY <1>5, <1>6, <1>8
  <2> QED BY <2>1, PrepareParts DEF Ordered
<1>9. ASSUME NEW k \in 1 .. Len(s2), ~(k <= Len(Prepare))
      PROVE  Turn(s2[k][1]) \in 11 .. 21
  <2>1. CASE k <= Len(s1)
    <3>1. k - Len(Prepare) \in 1 .. Len(Runner) /\ s2[k] = Runner[k - Len(Prepare)]
      BY <1>5, <1>6, <1>9, <2>1
    <3>2. Turn(s2[k][1]) \in 11 .. 15
      BY <3>1, RunnerParts DEF Ordered
    <3> QED BY <3>2
  <2>2. CASE ~(k <= Len(s1))
    <3>1. k - Len(s1) \in 1 .. Len(Provider) /\ s2[k] = Provider[k - Len(s1)]
      BY <1>5, <1>6, <1>9, <2>2
    <3>2. Turn(s2[k][1]) \in 16 .. 21
      BY <3>1, ProviderParts DEF Ordered
    <3> QED BY <3>2
  <2> QED BY <2>1, <2>2
<1>10. \A k \in 1 .. Len(s2) : k <= Len(Prepare) <=> Turn(s2[k][1]) <= 10
  <2> SUFFICES ASSUME NEW k \in 1 .. Len(s2)
               PROVE  k <= Len(Prepare) <=> Turn(s2[k][1]) <= 10
    OBVIOUS
  <2>1. CASE k <= Len(Prepare)
    <3>1. Turn(s2[k][1]) \in 1 .. 10
      BY <2>1, <1>8
    <3> QED BY <2>1, <3>1
  <2>2. CASE ~(k <= Len(Prepare))
    <3>1. Turn(s2[k][1]) \in 11 .. 21
      BY <2>2, <1>9
    <3> QED BY <2>2, <3>1
  <2> QED BY <2>1, <2>2
<1>11. ASSUME NEW k \in 1 .. Len(s2), s2[k] = <<"write", File("inputs")>> PROVE k = Len(Prepare)
  <2>1. Turn(s2[k][1]) = 10
    BY <1>11, Turns
  <2>2. k \in 1 .. Len(Prepare) /\ Prepare[k] = <<"write", File("inputs")>>
    BY <2>1, <1>8, <1>10, <1>11
  <2> QED BY <2>2, PrepareParts
<1>12. \A e \in ToSet(s2) : \E k \in 1 .. Len(s2) : s2[k] = e
  <2>1. s2 \in Seq(Entries)
    BY <1>3 DEF Ordered
  <2> QED BY <2>1 DEF ToSet
<1>13. ToSet(Decoded) \union ToSet(Prepare) \union ToSet(Runner) \union ToSet(Provider)
         \subseteq ToSet(s2)
  BY <1>2, <1>3, PrepareParts
<1>14. Required \subseteq ToSet(s2)
  <2>1. /\ {<<"mkdir", File("output")>>} \union ({"compare", "before", "again"} \X Retained)
             \union ({"check"} \X Pairs) \union ({"lookup", "scan"} \X Recs)
             \union ({"refer"} \X (Pairs \union {File("metadata")})) \subseteq ToSet(s2)
    BY <1>13, DecodedParts
  <2>2. ({"write"} \X {File(d) : d \in Documents}) \union {<<"offset", File("inputs")>>}
          \subseteq ToSet(s2)
    BY <1>13, PrepareParts
  <2>3. ({"list", "play"} \X Played) \union {<<"exit", File("player")>>} \subseteq ToSet(s2)
    BY <1>13, RunnerParts
  <2>4. ({"source"} \X Played) \union ({"publish"} \X Provided)
          \union {<<"terminal", File("player")>>, <<"observe", File("player")>>}
          \subseteq ToSet(s2)
    BY <1>13, ProviderParts
  <2> QED BY <2>1, <2>2, <2>3, <2>4 DEF Required
<1>15. CheckedFirst(s2)
  <2>1. CheckedFirst(s1)
    BY PrepareParts, RunnerParts, CheckedThen DEF s1
  <2> QED BY <2>1, <1>2, ProviderParts, CheckedThen DEF s2
<1> QED BY <1>1, <1>3, <1>5, <1>6, <1>7, <1>10, <1>11, <1>12, <1>14, <1>15

\* An entry of the script is its operation and a file that it may be for.
LEMMA Applied ==
  ASSUME NEW e \in Entries
  PROVE  /\ e = <<e[1], e[2]>>
         /\ e[1] \in {"admit", "same"} => e[2] = Schema
         /\ e[1] \in {"check", "hash", "bytes", "compare", "before", "again"} => e[2] \in Retained
         /\ e[1] \in {"identity", "lookup", "scan"} => e[2] \in Recs
         /\ e[1] = "expect" => e[2] \in Pairs
         /\ e[1] = "refer" => e[2] \in Pairs \union {File("metadata")}
         /\ e[1] = "write" => \E d \in Documents : e[2] = File(d)
         /\ e[1] \in {"retain", "list", "play", "source"} => e[2] \in Played
         /\ e[1] \in {"configure", "load", "fact"} => e[2] = Config
         /\ e[1] = "publish" => e[2] \in Provided
         /\ e[1] \in {"exit", "terminal", "observe"} => e[2] = File("player")
<1>1. PICK op, f : e = <<op, f>>
  BY DEF Entries
<1> QED BY <1>1 DEF Entries

\* Where the script stands.
LEMMA Here ==
  ASSUME NEW p \in 1 .. Len(Script)
  PROVE  /\ Script[p] \in Entries /\ Script[p] = <<Script[p][1], Script[p][2]>>
         /\ Turn(Script[p][1]) \in 1 .. 21
         /\ p <= Len(Prepare) <=> Turn(Script[p][1]) <= 10
<1>1. Ordered(Script, 1, 21)
  BY ScriptParts
<1>2. Script[p] \in Entries
  BY <1>1 DEF Ordered
<1> QED BY <1>1, <1>2, ScriptParts, Applied DEF Ordered

\* What stands before an entry has its turn before it, and the other way round.
LEMMA InTurn ==
  ASSUME NEW j \in 1 .. Len(Script), NEW k \in 1 .. Len(Script)
  PROVE  /\ j <= k => Turn(Script[j][1]) <= Turn(Script[k][1])
         /\ Turn(Script[j][1]) < Turn(Script[k][1]) => j < k
<1>1. Ordered(Script, 1, 21)
  BY ScriptParts
<1>2. /\ j <= k => Turn(Script[j][1]) <= Turn(Script[k][1])
      /\ k <= j => Turn(Script[k][1]) <= Turn(Script[j][1])
  BY <1>1 DEF Ordered
<1>3. Turn(Script[j][1]) \in 1 .. 21 /\ Turn(Script[k][1]) \in 1 .. 21
  BY Here
<1>4. j \in Int /\ k \in Int
  BY ScriptParts
<1>5. ASSUME NEW x \in 1 .. 21, NEW y \in 1 .. 21, x < y PROVE ~(y <= x)
  BY <1>5
<1>6. Turn(Script[j][1]) < Turn(Script[k][1]) => ~(k <= j)
  BY <1>2, <1>3, <1>5
<1> QED BY <1>2, <1>4, <1>6

\* A required entry whose turn has passed was executed, and is not ahead.
LEMMA Passed ==
  ASSUME PlaybackTypeOK, NEW op, NEW f, <<op, f>> \in Required, Turn(op) < ThisTurn
  PROVE  Done(op, f) /\ ~Ahead(op, f)
<1>1. pc \in 1 .. Len(Script)
  BY DEF PlaybackTypeOK
<1>2. PICK k \in 1 .. Len(Script) : Script[k] = <<op, f>>
  BY ScriptParts
<1>3. k < pc
  <2>1. Turn(Script[k][1]) < Turn(Script[pc][1])
    BY <1>2 DEF ThisTurn
  <2> QED BY <1>1, <2>1, InTurn
<1>4. ASSUME NEW j \in pc .. Len(Script), Script[j] = <<op, f>> PROVE FALSE
  <2>1. j \in 1 .. Len(Script) /\ pc <= j /\ Script[j][1] = op
    BY <1>1, <1>4
  <2>2. ThisTurn <= Turn(op)
    BY <1>1, <2>1, InTurn DEF ThisTurn
  <2>3. ThisTurn \in 1 .. 21 /\ Turn(op) \in 1 .. 21
    BY <1>1, <2>1, Here DEF ThisTurn
  <2>4. ASSUME NEW x \in 1 .. 21, NEW y \in 1 .. 21, x < y, y <= x PROVE FALSE
    BY <2>4
  <2> QED BY <2>2, <2>3, <2>4
<1> QED BY <1>2, <1>3, <1>4 DEF Done, Ahead

\* A required entry whose turn is to come holds the script back.
LEMMA Awaited ==
  ASSUME NEW p \in 1 .. Len(Script), p + 1 \in 1 .. Len(Script),
         NEW op, NEW f, <<op, f>> \in Required, Turn(Script[p][1]) < Turn(op)
  PROVE  Turn(Script[p + 1][1]) <= Turn(op)
<1>1. PICK k \in 1 .. Len(Script) : Script[k] = <<op, f>>
  BY ScriptParts
<1>2. p < k
  BY <1>1, InTurn
<1>3. p + 1 <= k
  BY <1>2
<1> QED BY <1>1, <1>3, InTurn

-----------------------------------------------------------------------------
(* Steps. *)

\* While the programs go on, what is done had its turn.
LEMMA DoneInTurn ==
  ASSUME PlaybackTypeOK, result = "none"
  PROVE  \A op, f : Done(op, f) => Turn(op) <= ThisTurn
<1>1. pc \in 1 .. Len(Script)
  BY DEF PlaybackTypeOK
<1> SUFFICES ASSUME NEW op, NEW f, NEW k \in 1 .. Len(Script), Script[k] = <<op, f>>, k < pc
             PROVE  Turn(op) <= ThisTurn
  BY DEF Done
<1> QED BY <1>1, InTurn DEF ThisTurn

\* What an entry that is passed changes of the place in the script.
LEMMA Moved ==
  ASSUME PlaybackTypeOK, result = "none", Advance
  PROVE  /\ pc' \in 1 .. Len(Script) /\ result' \in {"none", "published"}
         /\ result' = "none" => pc' = pc + 1 /\ pc + 1 \in 1 .. Len(Script)
         /\ result' = "published" => pc' = pc /\ pc = Len(Script)
         /\ \A op, f : Done(op, f)' => Done(op, f) \/ Script[pc] = <<op, f>>
         /\ \A op, f : Done(op, f)' => Turn(op) <= ThisTurn
         /\ \A op, f : Ahead(op, f) => Ahead(op, f)' \/ Script[pc] = <<op, f>>
         /\ ThisTurn' \in 1 .. 21 /\ ThisTurn \in 1 .. 21 /\ ThisTurn <= ThisTurn'
<1>1. pc \in 1 .. Len(Script) /\ Len(Script) \in Nat
  BY ScriptParts DEF PlaybackTypeOK, Ordered
<1>2. /\ pc' \in 1 .. Len(Script) /\ result' \in {"none", "published"}
      /\ result' = "none" => pc' = pc + 1 /\ pc + 1 \in 1 .. Len(Script)
      /\ result' = "published" => pc' = pc /\ pc = Len(Script)
      /\ pc <= pc'
  BY <1>1 DEF Advance
<1>3. ASSUME NEW op, NEW f, Done(op, f)' PROVE Done(op, f) \/ Script[pc] = <<op, f>>
  <2>1. PICK k \in 1 .. Len(Script) : Script[k] = <<op, f>> /\ (k < pc' \/ result' = "published")
    BY <1>3 DEF Done
  <2>2. k < pc \/ k = pc
    BY <2>1, <1>1, <1>2
  <2> QED BY <2>1, <2>2 DEF Done
<1>4. ASSUME NEW op, NEW f, Done(op, f)' PROVE Turn(op) <= ThisTurn
  <2>1. CASE Done(op, f)
    BY <2>1, DoneInTurn
  <2>2. CASE Script[pc] = <<op, f>>
    <3>1. ThisTurn \in Int /\ ThisTurn = Turn(op)
      BY <1>1, <2>2, Here DEF ThisTurn
    <3> QED BY <3>1
  <2> QED BY <2>1, <2>2, <1>3, <1>4
<1>5. ASSUME NEW op, NEW f, Ahead(op, f) PROVE Ahead(op, f)' \/ Script[pc] = <<op, f>>
  <2>1. PICK k \in pc .. Len(Script) : Script[k] = <<op, f>>
    BY <1>5 DEF Ahead
  <2>2. k = pc \/ k \in pc' .. Len(Script)
    BY <1>1, <1>2
  <2> QED BY <2>1, <2>2 DEF Ahead
<1>6. ThisTurn \in 1 .. 21 /\ ThisTurn' \in 1 .. 21 /\ ThisTurn <= ThisTurn'
  BY <1>1, <1>2, Here, InTurn DEF ThisTurn
<1> QED BY <1>2, <1>3, <1>4, <1>5, <1>6

\* An entry passed or refused: the place in the script stays in it.
LEMMA PlaceTyped ==
  ASSUME PlaybackTypeOK, result = "none", Advance \/ Refuse
  PROVE  pc' \in 1 .. Len(Script) /\ result' \in {"none", "failed", "published"}
<1>1. CASE Advance
  BY <1>1, Moved
<1>2. CASE Refuse
  BY <1>2 DEF Refuse, PlaybackTypeOK
<1> QED BY <1>1, <1>2

\* The entry the script has come to.
LEMMA AtEntry ==
  ASSUME PlaybackTypeOK, NEW op, At(op)
  PROVE  /\ result = "none" /\ pc \in 1 .. Len(Script) /\ Script[pc] = <<op, It>>
         /\ Script[pc] \in Entries /\ ThisTurn = Turn(op)
         /\ InPrepare <=> Turn(op) <= 10
         /\ op \in {"admit", "same"} => It = Schema
         /\ op \in {"check", "hash", "bytes", "compare", "before", "again"} => It \in Retained
         /\ op \in {"identity", "lookup", "scan"} => It \in Recs
         /\ op = "expect" => It \in Pairs
         /\ op = "refer" => It \in Pairs \union {File("metadata")}
         /\ op = "write" => \E d \in Documents : It = File(d)
         /\ op \in {"retain", "list", "play", "source"} => It \in Played
         /\ op \in {"configure", "load", "fact"} => It = Config
         /\ op = "publish" => It \in Provided
<1>1. result = "none" /\ pc \in 1 .. Len(Script) /\ Script[pc][1] = op /\ Script[pc][2] = It
  BY DEF At, It, PlaybackTypeOK
<1>2. Script[pc] \in Entries /\ Script[pc] = <<op, It>> /\ ThisTurn = Turn(op)
  BY <1>1, Here DEF ThisTurn
<1>3. InPrepare <=> Turn(op) <= 10
  BY <1>1, Here DEF InPrepare
<1> QED BY <1>1, <1>2, <1>3, Applied

\* The initial state is well typed.
LEMMA PlaybackInitTyped == PlaybackInit => PlaybackTypeOK
<1> SUFFICES ASSUME PlaybackInit PROVE PlaybackTypeOK
  OBVIOUS
<1>1. 1 \in 1 .. Len(Script)
  BY ScriptParts DEF Ordered
<1>2. 0 \in 0 .. MaxEdits
  BY PlaybackAssumption
<1> QED BY <1>1, <1>2 DEF PlaybackInit, PlaybackTypeOK, Version, Unread

\* The changes that others make are counted and leave everything well typed.
LEMMA OthersTyped ==
  ASSUME PlaybackTypeOK, Edit \/ Rewrite
  PROVE  PlaybackTypeOK'
<1>1. edits' \in 0 .. MaxEdits
  BY PlaybackAssumption DEF Edit, Rewrite, PlaybackTypeOK
<1>2. CASE Edit
  <2>1. source' \in [Retained -> Version] /\ touched' \in BOOLEAN /\ swapped' \subseteq Pairs
    <3>1. PICK f \in Retained :
            /\ \E v \in Versions(f) \ {source[f]} : source' = [source EXCEPT ![f] = v]
            /\ swapped' = IF Unbound(f) THEN swapped \union {f} ELSE swapped
            /\ touched' = (touched \/ Script[pc][2] = f)
      BY <1>2 DEF Edit
    <3>2. Unbound(f) => f \in Pairs
      <4>1. ASSUME NEW k \in pc .. Len(Script), Script[k][1] \in {"expect"}, Script[k][2] = f
            PROVE  f \in Pairs
        <5>1. k \in 1 .. Len(Script)
          BY ScriptParts DEF PlaybackTypeOK, Ordered
        <5> QED BY <4>1, <5>1, Here, Applied
      <4> QED BY <4>1 DEF Unbound, ToRead
    <3> QED BY <3>1, <3>2 DEF PlaybackTypeOK, Version, Versions
  <2> QED BY <1>1, <1>2, <2>1 DEF Edit, executed, PlaybackTypeOK
<1>3. CASE Rewrite
  <2>1. out' \in [Retained -> Version] /\ run' \in [Provided -> Version]
    BY <1>3 DEF Rewrite, PlaybackTypeOK, Version
  <2> QED BY <1>1, <1>3, <2>1 DEF Rewrite, PlaybackTypeOK
<1> QED BY <1>2, <1>3

\* The entries that read the capture or the copies and change nothing else.
LEMMA ChecksTyped ==
  ASSUME PlaybackTypeOK, UNCHANGED <<source, prepared, executed, edits, swapped>>,
         result = "none", Advance \/ Refuse
  PROVE  PlaybackTypeOK'
  BY PlaceTyped DEF PlaybackTypeOK, prepared, executed

\* The entries of the reading of the capture and of prepare.
LEMMA PrepareTyped ==
  ASSUME PlaybackTypeOK,
         \/ AdmitSchema \/ Expect \/ MakeOutput \/ CopyHash \/ CopyBytes \/ HashBefore
         \/ Refer \/ Scan \/ Counts \/ Write
  PROVE  PlaybackTypeOK'
<1>1. result = "none" /\ (Advance \/ Refuse) /\ UNCHANGED <<source, executed, edits, swapped>>
  BY DEF AdmitSchema, Expect, MakeOutput, CopyHash, CopyBytes, HashBefore, Refer, Scan, Counts,
         Write, At, Requires
<1>2. pc' \in 1 .. Len(Script) /\ result' \in {"none", "failed", "published"}
  BY <1>1, PlaceTyped
<1>3. {run, listed, played, evidence}' \subseteq [Provided -> Version] /\ config' \in Version
      /\ source' \in [Retained -> Version] /\ player' \in {Unread, "ended", "no_probe", "stopped"}
      /\ edits' \in 0 .. MaxEdits /\ swapped' \subseteq Pairs
  BY <1>1 DEF executed, PlaybackTypeOK
<1>4. CASE AdmitSchema
  <2>1. It \in Retained
    BY <1>4, AtEntry, FilesAre DEF AdmitSchema
  <2> QED BY <1>2, <1>3, <1>4, <2>1 DEF AdmitSchema, PlaybackTypeOK
<1>5. CASE Expect
  <2>1. It \in Retained
    BY <1>5, AtEntry, FilesAre DEF Expect
  <2> QED BY <1>2, <1>3, <1>5, <2>1 DEF Expect, PlaybackTypeOK
<1>6. CASE MakeOutput
  BY <1>2, <1>3, <1>6 DEF MakeOutput, PlaybackTypeOK
<1>7. CASE CopyHash
  <2>1. It \in Retained
    BY <1>7, AtEntry DEF CopyHash
  <2> QED BY <1>2, <1>3, <1>7, <2>1 DEF CopyHash, PlaybackTypeOK
<1>8. CASE CopyBytes
  <2>1. It \in Retained
    BY <1>8, AtEntry DEF CopyBytes
  <2>2. out' \in [Retained -> Version]
    BY <1>8, <2>1 DEF CopyBytes, PlaybackTypeOK
  <2> QED BY <1>2, <1>3, <1>8, <2>2 DEF CopyBytes, PlaybackTypeOK
<1>9. CASE HashBefore
  <2>1. It \in Retained
    BY <1>9, AtEntry DEF HashBefore
  <2> QED BY <1>2, <1>3, <1>9, <2>1 DEF HashBefore, PlaybackTypeOK
<1>10. CASE Refer
  <2>1. It \in Retained
    BY <1>10, AtEntry, FilesAre DEF Refer
  <2> QED BY <1>2, <1>3, <1>10, <2>1 DEF Refer, PlaybackTypeOK
<1>11. CASE Scan
  <2>1. It \in Retained
    BY <1>11, AtEntry, FilesAre DEF Scan
  <2> QED BY <1>2, <1>3, <1>11, <2>1 DEF Scan, PlaybackTypeOK
<1>12. CASE Counts
  BY <1>2, <1>3, <1>12 DEF Counts, PlaybackTypeOK
<1>13. CASE Write
  <2>1. It[1] \in Documents
    BY <1>13, AtEntry DEF Write, File
  <2> QED BY <1>2, <1>3, <1>13, <2>1 DEF Write, PlaybackTypeOK
<1> QED BY <1>4, <1>5, <1>6, <1>7, <1>8, <1>9, <1>10, <1>11, <1>12, <1>13

\* The entries of the runner and of the provider.
LEMMA ResultTyped ==
  ASSUME PlaybackTypeOK,
         \/ RetainInput \/ ListInput \/ Configure \/ Play \/ PlayerExits
         \/ LoadConfiguration \/ RetainedSource \/ ReferToFact
  PROVE  PlaybackTypeOK'
<1>1. result = "none" /\ (Advance \/ Refuse) /\ UNCHANGED <<source, prepared, edits, swapped>>
  BY DEF RetainInput, ListInput, Configure, Play, PlayerExits, LoadConfiguration,
         RetainedSource, ReferToFact, At, Requires
<1>2. pc' \in 1 .. Len(Script) /\ result' \in {"none", "failed", "published"}
  BY <1>1, PlaceTyped
<1>3. /\ {source, expected, out, before, refs, scanned}' \subseteq [Retained -> Version]
      /\ hash' \in Version /\ {touched, early}' \subseteq BOOLEAN
      /\ made' \in {"no", "now", "earlier"} /\ written' \subseteq Documents
      /\ edits' \in 0 .. MaxEdits /\ swapped' \subseteq Pairs
  BY <1>1 DEF prepared, PlaybackTypeOK
<1>4. CASE RetainInput
  <2>1. It \in Provided
    BY <1>4, AtEntry, FilesAre DEF RetainInput
  <2>2. (IF It \in Retained THEN out[It] ELSE "signed") \in Version
    BY DEF PlaybackTypeOK, Version
  <2> QED BY <1>2, <1>3, <1>4, <2>1, <2>2 DEF RetainInput, PlaybackTypeOK
<1>5. CASE ListInput
  <2>1. It \in Provided
    BY <1>5, AtEntry, FilesAre DEF ListInput
  <2> QED BY <1>2, <1>3, <1>5, <2>1 DEF ListInput, PlaybackTypeOK
<1>6. CASE Configure
  <2>1. run' \in [Provided -> Version]
    BY <1>6 DEF Configure, PlaybackTypeOK, Version
  <2> QED BY <1>2, <1>3, <1>6, <2>1 DEF Configure, PlaybackTypeOK
<1>7. CASE Play
  <2>1. It \in Provided
    BY <1>7, AtEntry, FilesAre DEF Play
  <2> QED BY <1>2, <1>3, <1>7, <2>1 DEF Play, PlaybackTypeOK
<1>8. CASE PlayerExits
  BY <1>2, <1>3, <1>8 DEF PlayerExits, PlaybackTypeOK
<1>9. CASE LoadConfiguration
  <2>1. It \in Provided
    BY <1>9, AtEntry, FilesAre DEF LoadConfiguration
  <2> QED BY <1>2, <1>3, <1>9, <2>1 DEF LoadConfiguration, PlaybackTypeOK
<1>10. CASE RetainedSource
  <2>1. It \in Provided
    BY <1>10, AtEntry, FilesAre DEF RetainedSource
  <2> QED BY <1>2, <1>3, <1>10, <2>1 DEF RetainedSource, PlaybackTypeOK
<1>11. CASE ReferToFact
  <2>1. It \in Provided
    BY <1>11, AtEntry, FilesAre DEF ReferToFact
  <2> QED BY <1>2, <1>3, <1>11, <2>1 DEF ReferToFact, PlaybackTypeOK
<1> QED BY <1>4, <1>5, <1>6, <1>7, <1>8, <1>9, <1>10, <1>11

\* Every step leaves the state well typed.
LEMMA PlaybackNextTyped == PlaybackTypeOK /\ [PlaybackNext]_playbackVars => PlaybackTypeOK'
<1> SUFFICES ASSUME PlaybackTypeOK, [PlaybackNext]_playbackVars PROVE PlaybackTypeOK'
  OBVIOUS
<1>1. CASE UNCHANGED playbackVars
  BY <1>1 DEF playbackVars, capture, prepared, executed, PlaybackTypeOK
<1>2. CASE Edit \/ Rewrite
  BY <1>2, OthersTyped
<1>3. CASE Retry
  <2>1. 1 \in 1 .. Len(Script)
    BY ScriptParts DEF Ordered
  <2>2. /\ expected' \in [Retained -> Version] /\ hash' \in Version /\ touched' \in BOOLEAN
        /\ pc' \in 1 .. Len(Script) /\ result' \in {"none", "failed", "published"}
        /\ made' \in {"no", "now", "earlier"} /\ swapped' \subseteq Pairs
    BY <1>3, <2>1 DEF Retry, PlaybackTypeOK, Version, Unread
  <2>3. UNCHANGED <<source, written, out, before, refs, scanned, early, edits>>
        /\ UNCHANGED <<run, listed, played, player, config, evidence>>
    BY <1>3 DEF Retry, executed
  <2> QED BY <2>2, <2>3 DEF PlaybackTypeOK
<1>4. CASE \/ CheckSigned \/ CheckIdentity \/ SchemaSame \/ CopyCompare \/ LookUpSummary
           \/ CompareAgain \/ CheckOffset \/ CheckedTerminal \/ CheckedObservation
           \/ CheckedMembers \/ WriteResult \/ Publish
  <2>1. /\ UNCHANGED <<source, prepared, executed, edits, swapped>>
        /\ result = "none" /\ (Advance \/ Refuse)
    BY <1>4 DEF CheckSigned, CheckIdentity, SchemaSame, CopyCompare, LookUpSummary, CompareAgain,
                CheckOffset, CheckedTerminal, CheckedObservation, CheckedMembers, WriteResult,
                Publish, At, Requires
  <2> QED BY <2>1, ChecksTyped
<1>5. CASE \/ AdmitSchema \/ Expect \/ MakeOutput \/ CopyHash \/ CopyBytes \/ HashBefore
           \/ Refer \/ Scan \/ Counts \/ Write
  BY <1>5, PrepareTyped
<1>6. CASE \/ RetainInput \/ ListInput \/ Configure \/ Play \/ PlayerExits
           \/ LoadConfiguration \/ RetainedSource \/ ReferToFact
  BY <1>6, ResultTyped
<1> QED BY <1>1, <1>2, <1>3, <1>4, <1>5, <1>6 DEF PlaybackNext

\* The files read, made and played are always of the kinds listed.
THEOREM PlaybackTypeCorrect == PlaybackSpec => []PlaybackTypeOK
  BY PlaybackInitTyped, PlaybackNextTyped, PTL DEF PlaybackSpec

-----------------------------------------------------------------------------
(* The capture and the copies. *)

\* An expected version is the signed one but for schemas, recordings and
\* summaries, and is never "absent" while the programs go on.
LEMMA FilesNext ==
  ASSUME PlaybackTypeOK, FilesInv, [PlaybackNext]_playbackVars
  PROVE  FilesInv'
<1>1. CASE Edit
  <2>1. PICK f \in Retained : \E v \in Versions(f) : source' = [source EXCEPT ![f] = v]
    BY <1>1 DEF Edit
  <2>2. result' = result /\ expected' = expected
    BY <1>1 DEF Edit
  <2> QED BY <2>1, <2>2 DEF FilesInv, PlaybackTypeOK
<1>2. CASE Retry
  BY <1>2 DEF Retry, FilesInv, Versions
<1>3. ASSUME AdmitSchema \/ Expect PROVE FilesInv'
  <2>1. It \in Retained /\ It \in Pairs \union {Schema}
    BY <1>3, AtEntry, FilesAre DEF AdmitSchema, Expect
  <2>2. /\ result = "none" /\ Requires(source[It] # "absent")
        /\ expected' = [expected EXCEPT ![It] = source[It]] /\ source' = source
    BY <1>3 DEF AdmitSchema, Expect, At
  <2>3. ASSUME result' = "none" PROVE source[It] \in Versions(It) \ {"absent"}
    BY <2>1, <2>2, <2>3 DEF Requires, Refuse, FilesInv
  <2>4. ASSUME result' = "none", NEW f \in Retained
        PROVE  expected'[f] \in IF f \in Pairs \union {Schema} THEN Versions(f) \ {"absent"}
                                ELSE {"signed"}
    BY <2>1, <2>2, <2>3, <2>4 DEF FilesInv, PlaybackTypeOK
  <2> QED BY <2>2, <2>4 DEF FilesInv
<1>4. ASSUME UNCHANGED <<source, expected>>, result' = "none" => result = "none"
      PROVE  FilesInv'
  BY <1>4 DEF FilesInv
<1>5. CASE \/ CheckSigned \/ CheckIdentity \/ MakeOutput \/ SchemaSame \/ CopyHash \/ CopyBytes
           \/ CopyCompare \/ HashBefore \/ LookUpSummary \/ Refer \/ Scan \/ CompareAgain
           \/ Counts \/ Write \/ CheckOffset
  <2>1. UNCHANGED <<source, expected>> /\ result = "none"
    BY <1>5 DEF CheckSigned, CheckIdentity, MakeOutput, SchemaSame, CopyHash, CopyBytes,
                CopyCompare, HashBefore, LookUpSummary, Refer, Scan, CompareAgain, Counts, Write,
                CheckOffset, prepared, At
  <2> QED BY <2>1, <1>4
<1>6. CASE \/ RetainInput \/ ListInput \/ Configure \/ Play \/ PlayerExits
           \/ CheckedTerminal \/ LoadConfiguration \/ CheckedObservation \/ RetainedSource
           \/ CheckedMembers \/ ReferToFact \/ WriteResult \/ Publish
  <2>1. UNCHANGED <<source, expected>> /\ result = "none"
    BY <1>6 DEF RetainInput, ListInput, Configure, Play, PlayerExits, CheckedTerminal,
                LoadConfiguration, CheckedObservation, RetainedSource, CheckedMembers,
                ReferToFact, WriteResult, Publish, prepared, At
  <2> QED BY <2>1, <1>4
<1>7. CASE Rewrite \/ UNCHANGED playbackVars
  BY <1>4, <1>7 DEF Rewrite, playbackVars, capture, prepared
<1> QED BY <1>1, <1>2, <1>3, <1>5, <1>6, <1>7 DEF PlaybackNext

\* A member is hashed after it was compared for the last time.
LEMMA ExpectedUnbound ==
  ASSUME PlaybackTypeOK, NEW f \in Pairs, Script[pc] = <<"expect", f>>
  PROVE  Unbound(f)
<1>1. pc \in 1 .. Len(Script) /\ Len(Script) \in Nat /\ CheckedFirst(Script)
  BY ScriptParts DEF PlaybackTypeOK, Ordered
<1>2. ToRead({"expect"}, f)
  BY <1>1 DEF ToRead
<1>3. ASSUME NEW k \in pc .. Len(Script), Script[k][1] \in {"check"}, Script[k][2] = f
      PROVE  FALSE
  <2>1. k \in 1 .. Len(Script) /\ ~(k < pc)
    BY <1>1
  <2>2. Script[k] = <<"check", f>>
    BY <1>3, <2>1, Here
  <2> QED BY <1>1, <2>1, <2>2 DEF CheckedFirst
<1> QED BY <1>2, <1>3 DEF Unbound, ToRead

\* An entry that is passed leaves a member unbound only when it was before, or
\* when it was just compared.
LEMMA LeftUnbound ==
  ASSUME PlaybackTypeOK, result = "none", Advance, result' = "none", NEW f, Unbound(f)'
  PROVE  Unbound(f) \/ Script[pc] = <<"check", f>>
<1>1. /\ pc \in 1 .. Len(Script) /\ pc' = pc + 1 /\ Len(Script) \in Nat
  BY Moved, ScriptParts DEF PlaybackTypeOK, Ordered
<1>2. ToRead({"expect"}, f)
  <2>1. PICK k \in pc' .. Len(Script) : Script[k][1] \in {"expect"} /\ Script[k][2] = f
    BY DEF Unbound, ToRead
  <2>2. k \in pc .. Len(Script)
    BY <1>1
  <2> QED BY <2>1, <2>2 DEF ToRead
<1>3. ASSUME ToRead({"check"}, f) PROVE Script[pc] = <<"check", f>>
  <2>1. PICK k \in pc .. Len(Script) : Script[k][1] \in {"check"} /\ Script[k][2] = f
    BY <1>3 DEF ToRead
  <2>2. ~(k \in pc' .. Len(Script))
    BY <2>1 DEF Unbound, ToRead
  <2>3. k = pc
    BY <1>1, <2>2
  <2> QED BY <1>1, <2>1, <2>3, Here
<1> QED BY <1>2, <1>3 DEF Unbound

\* At the first entry every member is still to be compared.
LEMMA BoundAtFirst ==
  ASSUME NEW f \in Pairs
  PROVE  (pc = 1 => ~Unbound(f)) /\ (pc' = 1 => ~Unbound(f)')
<1>1. <<"check", f>> \in Required
  BY DEF Required
<1>2. PICK k \in 1 .. Len(Script) : Script[k] = <<"check", f>>
  BY <1>1, ScriptParts
<1> QED BY <1>2 DEF Unbound, ToRead

\* Only a change made in between leaves a member that is not the signed one.
LEMMA SwappedNext ==
  ASSUME PlaybackTypeOK, SwappedInv, [PlaybackNext]_playbackVars
  PROVE  SwappedInv'
<1> SUFFICES ASSUME result' = "none" PROVE SwappedInv'
  BY DEF SwappedInv
<1>1. ASSUME result = "none", UNCHANGED <<pc, source, expected, swapped>> PROVE SwappedInv'
  BY <1>1 DEF SwappedInv, Unbound, ToRead
<1>2. CASE UNCHANGED playbackVars \/ Rewrite
  BY <1>1, <1>2 DEF Rewrite, playbackVars, capture, prepared
<1>3. CASE Edit
  <2>1. PICK f \in Retained :
          /\ \E v \in Versions(f) : source' = [source EXCEPT ![f] = v]
          /\ swapped' = IF Unbound(f) THEN swapped \union {f} ELSE swapped
    BY <1>3 DEF Edit
  <2>2. result = "none" /\ UNCHANGED <<pc, expected>>
    BY <1>3 DEF Edit
  <2>3. \A g : Unbound(g)' <=> Unbound(g)
    BY <2>2 DEF Unbound, ToRead
  <2>4. \A g \in Pairs : g # f => source'[g] = source[g]
    BY <2>1, FilesAre DEF PlaybackTypeOK
  <2>5. ASSUME NEW g \in Pairs \ swapped'
        PROVE  (Unbound(g) => source'[g] = "signed") /\ expected[g] = "signed"
    BY <2>1, <2>2, <2>4, <2>5 DEF SwappedInv
  <2> QED BY <2>2, <2>3, <2>5 DEF SwappedInv
<1>4. CASE Retry
  <2>1. pc' = 1 /\ \A f \in Pairs : expected'[f] = "signed"
    BY <1>4, FilesAre DEF Retry
  <2>2. \A f \in Pairs : ~Unbound(f)'
    BY <2>1, BoundAtFirst
  <2> QED BY <2>1, <2>2 DEF SwappedInv
<1>5. ASSUME result = "none", Advance, UNCHANGED <<source, swapped>>,
             \A f \in Pairs \ swapped : Script[pc] = <<"check", f>> => source[f] = "signed",
             \A f \in Pairs \ swapped : expected[f] = "signed" => expected'[f] = "signed"
      PROVE  SwappedInv'
  <2>1. ASSUME NEW f \in Pairs \ swapped
        PROVE  (Unbound(f)' => source[f] = "signed") /\ expected'[f] = "signed"
    BY <1>5, LeftUnbound DEF SwappedInv
  <2> QED BY <1>5, <2>1 DEF SwappedInv
<1>6. CASE CheckSigned
  <2>1. At("check") /\ Advance /\ source[It] = "signed" /\ UNCHANGED <<source, swapped, expected>>
    BY <1>6 DEF CheckSigned, Requires, Refuse, prepared
  <2>2. result = "none" /\ Script[pc] = <<"check", It>>
    BY <2>1, AtEntry
  <2> QED BY <2>1, <2>2, <1>5
<1>7. CASE AdmitSchema \/ Expect
  <2>1. /\ At("admit") \/ At("expect")
        /\ Advance /\ UNCHANGED <<source, swapped>>
        /\ expected' = [expected EXCEPT ![It] = source[It]]
    BY <1>7 DEF AdmitSchema, Expect, Requires, Refuse
  <2>2. /\ result = "none" /\ \A f : Script[pc] # <<"check", f>>
        /\ At("admit") => It = Schema
        /\ At("expect") => Script[pc] = <<"expect", It>>
    BY <2>1, AtEntry
  <2>3. Schema \notin Pairs
    BY DEF Schema, File, Pairs, Sums, Rec, Sum
  <2>4. ASSUME NEW f \in Pairs \ swapped, expected[f] = "signed" PROVE expected'[f] = "signed"
    <3>1. CASE f = It
      <4>1. source[f] = "signed"
        BY <2>1, <2>2, <2>3, <3>1, ExpectedUnbound DEF SwappedInv
      <4> QED BY <2>1, <3>1, <4>1, FilesAre DEF PlaybackTypeOK
    <3>2. CASE f # It
      BY <2>1, <2>4, <3>2, FilesAre DEF PlaybackTypeOK
    <3> QED BY <3>1, <3>2
  <2> QED BY <2>1, <2>2, <2>4, <1>5
<1>8. ASSUME NEW op, op # "check", At(op), Advance, UNCHANGED <<source, swapped, expected>>
      PROVE  SwappedInv'
  <2>1. result = "none" /\ \A f : Script[pc] # <<"check", f>>
    BY <1>8, AtEntry
  <2> QED BY <1>8, <2>1, <1>5
<1>9. CASE \/ CheckIdentity \/ MakeOutput \/ SchemaSame \/ CopyHash \/ CopyBytes \/ CopyCompare
           \/ HashBefore \/ LookUpSummary \/ Refer \/ Scan \/ CompareAgain \/ Counts \/ Write
           \/ CheckOffset
  <2>1. /\ \E op \in {"identity", "mkdir", "same", "hash", "bytes", "compare", "before", "lookup",
                      "refer", "scan", "again", "counts", "write", "offset"} : At(op)
        /\ Advance \/ Refuse
        /\ UNCHANGED <<source, swapped, expected>>
    BY <1>9 DEF CheckIdentity, MakeOutput, SchemaSame, CopyHash, CopyBytes, CopyCompare, HashBefore,
                LookUpSummary, Refer, Scan, CompareAgain, Counts, Write, CheckOffset, Requires,
                prepared
  <2> QED BY <2>1, <1>8 DEF Refuse
<1>10. CASE \/ RetainInput \/ ListInput \/ Configure \/ Play \/ PlayerExits
            \/ CheckedTerminal \/ LoadConfiguration \/ CheckedObservation \/ RetainedSource
            \/ CheckedMembers \/ ReferToFact \/ WriteResult \/ Publish
  <2>1. /\ \E op \in {"retain", "list", "configure", "play", "exit", "terminal", "load", "observe",
                      "source", "members", "fact", "result", "publish"} : At(op)
        /\ Advance \/ Refuse
        /\ UNCHANGED <<source, swapped, expected>>
    BY <1>10 DEF RetainInput, ListInput, Configure, Play, PlayerExits, CheckedTerminal,
         LoadConfiguration, CheckedObservation, RetainedSource, CheckedMembers, ReferToFact,
         WriteResult, Publish, Requires, prepared
  <2> QED BY <2>1, <1>8 DEF Refuse
<1> QED BY <1>2, <1>3, <1>4, <1>6, <1>7, <1>9, <1>10 DEF PlaybackNext

\* From the hashing on, every copy is the one expected.
LEMMA AllCopied ==
  ASSUME PlaybackTypeOK, CopiesInv, result = "none", ThisTurn \in 4 .. 6
  PROVE  \A f \in Retained : out[f] = expected[f]
<1> TAKE f \in Retained
<1>1. <<"compare", f>> \in Required /\ Turn("compare") < ThisTurn
  BY Turns DEF Required
<1>2. Done("compare", f) /\ ~Ahead("compare", f)
  BY <1>1, Passed
<1>3. InPrepare
  BY Here DEF ThisTurn, InPrepare, PlaybackTypeOK
<1> QED BY <1>2, <1>3 DEF CopiesInv

\* From the comparison on, every copy has been hashed.
LEMMA AllHashed ==
  ASSUME PlaybackTypeOK, CopiesInv, result = "none", ThisTurn \in 5 .. 10
  PROVE  \A f \in Retained : before[f] = expected[f]
<1> TAKE f \in Retained
<1>1. <<"before", f>> \in Required /\ Turn("before") < ThisTurn
  BY Turns DEF Required
<1>2. Done("before", f)
  BY <1>1, Passed
<1>3. InPrepare
  BY Here DEF ThisTurn, InPrepare, PlaybackTypeOK
<1> QED BY <1>2, <1>3 DEF CopiesInv

\* Bytes that were copied are compared next.
LEMMA ComparedNext ==
  ASSUME PlaybackTypeOK, NEW f, Script[pc] = <<"bytes", f>>, result = "none", Advance
  PROVE  Ahead("compare", f)'
<1>1. pc \in 1 .. Len(Script) /\ Ordered(Script, 1, 21)
  BY ScriptParts DEF PlaybackTypeOK
<1>2. pc + 1 <= Len(Script) /\ Script[pc + 1] = <<"compare", f>>
  BY <1>1 DEF Ordered
<1>3. pc' = pc + 1 /\ pc + 1 \in pc' .. Len(Script)
  BY <1>1, <1>2 DEF Advance, Ordered
<1> QED BY <1>2, <1>3 DEF Ahead

\* While the programs go on, a required entry holds the turns back, and what
\* was done before is what is done now, but for the entry just passed.
LEMMA NextTurn ==
  ASSUME PlaybackTypeOK, result = "none", Advance, result' = "none",
         NEW op, NEW f, <<op, f>> \in Required, ThisTurn < Turn(op)
  PROVE  ThisTurn' <= Turn(op)
<1>1. /\ pc \in 1 .. Len(Script) /\ pc' = pc + 1 /\ pc + 1 \in 1 .. Len(Script)
  BY Moved DEF PlaybackTypeOK
<1>2. Turn(Script[pc + 1][1]) <= Turn(op)
  BY <1>1, Awaited DEF ThisTurn
<1> QED BY <1>1, <1>2 DEF ThisTurn

\* What has its turn after this one is not done at the next entry.
LEMMA NotYetDone ==
  ASSUME PlaybackTypeOK, result = "none", Advance, NEW op, NEW f,
         Turn(op) \in 1 .. 21, ThisTurn < Turn(op)
  PROVE  ~Done(op, f)'
<1>1. Done(op, f)' => Turn(op) <= ThisTurn
  BY Moved
<1>2. ThisTurn \in 1 .. 21
  BY Moved
<1> QED BY <1>1, <1>2

\* The same of the operations that are waited for.
LEMMA Later ==
  ASSUME PlaybackTypeOK, result = "none", Advance
  PROVE  /\ ThisTurn < 3 => \A f : ~Done("compare", f)'
         /\ ThisTurn < 4 => \A f : ~Done("before", f)'
         /\ ThisTurn < 5 => \A f : ~Done("lookup", f)'
         /\ ThisTurn < 6 => \A f : ~Done("refer", f)'
         /\ ThisTurn < 7 => \A f : ~Done("scan", f)'
         /\ ThisTurn < 8 => \A f : ~Done("again", f)'
         /\ ThisTurn < 10 => \A f : ~Done("write", f)'
         /\ ThisTurn < 10 => \A f : ~Done("offset", f)'
         /\ ThisTurn < 12 => \A f : ~Done("list", f)'
         /\ ThisTurn < 14 => \A f : ~Done("play", f)'
         /\ ThisTurn < 15 => \A f : ~Done("exit", f)'
         /\ ThisTurn < 17 => \A f : ~Done("source", f)'
         /\ ThisTurn < 21 => \A f : ~Done("publish", f)'
<1>1. ASSUME ThisTurn < 3, NEW f PROVE ~Done("compare", f)'
  <2>1. Turn("compare") = 3 /\ 3 \in 1 .. 21
    BY Turns
  <2> QED BY <1>1, <2>1, NotYetDone
<1>2. ASSUME ThisTurn < 4, NEW f PROVE ~Done("before", f)'
  <2>1. Turn("before") = 4 /\ 4 \in 1 .. 21
    BY Turns
  <2> QED BY <1>2, <2>1, NotYetDone
<1>3. ASSUME ThisTurn < 5, NEW f PROVE ~Done("lookup", f)'
  <2>1. Turn("lookup") = 5 /\ 5 \in 1 .. 21
    BY Turns
  <2> QED BY <1>3, <2>1, NotYetDone
<1>4. ASSUME ThisTurn < 6, NEW f PROVE ~Done("refer", f)'
  <2>1. Turn("refer") = 6 /\ 6 \in 1 .. 21
    BY Turns
  <2> QED BY <1>4, <2>1, NotYetDone
<1>5. ASSUME ThisTurn < 7, NEW f PROVE ~Done("scan", f)'
  <2>1. Turn("scan") = 7 /\ 7 \in 1 .. 21
    BY Turns
  <2> QED BY <1>5, <2>1, NotYetDone
<1>6. ASSUME ThisTurn < 8, NEW f PROVE ~Done("again", f)'
  <2>1. Turn("again") = 8 /\ 8 \in 1 .. 21
    BY Turns
  <2> QED BY <1>6, <2>1, NotYetDone
<1>7. ASSUME ThisTurn < 10, NEW f PROVE ~Done("write", f)'
  <2>1. Turn("write") = 10 /\ 10 \in 1 .. 21
    BY Turns
  <2> QED BY <1>7, <2>1, NotYetDone
<1>8. ASSUME ThisTurn < 10, NEW f PROVE ~Done("offset", f)'
  <2>1. Turn("offset") = 10 /\ 10 \in 1 .. 21
    BY Turns
  <2> QED BY <1>8, <2>1, NotYetDone
<1>9. ASSUME ThisTurn < 12, NEW f PROVE ~Done("list", f)'
  <2>1. Turn("list") = 12 /\ 12 \in 1 .. 21
    BY Turns
  <2> QED BY <1>9, <2>1, NotYetDone
<1>10. ASSUME ThisTurn < 14, NEW f PROVE ~Done("play", f)'
  <2>1. Turn("play") = 14 /\ 14 \in 1 .. 21
    BY Turns
  <2> QED BY <1>10, <2>1, NotYetDone
<1>11. ASSUME ThisTurn < 15, NEW f PROVE ~Done("exit", f)'
  <2>1. Turn("exit") = 15 /\ 15 \in 1 .. 21
    BY Turns
  <2> QED BY <1>11, <2>1, NotYetDone
<1>12. ASSUME ThisTurn < 17, NEW f PROVE ~Done("source", f)'
  <2>1. Turn("source") = 17 /\ 17 \in 1 .. 21
    BY Turns
  <2> QED BY <1>12, <2>1, NotYetDone
<1>13. ASSUME ThisTurn < 21, NEW f PROVE ~Done("publish", f)'
  <2>1. Turn("publish") = 21 /\ 21 \in 1 .. 21
    BY Turns
  <2> QED BY <1>13, <2>1, NotYetDone
<1> QED BY <1>1, <1>2, <1>3, <1>4, <1>5, <1>6, <1>7, <1>8, <1>9, <1>10, <1>11, <1>12, <1>13

\* Until the output is made.
LEMMA CopiesReading ==
  ASSUME PlaybackTypeOK, result = "none", Advance, result' = "none", ThisTurn = 1
  PROVE  CopiesInv'
<1>1. ThisTurn' <= 2 /\ ThisTurn' \in 1 .. 21
  <2>1. <<"mkdir", File("output")>> \in Required /\ Turn("mkdir") = 2
    BY Turns DEF Required
  <2> QED BY <2>1, NextTurn, Moved
<1>2. \A f : /\ ~Done("compare", f)' /\ ~Done("before", f)' /\ ~Done("refer", f)'
             /\ ~Done("scan", f)' /\ ~Done("again", f)' /\ ~Done("lookup", f)'
  BY Later
<1>3. ~(ThisTurn' >= 3) /\ ~(ThisTurn' >= 7) /\ ~(ThisTurn' \in 3 .. 6)
  BY <1>1
<1> QED BY <1>2, <1>3 DEF CopiesInv

\* The output is made.
LEMMA CopiesMade ==
  ASSUME PlaybackTypeOK, MakeOutput, result' = "none"
  PROVE  CopiesInv'
<1>1. /\ result = "none" /\ ThisTurn = 2 /\ Advance /\ made' = "now"
  BY AtEntry, Turns DEF MakeOutput, Requires, Refuse
<1>2. ThisTurn' <= 3 /\ ThisTurn' \in 1 .. 21
  <2>1. <<"compare", Schema>> \in Required /\ Turn("compare") = 3
    BY FilesAre, Turns DEF Required
  <2> QED BY <1>1, <2>1, NextTurn, Moved
<1>3. \A f : /\ ~Done("compare", f)' /\ ~Done("before", f)' /\ ~Done("refer", f)'
             /\ ~Done("scan", f)' /\ ~Done("again", f)' /\ ~Done("lookup", f)'
  BY <1>1, Later
<1>4. ~(ThisTurn' >= 7)
  BY <1>2
<1> QED BY <1>1, <1>3, <1>4 DEF CopiesInv

\* A file is copied.
LEMMA CopiesCopied ==
  ASSUME PlaybackTypeOK, CopiesInv, SchemaSame \/ CopyHash \/ CopyBytes \/ CopyCompare,
         result' = "none"
  PROVE  CopiesInv'
<1>1. /\ result = "none" /\ ThisTurn = 3 /\ Advance /\ InPrepare /\ It \in Retained
      /\ made' = made /\ expected' = expected /\ pc \in 1 .. Len(Script)
  <2>1. /\ At("same") \/ At("hash") \/ At("bytes") \/ At("compare")
        /\ Advance \/ Refuse
        /\ made' = made /\ expected' = expected
    BY DEF SchemaSame, CopyHash, CopyBytes, CopyCompare, Requires, prepared
  <2>2. Advance
    BY <2>1 DEF Refuse
  <2>3. result = "none" /\ ThisTurn = 3 /\ InPrepare /\ pc \in 1 .. Len(Script)
    BY <2>1, AtEntry, Turns
  <2>4. It \in Retained
    BY <2>1, AtEntry, FilesAre
  <2> QED BY <2>1, <2>2, <2>3, <2>4
<1>2. made' = "now"
  BY <1>1 DEF CopiesInv
<1>3. ThisTurn' <= 4 /\ ThisTurn' \in 1 .. 21
  <2>1. <<"before", Schema>> \in Required /\ Turn("before") = 4
    BY FilesAre, Turns DEF Required
  <2> QED BY <1>1, <2>1, NextTurn, Moved
<1>4. \A f : /\ ~Done("before", f)' /\ ~Done("refer", f)'
             /\ ~Done("scan", f)' /\ ~Done("again", f)' /\ ~Done("lookup", f)'
  BY <1>1, Later
<1>5. ~(ThisTurn' >= 7)
  BY <1>3
<1>6. ASSUME NEW f \in Retained, Done("compare", f)', ~Ahead("compare", f)'
      PROVE  out'[f] = expected'[f]
  <2>1. CASE CopyCompare /\ f = It
    BY <1>1, <2>1 DEF CopyCompare, Requires, Refuse, Advance, prepared
  <2>2. CASE ~(CopyCompare /\ f = It)
    <3>1. Script[pc] # <<"compare", f>>
      BY <2>2, AtEntry DEF SchemaSame, CopyHash, CopyBytes, CopyCompare
    <3>2. Done("compare", f) /\ ~Ahead("compare", f)
      BY <1>1, <1>6, <3>1, Moved
    <3>3. out[f] = expected[f]
      BY <1>1, <3>2 DEF CopiesInv
    <3>4. CASE CopyBytes
      <4>1. f # It
        <5>1. Script[pc] = <<"bytes", It>>
          BY <3>4, AtEntry DEF CopyBytes
        <5> QED BY <5>1, <1>1, <1>6, ComparedNext
      <4> QED BY <1>1, <3>3, <3>4, <4>1 DEF CopyBytes, PlaybackTypeOK
    <3>5. CASE SchemaSame \/ CopyHash \/ CopyCompare
      BY <1>1, <3>3, <3>5 DEF SchemaSame, CopyHash, CopyCompare, prepared
    <3> QED BY <3>4, <3>5
  <2> QED BY <2>1, <2>2
<1> QED BY <1>2, <1>4, <1>5, <1>6 DEF CopiesInv

\* The copies are hashed once more, before they are decoded.
LEMMA CopiesHashed ==
  ASSUME PlaybackTypeOK, CopiesInv, HashBefore, result' = "none"
  PROVE  CopiesInv'
<1>1. /\ result = "none" /\ ThisTurn = 4 /\ Advance /\ InPrepare /\ It \in Retained
      /\ Script[pc] = <<"before", It>> /\ before' = [before EXCEPT ![It] = out[It]]
      /\ UNCHANGED <<made, expected, out>>
  <2>1. Turn("before") = 4
    BY Turns
  <2>2. At("before") /\ (Advance \/ Refuse)
    BY DEF HashBefore
  <2> QED BY <2>1, <2>2, AtEntry DEF HashBefore, Refuse
<1>2. made' = "now" /\ \A f \in Retained : out'[f] = expected'[f]
  BY <1>1, AllCopied DEF CopiesInv
<1>3. ThisTurn' <= 5 /\ ThisTurn' \in 1 .. 21
  <2>1. <<"lookup", Rec(1)>> \in Required /\ Turn("lookup") = 5
    BY PlaybackAssumption, Turns DEF Required, Recs
  <2> QED BY <1>1, <2>1, NextTurn, Moved
<1>4. \A f : ~Done("refer", f)' /\ ~Done("scan", f)' /\ ~Done("again", f)' /\ ~Done("lookup", f)'
  BY <1>1, Later
<1>5. ~(ThisTurn' >= 7)
  BY <1>3
<1>6. ASSUME NEW f \in Retained, Done("before", f)' PROVE before'[f] = expected'[f]
  <2>1. CASE f = It
    BY <1>1, <1>2, <2>1 DEF PlaybackTypeOK
  <2>2. CASE f # It
    <3>1. Done("before", f)
      BY <1>1, <1>6, <2>2, Moved
    <3> QED BY <1>1, <2>2, <3>1 DEF CopiesInv, PlaybackTypeOK
  <2> QED BY <2>1, <2>2
<1> QED BY <1>2, <1>4, <1>5, <1>6 DEF CopiesInv

\* The summary of a recording is looked up by its hash.
LEMMA CopiesLookedUp ==
  ASSUME PlaybackTypeOK, CopiesInv, LookUpSummary, result' = "none"
  PROVE  CopiesInv'
<1>1. /\ result = "none" /\ ThisTurn = 5 /\ Advance /\ InPrepare /\ It \in Recs
      /\ Script[pc] = <<"lookup", It>> /\ out[It] = Names(out[Sum(It[2])])
      /\ UNCHANGED <<made, expected, out, before>>
  <2>1. Turn("lookup") = 5 /\ Turn("lookup") <= 10
    BY Turns
  <2>2. /\ At("lookup") /\ Advance /\ out[It] = Names(out[Sum(It[2])])
        /\ UNCHANGED <<made, expected, out, before>>
    BY DEF LookUpSummary, Requires, Refuse, prepared
  <2>3. /\ result = "none" /\ ThisTurn = 5 /\ InPrepare /\ It \in Recs
        /\ Script[pc] = <<"lookup", It>>
    BY <2>1, <2>2, AtEntry
  <2> QED BY <2>2, <2>3
<1>2. made' = "now" /\ \A f \in Retained : out'[f] = expected'[f]
  BY <1>1, AllCopied DEF CopiesInv
<1>3. \A f \in Retained : before'[f] = expected'[f]
  BY <1>1, AllHashed
<1>4. ThisTurn' <= 6 /\ ThisTurn' \in 1 .. 21
  <2>1. <<"refer", File("metadata")>> \in Required /\ Turn("refer") = 6
    BY Turns DEF Required
  <2> QED BY <1>1, <2>1, NextTurn, Moved
<1>5. \A f : ~Done("refer", f)' /\ ~Done("scan", f)' /\ ~Done("again", f)'
  BY <1>1, Later
<1>6. ~(ThisTurn' >= 7)
  BY <1>4
<1>7. ASSUME NEW i \in 1 .. Segments, Done("lookup", Rec(i))'
      PROVE  expected'[Rec(i)] = Names(expected'[Sum(i)])
  <2>1. CASE Rec(i) = It
    <3>1. Rec(i) \in Retained /\ Sum(i) \in Retained /\ It[2] = i
      BY <2>1, FilesAre DEF Pairs, Sums, Rec
    <3> QED BY <1>1, <1>2, <2>1, <3>1
  <2>2. CASE Rec(i) # It
    <3>1. Done("lookup", Rec(i))
      BY <1>1, <1>7, <2>2, Moved
    <3> QED BY <1>1, <3>1 DEF CopiesInv
  <2> QED BY <2>1, <2>2
<1> QED BY <1>2, <1>3, <1>5, <1>6, <1>7 DEF CopiesInv

\* The dataset refers to the copies.
LEMMA CopiesReferred ==
  ASSUME PlaybackTypeOK, CopiesInv, Refer, result' = "none"
  PROVE  CopiesInv'
<1>1. /\ result = "none" /\ ThisTurn = 6 /\ Advance /\ InPrepare /\ It \in Retained
      /\ Script[pc] = <<"refer", It>> /\ refs' = [refs EXCEPT ![It] = out[It]]
      /\ UNCHANGED <<made, expected, out, before>>
  <2>1. /\ result = "none" /\ ThisTurn = Turn("refer") /\ (InPrepare <=> Turn("refer") <= 10)
        /\ Script[pc] = <<"refer", It>> /\ Script[pc] \in Entries
    BY AtEntry DEF Refer
  <2>2. It \in Pairs \union {File("metadata")}
    BY <2>1, Applied
  <2>3. It \in Retained
    BY <2>2, FilesAre
  <2> QED BY <2>1, <2>3, Turns DEF Refer, Refuse
<1>2. made' = "now" /\ \A f \in Retained : out'[f] = expected'[f]
  BY <1>1, AllCopied DEF CopiesInv
<1>3. \A f \in Retained : before'[f] = expected'[f]
  BY <1>1, AllHashed
<1>4. \A f : ~Done("scan", f)' /\ ~Done("again", f)'
  BY <1>1, Later
<1>5. ASSUME NEW f \in Retained, Done("refer", f)' PROVE refs'[f] = expected'[f]
  <2>1. CASE f = It
    BY <1>1, <1>2, <2>1 DEF PlaybackTypeOK
  <2>2. CASE f # It
    <3>1. Done("refer", f)
      BY <1>1, <1>5, <2>2, Moved
    <3> QED BY <1>1, <2>2, <3>1 DEF CopiesInv, PlaybackTypeOK
  <2> QED BY <2>1, <2>2
<1>6. ASSUME NEW i \in 1 .. Segments, Done("lookup", Rec(i))'
      PROVE  expected'[Rec(i)] = Names(expected'[Sum(i)])
  <2>1. Done("lookup", Rec(i))
    BY <1>1, <1>6, Moved
  <2> QED BY <1>1, <2>1 DEF CopiesInv
<1> QED BY <1>2, <1>3, <1>4, <1>5, <1>6 DEF CopiesInv

\* What is known of the copies while they are decoded, and after.
LEMMA CopiesDecoded ==
  ASSUME PlaybackTypeOK, CopiesInv, result = "none", ThisTurn \in 7 .. 10, Advance,
         UNCHANGED <<made, expected, before, refs, out>>, result' = "none",
         \A f \in Retained : Done("scan", f)' => \/ scanned'[f] = expected[f]
                                                 \/ scanned'[f] = "rewritten" /\ out[f] = "rewritten",
         \A f \in Retained : Done("again", f)' => out[f] = expected[f],
         Script[pc][1] \notin {"compare", "before", "refer", "lookup"}
  PROVE  CopiesInv'
<1>1. InPrepare /\ pc \in 1 .. Len(Script) /\ ThisTurn >= 3 /\ ThisTurn >= 7
  BY Here DEF InPrepare, ThisTurn, PlaybackTypeOK
<1>2. ~(ThisTurn' \in 3 .. 6)
  BY Moved
<1>3. made' = "now" /\ \A f \in Retained : out'[f] \in {expected'[f], "rewritten"}
  BY <1>1 DEF CopiesInv
<1>4. \A f \in Retained : before'[f] = expected'[f]
  BY AllHashed
<1>5. \A f : Script[pc] # <<"refer", f>> /\ Script[pc] # <<"lookup", f>>
  OBVIOUS
<1>6. \A f : (Done("refer", f)' => Done("refer", f)) /\ (Done("lookup", f)' => Done("lookup", f))
  BY <1>5, Moved
<1> QED BY <1>1, <1>2, <1>3, <1>4, <1>6 DEF CopiesInv

\* A recording is decoded.
LEMMA CopiesScanned ==
  ASSUME PlaybackTypeOK, CopiesInv, Scan, result' = "none"
  PROVE  CopiesInv'
<1>1. /\ result = "none" /\ ThisTurn = 7 /\ Advance /\ InPrepare /\ It \in Retained
      /\ Script[pc] = <<"scan", It>> /\ scanned' = [scanned EXCEPT ![It] = out[It]]
      /\ UNCHANGED <<made, expected, before, refs, out>>
  <2>1. /\ result = "none" /\ ThisTurn = Turn("scan") /\ (InPrepare <=> Turn("scan") <= 10)
        /\ Script[pc] = <<"scan", It>> /\ Script[pc] \in Entries
    BY AtEntry DEF Scan
  <2>2. It \in Recs
    BY <2>1, Applied
  <2>3. It \in Retained
    BY <2>2, FilesAre
  <2> QED BY <2>1, <2>3, Turns DEF Scan, Refuse
<1>2. \A f \in Retained : out[f] \in {expected[f], "rewritten"}
  BY <1>1 DEF CopiesInv
<1>3. ASSUME NEW f \in Retained, Done("scan", f)'
      PROVE  \/ scanned'[f] = expected[f]
             \/ scanned'[f] = "rewritten" /\ out[f] = "rewritten"
  <2>1. CASE f = It
    BY <1>1, <1>2, <2>1 DEF PlaybackTypeOK
  <2>2. CASE f # It
    <3>1. Done("scan", f)
      BY <1>1, <1>3, <2>2, Moved
    <3> QED BY <1>1, <2>2, <3>1 DEF CopiesInv, PlaybackTypeOK
  <2> QED BY <2>1, <2>2
<1>4. \A f : ~Done("again", f)'
  BY <1>1, Later
<1>5. ThisTurn \in 7 .. 10 /\ Script[pc][1] \notin {"compare", "before", "refer", "lookup"}
  BY <1>1
<1> QED BY <1>1, <1>3, <1>4, <1>5, CopiesDecoded

\* The copies are compared with their hashes from before the decoding.
LEMMA CopiesCompared ==
  ASSUME PlaybackTypeOK, CopiesInv, CompareAgain, result' = "none"
  PROVE  CopiesInv'
<1>1. /\ result = "none" /\ ThisTurn = 8 /\ Advance /\ InPrepare /\ It \in Retained
      /\ Script[pc] = <<"again", It>> /\ out[It] = before[It]
      /\ UNCHANGED <<made, expected, before, refs, out, scanned>>
  <2>1. Turn("again") = 8 /\ Turn("again") <= 10
    BY Turns
  <2>2. /\ At("again") /\ Advance /\ out[It] = before[It]
        /\ UNCHANGED <<made, expected, before, refs, out, scanned>>
    BY DEF CompareAgain, Requires, Refuse, prepared
  <2>3. /\ result = "none" /\ ThisTurn = 8 /\ InPrepare /\ It \in Retained
        /\ Script[pc] = <<"again", It>>
    BY <2>1, <2>2, AtEntry
  <2> QED BY <2>2, <2>3
<1>2. \A f \in Retained : before[f] = expected[f]
  BY <1>1, AllHashed
<1>3. ASSUME NEW f \in Retained, Done("again", f)' PROVE out[f] = expected[f]
  <2>1. f = It \/ Done("again", f)
    BY <1>1, <1>3, Moved
  <2> QED BY <1>1, <1>2, <2>1 DEF CopiesInv
<1>4. ASSUME NEW f \in Retained, Done("scan", f)'
      PROVE  \/ scanned'[f] = expected[f]
             \/ scanned'[f] = "rewritten" /\ out[f] = "rewritten"
  <2>1. Done("scan", f)
    BY <1>1, <1>4, Moved
  <2> QED BY <1>1, <2>1 DEF CopiesInv
<1>5. ThisTurn \in 7 .. 10 /\ Script[pc][1] \notin {"compare", "before", "refer", "lookup"}
  BY <1>1
<1> QED BY <1>1, <1>3, <1>4, <1>5, CopiesDecoded

\* The documents are written.
LEMMA CopiesWritten ==
  ASSUME PlaybackTypeOK, CopiesInv, Counts \/ Write \/ CheckOffset, result' = "none"
  PROVE  CopiesInv'
<1>1. /\ result = "none" /\ ThisTurn \in {9, 10} /\ Advance /\ InPrepare
      /\ Script[pc][1] \in {"counts", "write", "offset"}
      /\ UNCHANGED <<made, expected, before, refs, out, scanned>>
  <2>1. /\ At("counts") \/ At("write") \/ At("offset")
        /\ Advance \/ Refuse
        /\ UNCHANGED <<made, expected, before, refs, out, scanned>>
    BY DEF Counts, Write, CheckOffset, Requires, prepared
  <2>2. Advance
    BY <2>1 DEF Refuse
  <2>3. result = "none" /\ ThisTurn \in {9, 10} /\ InPrepare
    BY <2>1, AtEntry, Turns
  <2> QED BY <2>1, <2>2, <2>3 DEF At
<1>2. \A f : Script[pc] # <<"scan", f>> /\ Script[pc] # <<"again", f>>
  BY <1>1
<1>3. \A f : (Done("scan", f)' => Done("scan", f)) /\ (Done("again", f)' => Done("again", f))
  BY <1>1, <1>2, Moved
<1>4. \A f \in Retained : Done("scan", f)' => \/ scanned'[f] = expected[f]
                                              \/ scanned'[f] = "rewritten" /\ out[f] = "rewritten"
  BY <1>1, <1>3 DEF CopiesInv
<1>5. \A f \in Retained : Done("again", f)' => out[f] = expected[f]
  BY <1>1, <1>3 DEF CopiesInv
<1>6. ThisTurn \in 7 .. 10 /\ Script[pc][1] \notin {"compare", "before", "refer", "lookup"}
  BY <1>1
<1> QED BY <1>1, <1>4, <1>5, <1>6, CopiesDecoded

\* The runner's and the provider's entries leave prepare behind.
LEMMA RunsAfterPrepare ==
  ASSUME PlaybackTypeOK,
         \/ RetainInput \/ ListInput \/ Configure \/ Play \/ PlayerExits
         \/ CheckedTerminal \/ LoadConfiguration \/ CheckedObservation \/ RetainedSource
         \/ CheckedMembers \/ ReferToFact \/ WriteResult \/ Publish
  PROVE  /\ result = "none" /\ (Advance \/ Refuse) /\ UNCHANGED <<source, prepared, swapped>>
         /\ IsPrepared /\ IsPrepared' /\ ~InPrepare /\ ~InPrepare'
         /\ ThisTurn \in 11 .. 21
<1>1. \E op \in {"retain", "list", "configure", "play", "exit", "terminal", "load", "observe",
                 "source", "members", "fact", "result", "publish"} : At(op)
  BY DEF RetainInput, ListInput, Configure, Play, PlayerExits, CheckedTerminal,
         LoadConfiguration, CheckedObservation, RetainedSource, CheckedMembers, ReferToFact,
         WriteResult, Publish
<1>2. (Advance \/ Refuse) /\ UNCHANGED <<source, prepared, swapped>>
  BY DEF RetainInput, ListInput, Configure, Play, PlayerExits, CheckedTerminal,
         LoadConfiguration, CheckedObservation, RetainedSource, CheckedMembers, ReferToFact,
         WriteResult, Publish, Requires
<1>3. result = "none" /\ ThisTurn \in 11 .. 21 /\ ~InPrepare
  <2>1. PICK op \in {"retain", "list", "configure", "play", "exit", "terminal", "load", "observe",
                     "source", "members", "fact", "result", "publish"} : At(op)
    BY <1>1
  <2>2. Turn(op) \in 11 .. 21
    BY Turns
  <2>3. result = "none" /\ ThisTurn = Turn(op) /\ (InPrepare <=> Turn(op) <= 10)
    BY <2>1, AtEntry
  <2> QED BY <2>2, <2>3
<1>4. pc \in Nat /\ pc' \in Nat /\ pc <= pc' /\ Len(Prepare) \in Nat
  <2>1. pc \in Nat /\ Len(Prepare) \in Nat /\ Len(Script) \in Nat
    BY ScriptParts DEF PlaybackTypeOK, Ordered
  <2> QED BY <1>2, <2>1 DEF Advance, Refuse
<1> QED BY <1>2, <1>3, <1>4 DEF InPrepare, IsPrepared

\* Nothing is done when the programs are started again.
LEMMA StartedAgain ==
  ASSUME Retry
  PROVE  /\ \A op, f : ~Done(op, f)'
         /\ ThisTurn' \in 1 .. 21 /\ ThisTurn' <= 2
<1>1. pc' = 1 /\ result' = "none" /\ Len(Script) \in Nat /\ 1 \in 1 .. Len(Script)
  BY ScriptParts DEF Retry, Ordered
<1>2. \A op, f : ~Done(op, f)'
  BY <1>1 DEF Done
<1>3. Turn(Script[1][1]) <= 2
  <2>1. PICK k \in 1 .. Len(Script) : Script[k] = <<"mkdir", File("output")>>
    BY ScriptParts DEF Required
  <2>2. Turn(Script[1][1]) <= Turn(Script[k][1])
    BY <1>1, InTurn
  <2> QED BY <2>1, <2>2, Turns
<1>4. Turn(Script[1][1]) \in 1 .. 21
  BY <1>1, Here
<1> QED BY <1>1, <1>2, <1>3, <1>4 DEF ThisTurn

\* Every step keeps what is known of the copies.
LEMMA CopiesNext ==
  ASSUME PlaybackTypeOK, CopiesInv, [PlaybackNext]_playbackVars
  PROVE  CopiesInv'
<1> SUFFICES ASSUME result' = "none", InPrepare'
             PROVE  CopiesInv'
  BY DEF CopiesInv
<1>1. ASSUME UNCHANGED <<pc, result, expected, made, out, before, refs, scanned>>
      PROVE  CopiesInv'
  BY <1>1 DEF CopiesInv, Done, Ahead, ThisTurn, InPrepare
<1>2. CASE Edit \/ UNCHANGED playbackVars
  BY <1>1, <1>2 DEF Edit, playbackVars, prepared
<1>3. CASE Rewrite
  <2>1. InPrepare /\ result = "none" /\ UNCHANGED <<pc, result, expected, made, before, refs, scanned>>
    BY <1>3 DEF Rewrite, InPrepare
  <2>2. ThisTurn = 7 /\ Script[pc][1] = "scan"
    BY <1>3, <2>1, Turns DEF Rewrite, ThisTurn
  <2>3. \A f \in Retained : out'[f] = out[f] \/ out'[f] = "rewritten"
    BY <1>3, <2>1 DEF Rewrite, PlaybackTypeOK
  <2>4. \A f : ~Done("again", f)
    <3>1. \A f : Done("again", f) => Turn("again") <= ThisTurn
      BY <2>1, DoneInTurn
    <3>2. ~(Turn("again") <= ThisTurn)
      BY <2>2, Turns
    <3> QED BY <3>1, <3>2
  <2>5. /\ ThisTurn' = ThisTurn /\ \A op, f : Done(op, f)' <=> Done(op, f)
    BY <2>1 DEF ThisTurn, Done
  <2>6. ~(ThisTurn \in 3 .. 6) /\ ThisTurn >= 3 /\ ThisTurn >= 7
    BY <2>2
  <2>7. \A f \in Retained : out'[f] \in {expected[f], "rewritten"}
    BY <2>1, <2>3, <2>6 DEF CopiesInv
  <2>8. \A f \in Retained : Done("scan", f) => \/ scanned[f] = expected[f]
                                               \/ scanned[f] = "rewritten" /\ out'[f] = "rewritten"
    BY <2>1, <2>3 DEF CopiesInv
  <2>9. /\ made = "now"
        /\ \A f \in Retained : /\ Done("before", f) => before[f] = expected[f]
                               /\ Done("refer", f) => refs[f] = expected[f]
        /\ \A i \in 1 .. Segments : Done("lookup", Rec(i)) => expected[Rec(i)] = Names(expected[Sum(i)])
    BY <2>1, <2>6 DEF CopiesInv
  <2> QED BY <2>1, <2>4, <2>5, <2>6, <2>7, <2>8, <2>9 DEF CopiesInv
<1>4. CASE Retry
  <2>1. ~(ThisTurn' >= 3) /\ ~(ThisTurn' >= 7) /\ ~(ThisTurn' \in 3 .. 6)
    BY <1>4, StartedAgain
  <2>2. \A op, f : ~Done(op, f)'
    BY <1>4, StartedAgain
  <2> QED BY <2>1, <2>2 DEF CopiesInv
<1>5. CASE AdmitSchema \/ CheckSigned \/ CheckIdentity \/ Expect
  <2>1. /\ At("admit") \/ At("check") \/ At("identity") \/ At("expect")
        /\ Advance \/ Refuse
    BY <1>5 DEF AdmitSchema, CheckSigned, CheckIdentity, Expect, Requires
  <2>2. Advance
    BY <2>1 DEF Refuse
  <2>3. result = "none" /\ ThisTurn = 1
    BY <2>1, AtEntry, Turns
  <2> QED BY <2>2, <2>3, CopiesReading
<1>6. CASE MakeOutput
  BY <1>6, CopiesMade
<1>7. CASE SchemaSame \/ CopyHash \/ CopyBytes \/ CopyCompare
  BY <1>7, CopiesCopied
<1>8. CASE HashBefore
  BY <1>8, CopiesHashed
<1>9. CASE LookUpSummary
  BY <1>9, CopiesLookedUp
<1>10. CASE Refer
  BY <1>10, CopiesReferred
<1>11. CASE Scan
  BY <1>11, CopiesScanned
<1>12. CASE CompareAgain
  BY <1>12, CopiesCompared
<1>13. CASE Counts \/ Write \/ CheckOffset
  BY <1>13, CopiesWritten
<1>14. CASE \/ RetainInput \/ ListInput \/ Configure \/ Play \/ PlayerExits
            \/ CheckedTerminal \/ LoadConfiguration \/ CheckedObservation \/ RetainedSource
            \/ CheckedMembers \/ ReferToFact \/ WriteResult \/ Publish
  BY <1>14, RunsAfterPrepare
<1> QED BY <1>2, <1>3, <1>4, <1>5, <1>6, <1>7, <1>8, <1>9, <1>10, <1>11, <1>12, <1>13, <1>14
        DEF PlaybackNext

-----------------------------------------------------------------------------
(* The documents. *)

\* playback-inputs.json is the last of the documents.
LEMMA DocumentsNext ==
  ASSUME PlaybackTypeOK, WritingInv, [PlaybackNext]_playbackVars
  PROVE  WritingInv'
<1>0. /\ pc \in 1 .. Len(Script) /\ Len(Prepare) \in Nat /\ Len(Script) \in Nat
      /\ Len(Prepare) < Len(Script)
  BY ScriptParts DEF PlaybackTypeOK, Ordered
<1>1. ASSUME UNCHANGED <<pc, result, written, early>> PROVE WritingInv'
  BY <1>1 DEF WritingInv, Done, InPrepare
<1>2. CASE Edit \/ Rewrite \/ UNCHANGED playbackVars
  BY <1>1, <1>2 DEF Edit, Rewrite, playbackVars, prepared
<1>3. CASE Retry
  <2>1. InPrepare /\ written' = written
    BY <1>3 DEF Retry
  <2>2. \A op, f : ~Done(op, f)'
    BY <1>3, StartedAgain
  <2> QED BY <2>1, <2>2 DEF WritingInv
<1>4. ASSUME result = "none", UNCHANGED <<written, early>>, Advance \/ Refuse,
             \A f : Script[pc] # <<"write", f>>,
             Script[pc] # <<"offset", File("inputs")>> \/ ~early
      PROVE  WritingInv'
  <2>1. InPrepare' => InPrepare
    BY <1>0, <1>4 DEF Advance, Refuse, InPrepare
  <2>2. CASE Refuse
    BY <1>4, <2>1, <2>2 DEF Refuse, WritingInv
  <2>3. CASE Advance
    <3>1. \A op, f : Done(op, f)' => Done(op, f) \/ Script[pc] = <<op, f>>
      BY <1>4, <2>3, Moved
    <3> QED BY <1>4, <2>1, <3>1 DEF WritingInv
  <2> QED BY <1>4, <2>2, <2>3
<1>5. CASE Counts
  <2>1. result = "none" /\ ThisTurn = 9 /\ InPrepare /\ Script[pc][1] = "counts"
    BY <1>5, AtEntry, Turns DEF Counts, At
  <2>2. CASE Refuse
    BY <1>5, <2>1, <2>2 DEF Counts, Refuse, WritingInv, InPrepare
  <2>3. CASE Advance
    <3>1. ~Done("offset", File("inputs"))'
      BY <2>1, <2>3, Later
    <3>2. \A f : Done("write", f)' => Done("write", f)
      BY <2>1, <2>3, Moved
    <3>3. InPrepare' => InPrepare
      BY <1>0, <2>3 DEF Advance, InPrepare
    <3> QED BY <1>5, <2>1, <3>1, <3>2, <3>3 DEF Counts, WritingInv
  <2> QED BY <1>5, <2>2, <2>3 DEF Counts
<1>6. CASE Write
  <2>1. /\ result = "none" /\ InPrepare /\ Script[pc] = <<"write", It>>
        /\ \E d \in Documents : It = File(d)
    <3>1. At("write")
      BY <1>6 DEF Write
    <3>2. Turn("write") <= 10
      BY Turns
    <3> QED BY <3>1, <3>2, AtEntry
  <2>2. PICK d \in Documents : It = File(d) /\ It[1] = d
    BY <2>1 DEF File
  <2>3. CASE Refuse /\ UNCHANGED written
    BY <1>6, <2>1, <2>3 DEF Write, Refuse, WritingInv, InPrepare
  <2>4. CASE Advance /\ written' = written \union {It[1]}
    <3>1. InPrepare' => d # "inputs"
      <4>1. d = "inputs" => pc = Len(Prepare)
        BY <1>0, <2>1, <2>2, ScriptParts
      <4>2. pc = Len(Prepare) => ~InPrepare'
        BY <1>0, <2>4 DEF Advance, InPrepare
      <4> QED BY <4>1, <4>2
    <3>2. \A op, f : Done(op, f)' => Done(op, f) \/ Script[pc] = <<op, f>>
      BY <2>1, <2>4, Moved
    <3>3. ASSUME NEW e \in Documents, Done("write", File(e))' PROVE e \in written'
      <4>1. Done("write", File(e)) \/ File(e) = It
        BY <3>2, <3>3, <2>1
      <4>2. File(e) = It => e = d
        BY <2>2 DEF File
      <4> QED BY <4>1, <4>2, <2>1, <2>2, <2>4 DEF WritingInv
    <3>4. Done("offset", File("inputs"))' => ~early'
      BY <1>6, <2>1, <3>2 DEF Write, WritingInv
    <3> QED BY <2>1, <2>2, <2>4, <3>1, <3>3, <3>4 DEF WritingInv
  <2> QED BY <1>6, <2>3, <2>4 DEF Write
<1>7. CASE CheckOffset
  <2>1. result = "none" /\ Script[pc] = <<"offset", It>> /\ UNCHANGED <<written, early>>
    BY <1>7, AtEntry DEF CheckOffset, prepared
  <2>2. ~early \/ Refuse
    BY <1>7 DEF CheckOffset, Requires
  <2>3. CASE Refuse
    BY <2>1, <2>3, <1>0 DEF Refuse, WritingInv, InPrepare
  <2>4. CASE ~early
    BY <1>4, <1>7, <2>1, <2>4 DEF CheckOffset, Requires
  <2> QED BY <2>2, <2>3, <2>4
<1>8. CASE \/ AdmitSchema \/ CheckSigned \/ CheckIdentity \/ Expect \/ MakeOutput \/ SchemaSame
           \/ CopyHash \/ CopyBytes \/ CopyCompare \/ HashBefore \/ LookUpSummary \/ Refer
           \/ Scan \/ CompareAgain
  <2>1. /\ result = "none" /\ UNCHANGED <<written, early>> /\ (Advance \/ Refuse)
        /\ Script[pc][1] \in {"admit", "check", "identity", "expect", "mkdir", "same", "hash",
                              "bytes", "compare", "before", "lookup", "refer", "scan", "again"}
    BY <1>8 DEF AdmitSchema, CheckSigned, CheckIdentity, Expect, MakeOutput, SchemaSame, CopyHash,
                CopyBytes, CopyCompare, HashBefore, LookUpSummary, Refer, Scan, CompareAgain,
                prepared, At, Requires
  <2> QED BY <2>1, <1>4
<1>9. CASE \/ RetainInput \/ ListInput \/ Configure \/ Play \/ PlayerExits
           \/ CheckedTerminal \/ LoadConfiguration \/ CheckedObservation \/ RetainedSource
           \/ CheckedMembers \/ ReferToFact \/ WriteResult \/ Publish
  BY <1>9, RunsAfterPrepare DEF WritingInv
<1> QED BY <1>2, <1>3, <1>5, <1>6, <1>7, <1>8, <1>9 DEF PlaybackNext

\* The last entry of prepare is the one that writes playback-inputs.json.
LEMMA LastOfPrepare ==
  /\ Len(Prepare) \in 1 .. Len(Script)
  /\ Script[Len(Prepare)] = <<"write", File("inputs")>>
<1>1. <<"write", File("inputs")>> \in Required
  BY DEF Required, Documents
<1>2. PICK k \in 1 .. Len(Script) : Script[k] = <<"write", File("inputs")>>
  BY <1>1, ScriptParts
<1> QED BY <1>2, ScriptParts

\* Once playback-inputs.json is written, the copies are signed and counted.
LEMMA PreparedWhole ==
  ASSUME PlaybackTypeOK, FilesInv, SwappedInv, CopiesInv, WritingInv,
         pc = Len(Prepare), Write, Advance
  PROVE  PreparedInv'
<1>1. /\ result = "none" /\ InPrepare /\ ThisTurn = 10 /\ It = File("inputs")
      /\ written' = written \union {"inputs"}
      /\ UNCHANGED <<expected, out, before, refs, scanned, early, swapped>>
  <2>1. At("write")
    BY DEF Write
  <2>2. Turn("write") = 10 /\ Turn("write") <= 10
    BY Turns
  <2>3. result = "none" /\ InPrepare /\ ThisTurn = 10
    BY <2>1, <2>2, AtEntry
  <2>4. It = File("inputs")
    BY LastOfPrepare DEF It
  <2> QED BY <2>3, <2>4 DEF Write, File, Advance, Refuse
<1>2. ASSUME NEW op, NEW f, <<op, f>> \in Required, Turn(op) < 10 PROVE Done(op, f)
  BY <1>1, <1>2, Passed
<1>3. ASSUME NEW f \in Retained PROVE out[f] = expected[f] /\ before[f] = expected[f]
  <2>1. <<"again", f>> \in Required /\ Turn("again") < 10
    <3>1. <<"again", f>> \in Required
      BY DEF Required
    <3>2. Turn("again") < 10
      BY Turns
    <3> QED BY <3>1, <3>2
  <2> QED BY <1>1, <1>2, <2>1, AllHashed DEF CopiesInv
<1>4. ASSUME NEW i \in 1 .. Segments PROVE expected[Rec(i)] = Names(expected[Sum(i)])
  <2>1. <<"lookup", Rec(i)>> \in Required /\ Turn("lookup") < 10
    <3>1. <<"lookup", Rec(i)>> \in Required
      BY DEF Required, Recs
    <3>2. Turn("lookup") < 10
      BY Turns
    <3> QED BY <3>1, <3>2
  <2>2. Done("lookup", Rec(i))
    BY <1>2, <2>1
  <2> QED BY <1>1, <2>2 DEF CopiesInv
<1>5. ASSUME NEW f \in Pairs \union {File("metadata")} PROVE refs[f] = out[f]
  <2>1. <<"refer", f>> \in Required /\ Turn("refer") < 10
    <3>1. <<"refer", f>> \in Required
      BY DEF Required
    <3>2. Turn("refer") < 10
      BY Turns
    <3> QED BY <3>1, <3>2
  <2>2. Done("refer", f) /\ f \in Retained
    BY <1>2, <2>1, FilesAre
  <2> QED BY <1>1, <1>3, <2>2 DEF CopiesInv
<1>6. ASSUME NEW i \in 1 .. Segments PROVE scanned[Rec(i)] = refs[Rec(i)]
  <2>1. <<"scan", Rec(i)>> \in Required /\ Turn("scan") < 10
    <3>1. <<"scan", Rec(i)>> \in Required
      BY DEF Required, Recs
    <3>2. Turn("scan") < 10
      BY Turns
    <3> QED BY <3>1, <3>2
  <2>2. Done("scan", Rec(i)) /\ Rec(i) \in Retained /\ Rec(i) \in Pairs
    BY <1>2, <2>1, FilesAre DEF Recs
  <2>3. out[Rec(i)] # "rewritten"
    BY <1>1, <1>3, <2>2 DEF FilesInv, Versions
  <2>4. \/ scanned[Rec(i)] = expected[Rec(i)]
        \/ scanned[Rec(i)] = "rewritten" /\ out[Rec(i)] = "rewritten"
    BY <1>1, <2>2 DEF CopiesInv
  <2> QED BY <1>3, <1>5, <2>2, <2>3, <2>4
<1>7. RetainedSigned'
  <2>1. ASSUME NEW f \in Retained \ Pairs
        PROVE  before[f] = IF f = Schema THEN expected[f] ELSE "signed"
    BY <1>1, <1>3, <2>1 DEF FilesInv
  <2>2. ASSUME NEW f \in Pairs \ swapped PROVE before[f] = "signed"
    BY <1>1, <1>3, <2>2, FilesAre DEF SwappedInv
  <2>3. ASSUME NEW i \in 1 .. Segments PROVE before[Rec(i)] = Names(before[Sum(i)])
    <3>1. Rec(i) \in Retained /\ Sum(i) \in Retained
      BY FilesAre DEF Pairs, Sums
    <3> QED BY <3>1, <1>3, <1>4
  <2> QED BY <1>1, <2>1, <2>2, <2>3 DEF RetainedSigned
<1>8. DatasetTrue'
  BY <1>1, <1>5, <1>6 DEF DatasetTrue
<1>9. written' = Documents /\ ~early'
  <2>1. ASSUME NEW d \in Documents PROVE d \in written'
    <3>1. CASE d = "inputs"
      BY <1>1, <3>1
    <3>2. CASE d # "inputs"
      <4>1. <<"write", File(d)>> \in Required
        BY DEF Required
      <4>2. PICK k \in 1 .. Len(Script) : Script[k] = <<"write", File(d)>>
        BY <4>1, ScriptParts
      <4>3. Turn(Script[k][1]) <= 10
        BY <4>2, Turns
      <4>4. k <= Len(Prepare) /\ k # Len(Prepare)
        <5>1. File(d) # File("inputs")
          BY <3>2 DEF File
        <5> QED BY <4>2, <4>3, <5>1, ScriptParts, LastOfPrepare
      <4>5. k < pc
        BY <4>4, ScriptParts, LastOfPrepare
      <4>6. Done("write", File(d))
        BY <4>2, <4>5 DEF Done
      <4> QED BY <1>1, <4>6 DEF WritingInv
    <3> QED BY <3>1, <3>2
  <2>2. ~early
    <3>1. <<"offset", File("inputs")>> \in Required
      BY DEF Required
    <3>2. PICK k \in 1 .. Len(Script) : Script[k] = <<"offset", File("inputs")>>
      BY <3>1, ScriptParts
    <3>3. Turn(Script[k][1]) <= 10
      BY <3>2, Turns
    <3>4. k <= Len(Prepare) /\ k # Len(Prepare)
      BY <3>2, <3>3, ScriptParts, LastOfPrepare
    <3>5. k < pc
      BY <3>4, ScriptParts, LastOfPrepare
    <3>6. Done("offset", File("inputs"))
      BY <3>2, <3>5 DEF Done
    <3> QED BY <1>1, <3>6 DEF WritingInv
  <2>3. written' \subseteq Documents
    BY <1>1 DEF PlaybackTypeOK, Documents
  <2> QED BY <1>1, <2>1, <2>2, <2>3
<1> QED BY <1>7, <1>8, <1>9 DEF PreparedInv

\* What is prepared stays as it is.
LEMMA PreparedNext ==
  ASSUME PlaybackTypeOK, FilesInv, SwappedInv, CopiesInv, WritingInv, PreparedInv,
         [PlaybackNext]_playbackVars
  PROVE  PreparedInv'
<1>0. /\ pc \in 1 .. Len(Script) /\ Len(Prepare) \in Nat /\ Len(Script) \in Nat
      /\ Len(Prepare) < Len(Script)
  BY ScriptParts DEF PlaybackTypeOK, Ordered
<1>1. ASSUME IsPrepared' => IsPrepared,
             IsPrepared => UNCHANGED <<expected, out, before, refs, scanned, written, early>>,
             IsPrepared => swapped \subseteq swapped'
      PROVE  PreparedInv'
  BY <1>1 DEF PreparedInv, RetainedSigned, DatasetTrue
<1>2. CASE Edit \/ Rewrite \/ UNCHANGED playbackVars
  <2>1. /\ pc' = pc /\ swapped \subseteq swapped'
        /\ IsPrepared => UNCHANGED <<expected, out, before, refs, scanned, written, early>>
    BY <1>0, <1>2 DEF Edit, Rewrite, playbackVars, prepared, InPrepare, IsPrepared
  <2> QED BY <1>1, <2>1 DEF IsPrepared
<1>3. CASE Retry
  <2>1. ~IsPrepared'
    BY <1>0, <1>3, LastOfPrepare DEF Retry, IsPrepared
  <2> QED BY <2>1 DEF PreparedInv
<1>4. ASSUME InPrepare, Advance \/ Refuse, pc # Len(Prepare)
      PROVE  PreparedInv'
  BY <1>0, <1>1, <1>4 DEF Advance, Refuse, InPrepare, IsPrepared
<1>5. CASE Write
  <2>1. InPrepare /\ (Advance \/ Refuse)
    BY <1>5, AtEntry, Turns DEF Write
  <2>2. CASE pc = Len(Prepare) /\ Advance
    BY <1>5, <2>2, PreparedWhole
  <2>3. CASE Refuse
    BY <1>0, <1>1, <2>1, <2>3 DEF Refuse, InPrepare, IsPrepared
  <2> QED BY <1>4, <2>1, <2>2, <2>3
<1>6. CASE \/ AdmitSchema \/ CheckSigned \/ CheckIdentity \/ Expect \/ MakeOutput \/ SchemaSame
           \/ CopyHash \/ CopyBytes \/ CopyCompare \/ HashBefore \/ LookUpSummary \/ Refer
           \/ Scan \/ CompareAgain \/ Counts \/ CheckOffset
  <2>1. /\ \E op \in {"admit", "check", "identity", "expect", "mkdir", "same", "hash", "bytes",
                      "compare", "before", "lookup", "refer", "scan", "again", "counts",
                      "offset"} : At(op)
        /\ Advance \/ Refuse
    BY <1>6 DEF AdmitSchema, CheckSigned, CheckIdentity, Expect, MakeOutput, SchemaSame, CopyHash,
                CopyBytes, CopyCompare, HashBefore, LookUpSummary, Refer, Scan, CompareAgain,
                Counts, CheckOffset, Requires
  <2>2. PICK op \in {"admit", "check", "identity", "expect", "mkdir", "same", "hash", "bytes",
                     "compare", "before", "lookup", "refer", "scan", "again", "counts",
                     "offset"} : At(op)
    BY <2>1
  <2>3. Turn(op) <= 10 /\ op # "write"
    BY Turns
  <2>4. InPrepare /\ Script[pc] = <<op, It>>
    BY <2>2, <2>3, AtEntry
  <2>5. pc # Len(Prepare)
    BY <2>3, <2>4, LastOfPrepare
  <2> QED BY <1>4, <2>1, <2>4, <2>5
<1>7. CASE \/ RetainInput \/ ListInput \/ Configure \/ Play \/ PlayerExits
           \/ CheckedTerminal \/ LoadConfiguration \/ CheckedObservation \/ RetainedSource
           \/ CheckedMembers \/ ReferToFact \/ WriteResult \/ Publish
  BY <1>1, <1>7, RunsAfterPrepare DEF prepared
<1> QED BY <1>2, <1>3, <1>5, <1>6, <1>7 DEF PlaybackNext

-----------------------------------------------------------------------------
(* The player and the result. *)

\* Nothing is played or published before the inputs are prepared.
LEMMA NothingPlayed ==
  ASSUME PlaybackTypeOK, result = "none", Advance, ThisTurn <= 11
  PROVE  PlayedInv'
<1>1. \A op, f : Done(op, f)' => Turn(op) <= ThisTurn
  BY Moved
<1>2. ThisTurn \in 1 .. 21
  BY Moved
<1>3. \A op \in {"list", "play", "source", "publish", "exit", "terminal", "observe"} :
        ~(Turn(op) <= ThisTurn)
  BY <1>2, Turns
<1>4. \A f : /\ ~Done("list", f)' /\ ~Done("play", f)' /\ ~Done("source", f)'
             /\ ~Done("publish", f)' /\ ~Done("exit", f)' /\ ~Done("terminal", f)'
             /\ ~Done("observe", f)'
  BY <1>1, <1>3
<1> QED BY <1>4 DEF PlayedInv

\* The inputs are listed, the configuration is written, the player reads them
\* and ends.
LEMMA PlayedByRunner ==
  ASSUME PlaybackTypeOK, PlayedInv, ListInput \/ Configure \/ Play \/ PlayerExits, Advance
  PROVE  PlayedInv'
<1>1. result = "none" /\ ThisTurn <= 15 /\ UNCHANGED <<evidence, config>>
  <2>1. \E op \in {"list", "configure", "play", "exit"} : At(op)
    BY DEF ListInput, Configure, Play, PlayerExits
  <2>2. PICK op \in {"list", "configure", "play", "exit"} : At(op)
    BY <2>1
  <2>3. Turn(op) <= 15
    BY Turns
  <2> QED BY <2>2, <2>3, AtEntry DEF ListInput, Configure, Play, PlayerExits
<1>2. \A op, f : Done(op, f)' => Done(op, f) \/ Script[pc] = <<op, f>>
  BY <1>1, Moved
<1>3. \A f : /\ ~Done("source", f)' /\ ~Done("publish", f)' /\ ~Done("terminal", f)'
             /\ ~Done("observe", f)'
  <2>1. ThisTurn \in 1 .. 21 /\ \A op, f : Done(op, f)' => Turn(op) <= ThisTurn
    BY <1>1, Moved
  <2>2. \A op \in {"source", "publish", "terminal", "observe"} : ~(Turn(op) <= ThisTurn)
    BY <1>1, <2>1, Turns
  <2> QED BY <2>1, <2>2
<1>4. CASE ListInput
  <2>1. /\ Script[pc] = <<"list", It>> /\ ThisTurn = 12 /\ It \in Played
        /\ listed' = [listed EXCEPT ![It] = run[It]] /\ UNCHANGED <<run, played, player>>
    BY <1>4, AtEntry, Turns DEF ListInput
  <2>2. \A f : ~Done("play", f)' /\ ~Done("exit", f)'
    BY <1>1, <2>1, Later
  <2>3. ASSUME NEW f \in Played, Done("list", f)' PROVE run'[f] \in {listed'[f], "rewritten"}
    <3>1. f \in Provided
      BY FilesAre
    <3>2. CASE f = It
      BY <2>1, <3>1, <3>2 DEF PlaybackTypeOK
    <3>3. CASE f # It
      <4>1. Done("list", f)
        BY <1>2, <2>1, <2>3, <3>3
      <4> QED BY <1>1, <2>1, <3>1, <3>3, <4>1 DEF PlayedInv, PlaybackTypeOK
    <3> QED BY <3>2, <3>3
  <2> QED BY <1>3, <2>2, <2>3 DEF PlayedInv
<1>5. CASE Configure
  <2>1. /\ Script[pc] = <<"configure", It>> /\ ThisTurn = 13 /\ It = Config
        /\ run' = [run EXCEPT ![It] = "configured"] /\ UNCHANGED <<listed, played, player>>
    BY <1>5, AtEntry, Turns DEF Configure
  <2>2. \A f : ~Done("play", f)' /\ ~Done("exit", f)'
    BY <1>1, <2>1, Later
  <2>3. ASSUME NEW f \in Played, Done("list", f)' PROVE run'[f] \in {listed'[f], "rewritten"}
    <3>1. f \in Provided /\ f # It
      BY <2>1, FilesAre
    <3>2. Done("list", f)
      BY <1>2, <2>1, <2>3
    <3> QED BY <1>1, <2>1, <3>1, <3>2 DEF PlayedInv, PlaybackTypeOK
  <2> QED BY <1>3, <2>2, <2>3 DEF PlayedInv
<1>6. CASE Play
  <2>1. /\ Script[pc] = <<"play", It>> /\ ThisTurn = 14 /\ It \in Played
        /\ played' = [played EXCEPT ![It] = run[It]] /\ UNCHANGED <<run, listed, player>>
    BY <1>6, AtEntry, Turns DEF Play
  <2>2. \A f : ~Done("exit", f)'
    BY <1>1, <2>1, Later
  <2>3. \A f \in Played : Done("list", f)' => run'[f] \in {listed'[f], "rewritten"}
    BY <1>1, <1>2, <2>1 DEF PlayedInv
  <2>4. run[It] \in {listed[It], "rewritten"}
    <3>1. <<"list", It>> \in Required /\ Turn("list") < ThisTurn
      BY <2>1, Turns DEF Required
    <3>2. Done("list", It)
      BY <3>1, Passed
    <3> QED BY <1>1, <2>1, <3>2 DEF PlayedInv
  <2>5. ASSUME NEW f \in Played, Done("play", f)'
        PROVE  \/ played'[f] = listed'[f]
               \/ played'[f] = "rewritten" /\ run'[f] = "rewritten"
    <3>1. f \in Provided
      BY FilesAre
    <3>2. CASE f = It
      BY <2>1, <2>4, <3>1, <3>2 DEF PlaybackTypeOK
    <3>3. CASE f # It
      <4>1. Done("play", f)
        BY <1>2, <2>1, <2>5, <3>3
      <4> QED BY <1>1, <2>1, <3>1, <3>3, <4>1 DEF PlayedInv, PlaybackTypeOK
    <3> QED BY <3>2, <3>3
  <2> QED BY <1>3, <2>2, <2>3, <2>5 DEF PlayedInv
<1>7. CASE PlayerExits
  <2>1. /\ Script[pc][1] = "exit" /\ player' # Unread /\ UNCHANGED <<run, listed, played>>
    BY <1>7 DEF PlayerExits, At, Unread
  <2>2. \A f : (Done("list", f)' => Done("list", f)) /\ (Done("play", f)' => Done("play", f))
    BY <1>2, <2>1
  <2> QED BY <1>1, <1>3, <2>1, <2>2 DEF PlayedInv
<1> QED BY <1>4, <1>5, <1>6, <1>7

\* The provider reads the configuration and compares what was played.
LEMMA PlayedByProvider ==
  ASSUME PlaybackTypeOK, PlayedInv, Advance,
         \/ CheckedTerminal \/ LoadConfiguration \/ CheckedObservation \/ RetainedSource
         \/ CheckedMembers \/ ReferToFact \/ WriteResult
  PROVE  PlayedInv'
<1>1. result = "none" /\ ThisTurn <= 20 /\ UNCHANGED <<run, listed, played, player>>
  <2>1. \E op \in {"terminal", "load", "observe", "source", "members", "fact", "result"} : At(op)
    BY DEF CheckedTerminal, LoadConfiguration, CheckedObservation, RetainedSource,
           CheckedMembers, ReferToFact, WriteResult
  <2>2. PICK op \in {"terminal", "load", "observe", "source", "members", "fact", "result"} : At(op)
    BY <2>1
  <2>3. Turn(op) <= 20
    BY Turns
  <2>4. UNCHANGED <<run, listed, played, player>>
    BY DEF CheckedTerminal, LoadConfiguration, CheckedObservation, RetainedSource,
           CheckedMembers, ReferToFact, WriteResult, executed
  <2> QED BY <2>2, <2>3, <2>4, AtEntry
<1>2. \A op, f : Done(op, f)' => Done(op, f) \/ Script[pc] = <<op, f>>
  BY <1>1, Moved
<1>3. \A f : ~Done("publish", f)'
  <2>1. ThisTurn < 21
    BY <1>1, Moved
  <2> QED BY <1>1, <2>1, Later
<1>4. Script[pc][1] \notin {"list", "play", "exit"}
  BY DEF CheckedTerminal, LoadConfiguration, CheckedObservation, RetainedSource,
         CheckedMembers, ReferToFact, WriteResult, At
<1>5. /\ \A f \in Played :
           /\ Done("list", f)' => run'[f] \in {listed'[f], "rewritten"}
           /\ Done("play", f)' => \/ played'[f] = listed'[f]
                                  \/ played'[f] = "rewritten" /\ run'[f] = "rewritten"
      /\ Done("exit", File("player"))' => player' # Unread
  <2>1. \A f : /\ Done("list", f)' => Done("list", f)
               /\ Done("play", f)' => Done("play", f)
               /\ Done("exit", f)' => Done("exit", f)
    BY <1>2, <1>4
  <2> QED BY <1>1, <2>1 DEF PlayedInv
<1>6. Done("terminal", File("player"))' => player' # "stopped"
  <2>1. CASE CheckedTerminal
    BY <1>1, <2>1 DEF CheckedTerminal, Requires, Refuse, Advance
  <2>2. CASE ~CheckedTerminal
    <3>1. Script[pc][1] # "terminal"
      BY <2>2 DEF LoadConfiguration, CheckedObservation, RetainedSource, CheckedMembers,
                  ReferToFact, WriteResult, At
    <3> QED BY <1>1, <1>2, <3>1 DEF PlayedInv
  <2> QED BY <2>1, <2>2
<1>7. Done("observe", File("player"))' => player' # "no_probe"
  <2>1. CASE CheckedObservation
    BY <1>1, <2>1 DEF CheckedObservation, Requires, Refuse, Advance
  <2>2. CASE ~CheckedObservation
    <3>1. Script[pc][1] # "observe"
      BY <2>2 DEF CheckedTerminal, LoadConfiguration, RetainedSource, CheckedMembers,
                  ReferToFact, WriteResult, At
    <3> QED BY <1>1, <1>2, <3>1 DEF PlayedInv
  <2> QED BY <2>1, <2>2
<1>8. ASSUME NEW f \in Played, Done("source", f)', config' = "configured"
      PROVE  evidence'[f] = listed'[f]
  <2>1. f \in Provided /\ f # Config
    BY FilesAre
  <2>2. CASE LoadConfiguration
    <3>1. ThisTurn = 16
      BY <2>2, AtEntry, Turns DEF LoadConfiguration
    <3>2. ~Done("source", f)'
      BY <1>1, <3>1, Later
    <3> QED BY <1>8, <3>2
  <2>3. CASE RetainedSource
    <3>1. /\ Script[pc] = <<"source", It>> /\ evidence' = [evidence EXCEPT ![It] = run[It]]
          /\ config' = config /\ (config = "rewritten" \/ run[It] = listed[It])
      BY <2>3, AtEntry DEF RetainedSource, Requires, Refuse, Advance
    <3>2. CASE f = It
      BY <1>1, <1>8, <2>1, <3>1, <3>2 DEF PlaybackTypeOK
    <3>3. CASE f # It
      <4>1. Done("source", f)
        BY <1>2, <1>8, <3>1, <3>3
      <4> QED BY <1>1, <1>8, <2>1, <3>1, <3>3, <4>1 DEF PlayedInv, PlaybackTypeOK
    <3> QED BY <3>2, <3>3
  <2>4. CASE ReferToFact
    <3>1. /\ Script[pc] = <<"fact", It>> /\ It = Config /\ config' = config
          /\ evidence' = [evidence EXCEPT ![It] = run[It]]
      BY <2>4, AtEntry DEF ReferToFact
    <3>2. Done("source", f)
      BY <1>2, <1>8, <3>1
    <3> QED BY <1>1, <1>8, <2>1, <3>1, <3>2 DEF PlayedInv, PlaybackTypeOK
  <2>5. CASE CheckedTerminal \/ CheckedObservation \/ CheckedMembers \/ WriteResult
    <3>1. Script[pc][1] # "source" /\ UNCHANGED <<evidence, config>>
      BY <2>5 DEF CheckedTerminal, CheckedObservation, CheckedMembers, WriteResult, At, executed
    <3>2. Done("source", f)
      BY <1>2, <1>8, <3>1
    <3> QED BY <1>1, <1>8, <3>1, <3>2 DEF PlayedInv
  <2> QED BY <2>2, <2>3, <2>4, <2>5
<1> QED BY <1>3, <1>5, <1>6, <1>7, <1>8 DEF PlayedInv

\* Every reference is compared with the bytes once more.
LEMMA PlayedByPublish ==
  ASSUME PlaybackTypeOK, PlayedInv, Publish, Advance
  PROVE  PlayedInv'
<1>1. /\ result = "none" /\ ThisTurn = 21 /\ Script[pc] = <<"publish", It>>
      /\ UNCHANGED <<run, listed, played, player, config, evidence>>
      /\ run[It] = evidence[It] /\ (It = Config => run[It] = config)
  <2>1. At("publish")
    BY DEF Publish
  <2>2. run[It] = evidence[It] /\ (It = Config => run[It] = config)
    BY DEF Publish, Requires, Refuse, Advance, At
  <2> QED BY <2>1, <2>2, AtEntry, Turns DEF Publish, executed
<1>2. \A op, f : Done(op, f)' => Done(op, f) \/ Script[pc] = <<op, f>>
  BY <1>1, Moved
<1>3. \A f : /\ Done("list", f)' => Done("list", f)
             /\ Done("play", f)' => Done("play", f)
             /\ Done("source", f)' => Done("source", f)
             /\ Done("exit", f)' => Done("exit", f)
             /\ Done("terminal", f)' => Done("terminal", f)
             /\ Done("observe", f)' => Done("observe", f)
  BY <1>1, <1>2
<1>4. Done("publish", Config)' => evidence'[Config] = config'
  <2>1. Done("publish", Config)' => Done("publish", Config) \/ It = Config
    BY <1>1, <1>2
  <2> QED BY <1>1, <2>1 DEF PlayedInv
<1>5. ASSUME NEW f \in Played, Done("publish", f)', config' = "configured"
      PROVE  played'[f] = listed'[f]
  <2>1. CASE f = It
    <3>1. /\ <<"source", f>> \in Required /\ <<"play", f>> \in Required
          /\ Turn("source") < ThisTurn /\ Turn("play") < ThisTurn
      BY <1>1, Turns DEF Required
    <3>3. Done("source", f) /\ Done("play", f)
      BY <3>1, Passed
    <3>4. evidence[f] = listed[f]
      BY <1>1, <1>5, <3>3 DEF PlayedInv
    <3>5. played[f] = listed[f] \/ (played[f] = "rewritten" /\ run[f] = "rewritten")
      BY <1>1, <3>3 DEF PlayedInv
    <3> QED BY <1>1, <2>1, <3>4, <3>5
  <2>2. CASE f # It
    <3>1. Done("publish", f)
      BY <1>1, <1>2, <1>5, <2>2
    <3> QED BY <1>1, <1>5, <3>1 DEF PlayedInv
  <2> QED BY <2>1, <2>2
<1> QED BY <1>1, <1>3, <1>4, <1>5 DEF PlayedInv

\* Every step keeps what is known of the player and of the result.
LEMMA PlayedNext ==
  ASSUME PlaybackTypeOK, PlayedInv, [PlaybackNext]_playbackVars
  PROVE  PlayedInv'
<1> SUFFICES ASSUME result' # "failed" PROVE PlayedInv'
  BY DEF PlayedInv
<1>1. CASE Edit \/ UNCHANGED playbackVars
  BY <1>1 DEF Edit, playbackVars, executed, PlayedInv, Done
<1>2. CASE Rewrite
  <2>1. /\ result = "none" /\ UNCHANGED <<pc, result, listed, played, player, config, evidence>>
        /\ \A f \in Provided : run'[f] = run[f] \/ run'[f] = "rewritten"
    BY <1>2 DEF Rewrite, PlaybackTypeOK
  <2>2. \A op, f : Done(op, f)' <=> Done(op, f)
    BY <2>1 DEF Done
  <2>3. \A f \in Played : run'[f] = run[f] \/ run'[f] = "rewritten"
    BY <2>1, FilesAre
  <2> QED BY <2>1, <2>2, <2>3 DEF PlayedInv
<1>3. CASE Retry
  <2>1. \A op, f : ~Done(op, f)'
    BY <1>3, StartedAgain
  <2> QED BY <2>1 DEF PlayedInv
<1>4. CASE \/ AdmitSchema \/ CheckSigned \/ CheckIdentity \/ Expect \/ MakeOutput \/ SchemaSame
           \/ CopyHash \/ CopyBytes \/ CopyCompare \/ HashBefore \/ LookUpSummary \/ Refer
           \/ Scan \/ CompareAgain \/ Counts \/ Write \/ CheckOffset \/ RetainInput
  <2>1. /\ \E op \in {"admit", "check", "identity", "expect", "mkdir", "same", "hash", "bytes",
                      "compare", "before", "lookup", "refer", "scan", "again", "counts",
                      "write", "offset", "retain"} : At(op)
        /\ Advance \/ Refuse
    BY <1>4 DEF AdmitSchema, CheckSigned, CheckIdentity, Expect, MakeOutput, SchemaSame, CopyHash,
                CopyBytes, CopyCompare, HashBefore, LookUpSummary, Refer, Scan, CompareAgain,
                Counts, Write, CheckOffset, RetainInput, Requires
  <2>2. PICK op \in {"admit", "check", "identity", "expect", "mkdir", "same", "hash", "bytes",
                     "compare", "before", "lookup", "refer", "scan", "again", "counts",
                     "write", "offset", "retain"} : At(op)
    BY <2>1
  <2>3. Turn(op) <= 11
    BY Turns
  <2>4. result = "none" /\ ThisTurn <= 11
    BY <2>2, <2>3, AtEntry
  <2>5. Advance
    BY <2>1 DEF Refuse
  <2> QED BY <2>4, <2>5, NothingPlayed
<1>5. CASE ListInput \/ Configure \/ Play \/ PlayerExits
  <2>1. Advance
    BY <1>5 DEF ListInput, Configure, Play, PlayerExits
  <2> QED BY <1>5, <2>1, PlayedByRunner
<1>6. CASE \/ CheckedTerminal \/ LoadConfiguration \/ CheckedObservation \/ RetainedSource
           \/ CheckedMembers \/ ReferToFact \/ WriteResult
  <2>1. Advance
    BY <1>6 DEF CheckedTerminal, LoadConfiguration, CheckedObservation, RetainedSource,
                CheckedMembers, ReferToFact, WriteResult, Requires, Refuse
  <2> QED BY <1>6, <2>1, PlayedByProvider
<1>7. CASE Publish
  <2>1. Advance
    BY <1>7 DEF Publish, Requires, Refuse
  <2> QED BY <1>7, <2>1, PlayedByPublish
<1> QED BY <1>1, <1>2, <1>3, <1>4, <1>5, <1>6, <1>7 DEF PlaybackNext

-----------------------------------------------------------------------------
(* What is proved. *)

\* The inductive invariant.
LEMMA PlaybackInvariant == PlaybackSpec => []PlaybackInv
<1>1. PlaybackInit => PlaybackInv
  <2> SUFFICES ASSUME PlaybackInit PROVE PlaybackInv
    OBVIOUS
  <2>1. PlaybackTypeOK
    BY PlaybackInitTyped
  <2>2. \A op, f : ~Done(op, f)
    <3>1. Len(Script) \in Nat
      BY ScriptParts DEF Ordered
    <3> QED BY <3>1 DEF PlaybackInit, Done
  <2>3. FilesInv
    BY DEF PlaybackInit, FilesInv, Versions
  <2>8. SwappedInv
    BY BoundAtFirst, FilesAre DEF PlaybackInit, SwappedInv
  <2>4. CopiesInv
    <3>1. ThisTurn \in 1 .. 21 /\ ThisTurn <= 2
      <4>1. PICK k \in 1 .. Len(Script) : Script[k] = <<"mkdir", File("output")>>
        BY ScriptParts DEF Required
      <4>2. 1 \in 1 .. Len(Script) /\ 1 <= k /\ pc = 1
        BY <4>1, ScriptParts DEF Ordered, PlaybackInit
      <4>3. Turn(Script[1][1]) <= 2
        <5>1. Turn(Script[k][1]) = 2
          BY <4>1, Turns
        <5> QED BY <4>2, <5>1, InTurn
      <4> QED BY <4>2, <4>3, Here DEF ThisTurn
    <3>2. ~(ThisTurn >= 3) /\ ~(ThisTurn >= 7) /\ ~(ThisTurn \in 3 .. 6)
      BY <3>1
    <3> QED BY <2>2, <3>2 DEF CopiesInv
  <2>5. WritingInv
    BY <2>2 DEF PlaybackInit, WritingInv
  <2>6. PreparedInv
    BY LastOfPrepare DEF PlaybackInit, PreparedInv, IsPrepared
  <2>7. PlayedInv
    BY <2>2 DEF PlayedInv
  <2> QED BY <2>1, <2>3, <2>4, <2>5, <2>6, <2>7, <2>8 DEF PlaybackInv
<1>2. PlaybackInv /\ [PlaybackNext]_playbackVars => PlaybackInv'
  BY PlaybackNextTyped, FilesNext, SwappedNext, CopiesNext, DocumentsNext, PreparedNext, PlayedNext
     DEF PlaybackInv
<1> QED BY <1>1, <1>2, PTL DEF PlaybackSpec

\* Prepared inputs are counted and complete, and signed but for members that were
\* changed between their last comparison and the hash their copy is held to,
\* however many recordings the capture has and however often it is changed.
THEOREM PreparedAlwaysTrue == PlaybackSpec => []PreparedTrue
<1>1. PlaybackInv => PreparedTrue
  <2> SUFFICES ASSUME PlaybackInv PROVE PreparedTrue
    OBVIOUS
  <2>1. InPrepare \/ IsPrepared
    BY ScriptParts DEF PlaybackInv, PlaybackTypeOK, InPrepare, IsPrepared, Ordered
  <2>2. InputsComplete
    BY <2>1 DEF PlaybackInv, WritingInv, PreparedInv, InputsComplete
  <2>3. RetainedSigned /\ DatasetTrue
    BY DEF PlaybackInv, PreparedInv, RetainedSigned, DatasetTrue
  <2> QED BY <2>2, <2>3 DEF PlaybackInv, PreparedTrue
<1> QED BY <1>1, PlaybackInvariant, PTL

\* A published result refers to what was played and to the configuration it
\* was checked with, for any number of recordings.
THEOREM ResultAlwaysBound == PlaybackSpec => []ResultBound
<1>1. PlaybackInv => ResultBound
  <2> SUFFICES ASSUME PlaybackInv, result = "published" PROVE ResultBound
    BY DEF ResultBound
  <2>1. \A op, f : <<op, f>> \in Required => Done(op, f)
    BY ScriptParts DEF Done
  <2>2. /\ Done("publish", Config) /\ Done("exit", File("player"))
        /\ Done("terminal", File("player")) /\ Done("observe", File("player"))
    BY <2>1, FilesAre DEF Required
  <2>3. \A f \in Played : Done("source", f) /\ Done("publish", f)
    BY <2>1, FilesAre DEF Required
  <2>4. player = "ended" /\ evidence[Config] = config
    BY <2>2 DEF PlaybackInv, PlayedInv, PlaybackTypeOK
  <2>5. config = "configured" => \A f \in Played : evidence[f] = listed[f] /\ played[f] = listed[f]
    BY <2>3 DEF PlaybackInv, PlayedInv
  <2> QED BY <2>4, <2>5 DEF ResultBound, Played
<1> QED BY <1>1, PlaybackInvariant, PTL

\* No attempt writes to an output directory that it has not made, whatever
\* failed before it.
THEOREM OutputAlwaysFresh == PlaybackSpec => OutputFresh
<1>1. ASSUME PlaybackInv, PlaybackNext, InPrepare, out' # out \/ written' # written
      PROVE  made = "now"
  <2>1. PlaybackTypeOK /\ CopiesInv
    BY <1>1 DEF PlaybackInv
  <2>2. ASSUME result = "none", ThisTurn >= 3 PROVE made = "now"
    BY <1>1, <2>1, <2>2 DEF CopiesInv
  <2>3. CASE Rewrite
    <3>1. result = "none" /\ Script[pc][1] = "scan"
      BY <1>1, <2>3 DEF Rewrite
    <3> QED BY <2>2, <3>1, Turns DEF ThisTurn
  <2>4. CASE CopyBytes
    BY <2>1, <2>2, <2>4, AtEntry, Turns DEF CopyBytes
  <2>5. CASE Write
    BY <2>1, <2>2, <2>5, AtEntry, Turns DEF Write
  <2>6. CASE \/ Edit \/ Retry \/ AdmitSchema \/ CheckSigned \/ CheckIdentity \/ Expect
             \/ MakeOutput \/ SchemaSame \/ CopyHash \/ CopyCompare \/ HashBefore
             \/ LookUpSummary \/ Refer \/ Scan \/ CompareAgain \/ Counts \/ CheckOffset
    BY <1>1, <2>6 DEF Edit, Retry, AdmitSchema, CheckSigned, CheckIdentity, Expect, MakeOutput,
         SchemaSame, CopyHash, CopyCompare, HashBefore, LookUpSummary, Refer, Scan,
         CompareAgain, Counts, CheckOffset, prepared
  <2>7. CASE \/ RetainInput \/ ListInput \/ Configure \/ Play \/ PlayerExits
             \/ CheckedTerminal \/ LoadConfiguration \/ CheckedObservation \/ RetainedSource
             \/ CheckedMembers \/ ReferToFact \/ WriteResult \/ Publish
    BY <1>1, <2>1, <2>7, RunsAfterPrepare
  <2> QED BY <1>1, <2>3, <2>4, <2>5, <2>6, <2>7 DEF PlaybackNext
<1>2. PlaybackInv /\ [PlaybackNext]_playbackVars
        => [InPrepare /\ (out' # out \/ written' # written) => made = "now"]_playbackVars
  BY <1>1
<1> QED BY <1>2, PlaybackInvariant, PTL DEF PlaybackSpec, OutputFresh
=============================================================================
