--------------------------- MODULE PermitPreflight ---------------------------
(***************************************************************************)
(* The permit gate of the physical profiles: authorize_common and          *)
(* materialize_runtime of docker/permit-preflight/core.sh, the role        *)
(* verifiers of permit-preflight and permit-preflight-ci, the policy in    *)
(* policy/execution.rego, and the order in which compose.edge-attach.yaml  *)
(* runs them before an observer.                                           *)
(*                                                                         *)
(* A session is one `docker compose up` of a physical profile: preflight,  *)
(* then runtime manifest, then observer, each only after the one before it *)
(* succeeded.  Sessions run concurrently, may be killed between any two    *)
(* steps and started again, and share the nonce store; the authorization   *)
(* directory of a session is mounted read-only and does not change.        *)
(*                                                                         *)
(* Digests, signatures and certificates are abstracted to equality of what *)
(* was signed and by whom.  Scenario, image, interlock and hardware scope  *)
(* are compared in the way the target is, which stands for all of them.    *)
(***************************************************************************)
EXTENDS Naturals

CONSTANTS
  Sessions,      \* slots in which a session may run
  OutDirs,       \* OutDirs[s]: the authorization-output directories s may use
  Cases,         \* contents of the authorization directories in use
  Modes,         \* commands in use, out of Commands
  Principals,    \* the trust policy's <<role, identity>> pairs
  TrustedTargets, \* the trust policy's targets
  MaxLifetime,   \* the trust policy's max_permit_lifetime_seconds
  CiIdentity,    \* CiIdentity[role]: "ci.operator" and "ci.approver"
  Nonces, Identities, Targets,
  MaxTime,       \* bound: the clock
  None

Roles == {"operator", "approver"}
Commands == {"authorize", "authorize-logged-test", "authorize-offline-test"}
Dirs == UNION {OutDirs[s] : s \in Sessions}

\* execution-permit.json; the statement's predicate is one too.
Permit == [nonce : Nonces, operator : Identities, approver : Identities,
           target : Targets, issued : Nat, expires : Nat]

\* A Sigstore bundle: who signed what, and the transparency log's time for it,
\* which is worth something only if the log's proof verifies.
Bundle == [signer : Identities, statement : Permit, time : Nat, logged : BOOLEAN]

\* An authorization directory; request is the target that was observed.
Case == [permit : Permit, statement : Permit, operator : Bundle,
         approver : Bundle, request : Targets]

ASSUME ConstantsAssumption ==
  /\ Cases \subseteq Case
  /\ Modes \subseteq Commands
  /\ Principals \subseteq Roles \X Identities
  /\ CiIdentity \in [Roles -> Identities]
  /\ MaxLifetime \in Nat /\ MaxTime \in Nat

VARIABLES
  now,           \* the wall clock
  nonces,        \* nonces[n]: the permit the nonce directory was made for
  verification,  \* verification[o]: o/execution-verification.json
  manifest,      \* manifest[o]: o/runtime-manifest.json
  session,       \* session[s]: the session in slot s
  grants,        \* history: how often a verification was published for n
  disturbed      \* history: the sessions that have looked for their output,
                 \* and in whose directory another session has published since

vars == <<now, nonces, verification, manifest, session, grants, disturbed>>

\* execution-verification.json; permit stands for permit_sha256, transparency
\* for what each signer's transparency_log_verified says.
Verification == [permit : Permit, case : Cases, transparency : BOOLEAN, at : Nat]

\* What the runtime manifest's authorization binds.
Manifest == [permit : Permit, verification : Verification]

ASSUME NoneAssumption ==
  None \notin Permit /\ None \notin Verification /\ None \notin Manifest

Idle == [pc |-> "idle", case |-> None, out |-> None, mode |-> None,
         transparency |-> FALSE, draft |-> None]

Exit(s) == session' = [session EXCEPT ![s] = Idle]

Goto(s, c) == session' = [session EXCEPT ![s].pc = c]

\* The other sessions that work in the directory of s.
Beside(s) == {q \in Sessions \ {s} : session[q].out = session[s].out}

-----------------------------------------------------------------------------
(* authorize_common, up to the policy. *)

\* Mutant: the output is not looked for.
StartPreflightAnyway(s) ==
  /\ session[s].pc = "idle"
  /\ \E c \in Cases, o \in OutDirs[s], m \in Modes :
       session' = [session EXCEPT ![s] =
                     [Idle EXCEPT !.pc = "verify", !.case = c, !.out = o,
                                  !.mode = m]]
  /\ disturbed' = disturbed \ {s}
  /\ UNCHANGED <<now, nonces, verification, manifest, grants>>

\* The output is looked for before anything else is done.
StartPreflight(s) ==
  /\ session[s].pc = "idle"
  /\ \E c \in Cases, o \in OutDirs[s], m \in Modes :
       /\ verification[o] = None
       /\ session' = [session EXCEPT ![s] =
                        [Idle EXCEPT !.pc = "verify", !.case = c, !.out = o,
                                     !.mode = m]]
  /\ disturbed' = disturbed \ {s}
  /\ UNCHANGED <<now, nonces, verification, manifest, grants>>

RoleIdentity(c, role) == IF role = "operator" THEN c.permit.operator
                                              ELSE c.permit.approver

RoleBundle(c, role) == IF role = "operator" THEN c.operator ELSE c.approver

\* verify_role_attestation: cosign accepts the bundle for the expected signer
\* and statement.  The CI commands accept only their synthetic principals, and
\* only the offline one does without a log proof.
RoleAttested(c, role, mode) ==
  /\ <<role, RoleIdentity(c, role)>> \in Principals
  /\ mode # "authorize" => RoleIdentity(c, role) = CiIdentity[role]
  /\ RoleBundle(c, role).signer = RoleIdentity(c, role)
  /\ RoleBundle(c, role).statement = c.statement
  /\ mode # "authorize-offline-test" => RoleBundle(c, role).logged

\* Mutant: the evidence is taken from the bundle's fields.
TransparencyFromBundle(mode) == TRUE

\* verify_role_with_transparency reports what the cosign arguments required.
Transparency(mode) == mode # "authorize-offline-test"

VerifyRoles(s) ==
  /\ session[s].pc = "verify"
  /\ LET c == session[s].case
         m == session[s].mode
     IN  IF \A role \in Roles : RoleAttested(c, role, m)
           THEN session' = [session EXCEPT ![s].pc = "decide",
                                           ![s].transparency = Transparency(m)]
           ELSE Exit(s)
  /\ UNCHANGED <<now, nonces, verification, manifest, grants, disturbed>>

-----------------------------------------------------------------------------
(* policy/execution.rego and what follows it. *)

\* Mutant: the time of the signatures is not looked at.
AllowedWhenever(c, transparency, t) ==
  LET p == c.permit
  IN  /\ c.statement = p
      /\ p.expires > p.issued
      /\ t >= p.issued /\ t <= p.expires
      /\ p.expires - p.issued <= MaxLifetime
      /\ c.request = p.target
      /\ p.target \in TrustedTargets
      /\ transparency

\* No deny rule of the policy holds at time t.
Allowed(c, transparency, t) ==
  LET p == c.permit
  IN  /\ c.statement = p
      /\ p.expires > p.issued
      /\ t >= p.issued /\ t <= p.expires
      /\ p.expires - p.issued <= MaxLifetime
      /\ c.request = p.target
      /\ p.target \in TrustedTargets
      /\ transparency
      /\ \A role \in Roles :
           /\ <<role, RoleIdentity(c, role)>> \in Principals
           /\ RoleBundle(c, role).time >= p.issued
           /\ RoleBundle(c, role).time <= p.expires

\* Mutant: the nonce is left alone.
DecideOnly(s) ==
  /\ session[s].pc = "decide"
  /\ LET c == session[s].case
     IN  IF Allowed(c, session[s].transparency, now)
           THEN session' = [session EXCEPT ![s].pc = "publish", ![s].draft =
                  [permit |-> c.permit, case |-> c,
                   transparency |-> session[s].transparency, at |-> now]]
           ELSE Exit(s)
  /\ UNCHANGED <<now, nonces, verification, manifest, grants, disturbed>>

\* opa eval, and the verification record that it yields.
Decide(s) ==
  /\ session[s].pc = "decide"
  /\ LET c == session[s].case
     IN  IF Allowed(c, session[s].transparency, now)
           THEN session' = [session EXCEPT ![s].pc = "consume", ![s].draft =
                  [permit |-> c.permit, case |-> c,
                   transparency |-> session[s].transparency, at |-> now]]
           ELSE Exit(s)
  /\ UNCHANGED <<now, nonces, verification, manifest, grants, disturbed>>

Nonce(s) == session[s].case.permit.nonce

\* Mutant: mkdir -p, which does not mind an existing directory.
ConsumeAgain(s) ==
  /\ session[s].pc = "consume"
  /\ nonces' = [nonces EXCEPT ![Nonce(s)] = session[s].case.permit]
  /\ Goto(s, "publish")
  /\ UNCHANGED <<now, verification, manifest, grants, disturbed>>

\* mkdir of the nonce's directory: it fails when the directory exists.
ConsumeNonce(s) ==
  /\ session[s].pc = "consume"
  /\ IF nonces[Nonce(s)] = None
       THEN /\ nonces' = [nonces EXCEPT ![Nonce(s)] = session[s].case.permit]
            /\ Goto(s, "publish")
       ELSE Exit(s) /\ UNCHANGED nonces
  /\ UNCHANGED <<now, verification, manifest, grants, disturbed>>

\* mv of the verification into place, whatever is there by now.
PublishVerification(s) ==
  /\ session[s].pc = "publish"
  /\ verification' = [verification EXCEPT ![session[s].out] = session[s].draft]
  /\ grants' = [grants EXCEPT ![Nonce(s)] = @ + 1]
  /\ disturbed' = disturbed \cup Beside(s)
  /\ Goto(s, "manifest")
  /\ UNCHANGED <<now, nonces, manifest>>

-----------------------------------------------------------------------------
(* materialize_runtime, and the observer. *)

\* The documents are hashed; that they belong together is not looked at.
ReadDocuments(s) ==
  /\ session[s].pc = "manifest"
  /\ LET o == session[s].out
     IN  IF manifest[o] = None
           THEN session' = [session EXCEPT ![s].pc = "materialize", ![s].draft =
                  [permit |-> session[s].case.permit,
                   verification |-> verification[o]]]
           ELSE Exit(s)
  /\ UNCHANGED <<now, nonces, verification, manifest, grants, disturbed>>

PublishManifest(s) ==
  /\ session[s].pc = "materialize"
  /\ manifest' = [manifest EXCEPT ![session[s].out] = session[s].draft]
  /\ session' = [session EXCEPT ![s].pc = "observe", ![s].draft = None]
  /\ disturbed' = disturbed \cup Beside(s)
  /\ UNCHANGED <<now, nonces, verification, grants>>

\* The observer ends, or a session is killed.
Stop(s) ==
  /\ session[s].pc # "idle"
  /\ Exit(s)
  /\ UNCHANGED <<now, nonces, verification, manifest, grants, disturbed>>

Tick ==
  /\ now < MaxTime
  /\ now' = now + 1
  /\ UNCHANGED <<nonces, verification, manifest, session, grants, disturbed>>

-----------------------------------------------------------------------------
Init ==
  /\ now = 0
  /\ nonces = [n \in Nonces |-> None]
  /\ verification = [o \in Dirs |-> None]
  /\ manifest = [o \in Dirs |-> None]
  /\ session = [s \in Sessions |-> Idle]
  /\ grants = [n \in Nonces |-> 0]
  /\ disturbed = {}

Next ==
  \/ \E s \in Sessions :
       \/ StartPreflight(s) \/ VerifyRoles(s) \/ Decide(s) \/ ConsumeNonce(s)
       \/ PublishVerification(s) \/ ReadDocuments(s) \/ PublishManifest(s)
       \/ Stop(s)
  \/ Tick

Spec == Init /\ [][Next]_vars

-----------------------------------------------------------------------------
(* Properties. *)

Phases == {"idle", "verify", "decide", "consume", "publish", "manifest",
           "materialize", "observe"}

Session == [pc : Phases, case : Cases \cup {None}, out : Dirs \cup {None},
            mode : Commands \cup {None}, transparency : BOOLEAN,
            draft : Verification \cup Manifest \cup {None}]

\* Every document is of its kind.
TypeOK ==
  /\ now \in Nat
  /\ nonces \in [Nonces -> Permit \cup {None}]
  /\ verification \in [Dirs -> Verification \cup {None}]
  /\ manifest \in [Dirs -> Manifest \cup {None}]
  /\ session \in [Sessions -> Session]
  /\ grants \in [Nonces -> Nat]
  /\ disturbed \subseteq Sessions

\* One nonce yields at most one verification, whatever sessions race for it
\* and whichever of them is killed and started again.
NonceOnce == \A n \in Nonces : grants[n] <= 1

\* The permit behind c was signed by its operator and its approver, both trusted
\* and in the log within the permit's lifetime, and asks for what was observed.
Signed(c) ==
  /\ c.statement = c.permit
  /\ c.request = c.permit.target
  /\ \A role \in Roles :
       LET b == RoleBundle(c, role)
       IN  /\ b.signer = RoleIdentity(c, role)
           /\ <<role, b.signer>> \in Principals
           /\ b.statement = c.permit
           /\ b.logged
           /\ c.permit.issued <= b.time /\ b.time <= c.permit.expires

\* A nonce is consumed only for a permit that some directory in use carries
\* with both signatures in the log: a denied permit, and above all the offline
\* bypass, leaves the store as it was.
ConsumedOnlySigned ==
  \A n \in Nonces :
    nonces[n] # None => \E c \in Cases : c.permit = nonces[n] /\ Signed(c)

\* A verification record says what was so: its permit was signed by both roles
\* and valid when it was given, and it has used up the nonce.
Earned(w) ==
  /\ Signed(w.case)
  /\ w.case.permit = w.permit
  /\ w.permit.issued <= w.at /\ w.at <= w.permit.expires
  /\ nonces[w.permit.nonce] = w.permit

\* An observer runs only when its session has used up its own nonce, and only
\* beside a manifest bound to a verification that was earned.  Both are for the
\* session's own permit, unless another session has published in the same
\* directory since this one looked for its output: the documents' names do not
\* tell sessions apart, and materialize_runtime does not compare their permits.
ObserverAuthorized ==
  \A s \in Sessions :
    session[s].pc = "observe" =>
      LET m == manifest[session[s].out]
          p == session[s].case.permit
      IN  /\ m # None
          /\ Earned(m.verification)
          /\ nonces[p.nonce] = p
          /\ s \notin disturbed => m.permit = p /\ m.verification.permit = p

\* "authorization output already exists": a published verification is replaced
\* only by a session that had looked for it before it was there.  (The output is
\* tested at the start and moved into place at the end, without a lock, and the
\* default directory is everybody's, so such a session does replace it.)  No
\* kill, restart or retry replaces one.
OutputStands ==
  [][\A o \in Dirs :
       verification[o] # None /\ verification'[o] # verification[o] =>
         \E s \in disturbed : session[s].pc = "publish" /\ session[s].out = o]_vars

\* Seen through its nonce directories and the verifications it has published,
\* the gate with all its sessions, races and restarts is the one-page ledger of
\* PermitLedger, over the permits that both roles have signed.
SignedPermits == {c.permit : c \in {d \in Cases : Signed(d)}}

Ledger == INSTANCE PermitLedger
            WITH Permits <- SignedPermits, spent <- nonces, authorized <- grants

LedgerKept == Ledger!Spec
=============================================================================
