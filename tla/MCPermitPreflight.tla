-------------------------- MODULE MCPermitPreflight --------------------------
(***************************************************************************)
(* Two sessions and a handful of authorization directories: good ones, two *)
(* permits with one nonce, and one for each way in which a permit can be   *)
(* refused.                                                                *)
(***************************************************************************)
EXTENDS PermitPreflight, TLC

CONSTANTS s1, s2, o1, o2

\* One directory that both sessions use, and one that only the second does.
SharedDirs == (s1 :> {o1}) @@ (s2 :> {o1, o2})

MCIdentities == {"ci.operator", "ci.approver"}
MCPrincipals == {<<"operator", "ci.operator">>, <<"approver", "ci.approver">>}
MCCiIdentity == [role \in Roles |-> IF role = "operator" THEN "ci.operator"
                                                         ELSE "ci.approver"]

PermitFor(n, t) == [nonce |-> n, operator |-> "ci.operator",
                    approver |-> "ci.approver", target |-> t,
                    issued |-> 1, expires |-> 2]

SignedBy(id, p, t, l) == [signer |-> id, statement |-> p, time |-> t, logged |-> l]

Good(p) == [permit |-> p, statement |-> p,
            operator |-> SignedBy("ci.operator", p, 1, TRUE),
            approver |-> SignedBy("ci.approver", p, 2, TRUE),
            request |-> p.target]

\* One nonce, two permits; another nonce.
First == Good(PermitFor("n1", "arm"))
SameNonce == Good(PermitFor("n1", "base"))
Other == Good(PermitFor("n2", "arm"))

\* Not in the log, signed too early, signed by one role only, observed on
\* another target.
Unlogged == [Good(PermitFor("n2", "base")) EXCEPT !.operator.logged = FALSE,
                                                  !.approver.logged = FALSE]
Early == [Good(PermitFor("n2", "base")) EXCEPT !.approver.time = 0]
OneSigner == [First EXCEPT !.approver = First.operator]
OtherTarget == [First EXCEPT !.request = "base"]

MCCases == {First, SameNonce, Other, Unlogged, Early, OneSigner, OtherTarget}
=============================================================================
