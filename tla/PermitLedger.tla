---------------------------- MODULE PermitLedger ----------------------------
(***************************************************************************)
(* What the permit gate promises, whatever its sessions do: a nonce is     *)
(* spent once, for one signed permit that carries it, and authorizes once, *)
(* after it was spent.  Neither is ever taken back.                        *)
(***************************************************************************)
EXTENDS Naturals

CONSTANTS Nonces, Permits, None

VARIABLES
  spent,       \* spent[n]: the permit that n was spent for
  authorized   \* authorized[n]: how often n has authorized

Init ==
  /\ spent = [n \in Nonces |-> None]
  /\ authorized = [n \in Nonces |-> 0]

Spend(n, p) ==
  /\ spent[n] = None /\ p.nonce = n
  /\ spent' = [spent EXCEPT ![n] = p]
  /\ UNCHANGED authorized

Authorize(n) ==
  /\ spent[n] # None /\ authorized[n] = 0
  /\ authorized' = [authorized EXCEPT ![n] = 1]
  /\ UNCHANGED spent

Next == \E n \in Nonces : Authorize(n) \/ \E p \in Permits : Spend(n, p)

Spec == Init /\ [][Next]_<<spent, authorized>>
=============================================================================
