SPECIFICATION Spec
CONSTANTS
  s1 = s1
  s2 = s2
  o1 = o1
  o2 = o2
  None = None
  Sessions = {s1, s2}
  OutDirs <- SharedDirs
  Cases <- MCCases
  Modes = {"authorize", "authorize-logged-test", "authorize-offline-test"}
  Principals <- MCPrincipals
  TrustedTargets = {"arm", "base"}
  MaxLifetime = 1
  CiIdentity <- MCCiIdentity
  Nonces = {"n1", "n2"}
  Identities <- MCIdentities
  Targets = {"arm", "base"}
  MaxTime = 3
INVARIANTS NonceOnce ConsumedOnlySigned ObserverAuthorized
PROPERTIES OutputStands LedgerKept
CHECK_DEADLOCK FALSE
