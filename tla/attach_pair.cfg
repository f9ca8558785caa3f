CONSTANTS
  r1 = r1
  r2 = r2
  r3 = r3
  Runs = {r1, r2}
  Evidence <- MCEvidence
  Site = Site
  None = None
SPECIFICATION Spec
INVARIANTS OutcomeTrue OneAtATime EvidenceOnce LockGivenBack
PROPERTY OthersUntouched
CHECK_DEADLOCK FALSE
