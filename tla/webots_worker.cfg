CONSTANTS
  Steps = 2
  None = None
SPECIFICATION FairSpec
INVARIANTS ResultTrue ForestalledNoStep
PROPERTY WorkerEnds
CHECK_DEADLOCK FALSE
