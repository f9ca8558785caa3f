CONSTANTS
  Steps = 3
  None = None
SPECIFICATION FairSpec
INVARIANTS StepsOnlySeen CancelWins CleanupTrue
PROPERTY CancelHeeded
CHECK_DEADLOCK FALSE
