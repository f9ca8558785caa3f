SPECIFICATION FairSpec
CONSTANTS
  p1 = p1
  p2 = p2
  a = a
  b = b
  None = None
  Procs = {p1}
  Allowed <- Alternating
  Modes = {"s3"}
  Runs = {"run1"}
  Segments = {1, 2}
  Artifacts = {3}
  Indexes = {1, 2}
  IndexesOf <- DistinctIndexes
  Contents = {a, b}
  Admissible = {a}
  DeleteConfirmed = TRUE
  MaxReceipts = 1
  MaxRewrites = 1

INVARIANT NoSegmentLeftOut
PROPERTY WatchRegisters
CHECK_DEADLOCK FALSE
