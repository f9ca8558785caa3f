SPECIFICATION Spec
CONSTANTS
  p1 = p1
  p2 = p2
  a = a
  b = b
  None = None
  Procs = {p1, p2}
  Allowed <- ShellsAllowed
  Modes = {"s3","local"}
  Runs = {"run1"}
  Segments = {1}
  Artifacts = {}
  Indexes = {1}
  IndexesOf <- OneIndex
  Contents = {a, b}
  Admissible = {a, b}
  DeleteConfirmed = TRUE
  MaxReceipts = 2
  MaxRewrites = 2
SYMMETRY SameContents
INVARIANTS RetainedVerified UniqueIndexes InventoryServes
PROPERTIES DeletedOnlyRetained
CHECK_DEADLOCK FALSE
