SPECIFICATION Spec
CONSTANTS
  p1 = p1
  p2 = p2
  Procs = {p1,p2}
  Files = {1, 2}
  Sizes = {1, 2}
  MaxTime = 2
  S3 = TRUE
INVARIANT LargestKept
CHECK_DEADLOCK FALSE
