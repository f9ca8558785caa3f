SPECIFICATION PlaybackSpec
CONSTANTS
  Segments = 2
  MaxEdits = 2
INVARIANTS PreparedTrue ResultBound
PROPERTIES OutputFresh
CHECK_DEADLOCK FALSE
