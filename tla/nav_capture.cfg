SPECIFICATION CaptureSpec
INVARIANTS EvaluatedWhole CheckpointTrue
PROPERTIES StoppedQuiet DriverEnds
CHECK_DEADLOCK FALSE
