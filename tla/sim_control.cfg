SPECIFICATION Spec
CONSTANTS
  Programs = {"verify", "step", "reset"}
  Faults = {"none", "featureless", "refusing", "short", "long", "deaf", "resumes", "meddled", "partial", "idle_reset", "refused_reset", "kept_model"}
  Steps = 2
  MaxDelay = 2
  StableFor = 2
  CollectFor = 2
  Timeout = 4
  Latency = 1
  MaxClock = 8
INVARIANTS VerdictTrue StepKnowsTime
PROPERTIES MeasuredFromTruth
CHECK_DEADLOCK FALSE
