SPECIFICATION Spec
CONSTANTS
  Cases = {"prepare", "success", "cancel", "timeout", "server-failure"}
  Streams = {"odom"}
  MinSeen = 1
  ReadyBudget = 1
  ObserveBudget = 2
  ActionBudget = 3
  CallBudget = 2
  TriggerBudget = 1
  ServiceBudget = 2
  MaxAge = 1
  Horizon = 5
INVARIANT VerdictTrue
CHECK_DEADLOCK FALSE
PROPERTIES WorkerEnds
