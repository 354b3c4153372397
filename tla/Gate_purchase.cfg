SPECIFICATION GateSpec
CONSTANTS
  Reach = 2
INVARIANT FailuresCanBeFixed
CHECK_DEADLOCK FALSE
