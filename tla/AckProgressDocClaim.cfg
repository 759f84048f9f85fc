\* The default ratios, two messages fetched together, one permit.
SPECIFICATION Spec
CONSTANTS
  Jobs = {j1, j2}
  AckWait = 12
  HeartbeatFloor = 1
  MaxConcurrency = 1
  MaxWork = 10
  MaxPublish = 1
  MaxLost = 0
INVARIANT HealthyWorkIsNotRedelivered
CHECK_DEADLOCK FALSE
