\* The default ratios in units of ten seconds (ack_wait 120 s, heartbeats every 40 s),
\* calls longer than ack_wait, one lost heartbeat per message, three messages, two permits.
SPECIFICATION Spec
CONSTANTS
  Jobs = {j1, j2, j3}
  AckWait = 12
  HeartbeatFloor = 1
  MaxConcurrency = 2
  MaxWork = 14
  MaxPublish = 2
  MaxLost = 1
SYMMETRY JobSymmetry
INVARIANTS
  TypeOK
  HeartbeatsKeepClaim
CHECK_DEADLOCK FALSE
