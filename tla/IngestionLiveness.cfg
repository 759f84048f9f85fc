\* One job with three deliveries in two concurrent handlers and two faults: three generations of
\* copies overlap, both publishes of one delivery can fail, and the loop may stop for good.
SPECIFICATION FairSpec
CONSTANTS
  j1 = j1
  j2 = j2
  Jobs = {j1}
  Envelopes <- MCEnvelopes
  ProviderAnswers <- MCAnswers
  MaxDeliver = 3
  MaxConcurrency = 2
  MaxFaults = 2
PROPERTIES
  EveryJobResolved
  FaultFreeJobsAreSettled
  PermitsReturn
  ImplementsContract
CHECK_DEADLOCK FALSE
