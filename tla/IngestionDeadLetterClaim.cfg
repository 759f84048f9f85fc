\* one job, one fault on its last delivery
SPECIFICATION Spec
CONSTANTS
  j1 = j1
  j2 = j2
  Jobs = {j1}
  Envelopes <- CleanEnvelopes
  ProviderAnswers <- TwoAnswers
  MaxDeliver = 2
  MaxConcurrency = 1
  MaxFaults = 1
INVARIANT FinalDeliveryIsDeadLettered
CHECK_DEADLOCK FALSE
