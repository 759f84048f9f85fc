\* One job with three deliveries on two permits, one provider configured with a bucket of
\* one token that HTTP traffic empties and time refills, and one provider that is not.
SPECIFICATION ContactFairSpec
CONSTANTS
  j1 = j1
  p1 = p1
  p2 = p2
  Jobs = {j1}
  Providers = {p1, p2}
  Configured = {p1}
  Burst <- MCBurst
  Envelopes <- MCEnvelopes
  ProviderAnswers <- MCAnswers
  MaxDeliver = 3
  MaxConcurrency = 2
  MaxFaults = 1
INVARIANTS
  ContactTypeOK
  RefusedIsNotLost
PROPERTY ImplementsLane
CHECK_DEADLOCK FALSE
