\* Two jobs, two deliveries each, one permit, two faults: a handler can hold the permit
\* past its ack-wait while its own redelivery and the other job wait in the inbox.
SPECIFICATION Spec
CONSTANTS
  j1 = j1
  j2 = j2
  Jobs = {j1, j2}
  Envelopes <- MCEnvelopes
  ProviderAnswers <- MCAnswers
  MaxDeliver = 2
  MaxConcurrency = 1
  MaxFaults = 2
SYMMETRY JobSymmetry
INVARIANTS
  TypeOK
  SettledHasRecord
  DuplicateHasCause
  NakOnlyWithinBudget
  ExhaustedHasCause
  DeadLetterIsTruthful
  PoisonIsIsolated
  PermitsConserved
CHECK_DEADLOCK FALSE
