CONSTANTS
  MaxRetryAfter = 86400000
  JitterScale = 10000
  MaxJitter = 5000
  Workers <- MCWorkers
  Tickets <- MCTickets
  JobOf <- MCJobOf
  IdOf <- MCIdOf
  LookupAnswers <- MCLookupAnswers
  Verdicts <- MCVerdicts
  PolicyOf <- MCPolicyOf
  Entropies <- MCEntropies
  MaxDeliveryAttempts = 2
SPECIFICATION Spec
INVARIANTS
  ReceiptIsTruthful
  BackoffIsBounded
  VerdictsAreRecordable
PROPERTIES
  ImplementsLedger
