CONSTANTS
  Clients = {c1}
  Environments <- MCEnvironments
  JobOf <- MCJobOf
  Batches <- MCBatches
  AnswersOf <- MCAnswersOf
  TokenAnswers <- MCTokenAnswers
  Resolutions <- MCResolutions
  MaxBatchJobs = 2
  MaxTries = 2
  MaxRetryAfter = 86400000
  JitterScale = 10000
  MaxJitter = 5000
SPECIFICATION FairSpec
INVARIANTS
  TypeOK
  AcceptedWasTaken
  UnreportedAcceptanceHasCause
  RepeatHasCause
  DryRunNeverDelivers
  RoutingIsExact
  ContentArrives
  ConfigurationIsHonest
  HintReaches
PROPERTIES
  ShutdownCompletes
CHECK_DEADLOCK FALSE
