------------------------ MODULE ContactIngestionProofs ------------------------
(***************************************************************************)
(* The contact lane is a push lane with token buckets in front of its      *)
(* providers, for every set of jobs and providers, bucket size and bound.  *)
(***************************************************************************)
EXTENDS ContactIngestion, JetStreamIngestionProofs

\* Each step of the contact lane is one of the push lane: taking a token is no step, a
\* refusal is an answer.
LEMMA ContactStepIsLaneStep == [ContactNext]_contactVars => [Next]_vars
<1> SUFFICES ASSUME [ContactNext]_contactVars PROVE [Next]_vars
  OBVIOUS
<1>1. CASE LaneStep
  BY <1>1 DEF LaneStep, Handles, Next, ProcessFault, HandlerStep
<1>2. CASE ContactCrash
  BY <1>2 DEF ContactCrash, Next, ProcessFault
<1>3. ASSUME NEW d \in Deliveries, Dispatch(d) \/ ContactAccepts(d)
      PROVE  [Next]_vars
  <2>1. CASE TakeToken(d)
    BY <2>1 DEF TakeToken
  <2>2. CASE NotConfigured(d) \/ Throttle(d) \/ ContactAnswer(d)
    BY <2>2 DEF NotConfigured, Throttle, ContactAnswer, Answers, Next, HandlerStep
  <2>3. CASE ContactAccepts(d)
    BY <2>3 DEF ContactAccepts, Next
  <2> QED BY <1>3, <2>1, <2>2, <2>3 DEF Dispatch
<1>4. ASSUME NEW p \in Providers, HttpTakes(p) \/ Refills(p)
      PROVE  UNCHANGED vars
  BY <1>4 DEF HttpTakes, Refills
<1>5. CASE UNCHANGED contactVars
  BY <1>5 DEF contactVars
<1> QED BY <1>1, <1>2, <1>3, <1>4, <1>5 DEF ContactNext

\* The contact lane refines the push lane, whatever the HTTP API does to the buckets.
THEOREM ContactLaneIsLane == ContactSpec => Spec
<1>1. ContactInit => Init
  BY DEF ContactInit
<1> QED BY <1>1, ContactStepIsLaneStep, PTL DEF ContactSpec, Spec

\* What was proved of the push lane holds of the contact lane: evidence for settled jobs, a
\* reason for every duplicate, naks within the budget, a cause for every job JetStream gives
\* up, truthful dead letters, isolated poison and conserved permits.
THEOREM LaneGuaranteesCarryOver ==
  ContactSpec => [](/\ SettledHasRecord /\ DuplicateHasCause /\ NakOnlyWithinBudget
                    /\ ExhaustedHasCause /\ DeadLetterIsTruthful /\ PoisonIsIsolated
                    /\ PermitsConserved)
BY ContactLaneIsLane, SettlementIsRecorded, DuplicatesAreExcused, NaksAreWithinBudget,
   ExhaustionIsExcused, DeadLettersAreTruthful, PoisonStaysIsolated, PermitConservation, PTL

\* So the contact lane keeps the delivery contract as well, and its copies and messages move on:
\* the chain of refinements from the lane with its limiters to the contract.
THEOREM ContactLaneImplementsContract ==
  ContactSpec => ImplementsContract /\ [][CopiesMoveOn /\ MessagesMoveOn]_vars
BY ContactLaneIsLane, LaneImplementsContract, WorkMovesOn

\* The types of what the contact lane adds to the push lane.
BucketTypes ==
  /\ provider \in [Jobs -> Providers]
  /\ tokens \in [Providers -> Nat]
  /\ \A p \in Providers : tokens[p] <= Burst[p]
  /\ ticket \subseteq Deliveries /\ refused \subseteq Deliveries

LEMMA BucketTypesInit == ContactInit => BucketTypes
  BY ContactAssumption DEF ContactInit, BucketTypes

\* A token taken from a bucket leaves every bucket within its limit.
LEMMA TakenFromOneBucket ==
  ASSUME BucketTypes, NEW p \in Providers, tokens[p] > 0,
         tokens' = [tokens EXCEPT ![p] = @ - 1]
  PROVE  /\ tokens' \in [Providers -> Nat]
         /\ \A q \in Providers : tokens'[q] <= Burst[q]
<1>1. \A q \in Providers : tokens[q] \in Nat /\ Burst[q] \in Nat /\ tokens[q] <= Burst[q]
  BY ContactAssumption DEF BucketTypes
<1>2. tokens[p] - 1 \in Nat /\ tokens[p] - 1 <= Burst[p]
  BY <1>1
<1>3. \A q \in Providers : tokens'[q] = IF q = p THEN tokens[p] - 1 ELSE tokens[q]
  BY DEF BucketTypes
<1>4. tokens' \in [Providers -> Nat]
  BY <1>2 DEF BucketTypes
<1> QED BY <1>1, <1>2, <1>3, <1>4

LEMMA BucketTypesStep == BucketTypes /\ [ContactNext]_contactVars => BucketTypes'
<1> SUFFICES ASSUME BucketTypes, [ContactNext]_contactVars PROVE BucketTypes'
  OBVIOUS
<1>1. CASE UNCHANGED <<provider, limiters>>
  BY <1>1 DEF BucketTypes, limiters
<1>2. CASE ContactCrash
  BY <1>2, ContactAssumption DEF ContactCrash, BucketTypes
<1>3. ASSUME NEW d \in Deliveries, TakeToken(d) PROVE BucketTypes'
  <2>1. PICK p \in Providers : tokens[p] > 0 /\ tokens' = [tokens EXCEPT ![p] = @ - 1]
    BY <1>3, ContactAssumption DEF TakeToken
  <2>2. ticket' \subseteq Deliveries /\ provider' = provider /\ refused' = refused
    BY <1>3 DEF TakeToken, BucketTypes
  <2> QED BY <2>1, <2>2, TakenFromOneBucket DEF BucketTypes
<1>4. ASSUME NEW d \in Deliveries,
             NotConfigured(d) \/ Throttle(d) \/ ContactAnswer(d) \/ ContactAccepts(d)
      PROVE  BucketTypes'
  BY <1>4 DEF NotConfigured, Throttle, ContactAnswer, ContactAccepts, limiters, BucketTypes
<1>5. ASSUME NEW p \in Providers, HttpTakes(p) PROVE BucketTypes'
  <2>1. tokens[p] > 0 /\ tokens' = [tokens EXCEPT ![p] = @ - 1]
    BY <1>5 DEF HttpTakes
  <2>2. ticket' = ticket /\ provider' = provider /\ refused' = refused
    BY <1>5 DEF HttpTakes
  <2> QED BY <2>1, <2>2, TakenFromOneBucket DEF BucketTypes
<1>6. ASSUME NEW p \in Providers, Refills(p) PROVE BucketTypes'
  <2>1. PICK n \in 1..Burst[p] : tokens' = [tokens EXCEPT ![p] = n]
    BY <1>6 DEF Refills
  <2>2. n \in Nat /\ n <= Burst[p]
    BY <2>1, ContactAssumption
  <2>3. provider' = provider /\ ticket' = ticket /\ refused' = refused
    BY <1>6 DEF Refills
  <2> QED BY <2>1, <2>2, <2>3 DEF BucketTypes
<1>7. CASE UNCHANGED contactVars
  BY <1>1, <1>7 DEF contactVars
<1> QED BY <1>1, <1>2, <1>3, <1>4, <1>5, <1>6, <1>7 DEF ContactNext, Dispatch

\* Every variable of the contact lane keeps its type, and no bucket holds more than its limit,
\* however refusals, HTTP traffic, refills and restarts interleave (rate_limit.rs:46-50).
THEOREM ContactTypes == ContactSpec => []ContactTypeOK
<1>1. ContactSpec => []BucketTypes
  BY BucketTypesInit, BucketTypesStep, PTL DEF ContactSpec
<1>2. TypeOK /\ BucketTypes => ContactTypeOK
  BY DEF BucketTypes, ContactTypeOK
<1> QED BY <1>1, <1>2, ContactLaneIsLane, TypeCorrectness, PTL

-----------------------------------------------------------------------------
RefusedStages ==
  { "publishing", "nak", "dead_exhausted", "dead_unpublished", "term" }
    \cup (FinishedStages \ { "acked" })
LastStages == { "dead_exhausted", "dead_unpublished", "term", "termed" }

\* What is known of a refused delivery, from the refusal to the end of its handler.
KnowsRefused(d) ==
  /\ d \in Deliveries
  /\ outcome[d] = "throttled"
  /\ d \notin accepted
  /\ pc[d] \in RefusedStages
  /\ pc[d] \in LastStages => Attempt(d) = MaxDeliver
  /\ pc[d] = "termed" => DeadLetterExists(Job(d)) \/ BothPublishesFailed(d)

RefusedInv == \A d \in refused : KnowsRefused(d)

\* Where a throttled outcome leads.
LEMMA ThrottledDispositions ==
  ASSUME NEW n \in Attempts
  PROVE  /\ StageAfterResult(DispositionForOutcome("throttled", n, MaxDeliver))
              \in { "nak", "dead_exhausted" }
         /\ StageAfterResultFailure(
              DispositionForResultPublishFailure("throttled", n, MaxDeliver))
              \in { "nak", "dead_unpublished" }
         /\ StageAfterResult(DispositionForOutcome("throttled", n, MaxDeliver))
              = "dead_exhausted" => n = MaxDeliver
         /\ StageAfterResultFailure(
              DispositionForResultPublishFailure("throttled", n, MaxDeliver))
              = "dead_unpublished" => n = MaxDeliver
  BY ConstantFacts
     DEF DispositionForOutcome, DispositionForResultPublishFailure, StageAfterResult,
         StageAfterResultFailure, BudgetSpent, IsRetryable, RetryableClasses

\* A step that leaves a refused delivery where it is, or loses it, takes nothing from it.
LEMMA RefusedKept ==
  ASSUME NEW d, KnowsRefused(d), [Next]_vars, outcome'[d] = outcome[d],
         pc'[d] \in { pc[d], "lost" }, d \notin accepted'
  PROVE  KnowsRefused(d)'
<1>1. dead \subseteq dead' /\ failed \subseteq failed'
  BY EventsGrow
<1>2. /\ DeadLetterExists(Job(d)) => DeadLetterExists(Job(d))'
      /\ BothPublishesFailed(d) => BothPublishesFailed(d)'
  BY <1>1 DEF DeadLetterExists, BothPublishesFailed, FailedPublish, Job, Attempt
<1> QED
  BY <1>1, <1>2 DEF KnowsRefused, RefusedStages, LastStages, FinishedStages, Deliveries,
     Attempts

\* The push lane's steps keep what is known of a refused delivery.
LEMMA RefusedStep ==
  ASSUME IngestionInv, [Next]_vars, NEW d, KnowsRefused(d)
  PROVE  KnowsRefused(d)'
<1> USE DeliveryFacts, ConstantFacts DEF external, history
<1>0. /\ d \in Deliveries /\ WeakTypeOK /\ StageKnowledge /\ Lifecycle /\ Knows(d)
      /\ pc[d] \notin { "undelivered", "queued", "spawned", "calling", "taken", "ack" }
      /\ d \notin accepted
  BY DEF IngestionInv, KnowsRefused, RefusedStages, FinishedStages
<1>1. CASE \E j \in Jobs : Deliver(j)
  <2> PICK j \in Jobs : Deliver(j)
    BY <1>1
  <2> DEFINE n == <<j, delivered[j] + 1>>
  <2>1. n \in Deliveries /\ pc[n] = "undelivered"
    BY <1>0, NextDelivery
  <2>2. outcome' = outcome /\ pc' = [pc EXCEPT ![n] = "queued"] /\ accepted' = accepted
    BY DEF Deliver
  <2> QED BY <1>0, <2>1, <2>2, RefusedKept DEF WeakTypeOK
<1>2. CASE \E j \in Jobs : TimerFires(j) \/ GiveUp(j)
  BY <1>0, <1>2, RefusedKept DEF TimerFires, GiveUp
<1>3. CASE Acquire
  <2>1. Head(inbox) \in Deliveries /\ pc[Head(inbox)] = "queued"
    BY <1>0, <1>3 DEF Acquire, StageKnowledge, WeakTypeOK, Lifecycle
  <2> QED BY <1>0, <1>3, <2>1, RefusedKept DEF Acquire, WeakTypeOK
<1>4. CASE Poll \/ Rebuild \/ Restart \/ ProcessFault
  BY <1>0, <1>4, RefusedKept DEF Poll, Rebuild, Restart, ProcessFault, StreamError,
     RebuildFails, Crash, RestartFails
<1>5. ASSUME NEW e \in Deliveries, HandlerStep(e) \/ HandlerFault(e) \/ ProviderAccepts(e),
             e # d
      PROVE  KnowsRefused(d)'
  <2>1. pc'[d] = pc[d]
    BY <1>0, <1>5, OthersStay
  <2>2. outcome'[d] = outcome[d] /\ d \notin accepted'
    BY <1>0, <1>5 DEF HandlerStep, HandlerFault, ProviderAccepts, Triage, Answer,
       PublishResult, PublishDead, PublishResultFails, PublishDeadFails, Settle,
       SettleIsLost, WeakTypeOK
  <2> QED BY <2>1, <2>2, RefusedKept
<1>6. CASE PublishResult(d) \/ PublishResultFails(d)
  <2>1. /\ outcome[d] = "throttled" /\ outcome' = outcome /\ accepted' = accepted
        /\ Attempt(d) \in Attempts
    BY <1>0, <1>6 DEF KnowsRefused, PublishResult, PublishResultFails
  <2>2. pc'[d] \in { "nak", "dead_exhausted", "dead_unpublished" }
        /\ (pc'[d] # "nak" => Attempt(d) = MaxDeliver)
    BY <1>0, <1>6, <2>1, ThrottledDispositions
       DEF PublishResult, PublishResultFails, Goto, WeakTypeOK
  <2> QED
    BY <1>0, <2>1, <2>2 DEF KnowsRefused, RefusedStages, LastStages, Deliveries, Attempts
<1>7. CASE PublishDead(d) \/ PublishDeadFails(d)
  <2>1. pc[d] \in LastStages /\ outcome' = outcome /\ accepted' = accepted
        /\ pc'[d] \in { "term", "unsettled" }
    BY <1>0, <1>7 DEF PublishDead, PublishDeadFails, DeadStages, LastStages, KnowsRefused,
       RefusedStages, FinishedStages, Finish, Goto, WeakTypeOK
  <2> QED
    BY <1>0, <2>1 DEF KnowsRefused, RefusedStages, LastStages, FinishedStages, Deliveries,
       Attempts
<1>8. CASE Settle(d) \/ SettleIsLost(d)
  <2>1. /\ UNCHANGED <<outcome, accepted, dead>> /\ pc[d] \in SettleStages
        /\ pc'[d] \in { SettledStage[pc[d]], "unsettled" } /\ failed' = failed
    BY <1>0, <1>8 DEF Settle, SettleIsLost, Finish, Goto, WeakTypeOK
  <2>2. pc[d] \in { "nak", "term" }
    BY <1>0, <2>1 DEF SettleStages
  <2>3. pc[d] = "term" => DeadLetterExists(Job(d)) \/ BothPublishesFailed(d)
    BY <1>0 DEF Knows
  <2>4. pc'[d] \in { "naked", "termed", "unsettled" } /\ (pc'[d] = "termed" => pc[d] = "term")
    BY <2>1, <2>2 DEF SettledStage
  <2>5. /\ DeadLetterExists(Job(d)) => DeadLetterExists(Job(d))'
        /\ BothPublishesFailed(d) => BothPublishesFailed(d)'
    BY <2>1 DEF DeadLetterExists, BothPublishesFailed, FailedPublish, Job, Attempt
  <2> QED
    BY <1>0, <2>1, <2>3, <2>4, <2>5 DEF KnowsRefused, RefusedStages, LastStages,
       FinishedStages, Deliveries, Attempts
<1>9. ~Triage(d) /\ ~Answer(d) /\ ~ProviderAccepts(d)
  BY <1>0 DEF Triage, Answer, ProviderAccepts
<1>10. CASE \E e \in Deliveries : Progress(e)
  BY <1>0, <1>10, RefusedKept DEF Progress
<1>11. CASE UNCHANGED vars
  BY <1>0, <1>11, RefusedKept DEF vars
<1> QED
  BY <1>0, <1>1, <1>2, <1>3, <1>4, <1>5, <1>6, <1>7, <1>8, <1>9, <1>10, <1>11
     DEF Next, BrokerStep, LoopStep, HandlerStep, HandlerFault

\* A throttled dispatch adds the only new member to the refused deliveries.
LEMMA NewlyRefused ==
  ASSUME IngestionInv, [ContactNext]_contactVars, NEW d \in refused'
  PROVE  d \in refused \/ (d \in Deliveries /\ Throttle(d))
<1>1. CASE LaneStep /\ UNCHANGED <<provider, limiters>>
  BY <1>1 DEF limiters
<1>2. CASE ContactCrash
  BY <1>2 DEF ContactCrash
<1>3. ASSUME NEW e \in Deliveries, Dispatch(e) \/ ContactAccepts(e)
      PROVE  d \in refused \/ (d \in Deliveries /\ Throttle(d))
  BY <1>3 DEF Dispatch, NotConfigured, TakeToken, Throttle, ContactAnswer, ContactAccepts,
     limiters
<1>4. ASSUME NEW p \in Providers, HttpTakes(p) \/ Refills(p)
      PROVE  d \in refused
  BY <1>4 DEF HttpTakes, Refills
<1>5. CASE UNCHANGED contactVars
  BY <1>5 DEF contactVars, limiters
<1> QED BY <1>1, <1>2, <1>3, <1>4, <1>5 DEF ContactNext

\* The refusal itself: the delivery has not reached the provider, on any path.
LEMMA ThrottleEstablishes ==
  ASSUME IngestionInv, NEW d \in Deliveries, Throttle(d), d \notin accepted
  PROVE  KnowsRefused(d)'
<1>1. pc'[d] = "publishing" /\ outcome'[d] = "throttled" /\ accepted' = accepted
  BY DEF Throttle, Answers, Answer, Goto, external, IngestionInv, WeakTypeOK
<1> QED
  BY <1>1 DEF KnowsRefused, RefusedStages, LastStages, Deliveries, Attempts

\* A delivery the provider accepted is past its call, so the limiter is not asked again.
BeforeCall    == { "undelivered", "queued", "spawned", "calling" }
AcceptanceInv == \A d \in accepted : pc[d] \notin BeforeCall

\* Both dispositions name one of four stages, whatever the outcome.
LEMMA ResultStages ==
  ASSUME NEW c, NEW n, NEW m
  PROVE  /\ StageAfterResult(DispositionForOutcome(c, n, m))
              \in { "ack", "nak", "dead_exhausted" }
         /\ StageAfterResultFailure(DispositionForResultPublishFailure(c, n, m))
              \in { "nak", "dead_unpublished" }
BY DEF StageAfterResult, StageAfterResultFailure, DispositionForOutcome,
   DispositionForResultPublishFailure

LEMMA AcceptanceStep ==
  ASSUME IngestionInv, AcceptanceInv, [Next]_vars
  PROVE  AcceptanceInv'
<1> USE DeliveryFacts, ConstantFacts DEF external, history, BeforeCall
<1>0. WeakTypeOK /\ StageKnowledge /\ Lifecycle
  BY DEF IngestionInv
<1> SUFFICES ASSUME NEW d \in accepted' PROVE pc'[d] \notin BeforeCall
  BY DEF AcceptanceInv
<1>1. d \in accepted \/ (d \in Deliveries /\ ProviderAccepts(d))
  <2>1. CASE \E j \in Jobs : BrokerStep(j)
    BY <2>1 DEF BrokerStep, Deliver, TimerFires, GiveUp
  <2>2. CASE LoopStep \/ ProcessFault
    BY <2>2 DEF LoopStep, Poll, Acquire, Rebuild, Restart, ProcessFault, StreamError,
       RebuildFails, Crash, RestartFails
  <2>3. ASSUME NEW e \in Deliveries,
               HandlerStep(e) \/ HandlerFault(e) \/ ProviderAccepts(e) \/ Progress(e)
        PROVE  d \in accepted \/ (d \in Deliveries /\ ProviderAccepts(d))
    BY <2>3 DEF HandlerStep, HandlerFault, ProviderAccepts, Progress, Triage, Answer,
       PublishResult, PublishDead, PublishResultFails, PublishDeadFails, Settle, SettleIsLost
  <2>4. CASE UNCHANGED vars
    BY <2>4 DEF vars
  <2> QED BY <2>1, <2>2, <2>3, <2>4 DEF Next
<1>2. CASE d \in Deliveries /\ ProviderAccepts(d)
  BY <1>0, <1>2 DEF ProviderAccepts, Goto, WeakTypeOK
<1>3. CASE d \in accepted
  <2>0. d \in Deliveries /\ pc[d] \notin BeforeCall
    BY <1>0, <1>3 DEF WeakTypeOK, AcceptanceInv
  <2>1. CASE \E j \in Jobs : Deliver(j)
    <3> PICK j \in Jobs : Deliver(j)
      BY <2>1
    <3> DEFINE n == <<j, delivered[j] + 1>>
    <3>1. n \in Deliveries /\ pc[n] = "undelivered"
      BY <1>0, NextDelivery
    <3> QED BY <1>0, <2>0, <3>1 DEF Deliver, WeakTypeOK
  <2>2. CASE Acquire
    <3>1. Head(inbox) \in Deliveries /\ pc[Head(inbox)] = "queued"
      BY <1>0, <2>2 DEF Acquire, StageKnowledge, WeakTypeOK, Lifecycle
    <3> QED BY <1>0, <2>0, <2>2, <3>1 DEF Acquire, WeakTypeOK
  <2>3. CASE (\E j \in Jobs : TimerFires(j) \/ GiveUp(j)) \/ Poll \/ Rebuild \/ Restart
             \/ ProcessFault
    BY <2>0, <2>3 DEF TimerFires, GiveUp, Poll, Rebuild, Restart, ProcessFault, StreamError,
       RebuildFails, Crash, RestartFails
  <2>4. ASSUME NEW e \in Deliveries,
               HandlerStep(e) \/ HandlerFault(e) \/ ProviderAccepts(e), e # d
        PROVE  pc'[d] = pc[d]
    BY <1>0, <2>0, <2>4, OthersStay
  <2>5. CASE HandlerStep(d) \/ HandlerFault(d) \/ ProviderAccepts(d)
    <3>1. ~Triage(d)
      BY <2>0 DEF Triage
    <3>2. CASE Answer(d) \/ ProviderAccepts(d) \/ PublishDead(d) \/ PublishDeadFails(d)
      BY <1>0, <2>0, <3>2 DEF Answer, ProviderAccepts, PublishDead, PublishDeadFails, Finish,
         Goto, WeakTypeOK
    <3>3. CASE PublishResult(d) \/ PublishResultFails(d)
      <4>1. pc'[d] \in { "ack", "nak", "dead_exhausted", "dead_unpublished" }
        BY <1>0, <2>0, <3>3, ResultStages DEF PublishResult, PublishResultFails, Goto, WeakTypeOK
      <4> QED BY <4>1
    <3>4. CASE Settle(d) \/ SettleIsLost(d)
      <4>1. pc'[d] \in { "acked", "naked", "termed", "unsettled" }
        BY <1>0, <2>0, <3>4 DEF Settle, SettleIsLost, SettledStage, SettleStages, Finish, Goto,
           WeakTypeOK
      <4> QED BY <4>1
    <3> QED
      BY <2>5, <3>1, <3>2, <3>3, <3>4 DEF HandlerStep, HandlerFault
  <2>6. CASE (\E e \in Deliveries : Progress(e)) \/ UNCHANGED vars
    BY <2>0, <2>6 DEF Progress, vars
  <2> QED
    BY <2>0, <2>1, <2>2, <2>3, <2>4, <2>5, <2>6 DEF Next, BrokerStep, LoopStep
<1> QED BY <1>1, <1>2, <1>3

ContactInv == IngestionInv /\ AcceptanceInv /\ RefusedInv

\* A refused delivery never reaches a provider and is never acknowledged; it ends its job
\* only as the last delivery, with a dead letter unless both its publishes failed.
THEOREM RefusalsAreNotLost == ContactSpec => []RefusedIsNotLost
<1>1. ContactInit => ContactInv
  BY InvInit DEF ContactInit, ContactInv, Init, AcceptanceInv, RefusedInv
<1>2. ContactInv /\ [ContactNext]_contactVars => ContactInv'
  <2> SUFFICES ASSUME ContactInv, [ContactNext]_contactVars PROVE ContactInv'
    OBVIOUS
  <2>0. IngestionInv /\ AcceptanceInv /\ RefusedInv /\ [Next]_vars
    BY ContactStepIsLaneStep DEF ContactInv
  <2>1. IngestionInv' /\ AcceptanceInv'
    BY <2>0, InvStep, AcceptanceStep
  <2>2. ASSUME NEW d \in refused' PROVE KnowsRefused(d)'
    <3>1. CASE d \in refused
      BY <2>0, <3>1, RefusedStep DEF RefusedInv
    <3>2. CASE d \in Deliveries /\ Throttle(d)
      <4>1. d \notin accepted
        BY <2>0, <3>2 DEF Throttle, Dispatching, AcceptanceInv, BeforeCall
      <4> QED BY <2>0, <3>2, <4>1, ThrottleEstablishes
    <3> QED BY <2>0, <3>1, <3>2, NewlyRefused
  <2> QED BY <2>1, <2>2 DEF ContactInv, RefusedInv
<1>3. ContactInv => RefusedIsNotLost
  <2> SUFFICES ASSUME ContactInv, NEW d \in refused
               PROVE  /\ d \notin accepted
                      /\ pc[d] \notin { "ack", "acked" }
                      /\ pc[d] \in { "term", "termed" } =>
                           /\ Attempt(d) = MaxDeliver
                           /\ DeadLetterExists(Job(d)) \/ BothPublishesFailed(d)
    BY DEF RefusedIsNotLost, DeadLetterExists
  <2>1. KnowsRefused(d) /\ Knows(d)
    BY DEF ContactInv, RefusedInv, IngestionInv, KnowsRefused
  <2> QED BY <2>1 DEF KnowsRefused, Knows, RefusedStages, LastStages, FinishedStages
<1> QED BY <1>1, <1>2, <1>3, PTL DEF ContactSpec

-----------------------------------------------------------------------------
\* A token belongs to a request that is on its way, to a provider that is configured; whoever
\* has been taken by its provider holds one.
Metered ==
  /\ \A d \in ticket : pc[d] \in { "calling", "taken" } /\ ProviderOf(d) \in Configured
  /\ \A d \in Deliveries : pc[d] = "taken" => d \in ticket
  /\ \A d \in accepted : ProviderOf(d) \in Configured

\* The lane's own steps neither start nor end a request to a provider.
LEMMA LaneLeavesCallsAlone ==
  ASSUME IngestionInv, LaneStep
  PROVE  /\ accepted' = accepted
         /\ \A d \in Deliveries :
              /\ pc[d] \in { "calling", "taken" } => pc'[d] = pc[d]
              /\ pc'[d] = "taken" => pc[d] = "taken"
<1> USE DEF external, history
<1>0. WeakTypeOK /\ StageKnowledge /\ Lifecycle
  BY DEF IngestionInv
<1>1. CASE \E j \in Jobs : Deliver(j)
  <2> PICK j \in Jobs : Deliver(j)
    BY <1>1
  <2> DEFINE n == <<j, delivered[j] + 1>>
  <2>1. n \in Deliveries /\ pc[n] = "undelivered"
    BY <1>0, NextDelivery
  <2>2. pc' = [pc EXCEPT ![n] = "queued"] /\ accepted' = accepted
    BY DEF Deliver
  <2> HIDE DEF n
  <2> QED BY <1>0, <2>1, <2>2 DEF WeakTypeOK
<1>2. CASE Acquire
  <2>1. Head(inbox) \in Deliveries /\ pc[Head(inbox)] = "queued"
    BY <1>0, <1>2 DEF Acquire, StageKnowledge, WeakTypeOK, Lifecycle
  <2>2. pc' = [pc EXCEPT ![Head(inbox)] = "spawned"] /\ accepted' = accepted
    BY <1>2 DEF Acquire
  <2> QED BY <1>0, <2>1, <2>2 DEF WeakTypeOK
<1>3. CASE \/ \E j \in Jobs : TimerFires(j) \/ GiveUp(j)
           \/ Poll \/ Rebuild \/ Restart \/ StreamError \/ RebuildFails \/ RestartFails
           \/ \E d \in Deliveries : Progress(d)
  BY <1>3 DEF TimerFires, GiveUp, Poll, Rebuild, Restart, StreamError, RebuildFails,
     RestartFails, Progress
<1>4. ASSUME NEW e \in Deliveries, Handles(e) \/ HandlerFault(e)
      PROVE  /\ accepted' = accepted
             /\ pc[e] \notin { "calling", "taken" } /\ pc'[e] # "taken"
             /\ \A d \in Deliveries : d # e => pc'[d] = pc[d]
  <2>1. HandlerStep(e) \/ HandlerFault(e)
    BY <1>4 DEF Handles, HandlerStep
  <2>2. accepted' = accepted /\ pc[e] \notin { "calling", "taken" }
    BY <1>4 DEF Handles, HandlerFault, Triage, PublishResult, PublishDead, Settle,
       PublishResultFails, PublishDeadFails, SettleIsLost, DeadStages, SettleStages
  <2>3. pc'[e] # "taken"
    <3>1. CASE Triage(e)
      BY <1>0, <3>1, StageTyping DEF Triage, Goto, WeakTypeOK
    <3>2. CASE PublishResult(e) \/ PublishResultFails(e)
      <4>1. \E stage \in { "ack", "nak", "dead_exhausted", "dead_unpublished" } :
              pc' = [pc EXCEPT ![e] = stage]
        BY <3>2, ResultStages DEF PublishResult, PublishResultFails, Goto
      <4> QED BY <1>0, <4>1 DEF WeakTypeOK
    <3>3. CASE PublishDead(e) \/ PublishDeadFails(e)
      BY <1>0, <3>3 DEF PublishDead, PublishDeadFails, Goto, Finish, WeakTypeOK
    <3>4. CASE Settle(e) \/ SettleIsLost(e)
      BY <1>0, <3>4 DEF Settle, SettleIsLost, SettledStage, SettleStages, Goto, Finish, WeakTypeOK
    <3> QED BY <1>4, <3>1, <3>2, <3>3, <3>4 DEF Handles, HandlerFault
  <2>4. \A d \in Deliveries : d # e => pc'[d] = pc[d]
    BY <1>0, <2>1, OthersStay
  <2> QED BY <2>2, <2>3, <2>4
<1> QED BY <1>1, <1>2, <1>3, <1>4 DEF LaneStep, BrokerStep, LoopStep, ProcessFault

LEMMA MeteredStep ==
  ASSUME IngestionInv, BucketTypes, Metered, [ContactNext]_contactVars
  PROVE  Metered'
<1> USE DEF external, history, limiters, ProviderOf
<1>0. WeakTypeOK
  BY DEF IngestionInv
<1>1. CASE LaneStep /\ UNCHANGED <<provider, limiters>>
  BY <1>1, LaneLeavesCallsAlone DEF Metered, BucketTypes
<1>2. CASE ContactCrash
  <2>1. \A d \in Deliveries : pc'[d] # "taken"
    BY <1>2 DEF ContactCrash, Crash, Live, LiveStages, HandlerStages
  <2> QED BY <1>2, <2>1 DEF ContactCrash, Crash, Metered
<1>3. ASSUME NEW d \in Deliveries, NotConfigured(d) \/ Throttle(d) PROVE Metered'
  <2>1. pc' = [pc EXCEPT ![d] = "publishing"] /\ d \notin ticket
        /\ UNCHANGED <<accepted, ticket, provider>>
    BY <1>3 DEF NotConfigured, Throttle, Dispatching, Answers, Answer, Goto
  <2> QED BY <1>0, <2>1 DEF Metered, WeakTypeOK, BucketTypes
<1>4. ASSUME NEW d \in Deliveries, TakeToken(d) PROVE Metered'
  <2>1. /\ ticket' = ticket \cup { d } /\ pc[d] = "calling" /\ ProviderOf(d) \in Configured
        /\ UNCHANGED <<accepted, pc, provider>>
    BY <1>4 DEF TakeToken, Dispatching, vars
  <2> QED BY <2>1 DEF Metered
<1>5. ASSUME NEW d \in Deliveries, ContactAccepts(d) PROVE Metered'
  <2>1. /\ pc' = [pc EXCEPT ![d] = "taken"] /\ d \in ticket /\ accepted' = accepted \cup { d }
        /\ UNCHANGED <<ticket, provider>>
    BY <1>5 DEF ContactAccepts, ProviderAccepts, Goto
  <2> QED BY <1>0, <2>1 DEF Metered, WeakTypeOK, BucketTypes
<1>6. ASSUME NEW d \in Deliveries, ContactAnswer(d) PROVE Metered'
  <2>1. /\ pc' = [pc EXCEPT ![d] = "publishing"] /\ ticket' = ticket \ { d }
        /\ UNCHANGED <<accepted, provider>>
    BY <1>6 DEF ContactAnswer, Answer, Goto
  <2> QED BY <1>0, <2>1 DEF Metered, WeakTypeOK, BucketTypes
<1>7. ASSUME NEW p \in Providers, HttpTakes(p) \/ Refills(p) PROVE Metered'
  BY <1>7 DEF HttpTakes, Refills, Metered, vars
<1>8. CASE UNCHANGED contactVars
  BY <1>8 DEF contactVars, vars, Metered
<1> QED BY <1>1, <1>2, <1>3, <1>4, <1>5, <1>6, <1>7, <1>8 DEF ContactNext, Dispatch

\* No mail or message of the lane reaches a provider that is not configured or without a token of
\* its bucket, which is taken once for each request (dispatch.rs:41-68), across crashes too.
THEOREM SendsAreMetered ==
  ContactSpec => /\ []Metered
                 /\ [][\A d \in accepted' \ accepted : d \in ticket]_contactVars
<1>1. ContactInit => Metered
  BY DEF ContactInit, Init, Metered
<1>2. ContactSpec => [](IngestionInv /\ BucketTypes)
  BY ContactLaneIsLane, IngestionInvariance, BucketTypesInit, BucketTypesStep, PTL
     DEF ContactSpec
<1>3. IngestionInv /\ BucketTypes /\ Metered /\ [ContactNext]_contactVars => Metered'
  BY MeteredStep
<1>4. IngestionInv /\ [ContactNext]_contactVars
        => [\A d \in accepted' \ accepted : d \in ticket]_contactVars
  <2> SUFFICES ASSUME IngestionInv, ContactNext, NEW d \in accepted' \ accepted
               PROVE  d \in ticket
    OBVIOUS
  <2>1. ~LaneStep
    BY LaneLeavesCallsAlone
  <2>2. ~ContactCrash
    BY DEF ContactCrash, Crash, external
  <2>3. ASSUME NEW e \in Deliveries, Dispatch(e) PROVE accepted' = accepted
    BY <2>3 DEF Dispatch, NotConfigured, TakeToken, Throttle, ContactAnswer, Answers, Answer,
       external, vars
  <2>4. ASSUME NEW e \in Deliveries, ContactAccepts(e)
        PROVE  accepted' = accepted \cup { e } /\ e \in ticket
    BY <2>4 DEF ContactAccepts, ProviderAccepts
  <2>5. ASSUME NEW p \in Providers, HttpTakes(p) \/ Refills(p) PROVE accepted' = accepted
    BY <2>5 DEF HttpTakes, Refills, vars
  <2> QED BY <2>1, <2>2, <2>3, <2>4, <2>5 DEF ContactNext
<1> QED BY <1>1, <1>2, <1>3, <1>4, PTL DEF ContactSpec
=============================================================================
