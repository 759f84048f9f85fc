----------------------- MODULE JetStreamIngestionProofs -----------------------
(***************************************************************************)
(* Proofs about the durable push lane, for every set of jobs, delivery     *)
(* budget, number of permits and bound on faults.                          *)
(***************************************************************************)
EXTENDS JetStreamIngestionProperties, TLAPS, FiniteSetTheorems

\* The pair that names a delivery, and its parts.
LEMMA DeliveryFacts ==
  /\ \A d \in Deliveries : Job(d) \in Jobs /\ Attempt(d) \in Attempts
  /\ \A j \in Jobs, n \in Attempts :
       <<j, n>> \in Deliveries /\ Job(<<j, n>>) = j /\ Attempt(<<j, n>>) = n
  /\ \A d, e \in Deliveries : Job(d) = Job(e) /\ Attempt(d) = Attempt(e) => d = e
  BY DEF Deliveries, Job, Attempt

\* The constants' assumption in the form the provers use.
LEMMA ConstantFacts ==
  /\ MaxDeliver \in Nat /\ MaxDeliver >= 1
  /\ MaxConcurrency \in Nat /\ MaxConcurrency >= 1
  /\ MaxFaults \in Nat
  /\ ProviderAnswers \subseteq OutcomeClasses
  /\ IsFiniteSet(Jobs)
  /\ \A n \in Attempts : n \in Nat /\ n >= 1 /\ n <= MaxDeliver
  BY ConstantsAssumption DEF Attempts

-----------------------------------------------------------------------------
(* Types, but for the range of permits, which needs their conservation. *)

WeakTypeOK ==
  /\ envelope \in [Jobs -> Envelopes]
  /\ msg \in [Jobs -> MsgStates]
  /\ delivered \in [Jobs -> 0..MaxDeliver]
  /\ loop \in LoopStates
  /\ inbox \in Seq(Deliveries)
  /\ permits \in Nat
  /\ pc \in [Deliveries -> Stages]
  /\ outcome \in [Deliveries -> OutcomeClasses \cup { "none" }]
  /\ results \subseteq [job : Jobs, attempt : Attempts, class : OutcomeClasses]
  /\ dead \subseteq [job : Jobs, attempt : Attempts, reason : DeadReasons]
  /\ accepted \subseteq Deliveries
  /\ failed \subseteq [job : Jobs, attempt : Attempts, stream : { "result", "dead" }]
  /\ overtaken \subseteq Deliveries
  /\ faults \in 0..MaxFaults

\* What typing needs to know of a handler and of the loop.
StageKnowledge ==
  /\ \A d \in Deliveries : pc[d] = "publishing" => outcome[d] \in OutcomeClasses
  /\ \A d \in Deliveries : pc[d] = "dead_poison" => IsPoison(envelope[Job(d)])
  /\ loop = "acquiring" => inbox # << >>

\* A poison envelope has a first failing check, and triage reports it.
LEMMA TriageReasonIsPoison ==
  ASSUME NEW e, IsPoison(e)
  PROVE  TriageReason(e) \in PoisonReasons /\ IsFirstFailingCheck(TriageReason(e), e)
<1> DEFINE First(i) == /\ TriageChecks[i] \in e
                       /\ \A k \in 1..(i - 1) : TriageChecks[k] \notin e
<1>1. PICK i \in 1..4 : TriageChecks[i] \in e
  BY DEF IsPoison, PoisonReasons
<1>2. \E k \in 1..4 : First(k)
  <2>1. CASE TriageChecks[1] \in e
    BY <2>1
  <2>2. CASE TriageChecks[1] \notin e /\ TriageChecks[2] \in e
    <3>1. First(2)
      BY <2>2
    <3> QED BY <3>1
  <2>3. CASE TriageChecks[1] \notin e /\ TriageChecks[2] \notin e /\ TriageChecks[3] \in e
    <3>1. \A k \in 1..(3 - 1) : k = 1 \/ k = 2
      OBVIOUS
    <3>2. First(3)
      BY <2>3, <3>1
    <3> QED BY <3>2
  <2>4. CASE /\ TriageChecks[1] \notin e
             /\ TriageChecks[2] \notin e
             /\ TriageChecks[3] \notin e
    <3>1. i = 4
      BY <1>1, <2>4
    <3>2. \A k \in 1..(4 - 1) : k = 1 \/ k = 2 \/ k = 3
      OBVIOUS
    <3>3. First(4)
      BY <2>4, <1>1, <3>1, <3>2
    <3> QED BY <3>3
  <2> QED BY <2>1, <2>2, <2>3, <2>4
<1> DEFINE first == CHOOSE k \in 1..4 : First(k)
<1>3. first \in 1..4 /\ First(first)
  <2> HIDE DEF First
  <2> QED BY <1>2
<1>4. TriageReason(e) = TriageChecks[first]
  BY DEF TriageReason
<1>5. \A k \in 1..4 : TriageChecks[k] = TriageChecks[first] => k = first
  <2>1. \A k, l \in 1..4 : TriageChecks[k] = TriageChecks[l] => k = l
    BY DEF TriageChecks
  <2> HIDE DEF first
  <2> QED BY <1>3, <2>1
<1> HIDE DEF first
<1> QED
  BY <1>3, <1>4, <1>5 DEF PoisonReasons, IsFirstFailingCheck

\* Where a disposition leads a handler.
LEMMA StageTyping ==
  /\ \A c, n : DispositionForOutcome(c, n, MaxDeliver) \in Dispositions
  /\ \A c, n : DispositionForResultPublishFailure(c, n, MaxDeliver) \in Dispositions
  /\ \A p \in Dispositions : StageAfterResult(p) \in { "ack", "nak", "dead_exhausted" }
  /\ \A p \in Dispositions :
       StageAfterResultFailure(p) \in { "ack", "nak", "dead_unpublished" }
  /\ \A e : StageAfterTriage(e) \in { "dead_poison", "publishing", "calling" }
  BY DEF DispositionForOutcome, DispositionForResultPublishFailure, Dispositions,
         StageAfterResult, StageAfterResultFailure, StageAfterTriage

LEMMA TypesInit == Init => WeakTypeOK /\ StageKnowledge
<1> SUFFICES ASSUME Init PROVE WeakTypeOK /\ StageKnowledge
  OBVIOUS
<1>1. WeakTypeOK
  BY ConstantFacts DEF Init, WeakTypeOK, MsgStates, LoopStates, Stages
<1>2. StageKnowledge
  BY DEF Init, StageKnowledge
<1> QED BY <1>1, <1>2

\* A buffer with an element appended is not empty.
LEMMA AppendIsNotEmpty ==
  ASSUME NEW S, NEW s \in Seq(S), NEW x \in S
  PROVE  Append(s, x) # << >>
<1>1. Append(s, x) \in Seq(S) /\ Len(Append(s, x)) = Len(s) + 1 /\ Len(s) \in Nat
  OBVIOUS
<1>2. Len(Append(s, x)) # 0
  BY <1>1
<1>3. Len(<< >>) = 0
  OBVIOUS
<1> QED BY <1>2, <1>3, Zenon

\* Every step keeps the types and what a handler's stage says of its outcome.
LEMMA TypesStep ==
  WeakTypeOK /\ StageKnowledge /\ [Next]_vars => WeakTypeOK' /\ StageKnowledge'
<1> SUFFICES ASSUME WeakTypeOK, StageKnowledge, [Next]_vars
             PROVE  WeakTypeOK' /\ StageKnowledge'
  OBVIOUS
<1> USE DeliveryFacts, ConstantFacts DEF external, history
<1>1. CASE \E j \in Jobs : Deliver(j)
  <2> PICK j \in Jobs : Deliver(j)
    BY <1>1
  <2> DEFINE d == <<j, delivered[j] + 1>>
  <2>1. d \in Deliveries
    BY DEF Deliver, WeakTypeOK, Attempts
  <2>2. WeakTypeOK'
    <3>1. delivered' \in [Jobs -> 0..MaxDeliver] /\ msg' \in [Jobs -> MsgStates]
      BY DEF Deliver, WeakTypeOK, MsgStates
    <3>2. pc' \in [Deliveries -> Stages]
      BY <2>1 DEF Deliver, WeakTypeOK, Stages, LiveStages
    <3>3. inbox' \in Seq(Deliveries)
      BY <2>1 DEF Deliver, WeakTypeOK
    <3>4. overtaken' \subseteq Deliveries
      BY DEF Deliver, WeakTypeOK
    <3>5. UNCHANGED << envelope, loop, permits, outcome, results, dead, accepted, failed, faults >>
      BY DEF Deliver
    <3> QED BY <3>1, <3>2, <3>3, <3>4, <3>5 DEF WeakTypeOK
  <2>3. /\ pc' = [pc EXCEPT ![d] = "queued"] /\ inbox' = Append(inbox, d)
        /\ outcome' = outcome /\ envelope' = envelope /\ loop' = loop
    BY DEF Deliver
  <2>4. \A e \in Deliveries : pc'[e] \in { pc[e], "queued" }
    BY <2>3 DEF WeakTypeOK
  <2>5. inbox \in Seq(Deliveries)
    BY DEF WeakTypeOK
  <2>6. inbox' # << >>
    BY <2>1, <2>3, <2>5, AppendIsNotEmpty
  <2>7. StageKnowledge'
    BY <2>3, <2>4, <2>6 DEF StageKnowledge
  <2> QED BY <2>2, <2>7
<1>2. CASE \E j \in Jobs : TimerFires(j) \/ GiveUp(j)
  BY <1>2 DEF TimerFires, GiveUp, WeakTypeOK, StageKnowledge, MsgStates
<1>3. CASE Poll \/ Rebuild \/ Restart
  BY <1>3 DEF Poll, Rebuild, Restart, WeakTypeOK, StageKnowledge, LoopStates
<1>4. CASE Acquire
  <2>1. inbox # << >> /\ Head(inbox) \in Deliveries
    BY <1>4 DEF Acquire, StageKnowledge, WeakTypeOK
  <2>2. Tail(inbox) \in Seq(Deliveries)
    BY <2>1 DEF WeakTypeOK
  <2> QED
    BY <1>4, <2>1, <2>2 DEF Acquire, WeakTypeOK, StageKnowledge, LoopStates, Stages,
       LiveStages, HandlerStages
<1>5. CASE StreamError \/ Crash
  <2>1. \A d \in Deliveries : pc'[d] \in { pc[d], "lost" }
    BY <1>5 DEF StreamError, Crash
  <2>2. pc' \in [Deliveries -> Stages]
    <3>1. \A d \in Deliveries : pc'[d] \in Stages
      BY <2>1 DEF WeakTypeOK, Stages, FinishedStages
    <3>2. pc' = [d \in Deliveries |-> pc'[d]]
      BY <1>5 DEF StreamError, Crash
    <3> QED BY <3>1, <3>2
  <2>3. inbox' = << >> /\ inbox' \in Seq(Deliveries)
    <3>1. << >> \in Seq(Deliveries)
      OBVIOUS
    <3>2. inbox' = << >>
      BY <1>5 DEF StreamError, Crash
    <3> QED BY <3>1, <3>2
  <2>4. loop' \in { "resting", "down" } /\ permits' \in Nat /\ faults' \in 0..MaxFaults
    BY <1>5 DEF StreamError, Crash, Fault, WeakTypeOK
  <2>5. UNCHANGED <<envelope, msg, delivered, outcome, results, dead, accepted, failed,
                    overtaken>>
    BY <1>5 DEF StreamError, Crash
  <2>6. WeakTypeOK'
    BY <2>2, <2>3, <2>4, <2>5 DEF WeakTypeOK, LoopStates
  <2>7. StageKnowledge'
    BY <2>1, <2>4, <2>5 DEF StageKnowledge
  <2> QED BY <2>6, <2>7
<1>6. CASE RebuildFails \/ RestartFails
  <2>1. WeakTypeOK'
    BY <1>6 DEF RebuildFails, RestartFails, Fault, WeakTypeOK, LoopStates
  <2>2. StageKnowledge'
    BY <1>6 DEF RebuildFails, RestartFails, StageKnowledge
  <2> QED BY <2>1, <2>2
<1>7. ASSUME NEW d \in Deliveries, Triage(d)
      PROVE  WeakTypeOK' /\ StageKnowledge'
  <2> DEFINE e == envelope[Job(d)]
  <2>1. StageAfterTriage(e) \in Stages /\ OutcomeAfterTriage(e) \in OutcomeClasses \cup { "none" }
    BY StageTyping DEF OutcomeAfterTriage, Stages, LiveStages, HandlerStages, DeadStages,
       OutcomeClasses
  <2>2. /\ StageAfterTriage(e) = "publishing" => OutcomeAfterTriage(e) \in OutcomeClasses
        /\ StageAfterTriage(e) = "dead_poison" => IsPoison(e)
    BY DEF StageAfterTriage, OutcomeAfterTriage, OutcomeClasses
  <2>3. WeakTypeOK'
    BY <1>7, <2>1 DEF Triage, Goto, WeakTypeOK
  <2>4. StageKnowledge'
    BY <1>7, <2>2 DEF Triage, Goto, WeakTypeOK, StageKnowledge
  <2> QED BY <2>3, <2>4
<1>8. ASSUME NEW d \in Deliveries, ProviderAccepts(d)
      PROVE  WeakTypeOK' /\ StageKnowledge'
  <2>1. WeakTypeOK'
    BY <1>8 DEF ProviderAccepts, Goto, WeakTypeOK, Stages, LiveStages, HandlerStages
  <2>2. StageKnowledge'
    BY <1>8 DEF ProviderAccepts, Goto, WeakTypeOK, StageKnowledge
  <2> QED BY <2>1, <2>2
<1>9. ASSUME NEW d \in Deliveries, Progress(d)
       PROVE  WeakTypeOK' /\ StageKnowledge'
  BY <1>9 DEF Progress, WeakTypeOK, StageKnowledge, MsgStates
<1>10. ASSUME NEW d \in Deliveries, Answer(d)
      PROVE  WeakTypeOK' /\ StageKnowledge'
  <2>1. PICK c \in OutcomeClasses : outcome' = [outcome EXCEPT ![d] = c]
    BY <1>10 DEF Answer, AnswersWhenAccepted, AnswersWhenNotAccepted
  <2> QED
    BY <1>10, <2>1 DEF Answer, Goto, WeakTypeOK, StageKnowledge, Stages, LiveStages,
       HandlerStages
<1>11. ASSUME NEW d \in Deliveries, PublishResult(d) \/ PublishResultFails(d)
      PROVE  WeakTypeOK' /\ StageKnowledge'
  <2>1. ResultEvent(d, outcome[d]) \in [job : Jobs, attempt : Attempts, class : OutcomeClasses]
    BY <1>11 DEF PublishResult, PublishResultFails, ResultEvent, StageKnowledge
  <2>2. FailedPublish(d, "result")
        \in [job : Jobs, attempt : Attempts, stream : { "result", "dead" }]
    BY DEF FailedPublish
  <2>3. PICK s \in { "ack", "nak", "dead_exhausted", "dead_unpublished" } : Goto(d, s)
    BY <1>11, StageTyping DEF PublishResult, PublishResultFails
  <2>4. UNCHANGED <<envelope, msg, delivered, loop, inbox, permits, outcome, dead,
                   accepted, overtaken>>
    BY <1>11 DEF PublishResult, PublishResultFails
  <2>5. faults' \in 0..MaxFaults
    BY <1>11 DEF PublishResult, PublishResultFails, Fault, WeakTypeOK
  <2>6. /\ results' \subseteq results \cup { ResultEvent(d, outcome[d]) }
        /\ failed' \subseteq failed \cup { FailedPublish(d, "result") }
    BY <1>11 DEF PublishResult, PublishResultFails
  <2>7. WeakTypeOK'
    BY <2>1, <2>2, <2>3, <2>4, <2>5, <2>6 DEF WeakTypeOK, Goto, Stages, LiveStages,
       HandlerStages, DeadStages, SettleStages
  <2>8. StageKnowledge'
    BY <2>3, <2>4 DEF WeakTypeOK, Goto, StageKnowledge
  <2> QED BY <2>7, <2>8
<1>12. ASSUME NEW d \in Deliveries, PublishDead(d) \/ PublishDeadFails(d)
       PROVE  WeakTypeOK' /\ StageKnowledge'
  <2>1. DeadReason(d) \in DeadReasons
    BY <1>12, TriageReasonIsPoison DEF PublishDead, PublishDeadFails, DeadStages,
       DeadReason, DeadReasons, StageKnowledge
  <2>2. DeadEvent(d, DeadReason(d)) \in [job : Jobs, attempt : Attempts, reason : DeadReasons]
    BY <2>1 DEF DeadEvent
  <2>3. FailedPublish(d, "dead") \in [job : Jobs, attempt : Attempts, stream : { "result", "dead" }]
    BY DEF FailedPublish
  <2>4. PICK s \in { "term", "unsettled" } : Goto(d, s)
    BY <1>12 DEF PublishDead, PublishDeadFails, Finish
  <2>5. UNCHANGED <<envelope, msg, delivered, loop, inbox, outcome, results, accepted, overtaken>>
    BY <1>12 DEF PublishDead, PublishDeadFails
  <2>6. faults' \in 0..MaxFaults /\ permits' \in Nat
    BY <1>12 DEF PublishDead, PublishDeadFails, Fault, Finish, WeakTypeOK
  <2>7. /\ dead' \subseteq dead \cup { DeadEvent(d, DeadReason(d)) }
        /\ failed' \subseteq failed \cup { FailedPublish(d, "dead") }
    BY <1>12 DEF PublishDead, PublishDeadFails
  <2>8. WeakTypeOK'
    BY <2>2, <2>3, <2>4, <2>5, <2>6, <2>7 DEF WeakTypeOK, Goto, Stages, LiveStages,
       HandlerStages, SettleStages, FinishedStages
  <2>9. StageKnowledge'
    BY <2>4, <2>5 DEF WeakTypeOK, Goto, StageKnowledge
  <2> QED BY <2>8, <2>9
<1>13. ASSUME NEW d \in Deliveries, Settle(d) \/ SettleIsLost(d)
       PROVE  WeakTypeOK' /\ StageKnowledge'
  <2>1. PICK s \in FinishedStages : Goto(d, s) /\ permits' = permits + 1
    BY <1>13 DEF Settle, SettleIsLost, Finish, SettledStage, SettleStages, FinishedStages
  <2>2. msg' \in [Jobs -> MsgStates] /\ faults' \in 0..MaxFaults
    BY <1>13 DEF Settle, SettleIsLost, MsgAfter, MsgStates, Fault, WeakTypeOK
  <2>3. UNCHANGED <<envelope, delivered, loop, inbox, outcome, results, dead,
                   accepted, failed, overtaken>>
    BY <1>13 DEF Settle, SettleIsLost
  <2>4. WeakTypeOK'
    BY <2>1, <2>2, <2>3 DEF WeakTypeOK, Goto, Stages
  <2>5. StageKnowledge'
    BY <2>1, <2>3 DEF WeakTypeOK, Goto, StageKnowledge, FinishedStages
  <2> QED BY <2>4, <2>5
<1>14. CASE UNCHANGED vars
  BY <1>14 DEF vars, WeakTypeOK, StageKnowledge
<1> QED
  BY <1>1, <1>2, <1>3, <1>4, <1>5, <1>6, <1>7, <1>8, <1>9, <1>10, <1>11, <1>12, <1>13,
     <1>14 DEF Next, BrokerStep, LoopStep, ProcessFault, HandlerStep, HandlerFault

-----------------------------------------------------------------------------
(* The inductive invariant behind the safety theorems. *)

\* How deliveries, the pull buffer and the stored message move together.
Lifecycle ==
  /\ \A d \in Deliveries : pc[d] = "undelivered" <=> Attempt(d) > delivered[Job(d)]
  /\ \A i \in 1..Len(inbox) : pc[inbox[i]] = "queued"
  /\ \A i, k \in 1..Len(inbox) : inbox[i] = inbox[k] => i = k
  /\ \A d \in Deliveries : pc[d] \in { "acked", "termed" } => msg[Job(d)] = "removed"
  /\ \A j \in Jobs : msg[j] = "exhausted" => delivered[j] = MaxDeliver
  /\ \A d \in Deliveries : delivered[Job(d)] > Attempt(d) =>
       d \in overtaken \/ pc[d] \in { "naked", "lost", "unsettled" }

DeadLetterExists(j) == \E e \in dead : e.job = j

\* What the stage of one handler says of the outcome and of the events published for it.
Knows(d) ==
  /\ pc[d] \in { "undelivered", "queued", "spawned", "calling", "taken" } =>
       outcome[d] = "none"
  /\ pc[d] \in { "calling", "taken" } => envelope[Job(d)] = {}
  /\ pc[d] = "publishing" => ~IsPoison(envelope[Job(d)])
  /\ pc[d] \in { "nak", "naked" } => IsRetryable(outcome[d]) /\ Attempt(d) < MaxDeliver
  /\ pc[d] = "ack" => HasResult(d)
  /\ pc[d] = "dead_exhausted" =>
       IsRetryable(outcome[d]) /\ Attempt(d) = MaxDeliver /\ HasResult(d)
  /\ pc[d] = "dead_unpublished" =>
       /\ FailedPublish(d, "result") \in failed
       /\ IsTerminal(outcome[d]) \/ RetryBudgetSpent(d)
  /\ pc[d] = "term" => DeadLetterExists(Job(d)) \/ BothPublishesFailed(d)

\* What the stored events and acceptances say.
Evidence ==
  /\ SettledHasRecord
  /\ DeadLetterIsTruthful
  /\ \A e \in dead : pc[<<e.job, e.attempt>>] \in { "term", "termed", "unsettled", "lost" }
  /\ PoisonIsIsolated
  /\ \A d \in accepted : delivered[Job(d)] >= Attempt(d)

\* The handlers that hold a permit.
PermitHolders == { d \in Deliveries : InHandler(d) }

IngestionInv ==
  /\ WeakTypeOK
  /\ StageKnowledge
  /\ Lifecycle
  /\ \A d \in Deliveries : Knows(d)
  /\ Evidence
  /\ PermitsConserved

LEMMA InvInit == Init => IngestionInv
<1> SUFFICES ASSUME Init PROVE IngestionInv
  OBVIOUS
<1>1. WeakTypeOK /\ StageKnowledge
  BY TypesInit
<1>2. Lifecycle
  BY DeliveryFacts, ConstantFacts DEF Init, Lifecycle
<1>3. \A d \in Deliveries : Knows(d)
  BY DEF Init, Knows
<1>4. Evidence
  BY DEF Init, Evidence, SettledHasRecord, DeadLetterIsTruthful, PoisonIsIsolated
<1>5. PermitsConserved
  <2>1. PermitHolders = {}
    BY DEF Init, PermitHolders, InHandler, HandlerStages, DeadStages, SettleStages
  <2>2. Cardinality(PermitHolders) = 0
    BY <2>1, FS_EmptySet
  <2>3. permits + Cardinality(PermitHolders) = MaxConcurrency
    BY <2>2, ConstantFacts DEF Init
  <2> QED BY <2>3 DEF PermitHolders, PermitsConserved
<1> QED BY <1>1, <1>2, <1>3, <1>4, <1>5 DEF IngestionInv

\* What every step of one handler has in common: it moves that handler, from a stage in
\* which it holds a permit, and returns the permit exactly when it finishes.
LEMMA HandlerMoves ==
  ASSUME WeakTypeOK, StageKnowledge, NEW d \in Deliveries,
         HandlerStep(d) \/ HandlerFault(d) \/ ProviderAccepts(d)
  PROVE  /\ InHandler(d)
         /\ UNCHANGED <<envelope, delivered, loop, inbox, overtaken>>
         /\ \A j \in Jobs : msg[j] = "removed" => msg'[j] = "removed"
         /\ \A j \in Jobs : msg'[j] = "exhausted" => msg[j] = "exhausted"
         /\ \E s \in (HandlerStages \cup FinishedStages) \ { "lost" } :
              /\ pc' = [pc EXCEPT ![d] = s]
              /\ permits' = IF s \in HandlerStages THEN permits ELSE permits + 1
              /\ s \in { "acked", "termed" } => msg'[Job(d)] = "removed"
<1> USE DEF external, history, Goto, Finish, InHandler, HandlerStages, DeadStages,
        SettleStages, FinishedStages
<1>1. CASE Triage(d)
  BY <1>1, StageTyping DEF Triage
<1>2. CASE ProviderAccepts(d) \/ Answer(d)
  BY <1>2 DEF ProviderAccepts, Answer
<1>3. CASE PublishResult(d) \/ PublishResultFails(d)
  BY <1>3, StageTyping DEF PublishResult, PublishResultFails
<1>4. CASE PublishDead(d) \/ PublishDeadFails(d)
  BY <1>4 DEF PublishDead, PublishDeadFails
<1>5. CASE Settle(d) \/ SettleIsLost(d)
  BY <1>5, DeliveryFacts DEF Settle, SettleIsLost, SettledStage, MsgAfter, WeakTypeOK
<1> QED
  BY <1>1, <1>2, <1>3, <1>4, <1>5 DEF HandlerStep, HandlerFault

\* A step of one handler leaves every other delivery where it was.
LEMMA OthersStay ==
  ASSUME WeakTypeOK, StageKnowledge, NEW d \in Deliveries, NEW e \in Deliveries, d # e,
         HandlerStep(d) \/ HandlerFault(d) \/ ProviderAccepts(d)
  PROVE  pc'[e] = pc[e]
<1>1. \E s \in (HandlerStages \cup FinishedStages) \ { "lost" } : pc' = [pc EXCEPT ![d] = s]
  BY HandlerMoves
<1>2. DOMAIN pc = Deliveries /\ pc = [x \in Deliveries |-> pc[x]]
  BY DEF WeakTypeOK
<1> QED BY <1>1, <1>2

\* A message's next delivery is one that was not made before.
LEMMA NextDelivery ==
  ASSUME WeakTypeOK, Lifecycle, NEW j \in Jobs, Deliver(j)
  PROVE  LET d == <<j, delivered[j] + 1>> IN
         /\ d \in Deliveries /\ pc[d] = "undelivered"
         /\ Job(d) = j /\ Attempt(d) = delivered[j] + 1
<1> DEFINE n == delivered[j]
           d == <<j, n + 1>>
<1>1. n \in Nat /\ n + 1 \in Attempts
  BY ConstantFacts DEF Deliver, WeakTypeOK, Attempts
<1>2. d \in Deliveries /\ Job(d) = j /\ Attempt(d) = n + 1
  BY <1>1, DeliveryFacts
<1> QED BY <1>1, <1>2 DEF Lifecycle

\* Taking the head off a sequence without repetitions leaves one.
LEMMA TailKeepsDistinct ==
  ASSUME NEW s, NEW t, NEW n \in Nat,
         \A i \in 1..(n - 1) : t[i] = s[i + 1],
         \A i, k \in 1..n : s[i] = s[k] => i = k
  PROVE  \A i, k \in 1..(n - 1) : t[i] = t[k] => i = k
<1> SUFFICES ASSUME NEW i \in 1..(n - 1), NEW k \in 1..(n - 1), t[i] = t[k]
             PROVE  i = k
  OBVIOUS
<1>1. i + 1 \in 1..n /\ k + 1 \in 1..n
  OBVIOUS
<1>2. i + 1 = k + 1
  BY <1>1
<1> QED BY <1>2

\* Deliveries, buffer and message keep moving together.
LEMMA LifecycleStep ==
  WeakTypeOK /\ StageKnowledge /\ Lifecycle /\ [Next]_vars => Lifecycle'
<1> SUFFICES ASSUME WeakTypeOK, StageKnowledge, Lifecycle, [Next]_vars
             PROVE  Lifecycle'
  OBVIOUS
<1> USE DeliveryFacts, ConstantFacts DEF external, history
<1>1. CASE \E j \in Jobs : Deliver(j)
  <2> PICK j \in Jobs : Deliver(j)
    BY <1>1
  <2> DEFINE d == <<j, delivered[j] + 1>>
             n == Len(inbox)
  <2>1. /\ d \in Deliveries /\ Job(d) = j /\ Attempt(d) = delivered[j] + 1
        /\ delivered' = [delivered EXCEPT ![j] = @ + 1]
        /\ pc' = [pc EXCEPT ![d] = "queued"]
        /\ msg' = [msg EXCEPT ![j] = "pending"]
        /\ msg[j] \in { "new", "due" }
        /\ delivered[j] \in Nat
    BY DEF Deliver, WeakTypeOK, Attempts
  <2>2. pc[d] = "undelivered"
    BY <2>1 DEF Lifecycle
  <2>3. /\ Len(inbox') = n + 1 /\ n \in Nat
        /\ \A i \in 1..n : inbox'[i] = inbox[i] /\ inbox[i] \in Deliveries
        /\ inbox'[n + 1] = d
    BY <2>1 DEF Deliver, WeakTypeOK
  <2>4. \A e \in Deliveries : pc'[e] = "undelivered" <=> Attempt(e) > delivered'[Job(e)]
    BY <2>1, <2>2 DEF Lifecycle, WeakTypeOK
  <2>5. \A i \in 1..Len(inbox') : pc'[inbox'[i]] = "queued"
    <3>1. \A i \in 1..n : inbox'[i] \in Deliveries /\ pc[inbox'[i]] = "queued"
      BY <2>3 DEF Lifecycle
    <3>2. \A e \in Deliveries : pc[e] = "queued" \/ e = d => pc'[e] = "queued"
      BY <2>1 DEF WeakTypeOK
    <3>3. \A i \in 1..Len(inbox') : i \in 1..n \/ i = n + 1
      BY <2>3
    <3> QED BY <2>1, <2>3, <3>1, <3>2, <3>3
  <2>6. \A i, k \in 1..Len(inbox') : inbox'[i] = inbox'[k] => i = k
    <3> HIDE DEF d, n
    <3>1. \A i \in 1..n : inbox'[i] # d
      BY <2>2, <2>3 DEF Lifecycle, n
    <3>2. \A i, k \in 1..n : inbox'[i] = inbox'[k] => i = k
      BY <2>3 DEF Lifecycle, n
    <3>3. \A i \in 1..Len(inbox') : i \in 1..n \/ i = n + 1
      BY <2>3
    <3> QED BY <2>3, <3>1, <3>2, <3>3
  <2>7. \A e \in Deliveries : pc'[e] \in { "acked", "termed" } => msg'[Job(e)] = "removed"
    BY <2>1 DEF Lifecycle, WeakTypeOK
  <2>8. \A k \in Jobs : msg'[k] = "exhausted" => delivered'[k] = MaxDeliver
    BY <2>1 DEF Lifecycle, WeakTypeOK
  <2>9. \A e \in Deliveries : delivered'[Job(e)] > Attempt(e) =>
          e \in overtaken' \/ pc'[e] \in { "naked", "lost", "unsettled" }
    <3> SUFFICES ASSUME NEW e \in Deliveries, delivered'[Job(e)] > Attempt(e),
                        e \notin overtaken'
                 PROVE  pc'[e] \in { "naked", "lost", "unsettled" }
      OBVIOUS
    <3>1. e # d /\ pc'[e] = pc[e] /\ e \notin overtaken
      BY <2>1 DEF Deliver, WeakTypeOK
    <3>2. CASE Job(e) # j
      BY <3>1, <3>2, <2>1 DEF Lifecycle, WeakTypeOK
    <3>3. CASE Job(e) = j
      <4>1. ~Live(e)
        BY <3>1, <3>3 DEF Deliver
      <4>2. pc[e] # "undelivered" /\ pc[e] \notin { "acked", "termed" }
        BY <3>1, <3>3, <2>1 DEF Lifecycle, WeakTypeOK
      <4> QED BY <4>1, <4>2, <3>1 DEF Live, WeakTypeOK, Stages, FinishedStages
    <3> QED BY <3>2, <3>3
  <2> QED BY <2>4, <2>5, <2>6, <2>7, <2>8, <2>9 DEF Lifecycle
<1>2. CASE \E j \in Jobs : TimerFires(j) \/ GiveUp(j)
  <2> PICK j \in Jobs : TimerFires(j) \/ GiveUp(j)
    BY <1>2
  <2>1. UNCHANGED << delivered, inbox, pc, overtaken >>
    BY DEF TimerFires, GiveUp, history
  <2>2. /\ \A k \in Jobs : msg[k] = "removed" => msg'[k] = "removed"
        /\ \A k \in Jobs : msg'[k] = "exhausted" => delivered[k] = MaxDeliver
    BY DEF TimerFires, GiveUp, WeakTypeOK, Lifecycle
  <2>3. \A e \in Deliveries : Job(e) \in Jobs
    BY DeliveryFacts
  <2> QED BY <2>1, <2>2, <2>3 DEF Lifecycle
<1>3. CASE Poll \/ Rebuild \/ Restart \/ RebuildFails \/ RestartFails
  BY <1>3 DEF Poll, Rebuild, Restart, RebuildFails, RestartFails, Lifecycle
<1>4. CASE Acquire
  <2> DEFINE h == Head(inbox)
             n == Len(inbox)
  <2>1. /\ n \in Nat /\ n >= 1 /\ h = inbox[1] /\ h \in Deliveries
        /\ \A i \in 1..n : inbox[i] \in Deliveries
        /\ Len(inbox') = n - 1
        /\ \A i \in 1..(n - 1) : inbox'[i] = inbox[i + 1]
    BY <1>4 DEF Acquire, StageKnowledge, WeakTypeOK
  <2>2. /\ pc' = [pc EXCEPT ![h] = "spawned"] /\ pc[h] = "queued"
        /\ UNCHANGED <<msg, delivered, overtaken>>
    BY <1>4, <2>1 DEF Acquire, Lifecycle
  <2>3. \A e \in Deliveries : e # h => pc'[e] = pc[e]
    BY <2>2 DEF WeakTypeOK
  <2>4. pc'[h] = "spawned"
    BY <2>1, <2>2 DEF WeakTypeOK
  <2>5. \A i \in 1..Len(inbox') : pc'[inbox'[i]] = "queued"
    BY <2>1, <2>3 DEF Lifecycle
  <2>6. \A i, k \in 1..Len(inbox') : inbox'[i] = inbox'[k] => i = k
    <3>1. \A i, k \in 1..n : inbox[i] = inbox[k] => i = k
      BY DEF Lifecycle
    <3>2. \A i, k \in 1..(n - 1) : inbox'[i] = inbox'[k] => i = k
      BY <2>1, <3>1, TailKeepsDistinct
    <3> QED BY <2>1, <3>2
  <2> QED BY <2>1, <2>2, <2>3, <2>4, <2>5, <2>6 DEF Lifecycle
<1>5. CASE StreamError \/ Crash
  <2>1. /\ \A d \in Deliveries : \/ pc'[d] = pc[d]
                                 \/ pc'[d] = "lost" /\ Live(d)
        /\ inbox' = << >> /\ UNCHANGED <<msg, delivered, overtaken>>
    BY <1>5 DEF StreamError, Crash, Live, LiveStages
  <2>2. \A d \in Deliveries : Live(d) => pc[d] # "undelivered"
    BY DEF Live, LiveStages, HandlerStages, DeadStages, SettleStages
  <2>3. Len(inbox') = 0
    BY <2>1
  <2> QED BY <2>1, <2>2, <2>3 DEF Lifecycle
<1>6. ASSUME NEW d \in Deliveries, Progress(d)
      PROVE  Lifecycle'
  BY <1>6 DEF Progress, Lifecycle, WeakTypeOK
<1>7. ASSUME NEW d \in Deliveries, HandlerStep(d) \/ HandlerFault(d) \/ ProviderAccepts(d)
      PROVE  Lifecycle'
  <2>1. PICK s \in (HandlerStages \cup FinishedStages) \ { "lost" } :
          /\ pc' = [pc EXCEPT ![d] = s]
          /\ s \in { "acked", "termed" } => msg'[Job(d)] = "removed"
    BY <1>7, HandlerMoves
  <2>2. /\ InHandler(d) /\ UNCHANGED <<delivered, inbox, overtaken>>
        /\ \A j \in Jobs : msg[j] = "removed" => msg'[j] = "removed"
        /\ \A j \in Jobs : msg'[j] = "exhausted" => msg[j] = "exhausted"
    BY <1>7, HandlerMoves
  <2>3. pc'[d] = s /\ \A e \in Deliveries : e # d => pc'[e] = pc[e]
    BY <2>1 DEF WeakTypeOK
  <2>4. /\ s # "undelivered"
        /\ pc[d] \notin { "undelivered", "queued", "naked", "lost", "unsettled" }
    BY <2>2 DEF InHandler, HandlerStages, DeadStages, SettleStages, FinishedStages
  <2>5. \A i \in 1..Len(inbox') : pc'[inbox'[i]] = "queued"
    BY <2>2, <2>3, <2>4 DEF Lifecycle, WeakTypeOK
  <2> QED BY <2>1, <2>2, <2>3, <2>4, <2>5 DEF Lifecycle
<1>8. CASE UNCHANGED vars
  BY <1>8 DEF vars, Lifecycle
<1> QED
  BY <1>1, <1>2, <1>3, <1>4, <1>5, <1>6, <1>7, <1>8
     DEF Next, BrokerStep, LoopStep, ProcessFault

\* Published events and recorded failures are never taken back, envelopes never change.
LEMMA EventsGrow ==
  [Next]_vars => /\ results \subseteq results' /\ dead \subseteq dead'
                 /\ failed \subseteq failed' /\ envelope' = envelope
<1> SUFFICES ASSUME [Next]_vars
             PROVE  /\ results \subseteq results' /\ dead \subseteq dead'
                    /\ failed \subseteq failed' /\ envelope' = envelope
  OBVIOUS
<1> USE DEF external, history
<1>1. CASE \E j \in Jobs : BrokerStep(j)
  BY <1>1 DEF BrokerStep, Deliver, TimerFires, GiveUp
<1>2. CASE LoopStep \/ ProcessFault
  BY <1>2 DEF LoopStep, Poll, Acquire, Rebuild, Restart, ProcessFault, StreamError,
     RebuildFails, Crash, RestartFails
<1>3. ASSUME NEW d \in Deliveries, HandlerStep(d) \/ HandlerFault(d)
      PROVE  /\ results \subseteq results' /\ dead \subseteq dead'
             /\ failed \subseteq failed' /\ envelope' = envelope
  BY <1>3 DEF HandlerStep, HandlerFault, Triage, Answer, PublishResult, PublishDead,
     Settle, PublishResultFails, PublishDeadFails, SettleIsLost
<1>4. ASSUME NEW d \in Deliveries, ProviderAccepts(d) \/ Progress(d)
      PROVE  /\ results \subseteq results' /\ dead \subseteq dead'
             /\ failed \subseteq failed' /\ envelope' = envelope
  BY <1>4 DEF ProviderAccepts, Progress
<1>5. CASE UNCHANGED vars
  BY <1>5 DEF vars
<1> QED BY <1>1, <1>2, <1>3, <1>4, <1>5 DEF Next

\* A handler that a step leaves alone, loses or moves before triage knows what it knew.
LEMMA KnowsKept ==
  ASSUME NEW e \in Deliveries, Knows(e), [Next]_vars, outcome'[e] = outcome[e],
         \/ pc'[e] \in { pc[e], "lost" }
         \/ { pc[e], pc'[e] } \subseteq { "undelivered", "queued", "spawned" }
  PROVE  Knows(e)'
<1>1. /\ results \subseteq results' /\ dead \subseteq dead'
      /\ failed \subseteq failed' /\ envelope' = envelope
  BY EventsGrow
<1>2. /\ HasResult(e) => HasResult(e)'
      /\ DeadLetterExists(Job(e)) => DeadLetterExists(Job(e))'
      /\ BothPublishesFailed(e) => BothPublishesFailed(e)'
      /\ FailedPublish(e, "result") \in failed => FailedPublish(e, "result") \in failed'
  BY <1>1 DEF HasResult, ResultEvent, DeadLetterExists, BothPublishesFailed, FailedPublish
<1>3. /\ IsTerminal(outcome[e])' <=> IsTerminal(outcome'[e])
      /\ RetryBudgetSpent(e)' <=> Attempt(e) = MaxDeliver /\ IsRetryable(outcome'[e])
  BY DEF IsTerminal, RetryBudgetSpent, IsRetryable, Attempt
<1> QED
  BY <1>1, <1>2, <1>3 DEF Knows, IsTerminal, RetryBudgetSpent

\* What the dispositions say of a result that was published, or was not.
LEMMA DispositionFacts ==
  ASSUME NEW c \in OutcomeClasses, NEW n \in Attempts
  PROVE  /\ LET s == StageAfterResult(DispositionForOutcome(c, n, MaxDeliver)) IN
              /\ s = "nak" => IsRetryable(c) /\ n < MaxDeliver
              /\ s = "dead_exhausted" => IsRetryable(c) /\ n = MaxDeliver
              /\ s \in { "ack", "nak", "dead_exhausted" }
         /\ LET s == StageAfterResultFailure(
                       DispositionForResultPublishFailure(c, n, MaxDeliver)) IN
              /\ s = "nak" => IsRetryable(c) /\ n < MaxDeliver
              /\ s = "dead_unpublished" => IsTerminal(c) \/ (IsRetryable(c) /\ n = MaxDeliver)
              /\ s \in { "nak", "dead_unpublished" }
<1>1. IsTerminal(c) <=> ~IsRetryable(c)
  BY DEF IsTerminal, IsRetryable
<1>2. IsRetryable(c) \in BOOLEAN /\ (BudgetSpent(n, MaxDeliver) <=> n = MaxDeliver)
      /\ (n < MaxDeliver <=> n # MaxDeliver)
  BY ConstantFacts DEF BudgetSpent, IsRetryable
<1> QED
  BY <1>1, <1>2 DEF DispositionForOutcome, DispositionForResultPublishFailure,
                    StageAfterResult, StageAfterResultFailure

\* Every handler keeps knowing what its stage says.
LEMMA KnowsStep ==
  ASSUME WeakTypeOK, StageKnowledge, Lifecycle, \A d \in Deliveries : Knows(d), [Next]_vars
  PROVE  \A d \in Deliveries : Knows(d)'
<1> SUFFICES ASSUME NEW e \in Deliveries PROVE Knows(e)'
  OBVIOUS
<1> USE DeliveryFacts, ConstantFacts DEF external, history
<1>0. Knows(e)
  OBVIOUS
<1>1. CASE \E j \in Jobs : Deliver(j)
  <2> PICK j \in Jobs : Deliver(j)
    BY <1>1
  <2> DEFINE d == <<j, delivered[j] + 1>>
  <2>1. d \in Deliveries /\ pc[d] = "undelivered"
    BY NextDelivery
  <2>2. outcome' = outcome /\ pc' = [pc EXCEPT ![d] = "queued"]
    BY DEF Deliver
  <2> QED BY <1>0, <2>1, <2>2, KnowsKept DEF WeakTypeOK
<1>2. CASE \E j \in Jobs : TimerFires(j) \/ GiveUp(j)
  BY <1>0, <1>2, KnowsKept DEF TimerFires, GiveUp
<1>3. CASE Poll \/ Rebuild \/ Restart \/ RebuildFails \/ RestartFails
  BY <1>0, <1>3, KnowsKept DEF Poll, Rebuild, Restart, RebuildFails, RestartFails
<1>4. CASE Acquire
  <2>1. Head(inbox) \in Deliveries /\ pc[Head(inbox)] = "queued"
    BY <1>4 DEF Acquire, StageKnowledge, WeakTypeOK, Lifecycle
  <2>2. outcome' = outcome /\ pc' = [pc EXCEPT ![Head(inbox)] = "spawned"]
    BY <1>4 DEF Acquire
  <2> QED BY <1>0, <2>1, <2>2, KnowsKept DEF WeakTypeOK
<1>5. CASE StreamError \/ Crash
  <2>1. outcome' = outcome /\ pc'[e] \in { pc[e], "lost" }
    BY <1>5 DEF StreamError, Crash
  <2> QED BY <1>0, <2>1, KnowsKept
<1>6. ASSUME NEW d \in Deliveries, HandlerStep(d) \/ HandlerFault(d) \/ ProviderAccepts(d),
             d # e
      PROVE  Knows(e)'
  <2>1. pc'[e] = pc[e]
    BY <1>6, OthersStay
  <2>2. outcome'[e] = outcome[e]
    BY <1>6 DEF HandlerStep, HandlerFault, ProviderAccepts, Triage, Answer, PublishResult,
       PublishDead, Settle, PublishResultFails, PublishDeadFails, SettleIsLost, WeakTypeOK
  <2> QED BY <1>0, <2>1, <2>2, KnowsKept
<1>7. CASE Triage(e)
  <2> DEFINE v == envelope[Job(e)]
  <2>1. /\ pc'[e] = StageAfterTriage(v) /\ outcome'[e] = OutcomeAfterTriage(v)
        /\ envelope' = envelope
    BY <1>7 DEF Triage, Goto, WeakTypeOK
  <2>2. v \subseteq PoisonReasons \cup { "contract_violation" }
    BY ConstantsAssumption DEF WeakTypeOK, Defects
  <2>3. StageAfterTriage(v) = "calling" => v = {} /\ OutcomeAfterTriage(v) = "none"
    BY <2>2 DEF StageAfterTriage, OutcomeAfterTriage, IsPoison
  <2>4. StageAfterTriage(v) = "publishing" => ~IsPoison(v)
    BY DEF StageAfterTriage
  <2> QED BY <2>1, <2>3, <2>4, StageTyping DEF Knows
<1>8. CASE ProviderAccepts(e) \/ Answer(e)
  <2>1. ~IsPoison({})
    BY DEF IsPoison
  <2>2. envelope'[Job(e)] = {}
    BY <1>0, <1>8 DEF ProviderAccepts, Answer, Knows
  <2>3. CASE ProviderAccepts(e)
    <3>1. pc'[e] = "taken" /\ outcome'[e] = "none"
      BY <1>0, <2>3 DEF ProviderAccepts, Goto, Knows, WeakTypeOK
    <3> QED BY <3>1, <2>2 DEF Knows
  <2>4. CASE Answer(e)
    <3>1. pc'[e] = "publishing"
      BY <2>4 DEF Answer, Goto, WeakTypeOK
    <3>2. ~IsPoison(envelope'[Job(e)])
      BY <2>1, <2>2
    <3> QED BY <3>1, <3>2 DEF Knows, IsPoison
  <2> QED BY <1>8, <2>3, <2>4
<1>9. CASE PublishResult(e) \/ PublishResultFails(e)
  <2>1. outcome[e] \in OutcomeClasses /\ Attempt(e) \in Attempts /\ outcome' = outcome
    BY <1>9 DEF PublishResult, PublishResultFails, StageKnowledge
  <2>2. CASE PublishResult(e)
    <3>1. HasResult(e)'
      BY <2>1, <2>2 DEF PublishResult, HasResult, ResultEvent
    <3> QED BY <2>1, <2>2, <3>1, DispositionFacts DEF PublishResult, Goto, Knows, WeakTypeOK
  <2>3. CASE PublishResultFails(e)
    <3>1. FailedPublish(e, "result") \in failed'
      BY <2>3 DEF PublishResultFails
    <3> QED
      BY <2>1, <2>3, <3>1, DispositionFacts DEF PublishResultFails, Goto, Knows, WeakTypeOK,
         FailedPublish, IsTerminal, RetryBudgetSpent
  <2> QED BY <1>9, <2>2, <2>3
<1>10. CASE PublishDead(e)
  <2>1. DeadLetterExists(Job(e))'
    <3> DEFINE event == DeadEvent(e, DeadReason(e))
    <3>1. event \in dead'
      BY <1>10 DEF PublishDead
    <3>2. event.job = Job(e) /\ Job(e)' = Job(e)
      BY DEF DeadEvent, Job
    <3> HIDE DEF event
    <3> QED BY <3>1, <3>2 DEF DeadLetterExists
  <2> QED BY <1>10, <2>1 DEF PublishDead, Goto, Knows, WeakTypeOK
<1>11. CASE PublishDeadFails(e)
  <2>1. pc[e] = "dead_unpublished" => BothPublishesFailed(e)'
    BY <1>0, <1>11 DEF PublishDeadFails, Knows, BothPublishesFailed, FailedPublish
  <2> QED BY <1>11, <2>1 DEF PublishDeadFails, Finish, Goto, Knows, WeakTypeOK
<1>12. CASE Settle(e) \/ SettleIsLost(e)
  BY <1>0, <1>12 DEF Settle, SettleIsLost, SettledStage, SettleStages, Finish, Goto, Knows,
     WeakTypeOK
<1>13. CASE \E d \in Deliveries : Progress(d)
  BY <1>0, <1>13, KnowsKept DEF Progress
<1>14. CASE UNCHANGED vars
  BY <1>0, <1>14, KnowsKept DEF vars
<1> QED
  BY <1>1, <1>2, <1>3, <1>4, <1>5, <1>6, <1>7, <1>8, <1>9, <1>10, <1>11, <1>12, <1>13,
     <1>14 DEF Next, BrokerStep, LoopStep, ProcessFault, HandlerStep, HandlerFault

\* A result, a dead letter, or a delivery of the job both of whose publishes failed.
HasEvidence(j) ==
  HasRecord(j) \/ \E d \in Deliveries : Job(d) = j /\ BothPublishesFailed(d)

\* Evidence is never lost.
LEMMA EvidenceGrows ==
  ASSUME [Next]_vars, NEW j \in Jobs, HasEvidence(j)
  PROVE  HasEvidence(j)'
<1>1. HasRecord(j) => HasRecord(j)'
  BY EventsGrow DEF HasRecord
<1>2. \A d \in Deliveries : BothPublishesFailed(d) => BothPublishesFailed(d)'
  BY EventsGrow DEF BothPublishesFailed, FailedPublish, Job, Attempt
<1>3. \A d : Job(d)' = Job(d)
  BY DEF Job
<1> QED BY <1>1, <1>2, <1>3 DEF HasEvidence, Deliveries

\* Only an ack or a term takes a message out of the stream.
LEMMA RemovedBySettlement ==
  ASSUME WeakTypeOK, [Next]_vars, NEW j \in Jobs, msg'[j] = "removed", msg[j] # "removed"
  PROVE  \E d \in Deliveries : Job(d) = j /\ pc[d] \in { "ack", "term" }
<1> USE DeliveryFacts DEF external, history
<1>1. CASE \E k \in Jobs : BrokerStep(k)
  BY <1>1 DEF BrokerStep, Deliver, TimerFires, GiveUp, WeakTypeOK
<1>2. CASE LoopStep \/ ProcessFault
  BY <1>2 DEF LoopStep, Poll, Acquire, Rebuild, Restart, ProcessFault, StreamError,
     RebuildFails, Crash, RestartFails
<1>3. ASSUME NEW d \in Deliveries, Settle(d)
      PROVE  Job(d) = j /\ pc[d] \in { "ack", "term" }
  BY <1>3 DEF Settle, SettleStages, MsgAfter, WeakTypeOK
<1>4. ASSUME NEW d \in Deliveries, ~Settle(d),
             HandlerStep(d) \/ HandlerFault(d) \/ ProviderAccepts(d) \/ Progress(d)
      PROVE  FALSE
  BY <1>4 DEF HandlerStep, HandlerFault, ProviderAccepts, Progress, Triage, Answer,
     PublishResult, PublishDead, PublishResultFails, PublishDeadFails, SettleIsLost,
     WeakTypeOK
<1>5. CASE UNCHANGED vars
  BY <1>5 DEF vars
<1> QED BY <1>1, <1>2, <1>3, <1>4, <1>5 DEF Next

\* A handler about to ack or term has the evidence.
LEMMA SettlementHasEvidence ==
  ASSUME NEW d \in Deliveries, Knows(d), pc[d] \in { "ack", "term" }
  PROVE  HasEvidence(Job(d))
<1>1. CASE pc[d] = "ack"
  <2>1. ResultEvent(d, outcome[d]) \in results
    BY <1>1 DEF Knows, HasResult
  <2>2. ResultEvent(d, outcome[d]).job = Job(d)
    BY DEF ResultEvent
  <2> HIDE DEF ResultEvent
  <2> QED BY <2>1, <2>2 DEF HasEvidence, HasRecord
<1>2. CASE pc[d] = "term"
  BY <1>2 DEF Knows, DeadLetterExists, HasEvidence, HasRecord
<1> QED BY <1>1, <1>2

SettledOrGone == { "term", "termed", "unsettled", "lost" }

\* A handler past its dead letter stays there with the outcome it had.
LEMMA GoneStaysGone ==
  ASSUME WeakTypeOK, StageKnowledge, Lifecycle, [Next]_vars,
         NEW d \in Deliveries, pc[d] \in SettledOrGone
  PROVE  pc'[d] \in SettledOrGone /\ outcome'[d] = outcome[d]
<1> USE DeliveryFacts, ConstantFacts DEF external, history, SettledOrGone
<1>1. CASE \E j \in Jobs : Deliver(j)
  <2> PICK j \in Jobs : Deliver(j)
    BY <1>1
  <2> DEFINE n == <<j, delivered[j] + 1>>
  <2>1. n \in Deliveries /\ pc[n] = "undelivered"
    BY NextDelivery
  <2>2. outcome' = outcome /\ pc' = [pc EXCEPT ![n] = "queued"]
    BY DEF Deliver
  <2> QED BY <2>1, <2>2 DEF WeakTypeOK
<1>2. CASE \E j \in Jobs : TimerFires(j) \/ GiveUp(j)
  BY <1>2 DEF TimerFires, GiveUp
<1>3. CASE Acquire
  <2>1. Head(inbox) \in Deliveries /\ pc[Head(inbox)] = "queued"
    BY <1>3 DEF Acquire, StageKnowledge, WeakTypeOK, Lifecycle
  <2> QED BY <1>3, <2>1 DEF Acquire, WeakTypeOK
<1>4. CASE Poll \/ Rebuild \/ Restart \/ ProcessFault
  BY <1>4 DEF Poll, Rebuild, Restart, ProcessFault, StreamError, RebuildFails, Crash,
     RestartFails, Live
<1>5. ASSUME NEW e \in Deliveries, HandlerStep(e) \/ HandlerFault(e) \/ ProviderAccepts(e)
      PROVE  pc'[d] \in SettledOrGone /\ outcome'[d] = outcome[d]
  <2>1. CASE e = d
    BY <1>5, <2>1 DEF HandlerStep, HandlerFault, ProviderAccepts, Triage, Answer,
       PublishResult, PublishDead, PublishResultFails, PublishDeadFails, Settle,
       SettleIsLost, DeadStages, SettledStage, SettleStages, Finish, Goto, WeakTypeOK
  <2>2. CASE e # d
    <3>1. pc'[d] = pc[d]
      BY <1>5, <2>2, OthersStay
    <3>2. outcome'[d] = outcome[d]
      BY <1>5, <2>2 DEF HandlerStep, HandlerFault, ProviderAccepts, Triage, Answer,
         PublishResult, PublishDead, PublishResultFails, PublishDeadFails, Settle,
         SettleIsLost, WeakTypeOK
    <3> QED BY <3>1, <3>2
  <2> QED BY <2>1, <2>2
<1>6. CASE \E e \in Deliveries : Progress(e)
  BY <1>6 DEF Progress
<1>7. CASE UNCHANGED vars
  BY <1>7 DEF vars
<1> QED
  BY <1>1, <1>2, <1>3, <1>4, <1>5, <1>6, <1>7 DEF Next, BrokerStep, LoopStep

\* What a step adds to the dead-letter stream, the result stream and the acceptances.
LEMMA NewEvents ==
  ASSUME WeakTypeOK, StageKnowledge, [Next]_vars
  PROVE  /\ \A e \in dead' : e \in dead \/ \E d \in Deliveries :
              /\ e = DeadEvent(d, DeadReason(d)) /\ pc[d] \in DeadStages
              /\ pc'[d] \in SettledOrGone /\ outcome'[d] = outcome[d]
         /\ \A r \in results' : r \in results \/ \E d \in Deliveries :
              pc[d] = "publishing" /\ r.job = Job(d)
         /\ \A d \in accepted' : d \in accepted \/ pc[d] = "calling"
<1> USE DEF external, history
<1>1. CASE \E j \in Jobs : BrokerStep(j)
  BY <1>1 DEF BrokerStep, Deliver, TimerFires, GiveUp
<1>2. CASE LoopStep \/ ProcessFault
  BY <1>2 DEF LoopStep, Poll, Acquire, Rebuild, Restart, ProcessFault, StreamError,
     RebuildFails, Crash, RestartFails
<1>3. ASSUME NEW d \in Deliveries, PublishDead(d) \/ PublishDeadFails(d)
      PROVE  /\ dead' \subseteq dead \cup { DeadEvent(d, DeadReason(d)) }
             /\ pc[d] \in DeadStages /\ pc'[d] \in SettledOrGone
             /\ UNCHANGED <<results, accepted, outcome>>
  BY <1>3 DEF PublishDead, PublishDeadFails, Finish, Goto, SettledOrGone, WeakTypeOK
<1>4. ASSUME NEW d \in Deliveries, PublishResult(d) \/ PublishResultFails(d)
      PROVE  /\ results' \subseteq results \cup { ResultEvent(d, outcome[d]) }
             /\ pc[d] = "publishing"
             /\ UNCHANGED <<dead, accepted>>
  BY <1>4 DEF PublishResult, PublishResultFails
<1>5. ASSUME NEW d \in Deliveries, ProviderAccepts(d)
      PROVE  accepted' = accepted \cup { d } /\ pc[d] = "calling" /\ UNCHANGED <<dead, results>>
  BY <1>5 DEF ProviderAccepts
<1>6. ASSUME NEW d \in Deliveries,
             Triage(d) \/ Answer(d) \/ Settle(d) \/ SettleIsLost(d) \/ Progress(d)
      PROVE  UNCHANGED <<dead, results, accepted>>
  BY <1>6 DEF Triage, Answer, Settle, SettleIsLost, Progress
<1>7. CASE UNCHANGED vars
  BY <1>7 DEF vars
<1>8. \A d \in Deliveries : ResultEvent(d, outcome[d]).job = Job(d)
  BY DEF ResultEvent
<1> QED
  BY <1>1, <1>2, <1>3, <1>4, <1>5, <1>6, <1>7, <1>8
     DEF Next, HandlerStep, HandlerFault

\* The dead letter a handler publishes is truthful.
LEMMA NewDeadLetterIsTruthful ==
  ASSUME WeakTypeOK, StageKnowledge, NEW d \in Deliveries, Knows(d), pc[d] \in DeadStages
  PROVE  LET reason == DeadReason(d) IN
         /\ reason = ExhaustedReason => RetryBudgetSpent(d) /\ HasResult(d)
         /\ reason = UnpublishedReason =>
              /\ FailedPublish(d, "result") \in failed
              /\ IsTerminal(outcome[d]) \/ RetryBudgetSpent(d)
         /\ reason \in PoisonReasons =>
              IsFirstFailingCheck(reason, envelope[Job(d)])
<1>1. /\ PoisonReasons = { "payload_too_large", "invalid_envelope_json",
                           "unsupported_envelope_schema", "envelope_authentication_failed" }
  BY DEF PoisonReasons, TriageChecks
<1>2. ExhaustedReason \notin PoisonReasons /\ UnpublishedReason \notin PoisonReasons
  BY <1>1 DEF ExhaustedReason, UnpublishedReason
<1>3. CASE pc[d] = "dead_poison"
  <2>1. IsPoison(envelope[Job(d)])
    BY <1>3 DEF StageKnowledge
  <2>2. DeadReason(d) = TriageReason(envelope[Job(d)])
    BY <1>3 DEF DeadReason
  <2>3. DeadReason(d) \in PoisonReasons /\ IsFirstFailingCheck(DeadReason(d), envelope[Job(d)])
    BY <2>1, <2>2, TriageReasonIsPoison
  <2> QED BY <1>2, <2>3
<1>4. CASE pc[d] = "dead_exhausted"
  BY <1>2, <1>4 DEF DeadReason, Knows, ExhaustedReason, UnpublishedReason, RetryBudgetSpent
<1>5. CASE pc[d] = "dead_unpublished"
  BY <1>2, <1>5 DEF DeadReason, Knows, ExhaustedReason, UnpublishedReason
<1> QED BY <1>3, <1>4, <1>5 DEF DeadStages

\* JetStream's delivery counters never go down.
LEMMA DeliveredGrows ==
  ASSUME WeakTypeOK, [Next]_vars, NEW j \in Jobs
  PROVE  delivered'[j] >= delivered[j]
<1> USE ConstantFacts DEF external, history
<1>1. delivered[j] \in Nat
  BY DEF WeakTypeOK
<1>2. CASE \E k \in Jobs : Deliver(k)
  BY <1>1, <1>2 DEF Deliver, WeakTypeOK
<1>3. CASE \/ UNCHANGED vars
           \/ LoopStep \/ ProcessFault
           \/ \E k \in Jobs : TimerFires(k) \/ GiveUp(k)
           \/ \E d \in Deliveries : Progress(d)
  BY <1>1, <1>3 DEF vars, LoopStep, Poll, Acquire, Rebuild, Restart, ProcessFault,
     StreamError, RebuildFails, Crash, RestartFails, TimerFires, GiveUp, Progress
<1>4. CASE \E d \in Deliveries : HandlerStep(d) \/ HandlerFault(d) \/ ProviderAccepts(d)
  BY <1>1, <1>4 DEF HandlerStep, HandlerFault, ProviderAccepts, Triage, Answer,
     PublishResult, PublishDead, PublishResultFails, PublishDeadFails, Settle, SettleIsLost
<1> QED BY <1>2, <1>3, <1>4 DEF Next, BrokerStep

\* The stored events keep telling the truth.
LEMMA EvidenceStep ==
  ASSUME WeakTypeOK, StageKnowledge, Lifecycle, \A d \in Deliveries : Knows(d), Evidence,
         [Next]_vars
  PROVE  Evidence'
<1> USE DeliveryFacts
<1>1. SettledHasRecord'
  <2> SUFFICES ASSUME NEW j \in Jobs, msg'[j] = "removed" PROVE HasEvidence(j)'
    BY DEF SettledHasRecord, HasEvidence
  <2>1. HasEvidence(j)
    BY RemovedBySettlement, SettlementHasEvidence DEF Evidence, SettledHasRecord, HasEvidence
  <2> QED BY <2>1, EvidenceGrows
<1>2. /\ DeadLetterIsTruthful'
      /\ \A e \in dead' : pc'[<<e.job, e.attempt>>] \in SettledOrGone
  <2> SUFFICES ASSUME NEW e \in dead'
               PROVE  LET d == <<e.job, e.attempt>> IN
                      /\ pc'[d] \in SettledOrGone
                      /\ e.reason = ExhaustedReason => RetryBudgetSpent(d)' /\ HasResult(d)'
                      /\ e.reason = UnpublishedReason =>
                           /\ FailedPublish(d, "result") \in failed'
                           /\ IsTerminal(outcome[d])' \/ RetryBudgetSpent(d)'
                      /\ e.reason \in PoisonReasons =>
                           IsFirstFailingCheck(e.reason, envelope'[e.job])
    BY DEF DeadLetterIsTruthful, FailedPublish, Job, Attempt, IsRetryable, IsTerminal,
       RetryBudgetSpent, IsFirstFailingCheck
  <2> DEFINE d == <<e.job, e.attempt>>
  <2>1. ASSUME outcome'[d] = outcome[d], HasResult(d)
        PROVE  HasResult(d)'
    BY <2>1, EventsGrow DEF HasResult, ResultEvent, Job, Attempt
  <2>k. ASSUME outcome'[d] = outcome[d]
        PROVE  /\ RetryBudgetSpent(d) => RetryBudgetSpent(d)'
               /\ IsTerminal(outcome[d]) => IsTerminal(outcome[d])'
    BY <2>k DEF RetryBudgetSpent, IsTerminal, IsRetryable, Attempt
  <2>2. CASE e \in dead
    <3>1. d \in Deliveries
      BY <2>2 DEF WeakTypeOK, Deliveries
    <3>2. pc[d] \in SettledOrGone
      BY <2>2 DEF Evidence, SettledOrGone
    <3>3. pc'[d] \in SettledOrGone /\ outcome'[d] = outcome[d]
      BY <3>1, <3>2, GoneStaysGone
    <3> QED BY <2>1, <2>k, <2>2, <3>3, EventsGrow DEF Evidence, DeadLetterIsTruthful
  <2>3. CASE e \notin dead
    <3>1. PICK n \in Deliveries :
            /\ e = DeadEvent(n, DeadReason(n)) /\ pc[n] \in DeadStages
            /\ pc'[n] \in SettledOrGone /\ outcome'[n] = outcome[n]
      BY <2>3, NewEvents
    <3>2. e.job = Job(n) /\ e.attempt = Attempt(n) /\ e.reason = DeadReason(n)
      BY <3>1 DEF DeadEvent
    <3>3. d = n
      BY <3>2 DEF Deliveries, Job, Attempt
    <3>4. Knows(n)
      OBVIOUS
    <3> QED BY <2>1, <2>k, <3>1, <3>2, <3>3, <3>4, NewDeadLetterIsTruthful, EventsGrow
  <2> QED BY <2>2, <2>3
<1>3. PoisonIsIsolated'
  <2>1. \A d \in accepted' : envelope'[Job(d)] = {}
    <3> SUFFICES ASSUME NEW d \in accepted' PROVE envelope'[Job(d)] = {}
      OBVIOUS
    <3>1. CASE d \in accepted
      BY <3>1, EventsGrow DEF Evidence, PoisonIsIsolated
    <3>2. CASE d \notin accepted
      <4>1. d \in Deliveries /\ pc[d] = "calling"
        BY <3>2, NewEvents, TypesStep DEF WeakTypeOK
      <4> QED BY <4>1, EventsGrow DEF Knows
    <3> QED BY <3>1, <3>2
  <2>2. \A r \in results' : ~IsPoison(envelope'[r.job])
    BY NewEvents, EventsGrow DEF Evidence, PoisonIsIsolated, Knows
  <2> QED BY <2>1, <2>2 DEF PoisonIsIsolated, Job, IsPoison
<1>4. \A d \in accepted' : delivered'[Job(d)] >= Attempt(d)
  <2> SUFFICES ASSUME NEW d \in accepted' PROVE delivered'[Job(d)] >= Attempt(d)
    OBVIOUS
  <2>1. d \in Deliveries /\ delivered[Job(d)] \in Nat /\ delivered'[Job(d)] \in Nat
        /\ Attempt(d) \in Nat
    BY ConstantFacts, TypesStep DEF WeakTypeOK
  <2>2. delivered[Job(d)] >= Attempt(d)
    BY <2>1, NewEvents DEF Evidence, Lifecycle
  <2> QED BY <2>1, <2>2, DeliveredGrows
<1> QED BY <1>1, <1>2, <1>3, <1>4 DEF Evidence, SettledOrGone, Job, Attempt

-----------------------------------------------------------------------------
(* Permits *)

\* There are finitely many deliveries, so handlers can be counted.
LEMMA HoldersFinite == IsFiniteSet(PermitHolders)
<1>1. IsFiniteSet(Attempts)
  BY FS_Interval, ConstantFacts DEF Attempts
<1>2. IsFiniteSet(Deliveries)
  BY <1>1, ConstantFacts, FS_Product DEF Deliveries
<1> QED BY <1>2, FS_Subset DEF PermitHolders

\* A permit is taken by the handler that starts and returned by the one that finishes.
LEMMA PermitsStep ==
  ASSUME WeakTypeOK, StageKnowledge, Lifecycle, PermitsConserved, [Next]_vars
  PROVE  PermitsConserved'
<1> USE DeliveryFacts, ConstantFacts DEF external, history
<1> DEFINE held == Cardinality(PermitHolders)
<1>1. held \in Nat /\ permits + held = MaxConcurrency /\ permits \in Nat
  BY HoldersFinite, FS_CardinalityType DEF PermitsConserved, PermitHolders, WeakTypeOK
<1> SUFFICES permits' + Cardinality(PermitHolders') = MaxConcurrency
  BY DEF PermitsConserved, PermitHolders
<1>2. ASSUME permits' = permits,
             \A d \in Deliveries : pc'[d] \in HandlerStages <=> pc[d] \in HandlerStages
      PROVE  permits' + Cardinality(PermitHolders') = MaxConcurrency
  <2>1. PermitHolders' = PermitHolders
    BY <1>2 DEF PermitHolders, InHandler
  <2> QED BY <1>1, <1>2, <2>1
<1>3. CASE \E j \in Jobs : Deliver(j)
  <2> PICK j \in Jobs : Deliver(j)
    BY <1>3
  <2> DEFINE d == <<j, delivered[j] + 1>>
  <2>1. d \in Deliveries /\ pc[d] = "undelivered"
    BY NextDelivery
  <2>2. permits' = permits /\ pc' = [pc EXCEPT ![d] = "queued"]
    BY DEF Deliver
  <2>3. "queued" \notin HandlerStages /\ "undelivered" \notin HandlerStages
    BY DEF HandlerStages, DeadStages, SettleStages
  <2> QED BY <2>1, <2>2, <2>3, <1>2 DEF WeakTypeOK
<1>4. CASE \/ \E j \in Jobs : TimerFires(j) \/ GiveUp(j)
           \/ Poll \/ Rebuild \/ Restart \/ RebuildFails \/ RestartFails
           \/ \E d \in Deliveries : Progress(d)
           \/ UNCHANGED vars
  <2>1. permits' = permits /\ pc' = pc
    BY <1>4 DEF TimerFires, GiveUp, Poll, Rebuild, Restart, RebuildFails, RestartFails,
       Progress, vars
  <2> QED BY <2>1, <1>2
<1>5. CASE Acquire
  <2> DEFINE h == Head(inbox)
  <2>1. h \in Deliveries /\ pc[h] = "queued"
    BY <1>5 DEF Acquire, StageKnowledge, WeakTypeOK, Lifecycle
  <2>2. permits' = permits - 1 /\ pc' = [pc EXCEPT ![h] = "spawned"]
    BY <1>5 DEF Acquire
  <2>3. h \notin PermitHolders /\ PermitHolders' = PermitHolders \cup { h }
    BY <2>1, <2>2 DEF PermitHolders, InHandler, HandlerStages, DeadStages, SettleStages,
       WeakTypeOK
  <2>4. Cardinality(PermitHolders') = held + 1
    BY <2>3, HoldersFinite, FS_AddElement
  <2> QED BY <1>1, <2>2, <2>4
<1>6. CASE StreamError
  <2>1. permits' = permits
        /\ \A d \in Deliveries : pc'[d] = IF pc[d] = "queued" THEN "lost" ELSE pc[d]
    BY <1>6 DEF StreamError
  <2>2. "queued" \notin HandlerStages /\ "lost" \notin HandlerStages
    BY DEF HandlerStages, DeadStages, SettleStages
  <2> QED BY <2>1, <2>2, <1>2
<1>7. CASE Crash
  <2>1. permits' = MaxConcurrency
        /\ \A d \in Deliveries : pc'[d] = IF Live(d) THEN "lost" ELSE pc[d]
    BY <1>7 DEF Crash
  <2>2. "lost" \notin HandlerStages
    BY DEF HandlerStages, DeadStages, SettleStages
  <2>3. PermitHolders' = {}
    BY <2>1, <2>2 DEF PermitHolders, InHandler, Live, LiveStages
  <2>4. Cardinality(PermitHolders') = 0
    BY <2>3, FS_EmptySet
  <2> QED BY <2>1, <2>4
<1>8. ASSUME NEW d \in Deliveries, HandlerStep(d) \/ HandlerFault(d) \/ ProviderAccepts(d)
      PROVE  permits' + Cardinality(PermitHolders') = MaxConcurrency
  <2>1. PICK s \in (HandlerStages \cup FinishedStages) \ { "lost" } :
          /\ pc' = [pc EXCEPT ![d] = s]
          /\ permits' = IF s \in HandlerStages THEN permits ELSE permits + 1
    BY <1>8, HandlerMoves
  <2>2. pc[d] \in HandlerStages
    BY <1>8, HandlerMoves DEF InHandler
  <2>3. CASE s \in HandlerStages
    BY <1>2, <2>1, <2>2, <2>3 DEF WeakTypeOK
  <2>4. CASE s \notin HandlerStages
    <3>1. d \in PermitHolders /\ PermitHolders' = PermitHolders \ { d }
      BY <2>1, <2>2, <2>4 DEF PermitHolders, InHandler, WeakTypeOK
    <3>2. Cardinality(PermitHolders') = held - 1
      BY <3>1, HoldersFinite, FS_RemoveElement
    <3> QED BY <1>1, <2>1, <2>4, <3>2
  <2> QED BY <2>3, <2>4
<1> QED
  BY <1>3, <1>4, <1>5, <1>6, <1>7, <1>8 DEF Next, BrokerStep, LoopStep, ProcessFault

-----------------------------------------------------------------------------
(* Theorems *)

LEMMA InvStep == IngestionInv /\ [Next]_vars => IngestionInv'
<1> SUFFICES ASSUME IngestionInv, [Next]_vars PROVE IngestionInv'
  OBVIOUS
<1> USE DEF IngestionInv
<1>1. WeakTypeOK' /\ StageKnowledge'
  BY TypesStep
<1>2. Lifecycle'
  BY LifecycleStep
<1>3. \A d \in Deliveries : Knows(d)'
  BY KnowsStep
<1>4. Evidence'
  BY EvidenceStep
<1>5. PermitsConserved'
  BY PermitsStep
<1> QED BY <1>1, <1>2, <1>3, <1>4, <1>5 DEF Deliveries, Attempts

\* The invariant everything else follows from.
THEOREM IngestionInvariance == Spec => []IngestionInv
<1>1. Init => IngestionInv
  BY InvInit
<1>2. IngestionInv /\ [Next]_vars => IngestionInv'
  BY InvStep
<1> QED BY <1>1, <1>2, PTL DEF Spec

\* Every variable of the lane keeps its type: in particular the semaphore never holds more
\* than MaxConcurrency permits nor fewer than none.
THEOREM TypeCorrectness == Spec => []TypeOK
<1>1. IngestionInv => TypeOK
  <2> SUFFICES ASSUME IngestionInv PROVE TypeOK
    OBVIOUS
  <2>1. Cardinality(PermitHolders) \in Nat
    BY HoldersFinite, FS_CardinalityType
  <2>2. permits + Cardinality(PermitHolders) = MaxConcurrency /\ permits \in Nat
    BY DEF IngestionInv, PermitsConserved, PermitHolders, WeakTypeOK
  <2>3. permits \in 0..MaxConcurrency
    BY <2>1, <2>2, ConstantFacts
  <2> QED BY <2>3 DEF IngestionInv, WeakTypeOK, TypeOK
<1> QED BY <1>1, IngestionInvariance, PTL

\* No permit is lost and none is invented: the handlers in flight and the free permits
\* always make up MaxConcurrency.
THEOREM PermitConservation == Spec => []PermitsConserved
<1>1. IngestionInv => PermitsConserved
  BY DEF IngestionInv
<1> QED BY <1>1, IngestionInvariance, PTL

\* No message leaves the work queue without a result event or a dead letter, unless both
\* publishes failed for one of its deliveries.
THEOREM SettlementIsRecorded == Spec => []SettledHasRecord
<1>1. IngestionInv => SettledHasRecord
  BY DEF IngestionInv, Evidence
<1> QED BY <1>1, IngestionInvariance, PTL

\* A notification the provider accepted is delivered again only after a retryable answer,
\* a lost copy or settlement, or an ack-wait that ran out under a live handler.
THEOREM DuplicatesAreExcused == Spec => []DuplicateHasCause
<1>1. IngestionInv => DuplicateHasCause
  <2> SUFFICES ASSUME IngestionInv, NEW d \in accepted, delivered[Job(d)] > Attempt(d)
               PROVE  Excused(d)
    BY DEF DuplicateHasCause
  <2>1. d \in Deliveries
    BY DEF IngestionInv, WeakTypeOK
  <2>2. d \in overtaken \/ pc[d] \in { "naked", "lost", "unsettled" }
    BY <2>1 DEF IngestionInv, Lifecycle
  <2>3. pc[d] = "naked" => IsRetryable(outcome[d])
    BY <2>1 DEF IngestionInv, Knows
  <2> QED BY <2>2, <2>3 DEF Excused
<1> QED BY <1>1, IngestionInvariance, PTL

\* Neither a terminal outcome nor the last permitted delivery is ever NAKed.
THEOREM NaksAreWithinBudget == Spec => []NakOnlyWithinBudget
<1>1. IngestionInv => NakOnlyWithinBudget
  BY DEF IngestionInv, Knows, NakOnlyWithinBudget
<1> QED BY <1>1, IngestionInvariance, PTL

\* JetStream gives up on a job only under a live last delivery, or after that delivery was
\* lost or ended unsettled: each outcome handle_message can reach settles it.
THEOREM ExhaustionIsExcused == Spec => []ExhaustedHasCause
<1>1. IngestionInv => ExhaustedHasCause
  <2> SUFFICES ASSUME IngestionInv, NEW j \in Jobs, msg[j] = "exhausted"
               PROVE  LET last == <<j, MaxDeliver>> IN
                        Live(last) \/ pc[last] \in { "lost", "unsettled" }
    BY DEF ExhaustedHasCause
  <2> DEFINE last == <<j, MaxDeliver>>
  <2>1. last \in Deliveries /\ Job(last) = j /\ Attempt(last) = MaxDeliver
    BY DeliveryFacts, ConstantFacts DEF Attempts
  <2>2. delivered[j] = MaxDeliver
    BY DEF IngestionInv, Lifecycle
  <2>3. pc[last] \notin { "undelivered", "acked", "termed" }
    BY <2>1, <2>2, ConstantFacts DEF IngestionInv, Lifecycle
  <2>4. pc[last] # "naked"
    BY <2>1, ConstantFacts DEF IngestionInv, Knows
  <2>5. pc[last] \in Stages
    BY <2>1 DEF IngestionInv, WeakTypeOK
  <2> QED BY <2>3, <2>4, <2>5 DEF Live, Stages, FinishedStages
<1> QED BY <1>1, IngestionInvariance, PTL

\* The reason of a dead letter is the true one (nats_ingestion.rs:344-400), except that of a
\* retryable outcome on the last delivery whose result publish failed: it is called terminal.
THEOREM DeadLettersAreTruthful == Spec => []DeadLetterIsTruthful
<1>1. IngestionInv => DeadLetterIsTruthful
  BY DEF IngestionInv, Evidence
<1> QED BY <1>1, IngestionInvariance, PTL

\* No envelope that fails a check reaches a provider, on any delivery.
THEOREM PoisonStaysIsolated == Spec => []PoisonIsIsolated
<1>1. IngestionInv => PoisonIsIsolated
  BY DEF IngestionInv, Evidence
<1> QED BY <1>1, IngestionInvariance, PTL

-----------------------------------------------------------------------------
(* The lane implements the delivery contract: a step of it is a send, a     *)
(* report, the closing or the parking of a job.                             *)

LEMMA ContractInit == Init => Contract!Init
<1> SUFFICES ASSUME Init PROVE Contract!Init
  OBVIOUS
<1>1. JobStatus = [j \in Jobs |-> "open"]
  BY DEF Init, JobStatus
<1>2. RecordedJobs = {}
  BY DEF Init, RecordedJobs, HasRecord
<1>3. ForgivenJobs = {}
  BY DEF Init, ForgivenJobs, BothPublishesFailed
<1>4. ExcusedDeliveries = {}
  BY DEF Init, ExcusedDeliveries, Excused, IsRetryable, RetryableClasses
<1>5. accepted = {}
  BY DEF Init
<1> QED BY <1>1, <1>2, <1>3, <1>4, <1>5 DEF Contract!Init

\* Jobs stay recorded and forgiven.
LEMMA RecordsGrow ==
  [Next]_vars => RecordedJobs \subseteq RecordedJobs' /\ ForgivenJobs \subseteq ForgivenJobs'
<1> SUFFICES ASSUME [Next]_vars
             PROVE  RecordedJobs \subseteq RecordedJobs' /\ ForgivenJobs \subseteq ForgivenJobs'
  OBVIOUS
<1>1. \A j : HasRecord(j) => HasRecord(j)'
  BY EventsGrow DEF HasRecord
<1>2. \A d : BothPublishesFailed(d) => BothPublishesFailed(d)'
  BY EventsGrow DEF BothPublishesFailed, FailedPublish, Job, Attempt
<1> QED BY <1>1, <1>2 DEF RecordedJobs, ForgivenJobs, Deliveries, Attempts, Job

\* A delivery once excused stays excused: its handler has its outcome, is gone, or was
\* overtaken.
LEMMA ExcusesGrow ==
  ASSUME IngestionInv, [Next]_vars
  PROVE  ExcusedDeliveries \subseteq ExcusedDeliveries'
<1> USE DeliveryFacts DEF external, history, IngestionInv
<1> SUFFICES ASSUME NEW e \in Deliveries, Excused(e) PROVE Excused(e)'
  BY DEF ExcusedDeliveries, Deliveries, Attempts
<1>1. ASSUME outcome'[e] = outcome[e], overtaken \subseteq overtaken',
             pc[e] \in { "lost", "unsettled" } => pc'[e] \in { "lost", "unsettled" }
      PROVE  Excused(e)'
  BY <1>1 DEF Excused, IsRetryable
<1>2. CASE \E j \in Jobs : Deliver(j)
  <2> PICK j \in Jobs : Deliver(j)
    BY <1>2
  <2> DEFINE n == <<j, delivered[j] + 1>>
  <2>1. n \in Deliveries /\ pc[n] = "undelivered"
    BY NextDelivery
  <2>2. outcome' = outcome /\ pc' = [pc EXCEPT ![n] = "queued"]
        /\ overtaken \subseteq overtaken'
    BY DEF Deliver
  <2> QED BY <1>1, <2>1, <2>2 DEF WeakTypeOK
<1>3. CASE \E j \in Jobs : TimerFires(j) \/ GiveUp(j)
  BY <1>1, <1>3 DEF TimerFires, GiveUp
<1>4. CASE Acquire
  <2>1. Head(inbox) \in Deliveries /\ pc[Head(inbox)] = "queued"
    BY <1>4 DEF Acquire, StageKnowledge, WeakTypeOK, Lifecycle
  <2>2. outcome' = outcome /\ pc' = [pc EXCEPT ![Head(inbox)] = "spawned"]
        /\ overtaken' = overtaken
    BY <1>4 DEF Acquire
  <2> QED BY <1>1, <2>1, <2>2 DEF WeakTypeOK
<1>5. CASE Poll \/ Rebuild \/ Restart \/ ProcessFault
  BY <1>1, <1>5 DEF Poll, Rebuild, Restart, ProcessFault, StreamError, RebuildFails, Crash,
     RestartFails, Live
<1>6. ASSUME NEW d \in Deliveries, HandlerStep(d) \/ HandlerFault(d) \/ ProviderAccepts(d)
      PROVE  Excused(e)'
  <2>1. InHandler(d) /\ overtaken' = overtaken
    BY <1>6, HandlerMoves
  <2>2. pc[e] \in { "lost", "unsettled" } => pc'[e] = pc[e]
    <3>1. pc[d] \notin { "lost", "unsettled" }
      BY <2>1 DEF InHandler, HandlerStages, DeadStages, SettleStages
    <3> QED BY <1>6, <3>1, HandlerMoves DEF WeakTypeOK
  <2>3. CASE Triage(d) \/ Answer(d)
    <3>1. CASE d # e
      <4>1. outcome'[e] = outcome[e]
        BY <2>3, <3>1 DEF Triage, Answer, WeakTypeOK
      <4> QED BY <1>1, <2>1, <2>2, <4>1
    <3>2. CASE d = e
      <4>1. outcome[e] = "none" /\ pc[e] \notin { "lost", "unsettled" }
        BY <2>3, <3>2 DEF Triage, Answer, Knows
      <4>2. e \in overtaken
        BY <4>1 DEF Excused, IsRetryable, RetryableClasses
      <4> QED BY <2>1, <4>2 DEF Excused
    <3> QED BY <3>1, <3>2
  <2>4. CASE ~(Triage(d) \/ Answer(d))
    <3>1. outcome' = outcome
      BY <1>6, <2>4 DEF HandlerStep, HandlerFault, ProviderAccepts, PublishResult,
         PublishDead, Settle, PublishResultFails, PublishDeadFails, SettleIsLost
    <3> QED BY <1>1, <2>1, <2>2, <3>1
  <2> QED BY <2>3, <2>4
<1>7. CASE \E d \in Deliveries : Progress(d)
  BY <1>1, <1>7 DEF Progress
<1>8. CASE UNCHANGED vars
  BY <1>1, <1>8 DEF vars
<1> QED
  BY <1>2, <1>3, <1>4, <1>5, <1>6, <1>7, <1>8 DEF Next, BrokerStep, LoopStep

\* A step that moves no job and sends nothing is a report.
LEMMA QuietStepReports ==
  ASSUME IngestionInv, [Next]_vars, UNCHANGED <<JobStatus, accepted>>
  PROVE  Contract!Report
  BY RecordsGrow, ExcusesGrow DEF Contract!Report

\* A message that keeps its place in or out of the queue keeps the job's status.
LEMMA StatusKept ==
  ASSUME \A j \in Jobs : \/ msg'[j] = msg[j]
                         \/ { msg[j], msg'[j] } \cap { "removed", "exhausted" } = {}
  PROVE  JobStatus' = JobStatus
<1>1. \A j \in Jobs : JobStatus'[j] = JobStatus[j]
  BY DEF JobStatus
<1> QED BY <1>1 DEF JobStatus

\* A provider takes a notification: of two deliveries of one job that reached a provider,
\* the earlier is excused.
LEMMA AcceptanceIsSend ==
  ASSUME IngestionInv, [Next]_vars, NEW d \in Deliveries, ProviderAccepts(d)
  PROVE  Contract!Send(d)
<1> USE DeliveryFacts, ConstantFacts DEF external, history, IngestionInv
<1>1. \A e \in Deliveries : delivered[Job(e)] > Attempt(e) => e \in ExcusedDeliveries
  BY DEF Lifecycle, Knows, Excused, ExcusedDeliveries
<1>2. \A e \in accepted \cup { d } : e \in Deliveries /\ delivered[Job(e)] >= Attempt(e)
  BY DEF Lifecycle, Evidence, ProviderAccepts, WeakTypeOK
<1>3. ASSUME NEW e \in accepted, e[1] = d[1]
      PROVE  /\ e[2] < d[2] => e \in ExcusedDeliveries
             /\ e[2] > d[2] => d \in ExcusedDeliveries
  <2>1. delivered[Job(d)] \in Nat /\ Attempt(d) \in Nat /\ Attempt(e) \in Nat
    BY <1>2 DEF WeakTypeOK
  <2>2. /\ delivered[Job(d)] >= Attempt(e) /\ delivered[Job(e)] >= Attempt(d)
        /\ Job(e) = Job(d)
    BY <1>2, <1>3 DEF Job
  <2> QED BY <1>1, <1>2, <2>1, <2>2 DEF Attempt
<1>4. UNCHANGED <<JobStatus, RecordedJobs, ForgivenJobs>>
  BY DEF ProviderAccepts, JobStatus, RecordedJobs, HasRecord, ForgivenJobs,
     BothPublishesFailed, FailedPublish, Job, Attempt, Deliveries, Attempts
<1>5. ExcusedDeliveries' = ExcusedDeliveries
  <2>1. \A e \in Deliveries : pc[e] \in { "lost", "unsettled" } <=>
                             pc'[e] \in { "lost", "unsettled" }
    BY DEF ProviderAccepts, Goto, WeakTypeOK
  <2>2. outcome' = outcome /\ overtaken' = overtaken
    BY DEF ProviderAccepts
  <2>3. \A e \in Deliveries : Excused(e)' <=> Excused(e)
    BY <2>1, <2>2 DEF Excused, IsRetryable
  <2> QED BY <2>3 DEF ExcusedDeliveries, Deliveries, Attempts
<1> QED BY <1>3, <1>4, <1>5 DEF Contract!Send, ProviderAccepts

\* An ack or a term closes a job that has its evidence.
LEMMA SettlementCloses ==
  ASSUME IngestionInv, [Next]_vars, NEW d \in Deliveries, Settle(d), pc[d] \in { "ack", "term" }
  PROVE  Contract!Close(Job(d))
<1> USE DeliveryFacts DEF external, history, IngestionInv
<1>1. Job(d) \in RecordedJobs \cup ForgivenJobs
  <2>1. HasEvidence(Job(d))
    BY SettlementHasEvidence
  <2> QED BY <2>1 DEF HasEvidence, RecordedJobs, ForgivenJobs
<1>2. JobStatus' = [JobStatus EXCEPT ![Job(d)] = "closed"]
  <2>1. msg' = [msg EXCEPT ![Job(d)] = "removed"]
    BY DEF Settle, MsgAfter
  <2> QED BY <2>1 DEF JobStatus, WeakTypeOK
<1>3. UNCHANGED <<RecordedJobs, ForgivenJobs, accepted>>
  BY DEF Settle, RecordedJobs, HasRecord, ForgivenJobs, BothPublishesFailed, FailedPublish,
     Job, Attempt, Deliveries, Attempts
<1>4. ExcusedDeliveries' = ExcusedDeliveries
  <2>1. \A e \in Deliveries : pc[e] \in { "lost", "unsettled" } <=>
                             pc'[e] \in { "lost", "unsettled" }
    BY DEF Settle, SettledStage, Finish, Goto, WeakTypeOK
  <2>2. outcome' = outcome /\ overtaken' = overtaken
    BY DEF Settle
  <2>3. \A e \in Deliveries : Excused(e)' <=> Excused(e)
    BY <2>1, <2>2 DEF Excused, IsRetryable
  <2> QED BY <2>3 DEF ExcusedDeliveries, Deliveries, Attempts
<1> QED BY <1>1, <1>2, <1>3, <1>4 DEF Contract!Close

\* JetStream giving up on a job parks it.
LEMMA GivingUpParks ==
  ASSUME WeakTypeOK, NEW j \in Jobs, GiveUp(j)
  PROVE  Contract!Park(j)
<1> USE DEF external, history
<1>1. JobStatus[j] = "open" /\ JobStatus' = [JobStatus EXCEPT ![j] = "parked"]
  BY DEF GiveUp, JobStatus, WeakTypeOK
<1>2. UNCHANGED <<RecordedJobs, ForgivenJobs, ExcusedDeliveries, accepted>>
  BY DEF GiveUp, RecordedJobs, HasRecord, ForgivenJobs, BothPublishesFailed, FailedPublish,
     ExcusedDeliveries, Excused, IsRetryable, Job, Attempt, Deliveries, Attempts
<1> QED BY <1>1, <1>2 DEF Contract!Park

LEMMA ContractStep ==
  ASSUME IngestionInv, [Next]_vars
  PROVE  [Contract!Next]_Contract!contractVars
<1> USE DEF external, history
<1> SUFFICES Contract!Next
  OBVIOUS
<1>1. ASSUME UNCHANGED <<msg, accepted>>
      PROVE  Contract!Next
  BY <1>1, StatusKept, QuietStepReports DEF Contract!Next
<1>2. ASSUME NEW j \in Jobs, GiveUp(j)
      PROVE  Contract!Next
  BY <1>2, GivingUpParks DEF Contract!Next, IngestionInv
<1>3. ASSUME NEW j \in Jobs, Deliver(j) \/ TimerFires(j)
      PROVE  Contract!Next
  <2>1. accepted' = accepted
    BY <1>3 DEF Deliver, TimerFires
  <2>2. JobStatus' = JobStatus
    BY <1>3, StatusKept DEF Deliver, TimerFires, IngestionInv, WeakTypeOK
  <2> QED BY <2>1, <2>2, QuietStepReports DEF Contract!Next
<1>4. CASE LoopStep \/ ProcessFault
  BY <1>1, <1>4 DEF LoopStep, Poll, Acquire, Rebuild, Restart, ProcessFault, StreamError,
     RebuildFails, Crash, RestartFails
<1>5. ASSUME NEW d \in Deliveries, ProviderAccepts(d)
      PROVE  Contract!Next
  BY <1>5, AcceptanceIsSend DEF Contract!Next, Contract!Deliveries, Deliveries, Attempts
<1>6. ASSUME NEW d \in Deliveries, Settle(d)
      PROVE  Contract!Next
  <2>1. CASE pc[d] \in { "ack", "term" }
    BY <1>6, <2>1, SettlementCloses, DeliveryFacts DEF Contract!Next
  <2>2. CASE pc[d] \notin { "ack", "term" }
    <3>1. accepted' = accepted /\ msg' = [msg EXCEPT ![Job(d)] = MsgAfter("nak", @)]
      BY <1>6, <2>2 DEF Settle, SettleStages
    <3>2. JobStatus' = JobStatus
      BY <3>1, StatusKept, DeliveryFacts DEF MsgAfter, IngestionInv, WeakTypeOK
    <3> QED BY <3>1, <3>2, QuietStepReports DEF Contract!Next
  <2> QED BY <2>1, <2>2
<1>7. ASSUME NEW d \in Deliveries, Progress(d)
      PROVE  Contract!Next
  <2>1. accepted' = accepted
    BY <1>7 DEF Progress
  <2>2. JobStatus' = JobStatus
    BY <1>7, StatusKept DEF Progress, IngestionInv, WeakTypeOK
  <2> QED BY <2>1, <2>2, QuietStepReports DEF Contract!Next
<1>8. ASSUME NEW d \in Deliveries, HandlerStep(d) \/ HandlerFault(d), ~Settle(d)
      PROVE  Contract!Next
  BY <1>1, <1>8 DEF HandlerStep, HandlerFault, Triage, Answer, PublishResult, PublishDead,
     PublishResultFails, PublishDeadFails, SettleIsLost
<1>9. CASE UNCHANGED vars
  BY <1>1, <1>9 DEF vars
<1> QED
  BY <1>2, <1>3, <1>4, <1>5, <1>6, <1>7, <1>8, <1>9 DEF Next, BrokerStep

\* Every behaviour of the durable push lane is one the delivery contract allows: jobs leave
\* the queue with evidence only, and a user is notified again only for a known excuse.
THEOREM LaneImplementsContract == Spec => ImplementsContract
<1>1. Init => Contract!Init
  BY ContractInit
<1>2. IngestionInv /\ [Next]_vars => [Contract!Next]_Contract!contractVars
  BY ContractStep
<1> QED BY <1>1, <1>2, IngestionInvariance, PTL DEF Spec, ImplementsContract, Contract!Spec

-----------------------------------------------------------------------------
(* Progress.  What is below is safety: no step undoes work, and the work that is left for  *)
(* every job is finite.  With the fairness of FairSpec it is why EveryJobResolved holds.   *)

\* how far a copy of a job has come
Rank(stage) ==
  CASE stage = "undelivered"    -> 0
    [] stage = "queued"         -> 1
    [] stage = "spawned"        -> 2
    [] stage = "calling"        -> 3
    [] stage = "taken"          -> 4
    [] stage = "publishing"     -> 5
    [] stage \in DeadStages     -> 6
    [] stage \in SettleStages   -> 7
    [] stage \in FinishedStages -> 8

\* Each step of a copy takes it further: it is handled once and never comes back.
CopiesMoveOn == \A d \in Deliveries : pc'[d] = pc[d] \/ Rank(pc[d]) < Rank(pc'[d])

\* A message is never counted down, and one that was settled or given up draws no delivery.
MessagesMoveOn ==
  \A j \in Jobs :
    /\ delivered'[j] \in { delivered[j], delivered[j] + 1 }
    /\ msg[j] \in { "exhausted", "removed" } =>
         /\ msg'[j] \in { msg[j], "removed" }
         /\ delivered'[j] = delivered[j]

LEMMA RankOfStages ==
  /\ Rank("undelivered") = 0 /\ Rank("queued") = 1 /\ Rank("spawned") = 2
  /\ Rank("calling") = 3 /\ Rank("taken") = 4 /\ Rank("publishing") = 5
  /\ \A s \in DeadStages : Rank(s) = 6
  /\ \A s \in SettleStages : Rank(s) = 7
  /\ \A s \in FinishedStages : Rank(s) = 8
  BY DEF Rank, DeadStages, SettleStages, FinishedStages

\* A handler's own steps lead on from stage to stage.
LEMMA HandlersMoveOn ==
  ASSUME WeakTypeOK, NEW d \in Deliveries,
         HandlerStep(d) \/ HandlerFault(d) \/ ProviderAccepts(d)
  PROVE  Rank(pc[d]) < Rank(pc'[d])
<1> USE RankOfStages DEF Goto, Finish
<1>1. CASE Triage(d)
  <2>1. pc[d] = "spawned" /\ pc'[d] \in { "dead_poison", "publishing", "calling" }
    BY <1>1, StageTyping DEF Triage, WeakTypeOK
  <2> QED BY <2>1 DEF DeadStages
<1>2. CASE ProviderAccepts(d) \/ Answer(d)
  BY <1>2 DEF ProviderAccepts, Answer, WeakTypeOK
<1>3. CASE PublishResult(d) \/ PublishResultFails(d)
  <2>1. pc[d] = "publishing" /\ pc'[d] \in SettleStages \cup DeadStages
    BY <1>3, StageTyping DEF PublishResult, PublishResultFails, WeakTypeOK, SettleStages,
       DeadStages
  <2> QED BY <2>1
<1>4. CASE PublishDead(d) \/ PublishDeadFails(d)
  <2>1. pc[d] \in DeadStages /\ pc'[d] \in { "term", "unsettled" }
    BY <1>4 DEF PublishDead, PublishDeadFails, WeakTypeOK
  <2> QED BY <2>1 DEF SettleStages, FinishedStages
<1>5. CASE Settle(d) \/ SettleIsLost(d)
  <2>1. pc[d] \in SettleStages /\ pc'[d] \in { "acked", "naked", "termed", "unsettled" }
    BY <1>5 DEF Settle, SettleIsLost, SettledStage, SettleStages, WeakTypeOK
  <2> QED BY <2>1 DEF FinishedStages
<1> QED BY <1>1, <1>2, <1>3, <1>4, <1>5 DEF HandlerStep, HandlerFault

LEMMA CopiesStep == IngestionInv /\ [Next]_vars => CopiesMoveOn
<1> SUFFICES ASSUME IngestionInv, [Next]_vars, NEW d \in Deliveries
             PROVE  pc'[d] = pc[d] \/ Rank(pc[d]) < Rank(pc'[d])
  BY DEF CopiesMoveOn
<1>0. WeakTypeOK /\ StageKnowledge /\ Lifecycle
  BY DEF IngestionInv
<1>1. CASE \E j \in Jobs : Deliver(j)
  <2> PICK j \in Jobs : Deliver(j)
    BY <1>1
  <2> DEFINE n == <<j, delivered[j] + 1>>
  <2>1. n \in Deliveries /\ pc[n] = "undelivered"
    BY <1>0, NextDelivery
  <2>2. pc' = [pc EXCEPT ![n] = "queued"]
    BY DEF Deliver
  <2> HIDE DEF n
  <2>3. pc'[n] = "queued" /\ (d # n => pc'[d] = pc[d])
    BY <1>0, <2>1, <2>2 DEF WeakTypeOK
  <2> QED BY <2>1, <2>3, RankOfStages
<1>2. CASE Acquire
  <2>1. Head(inbox) \in Deliveries /\ pc[Head(inbox)] = "queued"
    BY <1>0, <1>2 DEF Acquire, StageKnowledge, WeakTypeOK, Lifecycle
  <2> QED BY <1>0, <1>2, <2>1, RankOfStages DEF Acquire, WeakTypeOK
<1>3. CASE ProcessFault
  <2>1. pc'[d] = pc[d] \/ (Live(d) /\ pc'[d] = "lost")
    BY <1>3 DEF ProcessFault, StreamError, RebuildFails, Crash, RestartFails, Live, LiveStages
  <2>2. Live(d) => Rank(pc[d]) < 8
    BY RankOfStages DEF Live, LiveStages, HandlerStages
  <2> QED BY <2>1, <2>2, RankOfStages DEF FinishedStages
<1>4. ASSUME NEW e \in Deliveries, HandlerStep(e) \/ HandlerFault(e) \/ ProviderAccepts(e)
      PROVE  pc'[d] = pc[d] \/ Rank(pc[d]) < Rank(pc'[d])
  BY <1>0, <1>4, HandlersMoveOn, OthersStay
<1>5. CASE \/ \E j \in Jobs : TimerFires(j) \/ GiveUp(j)
           \/ Poll \/ Rebuild \/ Restart \/ UNCHANGED vars
           \/ \E e \in Deliveries : Progress(e)
  BY <1>5 DEF TimerFires, GiveUp, Poll, Rebuild, Restart, Progress, vars
<1> QED BY <1>1, <1>2, <1>3, <1>4, <1>5 DEF Next, BrokerStep, LoopStep

LEMMA MessagesStep == IngestionInv /\ [Next]_vars => MessagesMoveOn
<1> SUFFICES ASSUME IngestionInv, [Next]_vars, NEW j \in Jobs
             PROVE  /\ delivered'[j] \in { delivered[j], delivered[j] + 1 }
                    /\ msg[j] \in { "exhausted", "removed" } =>
                         /\ msg'[j] \in { msg[j], "removed" }
                         /\ delivered'[j] = delivered[j]
  BY DEF MessagesMoveOn
<1>0. WeakTypeOK
  BY DEF IngestionInv
<1> USE DEF external, history
<1>1. CASE \E k \in Jobs : Deliver(k)
  BY <1>0, <1>1 DEF Deliver, WeakTypeOK
<1>2. CASE \E k \in Jobs : TimerFires(k) \/ GiveUp(k)
  BY <1>0, <1>2 DEF TimerFires, GiveUp, WeakTypeOK
<1>3. CASE LoopStep \/ ProcessFault \/ UNCHANGED vars
  BY <1>3 DEF LoopStep, Poll, Acquire, Rebuild, Restart, ProcessFault, StreamError,
     RebuildFails, Crash, RestartFails, vars
<1>4. ASSUME NEW d \in Deliveries, Settle(d)
      PROVE  /\ delivered' = delivered
             /\ msg[j] \in { "exhausted", "removed" } => msg'[j] \in { msg[j], "removed" }
  BY <1>0, <1>4 DEF Settle, MsgAfter, WeakTypeOK
<1>5. ASSUME NEW d \in Deliveries, Progress(d)
      PROVE  /\ delivered' = delivered
             /\ msg[j] \in { "exhausted", "removed" } => msg'[j] = msg[j]
  BY <1>0, <1>5 DEF Progress, WeakTypeOK
<1>6. ASSUME NEW d \in Deliveries,
             \/ Triage(d) \/ Answer(d) \/ PublishResult(d) \/ PublishDead(d)
             \/ HandlerFault(d) \/ ProviderAccepts(d)
      PROVE  UNCHANGED <<msg, delivered>>
  BY <1>6 DEF Triage, Answer, PublishResult, PublishDead, HandlerFault, PublishResultFails,
     PublishDeadFails, SettleIsLost, ProviderAccepts
<1> QED BY <1>1, <1>2, <1>3, <1>4, <1>5, <1>6 DEF Next, BrokerStep, HandlerStep

\* No step of the lane undoes work, not a crash either: a copy of a job is handled at most
\* once, from receipt to settlement in at most seven steps, the delivery counter only counts
\* up to its budget, and JetStream hands out nothing more of a message that left the queue.
THEOREM WorkMovesOn == Spec => [][CopiesMoveOn /\ MessagesMoveOn]_vars
BY IngestionInvariance, CopiesStep, MessagesStep, PTL DEF Spec
=============================================================================
