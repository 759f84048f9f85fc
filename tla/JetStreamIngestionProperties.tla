-------------------- MODULE JetStreamIngestionProperties --------------------
(***************************************************************************)
(* What must hold of the durable push lane, and what its documentation     *)
(* says of it that does not.                                               *)
(***************************************************************************)
EXTENDS JetStreamIngestion

\* The one type invariant of the lane.
TypeOK ==
  /\ envelope \in [Jobs -> Envelopes]
  /\ msg \in [Jobs -> MsgStates]
  /\ delivered \in [Jobs -> 0..MaxDeliver]
  /\ loop \in LoopStates
  /\ inbox \in Seq(Deliveries)
  /\ permits \in 0..MaxConcurrency
  /\ pc \in [Deliveries -> Stages]
  /\ outcome \in [Deliveries -> OutcomeClasses \cup { "none" }]
  /\ results \subseteq [job : Jobs, attempt : Attempts, class : OutcomeClasses]
  /\ dead \subseteq [job : Jobs, attempt : Attempts, reason : DeadReasons]
  /\ accepted \subseteq Deliveries
  /\ failed \subseteq [job : Jobs, attempt : Attempts, stream : { "result", "dead" }]
  /\ overtaken \subseteq Deliveries
  /\ faults \in 0..MaxFaults

HasResult(d) == ResultEvent(d, outcome[d]) \in results
HasRecord(j) == \/ \E r \in results : r.job = j
                \/ \E e \in dead : e.job = j

BothPublishesFailed(d) ==
  FailedPublish(d, "result") \in failed /\ FailedPublish(d, "dead") \in failed

-----------------------------------------------------------------------------
(* Safety *)

\* A job leaves the work queue only with evidence: a result or dead-letter event exists,
\* or both publishes failed for one of its deliveries, the case handle_message terminates
\* with only a log line (nats_ingestion.rs:366-372). Any copy may settle it, at any time.
SettledHasRecord ==
  \A j \in Jobs : msg[j] = "removed" =>
    HasRecord(j) \/ \E d \in Deliveries : Job(d) = j /\ BothPublishesFailed(d)

\* Why a delivery the provider accepted may be followed by another one: the process was
\* told of a retryable failure, lost the copy or its settlement, or had not finished when
\* the ack-wait timer fired.
Excused(d) ==
  \/ IsRetryable(outcome[d])
  \/ pc[d] \in { "lost", "unsettled" }
  \/ d \in overtaken

\* A notification the provider accepted is delivered again only for one of those reasons;
\* in particular never because its result could not be published, which is what
\* disposition_for_result_publish_failure is there to prevent.
DuplicateHasCause ==
  \A d \in accepted : delivered[Job(d)] > Attempt(d) => Excused(d)

\* A terminal outcome and the last permitted delivery are never NAKed: the first would
\* repeat an irreversible send, the second would strand the job without a dead letter.
NakOnlyWithinBudget ==
  \A d \in Deliveries : pc[d] \in { "nak", "naked" } =>
    IsRetryable(outcome[d]) /\ Attempt(d) < MaxDeliver

\* JetStream gives up on a job only while its last delivery is still being worked on, or
\* after a crash, a lost settlement or a failed dead-letter publish of that delivery: an
\* ordinary outcome on the last delivery always settles the job.
ExhaustedHasCause ==
  \A j \in Jobs : msg[j] = "exhausted" =>
    LET last == <<j, MaxDeliver>> IN Live(last) \/ pc[last] \in { "lost", "unsettled" }

IsFirstFailingCheck(reason, defects) ==
  /\ reason \in defects
  /\ \A i \in 1..4 : TriageChecks[i] = reason =>
       \A k \in 1..(i - 1) : TriageChecks[k] \notin defects

IsTerminal(class) == class \in OutcomeClasses \ RetryableClasses

RetryBudgetSpent(d) == Attempt(d) = MaxDeliver /\ IsRetryable(outcome[d])

\* A dead letter says why: the retry budget is exhausted only by a retryable outcome on
\* the last delivery whose result event is already stored, and a poison reason is the first
\* check the envelope fails. A "result publish failed after terminal outcome" is one whose
\* publish failed after a terminal outcome, with one exception, which the second disjunct
\* names: disposition_for_result_publish_failure sends a retryable outcome on the last
\* delivery the same way (nats_ingestion.rs:496-497), and line 360 gives it the same reason,
\* which is not true of it.
DeadLetterIsTruthful ==
  \A e \in dead :
    LET d == <<e.job, e.attempt>> IN
    /\ e.reason = ExhaustedReason => RetryBudgetSpent(d) /\ HasResult(d)
    /\ e.reason = UnpublishedReason =>
         /\ FailedPublish(d, "result") \in failed
         /\ IsTerminal(outcome[d]) \/ RetryBudgetSpent(d)
    /\ e.reason \in PoisonReasons =>
         IsFirstFailingCheck(e.reason, envelope[e.job])

\* Oversized, malformed, unsupported and unauthenticated envelopes never reach a provider
\* nor produce a result event, over all redeliveries; a job that breaks the contract
\* reaches no provider either but does get its result.
PoisonIsIsolated ==
  /\ \A d \in accepted : envelope[Job(d)] = {}
  /\ \A r \in results : ~IsPoison(envelope[r.job])

\* Every permit is free or held by exactly one handler, through crashes and early error
\* returns: the semaphore neither leaks nor over-admits.
PermitsConserved ==
  permits + Cardinality({ d \in Deliveries : InHandler(d) }) = MaxConcurrency

-----------------------------------------------------------------------------
(* Refinement: the lane implements the delivery contract. *)

\* where a producer sees its job
JobStatus == [j \in Jobs |-> IF msg[j] = "removed" THEN "closed"
                             ELSE IF msg[j] = "exhausted" THEN "parked" ELSE "open"]
RecordedJobs == { j \in Jobs : HasRecord(j) }
ForgivenJobs == { j \in Jobs : \E d \in Deliveries : Job(d) = j /\ BothPublishesFailed(d) }
ExcusedDeliveries == { d \in Deliveries : Excused(d) }

Contract == INSTANCE DeliveryContract WITH
  status <- JobStatus, recorded <- RecordedJobs, forgiven <- ForgivenJobs,
  excused <- ExcusedDeliveries, sent <- accepted

\* Every behaviour of the lane is one the contract allows.
ImplementsContract == Contract!Spec

-----------------------------------------------------------------------------
(* Liveness, under FairSpec *)

IngestionEnded == <>[](loop = "stopped")

\* Every job is eventually settled or given up by JetStream, unless ingestion has stopped
\* for good (a failed rebuild ends run_nats_consumer and nothing restarts it).
EveryJobResolved ==
  IngestionEnded \/ \A j \in Jobs : <>(msg[j] \in { "removed", "exhausted" })

\* When nothing fails, ack-wait expiry alone, however it interleaves with the handlers,
\* cannot strand a job: each one leaves the queue.
FaultFreeJobsAreSettled ==
  [](faults = 0) => \A j \in Jobs : <>(msg[j] = "removed")

\* Handlers do not keep permits: in the end all of them are back.
PermitsReturn == <>[](permits = MaxConcurrency)

-----------------------------------------------------------------------------
(* Claims of the documentation that the code does not keep *)

\* docs/nats-ingestion-v1.md:48 "If result publishing fails, the consumer NAKs the job
\* for another attempt." The handlers that settled after such a failure all chose Nak.
ResultFailureIsNaked ==
  \A d \in Deliveries : FailedPublish(d, "result") \in failed =>
    pc[d] \notin { "acked", "termed" }

\* docs/nats-ingestion-v1.md:56 "retryable outcome on the final permitted delivery:
\* publish result, publish a redacted dead-letter audit event, then Term": once the
\* handler of the last delivery has returned with a retryable outcome, there is a dead
\* letter for the job.
FinalDeliveryIsDeadLettered ==
  \A j \in Jobs :
    LET last == <<j, MaxDeliver>> IN
    /\ IsRetryable(outcome[last])
    /\ pc[last] \in FinishedStages \ { "lost" }
    => \E e \in dead : e.job = j
=============================================================================
