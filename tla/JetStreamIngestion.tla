------------------------- MODULE JetStreamIngestion -------------------------
(***************************************************************************)
(* The durable push lane of src/nats_ingestion.rs: one server process that *)
(* pulls jobs from a JetStream work queue through a durable consumer, runs *)
(* each delivery in a handler task of its own under a semaphore, calls a   *)
(* provider, publishes the result and settles the source message.          *)
(*                                                                         *)
(* JetStream and the provider are external: their actions say what the     *)
(* code in src/ relies on (explicit acks, an ack-wait timer, at most       *)
(* max_deliver deliveries, WorkQueue retention) and what it must survive.  *)
(* Time is abstract: an ack-wait or nak-delay timer may fire whenever it   *)
(* runs, so every race between a timer and a handler is explored.          *)
(*                                                                         *)
(* A delivery is a pair <<job, attempt>>: JetStream counts the deliveries  *)
(* of a message, so the pair names one copy of the job in the process.     *)
(***************************************************************************)
EXTENDS Outcomes, Sequences, FiniteSets

CONSTANTS
  Jobs,            \* messages published to the job stream
  Envelopes,       \* the envelopes that producers may publish, each a set of defects
  ProviderAnswers, \* the outcome classes the providers of this instance answer with
  MaxDeliver,      \* NATS_MAX_DELIVER
  MaxConcurrency,  \* NATS_MAX_CONCURRENCY, the permits of the semaphore
  MaxFaults        \* bound: crashes, stream errors, lost settlements and failed publishes

\* Checks of handle_message in the order it makes them. An envelope is abstracted to the
\* set of checks it would fail; "contract_violation" is what validate_push_job rejects.
TriageChecks ==
  << "payload_too_large", "invalid_envelope_json",
     "unsupported_envelope_schema", "envelope_authentication_failed" >>

PoisonReasons == { TriageChecks[i] : i \in 1..4 }
Defects == PoisonReasons \cup { "contract_violation" }

ASSUME ConstantsAssumption ==
  /\ IsFiniteSet(Jobs)
  /\ Envelopes \subseteq SUBSET Defects
  /\ ProviderAnswers \subseteq OutcomeClasses
  /\ MaxDeliver \in Nat \ {0}
  /\ MaxConcurrency \in Nat \ {0}
  /\ MaxFaults \in Nat

VARIABLES
  envelope,   \* job -> its defects, fixed when the job was published
  msg,        \* job -> where its message stands with the durable consumer
  delivered,  \* job -> JetStream's delivery counter
  loop,       \* what the consumer loop of run_nats_consumer is doing
  inbox,      \* deliveries received by the pull stream, waiting for a permit
  permits,    \* free permits of the semaphore
  pc,         \* delivery -> progress of its handler
  outcome,    \* delivery -> outcome class, once the provider call returned
  results,    \* events stored in the result stream
  dead,       \* events stored in the dead-letter stream
  accepted,   \* deliveries whose notification the provider accepted
  failed,     \* history: publishes that returned an error
  overtaken,  \* history: deliveries still live when the job was delivered again
  faults      \* faults injected so far

external == <<envelope, accepted>>
history  == <<failed, overtaken, faults>>
vars == <<envelope, msg, delivered, loop, inbox, permits, pc, outcome,
          results, dead, accepted, failed, overtaken, faults>>

Attempts   == 1..MaxDeliver
Deliveries == Jobs \X Attempts
Job(d)     == d[1]
Attempt(d) == d[2]

MsgStates  == { "new", "pending", "delayed", "due", "exhausted", "removed" }
LoopStates == { "polling", "acquiring", "resting", "stopped", "down" }

DeadStages     == { "dead_poison", "dead_exhausted", "dead_unpublished" }
SettleStages   == { "ack", "nak", "term" }
HandlerStages  == { "spawned", "calling", "taken", "publishing" }
                    \cup DeadStages \cup SettleStages
LiveStages     == HandlerStages \cup { "queued" }
FinishedStages == { "acked", "naked", "termed", "unsettled", "lost" }
Stages         == LiveStages \cup FinishedStages \cup { "undelivered" }

Live(d)      == pc[d] \in LiveStages
InHandler(d) == pc[d] \in HandlerStages

ResultEvent(d, class) == [job |-> Job(d), attempt |-> Attempt(d), class |-> class]
DeadEvent(d, reason)  == [job |-> Job(d), attempt |-> Attempt(d), reason |-> reason]
FailedPublish(d, stream) == [job |-> Job(d), attempt |-> Attempt(d), stream |-> stream]

ExhaustedReason   == "retry_budget_exhausted"
UnpublishedReason == "result_publish_failed_after_terminal_outcome"
DeadReasons == PoisonReasons \cup { ExhaustedReason, UnpublishedReason }

-----------------------------------------------------------------------------
(* Pure parts of handle_message and process_job. *)

IsPoison(e) == e \cap PoisonReasons # {}

\* mutant: the last failing check is reported
BugTriageReason(e) ==
  TriageChecks[CHOOSE i \in 1..4 : /\ TriageChecks[i] \in e
                                   /\ \A k \in (i + 1)..4 : TriageChecks[k] \notin e]

\* the reason of the first check that fails
TriageReason(e) ==
  TriageChecks[CHOOSE i \in 1..4 : /\ TriageChecks[i] \in e
                                   /\ \A k \in 1..(i - 1) : TriageChecks[k] \notin e]

\* mutant: the job is validated before its envelope
BugStageAfterTriage(e) ==
  IF "contract_violation" \in e THEN "publishing"
  ELSE IF IsPoison(e) THEN "dead_poison" ELSE "calling"

\* process_job answers InvalidPayload itself when the job breaks the contract
StageAfterTriage(e) ==
  IF IsPoison(e) THEN "dead_poison"
  ELSE IF "contract_violation" \in e THEN "publishing" ELSE "calling"

\* mutant: the rejection is not turned into an outcome
BugOutcomeAfterTriage(e) == "none"

OutcomeAfterTriage(e) ==
  IF ~IsPoison(e) /\ "contract_violation" \in e THEN "invalid_payload" ELSE "none"

\* handle_message's two matches on the disposition
StageAfterResult(disposition) ==
  IF disposition = "dead_letter" THEN "dead_exhausted" ELSE disposition

\* mutant: the source is terminated without the dead letter
BugStageAfterResultFailure(disposition) ==
  IF disposition = "dead_letter" THEN "term" ELSE disposition

StageAfterResultFailure(disposition) ==
  IF disposition = "dead_letter" THEN "dead_unpublished" ELSE disposition

DeadReason(d) ==
  IF pc[d] = "dead_poison" THEN TriageReason(envelope[Job(d)])
  ELSE IF pc[d] = "dead_exhausted" THEN ExhaustedReason ELSE UnpublishedReason

\* What the process may be told of a request the provider accepted: besides the
\* acceptance, a timeout or unreadable response body (transient) or a success response
\* it cannot interpret (internal).
AnswersWhenAccepted ==
  ProviderAnswers \cap { "accepted", "transient_provider_failure", "internal_failure" }
AnswersWhenNotAccepted == ProviderAnswers \ { "accepted" }

-----------------------------------------------------------------------------
Init ==
  /\ envelope \in [Jobs -> Envelopes]
  /\ msg = [j \in Jobs |-> "new"]
  /\ delivered = [j \in Jobs |-> 0]
  /\ loop = "polling"
  /\ inbox = << >>
  /\ permits = MaxConcurrency
  /\ pc = [d \in Deliveries |-> "undelivered"]
  /\ outcome = [d \in Deliveries |-> "none"]
  /\ results = {}
  /\ dead = {}
  /\ accepted = {}
  /\ failed = {}
  /\ overtaken = {}
  /\ faults = 0

Fault == faults < MaxFaults /\ faults' = faults + 1

-----------------------------------------------------------------------------
(* JetStream: the durable consumer of the work queue. *)

\* A pull stream is open while the loop iterates it, also while it waits for a permit.
Deliver(j) ==
  LET d == <<j, delivered[j] + 1>> IN
  /\ loop \in { "polling", "acquiring" }
  /\ msg[j] \in { "new", "due" }
  /\ delivered[j] < MaxDeliver
  /\ msg' = [msg EXCEPT ![j] = "pending"]
  /\ delivered' = [delivered EXCEPT ![j] = @ + 1]
  /\ inbox' = Append(inbox, d)
  /\ pc' = [pc EXCEPT ![d] = "queued"]
  /\ overtaken' = overtaken \cup { e \in Deliveries : Job(e) = j /\ Live(e) }
  /\ UNCHANGED <<external, loop, permits, outcome, results, dead, failed, faults>>

\* ack_wait ran out on an unsettled delivery, or the delay of a nak elapsed
TimerFires(j) ==
  /\ msg[j] \in { "pending", "delayed" }
  /\ msg' = [msg EXCEPT ![j] = "due"]
  /\ UNCHANGED <<external, delivered, loop, inbox, permits, pc, outcome, results,
                 dead, history>>

\* max_deliver deliveries were made: the message stays in the stream, undeliverable
GiveUp(j) ==
  /\ msg[j] = "due"
  /\ delivered[j] = MaxDeliver
  /\ msg' = [msg EXCEPT ![j] = "exhausted"]
  /\ UNCHANGED <<external, delivered, loop, inbox, permits, pc, outcome, results,
                 dead, history>>

\* What a settlement does to the message when it reaches the server. Any copy may settle
\* it; a nak only reschedules a message that is still pending.
MsgAfter(settle, state) ==
  IF settle \in { "ack", "term" } THEN "removed"
  ELSE IF state = "pending" THEN "delayed" ELSE state

-----------------------------------------------------------------------------
(* run_nats_consumer: the consumer loop. *)

\* messages.next() yields the oldest delivery
Poll ==
  /\ loop = "polling"
  /\ inbox # << >>
  /\ loop' = "acquiring"
  /\ UNCHANGED <<external, msg, delivered, inbox, permits, pc, outcome, results,
                 dead, history>>

\* semaphore.acquire_owned() and tokio::spawn(handle_message)
Acquire ==
  /\ loop = "acquiring"
  /\ permits > 0
  /\ permits' = permits - 1
  /\ pc' = [pc EXCEPT ![Head(inbox)] = "spawned"]
  /\ inbox' = Tail(inbox)
  /\ loop' = "polling"
  /\ UNCHANGED <<external, msg, delivered, outcome, results, dead, history>>

\* messages.next() yields an error or ends: the stream is dropped with what it buffered
StreamError ==
  /\ loop = "polling"
  /\ Fault
  /\ loop' = "resting"
  /\ inbox' = << >>
  /\ pc' = [d \in Deliveries |-> IF pc[d] = "queued" THEN "lost" ELSE pc[d]]
  /\ UNCHANGED <<external, msg, delivered, permits, outcome, results, dead, failed,
                 overtaken>>

\* mutant: the stream is never recreated
BugRebuild == loop = "resting" /\ UNCHANGED vars

\* after the two-second sleep build_consumer and messages() succeed
Rebuild ==
  /\ loop = "resting"
  /\ loop' = "polling"
  /\ UNCHANGED <<external, msg, delivered, inbox, permits, pc, outcome, results,
                 dead, history>>

\* build_consumer fails: its `?` leaves run_nats_consumer for good, and server.rs only
\* logs it; handlers that are running go on
RebuildFails ==
  /\ loop = "resting"
  /\ Fault
  /\ loop' = "stopped"
  /\ UNCHANGED <<external, msg, delivered, inbox, permits, pc, outcome, results,
                 dead, failed, overtaken>>

\* the process dies or shuts down: handlers are detached tasks, dropped where they stand
Crash ==
  /\ loop # "down"
  /\ Fault
  /\ loop' = "down"
  /\ inbox' = << >>
  /\ permits' = MaxConcurrency
  /\ pc' = [d \in Deliveries |-> IF Live(d) THEN "lost" ELSE pc[d]]
  /\ UNCHANGED <<external, msg, delivered, outcome, results, dead, failed, overtaken>>

Restart ==
  /\ loop = "down"
  /\ loop' = "polling"
  /\ UNCHANGED <<external, msg, delivered, inbox, permits, pc, outcome, results,
                 dead, history>>

\* connect, ensure_streams or build_consumer fails at start
RestartFails ==
  /\ loop = "down"
  /\ Fault
  /\ loop' = "stopped"
  /\ UNCHANGED <<external, msg, delivered, inbox, permits, pc, outcome, results,
                 dead, failed, overtaken>>

-----------------------------------------------------------------------------
(* handle_message: one task per delivery, holding a permit until it returns. *)

Goto(d, stage) == pc' = [pc EXCEPT ![d] = stage]

\* mutant: the permit is forgotten
BugFinish(d, stage) == Goto(d, stage) /\ UNCHANGED permits

\* the task returns and drops its permit
Finish(d, stage) == Goto(d, stage) /\ permits' = permits + 1

\* the checks before the first await, and process_job's contract validation
Triage(d) ==
  /\ pc[d] = "spawned"
  /\ Goto(d, StageAfterTriage(envelope[Job(d)]))
  /\ outcome' = [outcome EXCEPT ![d] = OutcomeAfterTriage(envelope[Job(d)])]
  /\ UNCHANGED <<external, msg, delivered, loop, inbox, permits, results, dead, history>>

\* the provider takes the notification: irreversible, and not yet known to the handler
ProviderAccepts(d) ==
  /\ pc[d] = "calling"
  /\ Goto(d, "taken")
  /\ accepted' = accepted \cup { d }
  /\ UNCHANGED <<envelope, msg, delivered, loop, inbox, permits, outcome, results,
                 dead, history>>

\* registry.dispatch returns, an error already normalised to its class
Answer(d) ==
  /\ \/ pc[d] = "calling" /\ \E c \in AnswersWhenNotAccepted :
                                outcome' = [outcome EXCEPT ![d] = c]
     \/ pc[d] = "taken"   /\ \E c \in AnswersWhenAccepted :
                                outcome' = [outcome EXCEPT ![d] = c]
  /\ Goto(d, "publishing")
  /\ UNCHANGED <<external, msg, delivered, loop, inbox, permits, results, dead, history>>

\* an AckKind::Progress heartbeat restarts the message's timer at the full ack-wait
Progress(d) ==
  /\ pc[d] \in { "calling", "taken" }
  /\ msg[Job(d)] = "delayed"
  /\ msg' = [msg EXCEPT ![Job(d)] = "pending"]
  /\ UNCHANGED <<external, delivered, loop, inbox, permits, pc, outcome, results,
                 dead, history>>

PublishResult(d) ==
  /\ pc[d] = "publishing"
  /\ results' = results \cup { ResultEvent(d, outcome[d]) }
  /\ Goto(d, StageAfterResult(
               DispositionForOutcome(outcome[d], Attempt(d), MaxDeliver)))
  /\ UNCHANGED <<external, msg, delivered, loop, inbox, permits, outcome, dead, history>>

\* the publish returns an error; the event may have been stored all the same
PublishResultFails(d) ==
  /\ pc[d] = "publishing"
  /\ Fault
  /\ \/ UNCHANGED results
     \/ results' = results \cup { ResultEvent(d, outcome[d]) }
  /\ failed' = failed \cup { FailedPublish(d, "result") }
  /\ Goto(d, StageAfterResultFailure(
               DispositionForResultPublishFailure(outcome[d], Attempt(d), MaxDeliver)))
  /\ UNCHANGED <<external, msg, delivered, loop, inbox, permits, outcome, dead, overtaken>>

PublishDead(d) ==
  /\ pc[d] \in DeadStages
  /\ dead' = dead \cup { DeadEvent(d, DeadReason(d)) }
  /\ Goto(d, "term")
  /\ UNCHANGED <<external, msg, delivered, loop, inbox, permits, outcome, results, history>>

\* after an unpublished result the error is only logged; everywhere else `?` returns it
\* and the message is not settled
PublishDeadFails(d) ==
  /\ pc[d] \in DeadStages
  /\ Fault
  /\ \/ UNCHANGED dead
     \/ dead' = dead \cup { DeadEvent(d, DeadReason(d)) }
  /\ failed' = failed \cup { FailedPublish(d, "dead") }
  /\ \/ pc[d] = "dead_unpublished" /\ Goto(d, "term") /\ UNCHANGED permits
     \/ pc[d] # "dead_unpublished" /\ Finish(d, "unsettled")
  /\ UNCHANGED <<external, msg, delivered, loop, inbox, outcome, results, overtaken>>

SettledStage == [ack |-> "acked", nak |-> "naked", term |-> "termed"]

\* ack and ack_with do not wait for a confirmation
Settle(d) ==
  /\ pc[d] \in SettleStages
  /\ msg' = [msg EXCEPT ![Job(d)] = MsgAfter(pc[d], @)]
  /\ Finish(d, SettledStage[pc[d]])
  /\ UNCHANGED <<external, delivered, loop, inbox, outcome, results, dead, history>>

SettleIsLost(d) ==
  /\ pc[d] \in SettleStages
  /\ Fault
  /\ Finish(d, "unsettled")
  /\ UNCHANGED <<external, msg, delivered, loop, inbox, outcome, results, dead, failed,
                 overtaken>>

-----------------------------------------------------------------------------
BrokerStep(j) == Deliver(j) \/ TimerFires(j) \/ GiveUp(j)

LoopStep == Poll \/ Acquire \/ Rebuild \/ Restart

HandlerStep(d) ==
  Triage(d) \/ Answer(d) \/ PublishResult(d) \/ PublishDead(d) \/ Settle(d)

HandlerFault(d) == PublishResultFails(d) \/ PublishDeadFails(d) \/ SettleIsLost(d)

ProcessFault == StreamError \/ RebuildFails \/ Crash \/ RestartFails

Next ==
  \/ \E j \in Jobs : BrokerStep(j)
  \/ LoopStep
  \/ ProcessFault
  \/ \E d \in Deliveries :
       HandlerStep(d) \/ HandlerFault(d) \/ ProviderAccepts(d) \/ Progress(d)

Spec == Init /\ [][Next]_vars

\* JetStream serves an open pull and runs its timers; the runtime schedules the loop and
\* every handler; a provider call returns because the clients have request timeouts.
\* Faults are never forced.
Fairness ==
  /\ \A j \in Jobs : WF_vars(Deliver(j)) /\ WF_vars(TimerFires(j)) /\ WF_vars(GiveUp(j))
  /\ WF_vars(LoopStep)
  /\ \A d \in Deliveries : WF_vars(HandlerStep(d))

FairSpec == Spec /\ Fairness
=============================================================================
