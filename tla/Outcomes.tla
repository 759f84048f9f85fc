------------------------------ MODULE Outcomes ------------------------------
(***************************************************************************)
(* The provider-neutral outcome classes of src/contracts.rs and the pure   *)
(* decisions the NATS lanes take from them: whether an outcome may be      *)
(* retried, and what becomes of the source message.                        *)
(***************************************************************************)
EXTENDS Integers

\* OutcomeClass
OutcomeClasses ==
  { "accepted", "invalid_token", "invalid_payload", "throttled",
    "transient_provider_failure", "permanent_provider_failure",
    "internal_failure" }

\* OutcomeClass::is_retryable
RetryableClasses ==
  { "throttled", "transient_provider_failure", "internal_failure" }

IsRetryable(class) == class \in RetryableClasses

\* NatsDisposition; the nak carries the configured delay, which is time and not modelled here
Dispositions == { "ack", "nak", "dead_letter" }

\* Mutants, here and below under the prefix Bug: plausible slips in the definition that
\* follows, which the properties must notice. Off by one at the last delivery:
BugBudgetSpent(attempt, maxDeliver) == maxDeliver > 0 /\ attempt > maxDeliver

\* The code tests max_deliver > 0 although configuration only admits positive values: an
\* unlimited consumer would never run out of budget.
BudgetSpent(attempt, maxDeliver) == maxDeliver > 0 /\ attempt >= maxDeliver

DispositionForOutcome(class, attempt, maxDeliver) ==
  IF ~IsRetryable(class) THEN "ack"
  ELSE IF BudgetSpent(attempt, maxDeliver) THEN "dead_letter" ELSE "nak"

\* every failed projection is retried, terminal or not
BugDispositionForResultPublishFailure(class, attempt, maxDeliver) ==
  IF BudgetSpent(attempt, maxDeliver) THEN "dead_letter" ELSE "nak"

DispositionForResultPublishFailure(class, attempt, maxDeliver) ==
  IF IsRetryable(class)
  THEN DispositionForOutcome(class, attempt, maxDeliver)
  ELSE "dead_letter"
=============================================================================
