--------------------------- MODULE ReceiptFollowUp ---------------------------
(***************************************************************************)
(* From the tickets of accepted Expo notifications to terminal receipts:   *)
(* get_receipts of src/src/providers/expo.rs, the delays of retry.rs and   *)
(* the receipts and ledger of receipt.rs.  The worker that puts these      *)
(* together belongs to the embedding application: it looks its tickets up  *)
(* in one request, waits as its retry policy says while any is             *)
(* outstanding, and records what it learns.  It may die at any moment; the *)
(* ledger stays.                                                           *)
(*                                                                         *)
(* The text of a ticket or of a code has its length in `len`; `clean` says *)
(* that no character of it is a control character or white space, `plain`  *)
(* that every one is an ASCII letter, a digit or one of . _ : -            *)
(***************************************************************************)
EXTENDS PushAdapters

CONSTANTS
  Workers,              \* the workers, replicas of each other
  Tickets,              \* the tickets of the jobs that are followed up
  JobOf,                \* the job a ticket was given for
  IdOf,                 \* the text of a ticket
  LookupAnswers,        \* what Expo may answer to a lookup, apart from the receipts in it
  Verdicts,             \* what may become of a notification: "ok" or an error code
  PolicyOf,             \* the retry policy of each worker
  Entropies,            \* the numbers a worker may feed it
  MaxDeliveryAttempts   \* MAX_DELIVERY_ATTEMPTS

ASSUME FollowUpAssumption ==
  /\ MaxDeliveryAttempts \in 1..64
  /\ \A t \in Tickets : ValidTicketId(IdOf[t])
  /\ \A answer \in LookupAnswers : answer.header.value \in Nat
  /\ \A w \in Workers :
       /\ PolicyOf[w].base \in Nat \ {0} /\ PolicyOf[w].max \in Durations
       /\ PolicyOf[w].jitter \in 0..MaxJitter /\ PolicyOf[w].maxAttempts \in Nat \ {0}
  /\ Entropies \subseteq Nat

\* arithmetic that the provers do not know
ASSUME PowersOfTwo ==
  \A w \in Workers : \A n \in 0..Least(PolicyOf[w].maxAttempts, 63) : 2 ^ n \in Nat \ {0}

NoReceipt == [job |-> None, state |-> None, reason |-> None, attempts |-> 0, coded |-> FALSE]

VARIABLES
  verdict,  \* Expo: what has become of each notification, None while it is under way
  work,     \* each worker: stage, lookups, open tickets, findings, last answer and delay
  ledger,   \* by key, the receipt in the ledger
  refused   \* history: the findings no receipt could be made of, with the reason

vars == << verdict, work, ledger, refused >>

(***************************************************************************)
(* Receipts.                                                               *)
(***************************************************************************)
States == { "delivered", "expired", "rejected", "canceled", "permanently_failed" }

\* for_job: a digest of the length-prefixed parts, which no two scopes share; the identifier of
\* the job is not among them
ReceiptKey(t) ==
  LET job == JobOf[t] IN
  << job.tenant_id, job.application_id, job.idempotency_key, job.provider, job.target >>

\* the reasons of each terminal state
ReasonsFor(state) ==
  CASE state = "delivered" -> { "provider_confirmed" }
    [] state = "expired"   -> { "time_to_live_elapsed" }
    [] state = "rejected"  -> { "consent_revoked", "ownership_denied", "missing_credentials",
                                "invalid_token", "invalid_payload", "policy_denied" }
    [] state = "canceled"  -> { "canceled_by_caller" }
    [] OTHER -> { "provider_permanent_failure", "retry_budget_exhausted",
                  "internal_permanent_failure" }

RequiresProviderAttempt(reason) ==
  reason \in { "provider_confirmed", "invalid_token", "provider_permanent_failure",
               "retry_budget_exhausted", "internal_permanent_failure" }

MayCarryCode(reason) ==
  reason \in { "provider_confirmed", "invalid_token", "provider_permanent_failure",
               "retry_budget_exhausted" }

\* shorter than a ticket may be, and of fewer characters
ValidProviderCode(code) == code.len \in 1..64 /\ code.plain

\* the last permitted attempt is refused
BugTerminalError(receipt, code) ==
  IF receipt.attempts >= MaxDeliveryAttempts THEN "too_many_attempts" ELSE None

\* terminal: the first check that fails, or None; code is the provider code the receipt carries
TerminalError(receipt, code) ==
  IF receipt.reason \notin ReasonsFor(receipt.state) THEN "inconsistent_state_reason"
  ELSE IF receipt.attempts > MaxDeliveryAttempts THEN "too_many_attempts"
  ELSE IF RequiresProviderAttempt(receipt.reason) /\ receipt.attempts = 0
  THEN "missing_provider_attempt"
  ELSE IF receipt.coded /\ ~MayCarryCode(receipt.reason) THEN "unexpected_provider_code"
  ELSE IF receipt.coded /\ ~ValidProviderCode(code) THEN "invalid_provider_code"
  ELSE None

\* the later receipt wins
BugRecorded(receipt) == [ledger EXCEPT ![ReceiptKey(receipt.job)] = receipt]

\* record: a receipt under a key that has one is acknowledged if it is the same and reported as
\* a conflict if not; the ledger stays in either case
Recorded(receipt) ==
  IF ledger[ReceiptKey(receipt.job)] = NoReceipt
  THEN [ledger EXCEPT ![ReceiptKey(receipt.job)] = receipt]
  ELSE ledger

(***************************************************************************)
(* Lookups.                                                                *)
(***************************************************************************)
\* a ticket without a receipt counts as delivered
BugLookupClass(t, shown) ==
  IF t \notin shown \/ verdict[t] = "ok" THEN "accepted" ELSE ExpoErrorClass(verdict[t])

\* the class of a ticket's outcome, by whether its receipt was in the answer
LookupClass(t, shown) ==
  IF t \notin shown THEN "transient_provider_failure"
  ELSE IF verdict[t] = "ok" THEN "accepted"
  ELSE ExpoErrorClass(verdict[t])

\* The receipt a worker makes of a final outcome.  Delivery and exhaustion carry the ticket as
\* their provider code, a dead token and a permanent failure Expo's error code.
Finding(t, class, attempts) ==
  LET Of(state, reason) == [job |-> t, state |-> state, reason |-> reason,
                            attempts |-> attempts, coded |-> MayCarryCode(reason)] IN
  CASE class = "accepted"        -> Of("delivered", "provider_confirmed")
    [] class = "invalid_token"   -> Of("rejected", "invalid_token")
    [] class = "invalid_payload" -> Of("rejected", "invalid_payload")
    [] class = "permanent_provider_failure"
                                 -> Of("permanently_failed", "provider_permanent_failure")
    [] OTHER                     -> Of("permanently_failed", "retry_budget_exhausted")

CarriesTicket(reason) == reason \in { "provider_confirmed", "retry_budget_exhausted" }

\* the three error codes that make a dead token or a permanent failure are short and plain
ErrorCode == [len |-> 20, clean |-> TRUE, plain |-> TRUE]

CodeOf(receipt) == IF CarriesTicket(receipt.reason) THEN IdOf[receipt.job] ELSE ErrorCode

Unrecorded == { t \in Tickets : ledger[ReceiptKey(t)] = NoReceipt }

NoAnswer == [arrived |-> FALSE]

Fresh(open) == [stage |-> "due", lookups |-> 0, open |-> open, found |-> {},
                answer |-> NoAnswer, wait |-> 0]

Init ==
  /\ verdict = [t \in Tickets |-> None]
  /\ work = [w \in Workers |-> Fresh(Tickets)]
  /\ ledger = [key \in { ReceiptKey(t) : t \in Tickets } |-> NoReceipt]
  /\ refused = {}

\* Expo learns what became of a notification
Settle(t) ==
  /\ verdict[t] = None
  /\ \E v \in Verdicts : verdict' = [verdict EXCEPT ![t] = v]
  /\ UNCHANGED << work, ledger, refused >>

LookUp(w) ==
  /\ work[w].stage = "due" /\ work[w].open # {}
  /\ work' = [work EXCEPT ![w].stage = "asking", ![w].lookups = @ + 1]
  /\ UNCHANGED << verdict, ledger, refused >>

\* What a worker does with what it found: it will tell the ledger, and look the tickets that
\* are left up again after a delay.  When the policy has no delay for them any more, they are
\* done with as exhausted.
Scheduled(w, found, answer, hint, entropy) ==
  LET self == work[w]
      left == self.open \ { f.job : f \in found }
      wait == DelayForAttempt(PolicyOf[w], self.lookups - 1, entropy, hint)
      late == { Finding(t, "transient_provider_failure", self.lookups) : t \in left } IN
  IF left = {} \/ wait = NoDuration
  THEN [self EXCEPT !.stage = "telling", !.open = {}, !.found = found \cup late]
  ELSE [self EXCEPT !.stage = "telling", !.open = left, !.found = found,
                    !.answer = answer, !.wait = wait]

\* The lookup as a whole comes back with an outcome.  One that cannot be tried again says
\* nothing of the notifications: the worker stops.
LookupFails(w) ==
  /\ work[w].stage = "asking"
  /\ \E answer \in LookupAnswers, entropy \in Entropies :
       LET failure == ExpoAnswerFailure(answer, "invalid_receipt_response") IN
       /\ failure # Proceed
       /\ work' = [work EXCEPT ![w] =
                     IF IsRetryable(failure.class)
                     THEN Scheduled(w, {}, answer, failure.hint, entropy)
                     ELSE [@ EXCEPT !.stage = "stuck"]]
  /\ UNCHANGED << verdict, ledger, refused >>

\* Receipts come back, for some of the tickets whose notification is settled.
LookupReturns(w) ==
  /\ work[w].stage = "asking"
  /\ \E answer \in LookupAnswers, entropy \in Entropies,
        shown \in SUBSET { t \in work[w].open : verdict[t] # None } :
       LET final == { t \in work[w].open : ~IsRetryable(LookupClass(t, shown)) }
           found == { Finding(t, LookupClass(t, shown), work[w].lookups) : t \in final } IN
       /\ ExpoAnswerFailure(answer, "invalid_receipt_response") = Proceed
       /\ work' = [work EXCEPT ![w] = Scheduled(w, found, answer, NoDuration, entropy)]
  /\ UNCHANGED << verdict, ledger, refused >>

\* a finding becomes a receipt, or is refused as one
Tell(w) ==
  /\ work[w].stage = "telling"
  /\ \E f \in work[w].found :
       /\ work' = [work EXCEPT ![w].found = @ \ { f }]
       /\ IF TerminalError(f, CodeOf(f)) = None
          THEN ledger' = Recorded(f) /\ UNCHANGED refused
          ELSE /\ refused' = refused \cup { [receipt |-> f, error |-> TerminalError(f, CodeOf(f))] }
               /\ UNCHANGED ledger
  /\ UNCHANGED verdict

\* the delay is over
Resume(w) ==
  /\ work[w].stage = "telling" /\ work[w].found = {} /\ work[w].open # {}
  /\ work' = [work EXCEPT ![w].stage = "due", ![w].answer = NoAnswer, ![w].wait = 0]
  /\ UNCHANGED << verdict, ledger, refused >>

\* a worker dies; the one in its place takes up the tickets the ledger knows nothing of
Crash(w) ==
  /\ work' = [work EXCEPT ![w] = Fresh(Unrecorded)]
  /\ UNCHANGED << verdict, ledger, refused >>

\* the caller takes a notification back, which Expo does not hear of
Cancel(t) ==
  LET receipt == [job |-> t, state |-> "canceled", reason |-> "canceled_by_caller",
                  attempts |-> 0, coded |-> FALSE] IN
  /\ TerminalError(receipt, CodeOf(receipt)) = None
  /\ ledger' = Recorded(receipt)
  /\ UNCHANGED << verdict, work, refused >>

Next ==
  \/ \E w \in Workers : LookUp(w) \/ LookupFails(w) \/ LookupReturns(w) \/ Tell(w) \/ Resume(w)
                        \/ Crash(w)
  \/ \E t \in Tickets : Settle(t) \/ Cancel(t)

Spec == Init /\ [][Next]_vars

(***************************************************************************)
(* Properties.                                                             *)
(***************************************************************************)
\* the receipts that say something consistent
WellFormed ==
  { r \in [job : Tickets, state : States, reason : UNION { ReasonsFor(state) : state \in States },
           attempts : 0..MaxDeliveryAttempts, coded : BOOLEAN] :
      /\ r.reason \in ReasonsFor(r.state)
      /\ RequiresProviderAttempt(r.reason) => r.attempts > 0
      /\ r.coded => MayCarryCode(r.reason) }

\* Under a key the first receipt stands, and is a consistent one, whatever replicas, crashes,
\* late receipts, jobs sent under one idempotency key and cancellations bring later.
L == INSTANCE ReceiptLedger WITH
       Keys <- { ReceiptKey(t) : t \in Tickets }, Receipts <- WellFormed

ImplementsLedger == L!Spec

IsTruthful(receipt) ==
  LET v == verdict[receipt.job] IN
  /\ receipt.state = "delivered" => v = "ok"
  /\ receipt.reason \in { "invalid_token", "invalid_payload", "provider_permanent_failure" } =>
       v \notin { None, "ok" }
  /\ receipt.reason = "invalid_token" => v = "DeviceNotRegistered"
  /\ receipt.reason = "retry_budget_exhausted" =>
       \E w \in Workers : receipt.attempts = PolicyOf[w].maxAttempts + 1

\* A receipt says what Expo has said of this very notification, and gives up only when the
\* policy of a worker did: a receipt that is not there yet, a failed lookup and a receipt that
\* asks to try again are not evidence.
ReceiptIsTruthful ==
  \A key \in DOMAIN ledger :
    ledger[key] # NoReceipt => ReceiptKey(ledger[key].job) = key /\ IsTruthful(ledger[key])

\* the delay Expo's Retry-After asks for, up to a day
AskedFor(answer) ==
  IF ~answer.arrived \/ answer.header.form \notin { "seconds", "date" } THEN 0
  ELSE Least(IF answer.header.form = "seconds" THEN 1000 * answer.header.value
             ELSE answer.header.value, MaxRetryAfter)

\* Receipts, and failures whose document holds an error of the request, are judged by the
\* document, and the header next to it is not read (expo.rs:276, 616).
JudgedByDocument(answer) ==
  /\ answer.arrived /\ answer.readable /\ answer.json
  /\ Success(answer.status) \/ answer.code # None

\* Between two lookups a worker waits at least as long as Expo asks, up to a day, and at least
\* half of the exponential step; never past the larger of the policy's ceiling and what Expo
\* asked for.  The exception is an answer that is judged by its document: what its Retry-After
\* asks for is lost, although docs/expo.md:36 says that it is honoured, and the worker then
\* waits by its policy alone.
BackoffIsBounded ==
  \A w \in Workers :
    work[w].stage = "telling" /\ work[w].open # {} =>
      LET self  == work[w]
          floor == IF JudgedByDocument(self.answer) THEN 0 ELSE AskedFor(self.answer) IN
      /\ floor <= self.wait
      /\ CappedDelay(PolicyOf[w], 2 ^ Least(self.lookups - 1, 63)) <= 2 * self.wait
      /\ self.wait <= Greatest(PolicyOf[w].max, floor)

\* What a worker finds out can be recorded, with two exceptions: the ticket the receipt has to
\* carry is no provider code, which is shorter and of fewer characters (receipt.rs:190-200,
\* expo.rs:454-467), and the worker's policy goes on past the attempts a receipt may count
\* (receipt.rs:151, retry.rs:53-67).  No state, reason, missing attempt or error code of Expo
\* stands against it, and not the last attempt that is permitted.
VerdictsAreRecordable ==
  \A r \in refused :
    \/ /\ r.error = "invalid_provider_code" /\ CarriesTicket(r.receipt.reason)
       /\ ~ValidProviderCode(IdOf[r.receipt.job])
    \/ /\ r.error = "too_many_attempts" /\ r.receipt.attempts > MaxDeliveryAttempts
       /\ \E w \in Workers : r.receipt.attempts <= PolicyOf[w].maxAttempts + 1
=============================================================================
