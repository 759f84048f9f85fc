# Verification of the notification server

This directory holds TLA+ models of `push-notification-server`, the TLC configurations
that check them on small instances, and TLAPS proofs of the results that should hold for
every instance. File and line numbers refer to the Rust sources under `src/`
(`nats_ingestion.rs` is `src/nats_ingestion.rs` of the repository).

## 1. The system

The server is one process. It accepts notification jobs over HTTP and from two NATS
JetStream work queues, validates them, calls a third-party provider once per job and
reports a provider-neutral outcome. It owns no database: what is durable lives in
JetStream, what is held in memory (permits, token caches, rate limiters) dies with the
process.

| Component | State | Operations | Talks to |
|---|---|---|---|
| Durable push lane, `nats_ingestion.rs` | semaphore permits, one task per delivery, buffered pull messages; durable: job, result and dead-letter streams | fetch, spawn handler, heartbeat, publish result / dead letter, ack / nak / term, rebuild the consumer | JetStream, provider registry |
| Outcome classes and dispositions, `contracts.rs`, `nats_ingestion.rs:466-501` | none | classify, decide ack / nak / dead letter | both lanes, HTTP |
| Ack-progress heartbeats, `nats_ingestion.rs:544-567` | ticker per handler; the server's ack-wait timer | tick, send Progress | JetStream |
| Durable contact lane, `contact_nats_ingestion.rs` | as the push lane | as the push lane, with default `max_deliver` 8 | JetStream, contact registry |
| Contact registry and limiter, `contact/dispatch.rs`, `contact/rate_limit.rs` | one token bucket per provider behind a mutex | try_acquire, dispatch | SendGrid, Twilio |
| Push registry, `dispatch.rs` | a table of slots (FCM, APNs sandbox, APNs production, Expo, Web Push), fixed at start-up | dispatch, readiness | push adapters |
| FCM, APNs adapters | cached credential behind a mutex | token, refresh, check, send, classify | OAuth endpoint, FCM, Apple |
| Expo adapter | none | check, send, look receipts up, classify | Expo |
| Web Push adapter | none | check keys, endpoint and payload, resolve the host, send, classify | DNS, push services |
| SendGrid, Twilio adapters | none | check, send, classify | providers |
| Contracts, `contracts.rs`, `validation.rs` and their contact counterparts | none | validate a job | HTTP, lanes, adapters |
| Retry policy, `retry.rs` | none | delay, Retry-After, classify status | adapters, embedding applications |
| Receipt ledger, `receipt.rs` | map from receipt key to first receipt | terminal, record, get | embedding application |
| HTTP ingestion, `http_api.rs`, `contact/http.rs` | none beyond a handler's progress | submit, submit batch, readyz | clients, registries |
| Start-up configuration, `runtime.rs`, `contact/runtime.rs`, the two `from_env` | none: the environment is read once | configure providers, guard and lanes, or refuse to start | registries, lanes, HTTP |
| Lifecycle, `server.rs`, `main.rs` | detached ingestion tasks | start, export the API description, graceful HTTP shutdown | everything |

How they interact. `server::run` reads the configuration, spawns each lane as a detached
task and serves HTTP in the foreground. A lane's loop takes one message at a time from a
pull stream, waits for a permit and spawns `handle_message`, which runs the envelope
checks, calls the registry under `run_with_ack_progress`, publishes the result and settles
the source message. Nothing joins the handlers: shutdown and crash drop them where they
stand, and a lane that returns an error is logged and never restarted. An HTTP handler
takes the jobs of a batch to the same registries one after another and answers once at the
end; what it learned on the way dies with it when its client goes away. A registry checks
the contract, picks the adapter by the job's target, and the adapter checks what only it
knows before it calls. A retryable outcome carries the delay the provider asked for; who
retries, and when, is up to JetStream, to the HTTP client, or to an embedding application
that uses `retry.rs`, `get_receipts` and `receipt.rs`.

What is hard here: several copies of one job in one process after an ack-wait expiry,
each able to settle the message; the irreversible provider call between two durable
steps; publishes and settlements that fail or fail ambiguously; answers that are lost as a
whole or whose body is, after the provider has taken the message; a batch that is cut in
the middle and sent again; a bounded delivery budget that crashes and stream errors use
up; timers racing handlers; checks made twice, by contract and by adapter, that may
disagree; and a configuration of many optional settings.

What makes each component correct:

- push lane: a job leaves the queue only with evidence; a user is notified twice only for
  a reason the design accepts; every job is settled or given up; permits are conserved;
  envelopes that fail a check never reach a provider;
- heartbeats: a healthy handler keeps its claim on its message;
- contact lane: as the push lane; a local throttle is not mistaken for a send;
- token caches: one refresh at a time, no token used beyond its life;
- registries and adapters: a job goes to its own provider and environment with everything
  visible in it, a validation-only job never leaves as a notification, and an answer is
  read for what the provider did;
- retry policy: delays within bounds for every attempt number, never below what the
  provider asked for;
- receipts: the first receipt stands and says what the provider said;
- HTTP: the answer of a batch tells the truth about every job in it, by its place;
- configuration: a provider that is set up by halves stops the start instead of dropping
  out silently;
- lifecycle: shutdown ends.

## 2. Modules

| Module | Models |
|---|---|
| `Outcomes` | outcome classes and the two disposition functions |
| `JetStreamIngestion` | the push lane: JetStream's durable consumer (external), the loop, the handlers, faults |
| `JetStreamIngestionProperties` | its invariants, refinement mapping, liveness, and documentation claims |
| `DeliveryContract` | what the lane promises, without queues or processes |
| `AckProgress` | heartbeats and the ack-wait timer in discrete time, with its properties |
| `TokenBucket` | what the contact registry relies on of a rate limiter |
| `ContactRateLimiter` | the limiter of `contact/rate_limit.rs` with its mutex, clock and fractions |
| `ContactIngestion` | the contact lane: the push lane's actions composed with the registry's dispatch and its buckets |
| `CredentialCache` | the FCM and APNs credential slots, their mutex and the requests made with a token |
| `RetryPolicy` | the delays, Retry-After and the status table of `retry.rs` |
| `PushContract`, `ContactContract` | the checks of both kinds of job |
| `PushAdapters`, `ContactAdapters` | per provider: what it refuses, the request it forms, how it reads an answer |
| `StartupConfig` | what an environment configures, or why the server does not start |
| `HttpIngestion` | the HTTP API between start, signal and crash, composed of the four rows above |
| `HttpIngestionProperties` | its properties and a documentation claim |
| `ReceiptLedger` | what the ledger promises |
| `ReceiptFollowUp` | lookups of Expo receipts, retry delays and the ledger of `receipt.rs` under replicated workers, with its properties |
| `MC...` | the instances that TLC checks |
| `JetStreamIngestionProofs` | types and safety invariants of the push lane; it implements the contract; its work moves on |
| `AckProgressProofs` | heartbeats keep the claim |
| `ContactRateLimiterProofs` | types, quota, what a hint is worth, refinement of `TokenBucket` |
| `ContactIngestionProofs` | types; the contact lane is a push lane; refusals are not lost; sends are metered |
| `CredentialCacheProofs` | types, fresh tokens, shared mints, bounded waits |
| `ReceiptFollowUpProofs` | truthful and final receipts, bounded delays, refinement of `ReceiptLedger` |
| `AdapterProofs` | what the adapters refuse, send and make of an answer, for every job and answer |
| `HttpIngestionProofs` | types; what an answer of the API says of the notifications; routes, contents and configurations; the work of a shutdown |

Who uses whom: `StartupConfig` and `ContactAdapters` (with `PushAdapters`, the contracts,
`RetryPolicy` and `Outcomes` below it) make up `HttpIngestion`; `PushAdapters` makes up
`ReceiptFollowUp`; `ContactIngestion` composes `JetStreamIngestion` with `TokenBucket`.
`DeliveryContract`, `TokenBucket` and `ReceiptLedger` are abstract specifications, each
implemented by a detailed one; the push lane is the abstract specification of the contact
lane. Operators named `Bug...` are plausible mistakes in the definition that follows them.
No action uses one; they show that a property notices when one stands in its place.

### JetStreamIngestion

A delivery `<<job, attempt>>` is one copy of a message handed to the process. Its `pc`
follows `handle_message`: `queued` (in the pull buffer), `spawned` (has a permit),
`calling` and `taken` (inside `registry.dispatch`, before and after the provider accepted
the request), `publishing` (the result), `dead_*` (a dead letter, for three reasons),
`ack` / `nak` / `term` (about to settle), and the ways to end. The envelope is the set of
checks it would fail; a delivery's triage is one step because the code has no await
between the first line of `handle_message` and the provider call or the first publish.

| Code | Action |
|---|---|
| `messages.next()` yields (180-187) | `Poll`, `StreamError` |
| `acquire_owned`, `tokio::spawn` (188-197) | `Acquire` |
| sleep and `build_consumer` (199, 178) | `Rebuild`, `RebuildFails` |
| envelope checks, `validate_push_job` (270-327, 407) | `Triage` |
| `registry.dispatch` (427) | `ProviderAccepts`, `Answer` |
| heartbeat (561) | `Progress` |
| result publish (344) | `PublishResult`, `PublishResultFails` |
| dead-letter publish (279, 295, 310, 324, 366, 399) | `PublishDead`, `PublishDeadFails` |
| ack, nak, term (351-372, 384-400) | `Settle`, `SettleIsLost` |
| process death, shutdown, start | `Crash`, `Restart`, `RestartFails` |
| JetStream | `Deliver`, `TimerFires`, `GiveUp` |

A publish that fails may have stored its event. A settlement may be lost. Time is
abstract: `TimerFires` is enabled whenever an ack-wait or a nak delay runs, so a timer
beats a handler at every point. `failed`, `overtaken` and `faults` are history variables;
no guard but the fault budget reads them.

Left out of the lane: the seven-day `max_age` of the job stream (a job could also expire
unseen), the default `max_ack_pending`, the fallback to attempt 1 when a message carries
no JetStream metadata, and the start-up parsing of `NatsConfig` (its results are the
constants; it admits only positive values; what it refuses is in `StartupConfig`).

### AckProgress

One fetch of several messages: each has been in flight for `idle` since the server last
heard of it, starts when a permit comes free, sends a heartbeat every `Interval`, then
publishes without heartbeats. `Tick` passes one unit of time and lets no permit, due
heartbeat or timed-out call wait. Only the first expiry is of interest here: what a
redelivery leads to is `JetStreamIngestion`'s subject, which lets it happen at any time.
When a heartbeat is due at the moment the call returns, either may go first, so the model
covers the push lane's biased select and the contact lane's, which is not.

### ContactRateLimiter and TokenBucket

`try_acquire` is two steps: a caller arrives and waits for the mutex (`Arrive`), and
`try_take`, which never awaits, runs under it (`Grant` or `Refuse`); a caller whose task is
dropped leaves the queue (`Abandon`). `level` counts parts of a token, `Minute` parts to a
token, so that a unit of time refills `PerMinute` whole parts: the level is exact where the
code rounds in `f64`. The hint is not: `Duration::from_secs_f64` rounds it to the nearest
nanosecond, and both callers cut it to milliseconds (`contact/http.rs:270-272`), so `Hint`
rounds to the nearest unit, clamps, and cuts to multiples of `Milli`. `granted`, `since`,
`before` and `told` are history: an observer may start to count grants at any moment
(`Observe`), and `told` has the last refusal of each caller since the last grant, with its
hint, and whether the caller had waited for the hint before (`heeded`). `TokenBucket` keeps whole tokens, and lets time add any number of them.

### ContactIngestion

`contact_nats_ingestion.rs` repeats the loop, the handler and the dispositions of the push
lane clause by clause (185-223, 282-434, 499-524), so the module takes those actions from
`JetStreamIngestion` (`LaneStep`) and models what differs, `registry.dispatch`:

| Code | Action |
|---|---|
| provider missing (`contact/dispatch.rs:46-51`) | `NotConfigured`, a permanent failure |
| `try_acquire` succeeds (57-58), the request follows | `TakeToken`, then `ContactAccepts`, `ContactAnswer` |
| `try_acquire` refuses (58-65) | `Throttle`, a retryable outcome without a request |
| HTTP handlers that dispatch (`contact/http.rs:136-201`) | `HttpTakes` |
| time refills a bucket | `Refills` |
| process death: the buckets start full again | `ContactCrash` |

`LaneStep` leaves the buckets alone. The class `invalid_token` stands for the contact
lane's `invalid_target`. The lane's disposition has no `max_deliver > 0` test; the
configuration admits only positive values, for which both lanes decide alike. The wrong
provider kind (52-56) cannot occur, since `with_provider` files each provider under its
own kind; a fall of the limiter below one token a minute is excluded by `per_minute`.
A hint of the local limiter travels in the outcome only: the lane naks with its configured
delay whatever the hint says, so a job can spend all of its deliveries on refusals and be
dead-lettered as `retry_budget_exhausted` without having reached a provider.

### CredentialCache

One module for `fcm.rs:189-202` and `apns.rs:194-208`; `provider` says which of them the
behaviour is about. A sender asks for the mutex (`Ask`), finds a usable token (`Reuse`) or
replaces it: APNs signs one without an await (`Sign`, `SignFails`), FCM fetches one while
it holds the lock (`MintStarts`, `MintReturns`, `MintFails`). It unlocks and sends, until
the provider answers or the request times out (`Answered`). Its future may be dropped at
any await (`Dropped`), as axum does when a client of the HTTP API disconnects.

`ahead[s]` is the set of senders before `s` in line: Tokio's mutex is fair, and the sender
with nobody ahead has it. A token has two deaths: `expires`, by which the cache judges it
(counted from the moment its response was read), and `dies`, at which its provider stops
accepting it (counted from its issue, some time during the request). `Tick` lets no free
mutex wait and no request outlive the timeout of its client. What a sender held is reset
when it ends; `arrived` and `line` are history.

Left out: the wall clock against the monotonic one (a suspended machine, a clock set
back), revoked tokens, and an OAuth answer without `expires_in`, which the code takes for
an hour. An embedding application may configure another timeout with
`with_request_timeout` or none with `with_client`; the server does neither, and
`CacheAssumption` states what the freshness of tokens needs of it.

### PushContract, ContactContract and the adapters

A text is what the checks read of it (set, length, blank, clean), an endpoint its parsed
parts, a host its name, its parent domain and its address range. The contract modules give
the set of errors of a job; every adapter checks the contract again and then what only it
knows. `FirstRefusal` takes checks in the order of the code, so that the outcome of a job
that breaks several is the one the code gives. `...Request` is what leaves for the provider:
the members of the message, whether it is only validated, its lifetime. `...Outcome` reads
an answer, and an answer says at every step of the way how far it came: the status line, the
body, the JSON, the documents in it. `taken` tells what the provider did; no definition of
an adapter reads it.

The adapters treat a lost body in three ways: FCM, APNs and Expo report a retryable
failure, SendGrid and Twilio go by the status, Web Push never reads it. Expo is modelled
as the registry calls it, one job at a time; `send_batch` with several jobs has no caller
in the service. That a JWT is signed, a payload encrypted or a digest formed is library
work and left out; that it fails is an outcome. `mint` is what an adapter has to sign a token
with: a clock, which may stand before 1970 (`NoClock`, an internal failure), and a key, which
may have passed the start and not sign (`NoSignature`: APNs and Web Push report that they
are not configured; in `FcmToken` a key that cannot be read does the same, one that does not
sign is an internal failure).

### StartupConfig

An environment is a function from the names that are set to the class of their value. Each
provider is off, refused or ready (`Configured`), and so are the lanes; the first refusal
ends the start, which is why `Refused` is a disjunction. The readers differ, and the module
keeps their differences: `non_empty_env` skips white space, the contact credentials do not,
`HOST` and `PORT` have no default once set, and collecting the environment stops at any
value that is not Unicode. `Start` of `HttpIngestion` uses the result.

### HttpIngestion

| Code | Action |
|---|---|
| `run` up to `serve` (`server.rs:47-116`) | `Start`: refused, exported or serving |
| `shutdown_signal`, end of `serve` (224-244, 110-116) | `Terminate`, `Stop` |
| death of the process | `Crash` |
| authentication, batch size (`http_api.rs:236-245`) | `Submit`, or `TurnAway` |
| a job ends before its call (contract, registry, limiter, adapter, token) | `Refuse` |
| the request leaves, the answer comes back | `Call`, `Return` |
| the answer of the API (251-268, 335-346) | `Respond` |
| the client goes away, or the answer is lost | `Disconnect` |

`AdmissionsOf` is the composition: contract, registry slot, adapter checks and, for FCM, the
answers of the OAuth endpoint, in that order; `Mints` gives each adapter the key of its
environment and any clock. The signature of APNs and Web Push is among their checks: when a
cached token makes it unnecessary the clock and the key are as good as fine. The shared limiter and credential caches are
modules of their own; here they give any answer they may. `Call` settles what the provider
does with the request, `Return` is when the handler learns of it: between the two the
handler can be dropped, which is the window every duplicate comes from. The client is
external: it sends a batch again as a whole when it got no answer, and the retryable jobs in
any order when it did. `calls`, `reports` and `cuts` are history and read by no action.

A provider that answers with a failure is assumed not to have taken the message; this, and
that Expo's ticket and Twilio's error code tell the truth, is `AnswerAssumption`. Left out:
requests the framework rejects before the handler (a body that is too large or not JSON),
and a connection whose request never arrives in full.

### ReceiptFollowUp and ReceiptLedger

The repository gives an embedding application the parts: `get_receipts` (`LookupFails`,
`LookupReturns`), `delay_for_attempt` (in `Scheduled`), `DeliveryReceipt::terminal`
(`TerminalError`) and the ledger's `record` (`Recorded`). The worker that puts them
together is external: it looks its open tickets up in one request, records what is final,
waits as the policy says, and gives up when the policy has no delay any more. Workers are
replicas, so each finding may be told several times; a worker may die at any step and its
successor starts with the tickets the ledger does not know. Each worker has a policy of its
own (`PolicyOf`), which `retry.rs` lets have any number of attempts. A text has two
classes of characters, because the code has two tests: a ticket takes whatever is neither white space
nor a control character (`clean`, `expo.rs:454-467`), a provider code only ASCII letters,
digits and `. _ : -` (`plain`, `receipt.rs:190-200`). `Settle` is Expo learning of a
notification's fate, `Cancel` the caller taking it back. Receipts are keyed as in
`for_job`: by tenant, application, idempotency key, provider and target, not by job.

`ReceiptLedger` is what all this may do to the ledger: add one well-formed receipt under a
key that has none, and nothing else.

## 3. Runs

| Run | Instance | Question |
|---|---|---|
| `ingestion_safety` | 2 jobs, 2 deliveries each, 1 permit, 2 faults, envelopes clean / poison / contract violation | all safety invariants |
| `ingestion_liveness` | 1 job, 3 deliveries, 2 permits, 2 faults, fairness | jobs are resolved, permits return, refinement of `DeliveryContract` |
| `ack_progress` | 3 messages, 2 permits, ack-wait 12, calls up to 14, one lost heartbeat each | handlers with room keep their claim |
| `contact_limiter` | 2 callers, 3 tokens a minute of 10 units, a millisecond and the floor of 2, 9 units | quota, hints, refinement of `TokenBucket` |
| `contact_ingestion` | 1 job, 3 deliveries, 2 permits, 1 fault, 2 providers, 1 configured, bucket of 1, fairness | refinement of the fair push lane; refusals |
| `credential_cache` | 3 senders, timeout 2, margin 4, lives 3, 5 and 6, signed tokens kept 3 of 5, 8 seconds, both providers | freshness, sharing, waiting |
| `service` | 1 client, 2 submissions, 21 jobs of 6 providers, batches of none to three jobs of which two are admitted, 12 environments, fairness | what answers say, what leaves, configuration, shutdown |
| `receipts` | 2 workers, 2 tickets of one key, one of them no provider code, receipts of at most 2 attempts, 1 and 2 retries | the ledger, delays, recordable findings |
| `ingestion_nak_claim` | 1 job, 2 deliveries, 1 fault | documentation claim, violated |
| `ingestion_dead_letter_claim` | 1 job, 2 deliveries, 1 fault | documentation claim, violated |
| `ack_progress_doc_claim` | 2 messages, 1 permit | documentation claim, violated |
| `email_modes_claim` | as `service`, without fairness | documentation claim, violated |

The safety properties, and what would break them:

- `SettledHasRecord`: the removed message has a stored event, or both publishes failed for
  one of its deliveries (the branch that only logs, 366-371);
- `DuplicateHasCause`: after an accepted notification, another delivery happens only
  because of a retryable answer, a lost copy or settlement, or an ack-wait that ran out
  under a live handler; never for the sake of the result event;
- `NakOnlyWithinBudget`: neither terminal outcomes nor last deliveries are NAKed;
- `ExhaustedHasCause`: JetStream gives up only under a live last delivery, or after one
  that was lost or ended unsettled;
- `DeadLetterIsTruthful`: the reason code of each dead letter is the true one: the first check
  that failed, a spent retry budget, or a terminal outcome whose result publish failed. One
  case is excepted because the code's reason is false of it: a retryable outcome on the last
  delivery whose result publish failed takes the same branch (`nats_ingestion.rs:496-497`)
  and is called terminal (360);
- `PoisonIsIsolated`: a failed envelope check keeps a job from every provider and from the
  result stream, over all redeliveries;
- `PermitsConserved`: free permits and running handlers add up to `max_concurrency`.

Of the limiter and the contact lane:

- `GrantsAreBounded`: in no window of time, whenever it starts and however callers queue,
  are more tokens granted than a full bucket and what the window refills;
- `HintSuffices`: a hint is short of the next token by less than what a millisecond refills,
  and a caller that came back on time and was refused for that shortage is then told a time
  that suffices, unless another caller is granted a token: waiting as told, it is refused at
  most once more, and polling does not starve it;
- `ImplementsTokenBucket`: the limiter is the bucket the contact lane is composed with;
- `ImplementsLane`: every fair behaviour of the contact lane is a fair behaviour of the
  push lane, so that its properties, liveness included, carry over;
- `RefusedIsNotLost`: a delivery the limiter refused reached no provider, on any path, and
  is never acknowledged; it ends its job only as the last delivery, with a dead letter
  unless both its publishes failed.

Of the credential caches:

- `TokensAreFresh`: no request carries a token past its life before the provider answers
  it; tokens that live no longer than the margin are exempt, since the cache keeps them
  one second and cannot know better;
- `MintsAreShared`: at most one refresh runs, and only while no usable token is cached;
- `UsableTokenIsKept`: a usable token is never replaced (APNs limits how often a provider
  token may change);
- `WaitIsBounded`: a sender waits at most one timeout for each sender that was before it,
  and two more for its own requests, however refreshes fail and senders are dropped. It is
  the timed form of a liveness property; the bound is reached when the OAuth endpoint
  hangs, because a failed refresh is not shared: each waiting sender tries in turn.

Of the HTTP API, where an acceptance is *hidden* when the answer did not come back, when a
body did not that the adapter needs, or when Expo's document has no usable ticket:

- `AcceptedWasTaken`: a job is reported accepted only when its provider took it, in this
  very submission and under its own place in the batch; a Twilio body that is lost is the
  one exception, since the error code of a message that was refused is lost with it;
- `UnreportedAcceptanceHasCause`: a job that was taken is reported as anything else only
  when the acceptance was hidden;
- `RepeatHasCause`: over all submissions, crashes and disconnects a notification is sent
  again after it was taken only because the client got no answer, or because the acceptance
  was hidden: an answer that arrives never makes a client repeat the part of its batch that
  went out;
- `HintReaches`: a delay a provider asks for in seconds reaches the client with every job that
  may be tried again, in full up to a day, except where Expo's answer is judged by its
  document (see below);
- `DryRunNeverDelivers`, `RoutingIsExact`, `ContentArrives`: a push job that is only to be
  validated never leaves as a notification; a job goes to its own provider and its token's
  environment, so the adapters' own mismatch codes never appear; and all that can be seen of
  a job, and its lifetime, is in the message, or the job is refused;
- `ConfigurationIsHonest`: nobody is told that a provider is not configured for which the
  server was given a setting (but for APNs tokens of the other environment, and for a private
  key that passed the start although it cannot be used: `KeyIsOfNoUse`), and nothing is sent
  while a lane's readiness probe fails;
- `ShutdownCompletes`: after a signal the process ends.

Of the receipts:

- `ImplementsLedger`: under replicas, crashes, late and repeated receipts, jobs under one
  idempotency key and cancellations the ledger is `ReceiptLedger`;
- `ReceiptIsTruthful`: a receipt says what Expo has said of this very notification, and
  gives up only when the policy did; a missing receipt or a failed lookup is no evidence;
- `BackoffIsBounded`: between lookups a worker waits at least what the Retry-After header of
  Expo's answer asks for, up to a day, and half of the exponential step, and never longer
  than the larger of the ceiling and that. The header of an answer that is judged by its
  document is excepted, because it is lost;
- `VerdictsAreRecordable`: a finding is refused as a receipt for two causes only: its ticket
  is no provider code, by its length or by its characters, or the worker's policy goes on
  past the attempts a receipt may count. The last permitted attempt is recorded, and so is
  every error code.

Bounds. Two jobs suffice for what jobs share: the loop, the buffer and the permits. Two
deliveries already separate the last from an earlier one; three let a copy overtake a copy
that overtook another. One permit makes buffered copies wait behind a running handler, two
let copies of a job run side by side. Two faults combine any failure with a crash, or with
the failure of the recovery from it. Jobs and senders are symmetry
sets only in runs without liveness. A unit
of the limiter's time refills three tenths of a token, so that fractions, the cap, hints that
are rounded or cut too short and the refusal after them all occur within nine units. In the contact run one job overlaps itself on two
permits, HTTP traffic can drain the bucket before any of its deliveries, and its provider
may be the one that is not configured. Three senders make a line with a first, a middle
and a last; eight seconds hold two token lives and every order of expiry, timeout and
drop. In the service run `MAX_BATCH_JOBS` is 2, so that a batch can be empty, full and one too
long, and a batch of two already has a place that is wrong; a second submission is the first
that can repeat; clients share nothing but the process, the caches and the limiter, so one
suffices here and the proofs cover any number. The jobs are chosen at the edges of the
checks (blank texts, texts just over a limit, tokens of the wrong shape, lifetimes of zero,
validation-only jobs), the answers so that each adapter meets acceptance, refusal,
throttling, a lost answer and the bodies it tells apart, and the environments so that each
provider is on in one and off in another, and half a configuration, a lane without its
queue, a key of white space, an export and a value that is not Unicode each keep the server from serving.
In the receipts run two tickets share one ledger key, so that first and second receipt agree,
differ and conflict, and two retries reach the policy's ceiling and its end. Either ticket is
as long as a provider code may be, and one has a character that none may have; one policy
ends with the last attempt a receipt may count, the other goes one further. The answers have a
header that is honoured and one that is lost. The proofs lift
all these bounds for every safety and action property; only the liveness properties are
known for these instances alone.

Deadlock checking is off in all runs but `receipts`: a lane whose jobs are all settled, a
lane or a server that stopped for good, and a clock at its bound have nothing left to do. The
workers of `receipts` can always be replaced.

Fairness (`FairSpec`). JetStream serves an open pull and runs its timers (weak fairness of
`Deliver`, `TimerFires`, `GiveUp`); the Tokio scheduler runs the loop and each handler,
and a provider call returns because the HTTP clients have request timeouts (weak fairness
of `LoopStep` and of each `HandlerStep`). No fairness is assumed of faults, of the
provider's acceptance or of heartbeats.

The contact lane assumes the same (`ContactFairness`): a handler in `registry.dispatch`
gets on, since the mutex of a limiter is held for no await. Nothing is assumed of the HTTP
traffic, nor that a bucket is refilled in time for a job.

The HTTP API (`FairSpec` of `HttpIngestion`): a handler whose client stays gets on, since the
runtime drives it and every call it makes has a time limit, and `serve` returns once no
request is left. `HandlerFairness` is weak fairness of a handler's steps, written out; it is
enabled exactly while the request is in flight. Nothing is assumed of clients, of signals or
of crashes.

- `EveryJobResolved`: each job is settled or given up, unless the loop ended for good: an
  error of `build_consumer` leaves `run_nats_consumer` through `?`;
- `FaultFreeJobsAreSettled`: without faults each job is settled, however timers interleave;
- `PermitsReturn`: in the end every permit is free.

Documentation the code does not follow (each a run that TLC must find violated):

- `docs/nats-ingestion-v1.md:48` says that a failed result publish NAKs the job; for a
  terminal outcome the code publishes a dead letter and terminates it (357-372), and must,
  or it would send twice. The comment at 482-489 describes the code.
- `docs/nats-ingestion-v1.md:56` says that a retryable outcome on the final delivery is
  dead-lettered and terminated; when that publish fails, `?` at 399 leaves the job
  unsettled on its last delivery, stranded in the work queue with no dead letter.
- `docs/nats-ingestion-v1.md:50` says that heartbeats keep healthy work from being
  redelivered; a message that waited for a permit has spent part of its ack-wait, and the
  first heartbeat comes a full interval after the handler started.
- `docs/contact-delivery-v1.md:142` says that explicit content and template mode of a mail
  cannot be mixed; the contract takes a template identifier of white space for none
  (`contact/validation.rs:157`), the adapter for one (`contact/sendgrid.rs:311`), so a mail
  accepted for its subject and text leaves as a template, without them.

Observed while modelling, and not runs of their own:

- `docs/expo.md:36` says that throttling honours `Retry-After`; the header of an answer whose
  body holds a request-level error, or a ticket's, is not read (`expo.rs:276`, 616). A
  throttled job or lookup of this kind comes back with no delay. `HintReaches` and
  `BackoffIsBounded` name the exception.
- A retryable outcome on the last delivery whose result cannot be published is dead-lettered
  with the reason `result_publish_failed_after_terminal_outcome`, which is not true of it
  (`nats_ingestion.rs:360`, by way of 496-497). `DeadLetterIsTruthful` names the exception.
- The hint of the contact limiter may be too short: at seven tokens a minute an empty bucket
  asks for 8571 ms, which refill 0.99995 of a token, and a caller that comes back on time
  is refused once more.
- An APNs key of another curve passes the start (`apns.rs:70` looks at its form) and fails with
  the first signature, which is reported as not configured (374); so is an FCM key
  that cannot be read (`fcm.rs:213`). `ConfigurationIsHonest` names the exception.
- `http_api.rs:196` documents an `ErrorEnvelope` for status 400 of a submission; a job that
  fails validation is answered with 400 and a `PushOutcome`.
- An ok ticket of Expo without a usable identifier is an `internal_failure`, which is
  retryable: the notification went out and goes out again. This is one of the hidden
  acceptances above, as is an FCM success whose body cannot be read (`fcm.rs:379`).
- `VAPID_SUBJECT` without a key and `FCM_PROJECT_ID` without a service account are ignored,
  while half of APNs' or Twilio's settings stop the start. Expo is always registered, so the
  push lane is ready as soon as authentication is configured.
- A ticket may have 256 bytes (`expo.rs:26`) and characters such as `/` or `=`, a provider code
  of a receipt 64 bytes of ASCII letters, digits and `. _ : -` (`receipt.rs:190-200`); FCM's
  message name holds slashes and cannot be a provider code at all.
- `retry.rs:53-67` admits policies of any number of attempts. One of 64 has 65 lookups, one more
  than a receipt may state (`receipt.rs:151`). `VerdictsAreRecordable` names this cause and
  the one before.

## 4. Proofs

Assumptions: `ConstantsAssumption` (finitely many jobs, positive `MaxDeliver` and
`MaxConcurrency`), `TimingAssumption`, `LimiterAssumption` (a millisecond is no longer than the
least hint, nor that than a minute), `ContactAssumption`,
`CacheAssumption` (twice the timeout fits in FCM's margin, and once in what the APNs
cache leaves of the token's hour: 20, 60, 3000 and 3600 seconds in the code),
`RetryAssumption` (jitter is at most half), `FollowUpAssumption` (what `RetryPolicy::new` and
`validate_ticket_id` let through; the attempts of a policy have no upper limit) and
`PowersOfTwo` (a fact of arithmetic the provers lack: a power of two is a positive number),
`HttpAssumption`,
`JobAssumption` (two jobs of a batch have two names), `AnswerAssumption`, and two that only
the theorems about routes, contents and configurations need. `ShapeAssumption` says that a
job is a value of its Rust type: an `Option<String>` that is absent has no visible text,
`ProviderEnvironment` has two members, and the content of an SMS has no fields of a mail.
`CodeAssumption` says that no provider answers with one of the four codes the service itself
uses for a misplaced or unconfigured job. The adapters pass a provider's code on verbatim, so
this is a fact about the providers' published codes, and without it `RoutingIsExact` would
take a provider's word for the service's. TLC evaluates each of them in the runs of its
module.

`JetStreamIngestionProofs` proves that `IngestionInv` is inductive. None of the safety
properties is inductive alone; the invariant adds

- `StageKnowledge` and `Knows(d)`: what a handler's stage says of its outcome and of the
  events already published for it (a handler about to ack has its result stored, one about
  to terminate has a dead letter or two failed publishes);
- `Lifecycle`: a delivery is undelivered exactly when its number exceeds the delivery
  counter, buffered deliveries are distinct and not yet in a handler, a settled handler's
  message is gone, and a copy followed by another was overtaken or ended without settling;
- `Evidence`: what stored events say of the handlers that published them;
- `PermitsConserved`, whose proof counts handlers with the finite-set theorems.

From it follow `TypeCorrectness`, `PermitConservation`, `SettlementIsRecorded`,
`DuplicatesAreExcused`, `NaksAreWithinBudget`, `ExhaustionIsExcused`,
`DeadLettersAreTruthful` and `PoisonStaysIsolated`. With the same invariant every step of
the lane is a step of `DeliveryContract` or leaves it unchanged (`LaneImplementsContract`).
`WorkMovesOn` is the safe half of the liveness properties: each step takes a copy of a job to
a higher `Rank`, so that it is handled once and in at most seven steps, and a message that
was settled or given up draws no delivery. `AckProgressProofs` bounds the silence the server
hears from a running handler by its start-up wait plus one interval per heartbeat, lost
ones included (`HeartbeatsSuffice`), for every ack-wait and call length.

`ContactRateLimiterProofs` rests on `BucketInv`: the level lies between zero and capacity,
`last` never passes the clock, and what was granted in the observed window together with
what the bucket would hold now is at most a full bucket and the window's refill (the
potential that makes `GrantsAreBounded` inductive). `ToldInv` is about `AtHint`, what the
bucket will hold when the time of a hint is over: after a refusal it lacks less than a
millisecond's refill of a token, whatever `Limit` and `Milli` are, and nothing if the caller
had waited for a hint before, because the shortage is then so small that the least hint
covers it. Other callers' refusals leave `AtHint` alone, and a grant ends it. From it follow `QuotaIsKept`, `HintsAreHonest`
and `LimiterImplementsBucket`.

`ContactIngestionProofs` shows that each step of the contact lane is a step of the push
lane or leaves its variables alone (`ContactLaneIsLane`), so the safety theorems above hold
of it (`LaneGuaranteesCarryOver`), and the contract and the progress of copies as well
(`ContactLaneImplementsContract`): a chain of two refinements from the lane with its limiters
to the promise. `SendsAreMetered` shows that a request to a provider holds a token of its
bucket and goes to a configured provider (`Metered`; the lane's own steps neither begin nor
end a call, `LaneLeavesCallsAlone`). `RefusalsAreNotLost` needs more than the push lane's
invariant: `AcceptanceInv` (a delivery the provider accepted is past its call, so it cannot
be refused afterwards) and `RefusedInv` (what a refused delivery's stage says of its budget
and its dead letter).

`CredentialCacheProofs` shows `CacheInv` inductive: the line is a strict order (`LineInv`),
no request outlives its timeout (`RequestInv`), a cached token outlives any request begun
with it (`FreshInv`), and each sender in line has used up no more than a timeout for each
sender that has left before it (`WaitInv`, whose `Budget` shrinks with the line). That time
cannot pass under a free mutex needs a first sender in every line, which is the
well-foundedness of strict inclusion on finite sets.

`ReceiptFollowUpProofs` shows `FollowUpInv` inductive: every open finding is the finding of a
final outcome or of an exhausted policy (`IsFinding`), a worker's lookups never exceed its
policy's attempts by more than one, and its delay is within the bounds of its policy and of
the answer it had (`Sound`); what was refused was refused for one of the two causes; ledger
entries are well-formed, under their own key and truthful (`LedgerInv`). A verdict never
changes once it is there, which is what keeps a receipt true. The bounds of the delays rest
on lemmas about `retry.rs` (`JitteredDelay`: jitter takes away at most half), for every
policy, attempt and number of entropy, and on `FailureHint`: a failed lookup that may be tried
again has the delay its header asks for, unless its document is judged. `SchedulesAreSound` states them of whatever
`RetryPolicy::new` is given: a delay is between a millisecond and a day, and at most twice
that of any later attempt. `LedgerIsInsertOnce` maps every step to a `Record` or a stutter;
`ReceiptsAreFinal` reads from it that what stands in the ledger stays, with the verdict it
speaks of.

The proofs about the HTTP API have two parts. `AdapterProofs` is about the adapters, for
every job and answer: what an adapter refuses is never an acceptance and its delay is within the cap
(`AdmissionFacts`, over `FirstRefusalFacts`), and what it makes of an answer judges it
rightly (`CallJudges`, from one lemma for each of the six providers): accepted only if taken
or Twilio's body is lost, anything else only if not taken or hidden, with the provider's
delay whenever it is retryable. It also shows that no outcome has one of the service's own
codes for a misplaced job unless it is one (`OutcomesArePlain`, `AdmissionsArePlain`), or,
for the code of a missing configuration, its private key is of no use (`PlainBut`), that a
job's slot is that of its provider and environment (`SlotIsExact`), that a request has every
visible member of its job and its lifetime (`PushArrives`, `ContactArrives`), and that a
setting which is there leads to a slot or to a refused start (`TurnedOnIsServed`).
`HttpIngestionProofs` rests on it and on the invariant `HttpInv`:

- `TypeInv`: a request knows how far it is, and holds each job once;
- `CallInv`: a call is one of a job that passed every check, with the request formed of it;
- `ProgressInv`: the outcomes so far are what the adapters made of this submission's calls
  (`Settled`), and its calls are those of the jobs it has been through and of the one it is
  at; without the latter a later outcome could contradict an earlier call;
- `ReportInv`: the same of the answers given, which no later call can disturb, since a
  client's submissions are numbered;
- `PastInv`: what was taken and seen to be is on its client's list no more. It is what makes
  `RepeatHasCause`, the last conjunct, inductive: a repeat needs a job that is still listed.

From it follow `HttpTypes`, `AcceptedJobsWereTaken`, `UnreportedAcceptancesHaveCauses`,
`RepeatsHaveCauses`, `HintsReach` and `DryRunsNeverDeliver`, for every number of clients,
submissions and jobs, every environment and every answer within the assumption.

`RoutesAreExact`, `ContentsArrive` and `ConfigurationsAreHonest` need to know besides where
an outcome came from and who may be served at all: `FoundedInv` (each outcome of a request or
a report is one its job may meet before it is sent, or is made of an answer) and `OpenInv`
(requests, calls and reports exist only in an environment that was not refused and that
guards its API). With these, each of the three is a fact about one job and one environment.
For `ContentArrives` and `RoutingIsExact`'s first half, `CallInv` is enough.

`ShutdownWorkShrinks` is the safe half of `ShutdownCompletes`. `Work` counts the steps a
handler has left, two for each job and two for the answer; `AdmittedInv` (a request in
flight has at most `MaxBatchJobs` jobs) bounds it, every step of a handler lessens it, and
while the server stops no request begins.

Only model-checked: liveness (`EveryJobResolved`, `FaultFreeJobsAreSettled`, `PermitsReturn`,
`ShutdownCompletes`, and the fairness in `ImplementsLane`), which is beyond the prover: it
needs ENABLED for the `WF` conjuncts and an induction over temporal formulas. That powers of two are positive is an induction over data
and an assumption here. Every invariant and action property of a passing run is stated by a
theorem; of `ImplementsLane`, a fair specification, the safe part is (`ContactLaneIsLane`).

## 5. Not modelled, and what is left

Not modelled: redaction and fingerprints (formatting and digests), the shape of mail
addresses and numbers (given with the address), OpenAPI documents, scripts, CI and generated
clients, signatures and encryption (library work), `send_batch` of Expo with several jobs
(no caller in the service), requests that the HTTP framework rejects or never receives in
full, and saturation of the retry arithmetic beyond 2^128 milliseconds.

What could be added:

1. the credential caches under HTTP load: `CredentialCache` and `HttpIngestion` composed, with
   the wait for the mutex counted against the shutdown;
2. the seven-day age limit of the job stream, and the pull stream's own heartbeats.
