---------------------------- MODULE HttpIngestion ----------------------------
(***************************************************************************)
(* The HTTP API: src/src/http_api.rs, contact/http.rs, dispatch.rs and     *)
(* contact/dispatch.rs between server.rs, which starts and stops it, and   *)
(* the adapters.  A handler checks the credential and the size of the      *)
(* batch, takes the jobs one after another to their provider, and answers  *)
(* once for all of them.  It keeps nothing: a handler whose client goes    *)
(* away is dropped where it stands.  The credential caches and the rate    *)
(* limiter the requests share are the modules CredentialCache and          *)
(* ContactRateLimiter; here they give whatever answer they may.            *)
(*                                                                         *)
(* A client sends a batch again as a whole when it got no answer, and the  *)
(* jobs reported retryable when it did.  A single submission is a batch of *)
(* one.                                                                    *)
(***************************************************************************)
EXTENDS StartupConfig, ContactAdapters

CONSTANTS
  Clients,       \* the callers of the API
  Environments,  \* the environments the server may be started in
  JobOf,         \* the jobs, by name
  Batches,       \* the batches a client may submit: sequences of names
  AnswersOf,     \* by provider, the answers it may give
  TokenAnswers,  \* the answers of FCM's OAuth endpoint
  Resolutions,   \* what a lookup of a host may give
  MaxBatchJobs,  \* MAX_BATCH_JOBS
  MaxTries       \* bound: how often a client submits

ASSUME HttpAssumption ==
  /\ MaxBatchJobs \in Nat \ {0} /\ MaxTries \in Nat
  /\ MaxRetryAfter >= 1000  \* so that the delay of LocalRateLimit is one

Kinds == ProviderKinds \cup ContactKinds
Names == DOMAIN JobOf

\* the places of a sequence hold different things
Distinct(seq) == \A i, k \in DOMAIN seq : seq[i] = seq[k] => i = k

\* a name stands for a place: two jobs of a batch that are alike have two names
ASSUME JobAssumption ==
  /\ \A name \in Names : JobOf[name].provider \in Kinds
  /\ \A batch \in Batches : batch \in Seq(Names) /\ Distinct(batch)

IsContact(job) == job.provider \in ContactKinds

\* what is not set cannot be seen
IsText(text) == Visible(text) => text.set

\* A job has the parts of its kind: an optional text is set or it is no text, a token of APNs is
\* of one of its two environments, and an SMS has a body and nothing else.
ASSUME ShapeAssumption ==
  \A name \in Names :
    LET job == JobOf[name] IN
    IF IsContact(job)
    THEN IF job.content.kind = "email"
         THEN \A part \in { "template_id", "subject", "text", "html" } : IsText(job.content[part])
         ELSE DOMAIN job.content \cap { "template_id", "subject", "html" } = {}
    ELSE /\ \A part \in { "title", "body", "image_url" } : IsText(job[part])
         /\ job.target.kind = "apns" => job.target.environment \in { "production", "sandbox" }

\* the codes of a job that reached an adapter, or an APNs environment, it does not belong to
MismatchCodes ==
  { "environment_mismatch", "provider_target_mismatch", "provider_content_mismatch" }

\* A provider's code becomes the code of the outcome; none of them is taken for one of these.
ASSUME CodeAssumption ==
  LET own == MismatchCodes \cup { NotConfigured.code } IN
  /\ \A answer \in TokenAnswers : answer.code \notin own
  /\ \A kind \in Kinds : \A answer \in AnswersOf[kind] :
       /\ answer.code \notin own
       /\ Len(answer.tickets) = 1 => answer.tickets[1].code \notin own

\* What a provider answers with a failure it did not take; of a success, Expo's ticket and an
\* error code of Twilio tell whether it did.
ASSUME AnswerAssumption ==
  /\ \A answer \in TokenAnswers : answer.header.value \in Nat
  /\ \A kind \in Kinds : \A answer \in AnswersOf[kind] :
       /\ answer.header.value \in Nat /\ answer.taken \in BOOLEAN
       /\ (answer.taken /\ answer.arrived) => Success(answer.status)
       /\ (kind \in { "expo", "twilio" } /\ answer.taken) => answer.code = None
       /\ (kind = "expo" /\ Len(answer.tickets) = 1) =>
            (answer.taken <=> answer.tickets[1].ok)
       /\ (kind # "expo" /\ answer.arrived /\ Success(answer.status)) =>
            (answer.taken \/ (kind = "twilio" /\ answer.code # None))

VARIABLES
  server,   \* where the process is in its life
  env,      \* the environment it was started in
  request,  \* each client's request: its stage, the jobs in it, what came of them so far
  tries,    \* how often each client has submitted
  calls,    \* history: every request that reached a provider, with the answer it drew
  reports,  \* history: every answer of the API to an admitted batch
  cuts      \* history: the submissions that ended without an answer

vars == << server, env, request, tries, calls, reports, cuts >>

InFlight(c) == request[c].stage \in { "running", "calling" }

Idle(jobs) == [stage |-> "idle", jobs |-> jobs, outcomes |-> << >>, answer |-> << >>]

\* the job a handler is at
Current(c) == request[c].jobs[Len(request[c].outcomes) + 1]

(***************************************************************************)
(* The registries.                                                         *)
(***************************************************************************)
\* what the adapters take from the environment
Config(e) ==
  [ apnsEnvironment |-> ApnsEnvironment(e),
    hostPolicy      |-> HostPolicy(e),
    defaultTtl      |-> IF Given(e, "WEBPUSH_TTL_SECONDS") THEN 60 ELSE DefaultTtlSeconds,
    sandbox         |-> EnvironmentFlag(e, "SENDGRID_SANDBOX_MODE"),
    validity        |-> IF Given(e, "TWILIO_VALIDITY_PERIOD_SECONDS") THEN 600 ELSE NoDuration ]

\* every sandbox token to the production provider
BugSlotFor(job) == IF job.target.kind = "apns" THEN "apns_production" ELSE job.target.kind

\* the slot of the registry a push job goes to, by its target
SlotFor(job) ==
  IF job.target.kind = "apns" THEN ApnsSlot(job.target.environment) ELSE job.target.kind

Registered(e, job) ==
  IF IsContact(job) THEN job.provider \in ContactProviders(e) ELSE SlotFor(job) \in PushSlots(e)

LocalRateLimit == Reply("throttled", "local_rate_limit", 1000)

\* what the adapter of a job has to mint a token with: the clock may stand before 1970
Mints(e, job) == [clock : BOOLEAN, key : { Value(e, KeyVariable(job.provider)) }]

\* FCM's token, from the cache or from its OAuth endpoint, stands between the checks and the
\* call; the tokens of APNs and Web Push are among the checks, and Expo has none
TokenOutcomes(e, job) ==
  IF job.provider = "fcm"
  THEN { FcmToken(mint, answer) : mint \in Mints(e, job), answer \in TokenAnswers }
  ELSE { Proceed }

\* what a job may meet before it is sent: Proceed, or the outcome it ends with
Admissions(e, job) ==
  LET contract == IF IsContact(job) THEN MeetsContactContract(job) ELSE MeetsPushContract(job)
      adapter  == IF IsContact(job) THEN { ContactRefusal(job) }
                  ELSE { PushRefusal(job, Config(e), resolved, mint) :
                           resolved \in Resolutions, mint \in Mints(e, job) } IN
  IF ~contract THEN { InvalidPayload("contract_validation_failed") }
  ELSE IF ~Registered(e, job) THEN { NotConfigured }
  ELSE { reply \in adapter : reply # Proceed }
       \cup (IF IsContact(job) THEN { LocalRateLimit } ELSE {})
       \cup (IF Proceed \in adapter THEN TokenOutcomes(e, job) ELSE {})

\* for every environment and every job, so that TLC works it out once
AdmissionsOf ==
  [e \in Environments |-> [name \in DOMAIN JobOf |-> Admissions(e, JobOf[name])]]

RequestFor(e, job) ==
  IF IsContact(job) THEN ContactRequest(job, Config(e)) ELSE PushRequest(job, Config(e))

OutcomeOf(job, answer) ==
  IF IsContact(job) THEN ContactOutcome(job, answer) ELSE PushOutcome(job, answer)

(***************************************************************************)
(* The server.                                                             *)
(***************************************************************************)
Init ==
  /\ server = "down" /\ env \in Environments
  /\ \E batch \in [Clients -> Batches] : request = [c \in Clients |-> Idle(batch[c])]
  /\ tries = [c \in Clients |-> 0]
  /\ calls = {} /\ reports = {} /\ cuts = {}

\* An export ends the process before any of the configuration is read.
Start ==
  /\ server = "down"
  /\ server' = IF ArgumentsRefused(env) THEN "refused"
               ELSE IF ExportsOpenApi(env) THEN "exported"
               ELSE IF Refused(env) THEN "refused"
               ELSE "serving"
  /\ UNCHANGED << env, request, tries, calls, reports, cuts >>

\* a signal: no connection is taken any more, requests in flight are waited for
Terminate ==
  /\ server = "serving"
  /\ server' = "stopping"
  /\ UNCHANGED << env, request, tries, calls, reports, cuts >>

Stop ==
  /\ server = "stopping" /\ \A c \in Clients : ~InFlight(c)
  /\ server' = "stopped"
  /\ UNCHANGED << env, request, tries, calls, reports, cuts >>

\* the process is killed or its host lost
Crash ==
  /\ server \in { "serving", "stopping" }
  /\ server' = "down"
  /\ cuts' = cuts \cup { << c, tries[c] >> : c \in { d \in Clients : InFlight(d) } }
  /\ request' = [c \in Clients |-> Idle(request[c].jobs)]
  /\ UNCHANGED << env, tries, calls, reports >>

(***************************************************************************)
(* A request.                                                              *)
(***************************************************************************)
\* what the handler makes of the batch before it looks at a job: an HTTP status, or go on
Admitted == 0
Gate(c, credential) ==
  IF ~Authenticate(env, credential) THEN 401
  ELSE IF Len(request[c].jobs) \notin 1..MaxBatchJobs THEN 400
  ELSE Admitted

MaySubmit(c) == server = "serving" /\ request[c].stage = "idle" /\ tries[c] < MaxTries

Submit(c, credential) ==
  /\ MaySubmit(c) /\ Gate(c, credential) = Admitted
  /\ tries' = [tries EXCEPT ![c] = @ + 1]
  /\ request' = [request EXCEPT ![c].stage = "running"]
  /\ UNCHANGED << server, env, calls, reports, cuts >>

TurnAway(c, credential) ==
  /\ MaySubmit(c) /\ Gate(c, credential) # Admitted
  /\ tries' = [tries EXCEPT ![c] = @ + 1]
  /\ UNCHANGED << server, env, request, calls, reports, cuts >>

\* the handler has a job to turn to
AtJob(c) ==
  request[c].stage = "running" /\ Len(request[c].outcomes) < Len(request[c].jobs)

\* the job ends without a call: contract, registry, rate limit, adapter or token
Refuse(c) ==
  /\ AtJob(c)
  /\ \E reply \in AdmissionsOf[env][Current(c)] \ { Proceed } :
       request' = [request EXCEPT ![c].outcomes = Append(@, reply)]
  /\ UNCHANGED << server, env, tries, calls, reports, cuts >>

\* the request is on its way; what the provider does with it is settled, if not yet known
Call(c) ==
  LET job == JobOf[Current(c)] IN
  /\ AtJob(c) /\ Proceed \in AdmissionsOf[env][Current(c)]
  /\ \E answer \in AnswersOf[job.provider] :
       /\ request' = [request EXCEPT ![c].stage = "calling", ![c].answer = << answer >>]
       /\ calls' = calls \cup { [client |-> c, try |-> tries[c], job |-> Current(c),
                                 request |-> RequestFor(env, job), answer |-> answer] }
  /\ UNCHANGED << server, env, tries, reports, cuts >>

\* the handler forgets how far it is and calls again
BugReturn(c) ==
  /\ request[c].stage = "calling"
  /\ request' = [request EXCEPT ![c].stage = "running", ![c].answer = << >>]
  /\ UNCHANGED << server, env, tries, calls, reports, cuts >>

\* outcomes are pushed to the front
BugReturnFirst(c) ==
  /\ request[c].stage = "calling"
  /\ request' = [request EXCEPT
       ![c].stage = "running", ![c].answer = << >>,
       ![c].outcomes = << OutcomeOf(JobOf[Current(c)], request[c].answer[1]) >> \o @]
  /\ UNCHANGED << server, env, tries, calls, reports, cuts >>

Return(c) ==
  /\ request[c].stage = "calling"
  /\ request' = [request EXCEPT
       ![c].stage = "running", ![c].answer = << >>,
       ![c].outcomes = Append(@, OutcomeOf(JobOf[Current(c)], request[c].answer[1]))]
  /\ UNCHANGED << server, env, tries, calls, reports, cuts >>

\* status_for_outcome, for one job
StatusForOutcome(class) ==
  CASE class = "accepted"        -> 202
    [] class = "invalid_payload" -> 400
    [] class = "invalid_token"   -> 422
    [] class = "throttled"       -> 429
    [] class \in { "transient_provider_failure", "internal_failure" } -> 503
    [] OTHER                     -> 502

BatchStatus(outcomes) ==
  IF \A i \in DOMAIN outcomes : outcomes[i].class = "accepted" THEN 202 ELSE 207

\* what a client that has its answer sends again: what is retryable, in an order of its own
Resent(jobs, outcomes) ==
  LET again == { jobs[i] : i \in { k \in DOMAIN jobs : IsRetryable(outcomes[k].class) } } IN
  { left \in UNION { [1..n -> again] : n \in 0..Len(jobs) } :
      Distinct(left) /\ \A name \in again : \E i \in DOMAIN left : left[i] = name }

\* The answer arrives.  Nothing tells the two routes apart but the status of a batch of one.
Respond(c) ==
  LET jobs == request[c].jobs
      outcomes == request[c].outcomes IN
  /\ request[c].stage = "running" /\ Len(outcomes) = Len(jobs)
  /\ \E status \in { BatchStatus(outcomes) }
                   \cup (IF Len(jobs) = 1 THEN { StatusForOutcome(outcomes[1].class) } ELSE {}) :
       reports' = reports \cup { [client |-> c, try |-> tries[c], jobs |-> jobs,
                                  outcomes |-> outcomes, status |-> status] }
  /\ \E left \in Resent(jobs, outcomes) :
       request' = [request EXCEPT ![c] = IF left = << >> THEN [Idle(left) EXCEPT !.stage = "done"]
                                                        ELSE Idle(left)]
  /\ UNCHANGED << server, env, tries, calls, cuts >>

\* the client goes away, or the answer is lost on its way: the handler is dropped
Disconnect(c) ==
  /\ InFlight(c)
  /\ cuts' = cuts \cup { << c, tries[c] >> }
  /\ request' = [request EXCEPT ![c] = Idle(request[c].jobs)]
  /\ UNCHANGED << server, env, tries, calls, reports >>

Credentials == { "shared_secret", "other" }

Handle(c) == Refuse(c) \/ Call(c) \/ Return(c) \/ Respond(c)

Next ==
  \/ Start \/ Terminate \/ Stop \/ Crash
  \/ \E c \in Clients :
       \/ \E credential \in Credentials : Submit(c, credential) \/ TurnAway(c, credential)
       \/ Handle(c)
       \/ Disconnect(c)

Spec == Init /\ [][Next]_vars

(***************************************************************************)
(* A handler is driven by the runtime, and every call it waits for has a   *)
(* time limit: as long as its client stays it gets on.  This is weak       *)
(* fairness of Handle(c), which is enabled exactly while c's request is in *)
(* flight, written without ENABLED.  Once no request is left, axum returns *)
(* from serve.                                                             *)
(***************************************************************************)
GetsOn(c) == InFlight(c) /\ request'[c] # request[c]

HandlerFairness(c) == []<>~InFlight(c) \/ []<><< GetsOn(c) >>_vars

Fairness == WF_vars(Stop) /\ \A c \in Clients : HandlerFairness(c)

FairSpec == Spec /\ Fairness
=============================================================================
