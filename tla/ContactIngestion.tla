--------------------------- MODULE ContactIngestion ---------------------------
(***************************************************************************)
(* The durable contact lane of src/contact_nats_ingestion.rs. Its consumer *)
(* loop and its handlers are those of the push lane, clause by clause; what *)
(* differs is behind registry.dispatch (src/contact/dispatch.rs): a job    *)
(* names its provider, each provider has a token bucket, and the HTTP API  *)
(* draws on the same buckets. The lane is therefore composed from the      *)
(* actions of JetStreamIngestion and from a TokenBucket per provider.      *)
(*                                                                         *)
(* The class invalid_token stands for the contact lane's invalid_target.   *)
(***************************************************************************)
EXTENDS JetStreamIngestionProperties

CONSTANTS
  Providers,    \* sendgrid and twilio
  Configured,   \* those with credentials in the environment
  Burst         \* provider -> its limit per minute, the tokens of a full bucket

ASSUME ContactAssumption ==
  /\ Configured \subseteq Providers
  /\ Burst \in [Providers -> Nat \ {0}]
  /\ { "throttled", "permanent_provider_failure" } \subseteq ProviderAnswers

VARIABLES
  provider,   \* job -> the provider it names
  tokens,     \* provider -> whole tokens in its bucket
  ticket,     \* deliveries that took a token and are on their way to the provider
  refused     \* history: deliveries the limiter refused

limiters    == <<tokens, ticket, refused>>
contactVars == <<vars, provider, limiters>>

ContactInit ==
  /\ Init
  /\ provider \in [Jobs -> Providers]
  /\ tokens = Burst
  /\ ticket = {}
  /\ refused = {}

-----------------------------------------------------------------------------
(* ContactProviderRegistry::dispatch *)

Dispatching(d) == pc[d] = "calling" /\ d \notin ticket
ProviderOf(d)  == provider[Job(d)]

Answers(d, class) == Answer(d) /\ outcome'[d] = class

\* the provider of the job is not configured
NotConfigured(d) ==
  /\ Dispatching(d)
  /\ ProviderOf(d) \notin Configured
  /\ Answers(d, "permanent_provider_failure")
  /\ UNCHANGED <<provider, limiters>>

\* try_acquire takes a token; the request to the provider follows
TakeToken(d) ==
  /\ Dispatching(d)
  /\ ProviderOf(d) \in Configured
  /\ tokens[ProviderOf(d)] > 0
  /\ tokens' = [tokens EXCEPT ![ProviderOf(d)] = @ - 1]
  /\ ticket' = ticket \cup { d }
  /\ UNCHANGED <<vars, provider, refused>>

\* mutant: the limiter is asked after the request was sent
BugThrottle(d) ==
  /\ pc[d] \in { "calling", "taken" }
  /\ tokens[ProviderOf(d)] = 0
  /\ outcome' = [outcome EXCEPT ![d] = "throttled"]
  /\ Goto(d, "publishing")
  /\ refused' = refused \cup { d }
  /\ UNCHANGED <<external, msg, delivered, loop, inbox, permits, results, dead, history,
                 provider, tokens, ticket>>

\* the bucket is empty: a retryable outcome, and no request to the provider
Throttle(d) ==
  /\ Dispatching(d)
  /\ ProviderOf(d) \in Configured
  /\ tokens[ProviderOf(d)] = 0
  /\ Answers(d, "throttled")
  /\ refused' = refused \cup { d }
  /\ UNCHANGED <<provider, tokens, ticket>>

ContactAccepts(d) ==
  d \in ticket /\ ProviderAccepts(d) /\ UNCHANGED <<provider, limiters>>

\* the provider's client returns
ContactAnswer(d) ==
  /\ d \in ticket
  /\ Answer(d)
  /\ ticket' = ticket \ { d }
  /\ UNCHANGED <<provider, tokens, refused>>

Dispatch(d) == NotConfigured(d) \/ TakeToken(d) \/ Throttle(d) \/ ContactAnswer(d)

-----------------------------------------------------------------------------
(* The other users of the buckets: HTTP handlers of the same process, and time. *)

HttpTakes(p) ==
  /\ loop # "down"
  /\ p \in Configured
  /\ tokens[p] > 0
  /\ tokens' = [tokens EXCEPT ![p] = @ - 1]
  /\ UNCHANGED <<vars, provider, ticket, refused>>

\* mutant: time adds a token to a full bucket
BugRefills(p) ==
  /\ tokens' = [tokens EXCEPT ![p] = @ + 1]
  /\ UNCHANGED <<vars, provider, ticket, refused>>

Refills(p) ==
  /\ \E n \in 1..Burst[p] : n > tokens[p] /\ tokens' = [tokens EXCEPT ![p] = n]
  /\ UNCHANGED <<vars, provider, ticket, refused>>

\* the buckets are process-local: the next process starts with full ones
ContactCrash ==
  /\ Crash
  /\ tokens' = Burst
  /\ ticket' = {}
  /\ UNCHANGED <<provider, refused>>

-----------------------------------------------------------------------------
\* the handler outside registry.dispatch
Handles(d) == Triage(d) \/ PublishResult(d) \/ PublishDead(d) \/ Settle(d)

\* steps of the lane in which the limiters have no part
LaneStep ==
  \/ \E j \in Jobs : BrokerStep(j)
  \/ LoopStep
  \/ StreamError \/ RebuildFails \/ RestartFails
  \/ \E d \in Deliveries : Handles(d) \/ HandlerFault(d) \/ Progress(d)

ContactNext ==
  \/ LaneStep /\ UNCHANGED <<provider, limiters>>
  \/ ContactCrash
  \/ \E d \in Deliveries : Dispatch(d) \/ ContactAccepts(d)
  \/ \E p \in Providers : HttpTakes(p) \/ Refills(p)

ContactSpec == ContactInit /\ [][ContactNext]_contactVars

\* As for the push lane. Nothing is assumed of the HTTP traffic that shares the buckets,
\* nor that a bucket is ever refilled in time for a job.
ContactFairness ==
  /\ \A j \in Jobs : /\ WF_contactVars(Deliver(j) /\ UNCHANGED <<provider, limiters>>)
                     /\ WF_contactVars(TimerFires(j) /\ UNCHANGED <<provider, limiters>>)
                     /\ WF_contactVars(GiveUp(j) /\ UNCHANGED <<provider, limiters>>)
  /\ WF_contactVars(LoopStep /\ UNCHANGED <<provider, limiters>>)
  /\ \A d \in Deliveries :
       WF_contactVars(Dispatch(d) \/ (Handles(d) /\ UNCHANGED <<provider, limiters>>))

ContactFairSpec == ContactSpec /\ ContactFairness

-----------------------------------------------------------------------------
ContactTypeOK ==
  /\ TypeOK
  /\ provider \in [Jobs -> Providers]
  /\ tokens \in [Providers -> Nat]
  /\ \A p \in Providers : tokens[p] <= Burst[p]
  /\ ticket \subseteq Deliveries
  /\ refused \subseteq Deliveries

\* The limiters, the second provider and the HTTP traffic change nothing that the push lane
\* promises: every fair behaviour of the contact lane is one of the push lane, with a
\* throttled answer where the limiter refuses. All of its properties carry over.
ImplementsLane == FairSpec

\* A delivery the limiter refused reached no provider and is never acknowledged. It ends the
\* job only as the last one, with a dead letter unless both its publishes failed.
RefusedIsNotLost ==
  \A d \in refused :
    /\ d \notin accepted
    /\ pc[d] \notin { "ack", "acked" }
    /\ pc[d] \in { "term", "termed" } =>
         /\ Attempt(d) = MaxDeliver
         /\ (\E e \in dead : e.job = Job(d)) \/ BothPublishesFailed(d)
=============================================================================
