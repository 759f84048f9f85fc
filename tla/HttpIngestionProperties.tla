----------------------- MODULE HttpIngestionProperties -----------------------
(***************************************************************************)
(* What the HTTP API promises: what its answers say of the notifications,  *)
(* what leaves for the providers, and how it ends.  It is assumed that a   *)
(* provider that answers with a failure did not take the message.          *)
(***************************************************************************)
EXTENDS HttpIngestion

Stages == { "idle", "running", "calling", "done" }

IsOutcome(reply) ==
  reply.class \in OutcomeClasses /\ (reply.hint = NoDuration \/ reply.hint \in Durations)

\* Every variable keeps its type; an outcome's retry delay never passes the cap of retry.rs,
\* whatever a provider sends.
TypeOK ==
  /\ server \in { "down", "refused", "exported", "serving", "stopping", "stopped" }
  /\ env \in Environments
  /\ DOMAIN request = Clients
  /\ \A c \in Clients :
       /\ request[c].stage \in Stages
       /\ \A i \in DOMAIN request[c].outcomes : IsOutcome(request[c].outcomes[i])
       /\ Len(request[c].outcomes) <= Len(request[c].jobs)
       /\ (request[c].answer # << >>) <=> (request[c].stage = "calling")
  /\ \A c \in Clients : tries[c] \in 0..MaxTries
  /\ cuts \subseteq Clients \X (1..MaxTries)

CallsOf(report, i) ==
  { call \in calls : /\ call.client = report.client /\ call.try = report.try
                     /\ call.job = report.jobs[i] }

FromExpo(call) == JobOf[call.job].provider = "expo"

Accepts(report, i) == report.outcomes[i].class = "accepted"

(***************************************************************************)
(* Answers and notifications.                                              *)
(***************************************************************************)
\* Twilio's success with a body that is lost: an error code in it is lost as well
TwilioBodyIsLost(call) ==
  JobOf[call.job].provider = "twilio" /\ ~(call.answer.readable /\ call.answer.json)

\* A job is reported accepted only when its provider took it, in this very submission, and
\* under its own place in the batch; but for a Twilio body that is lost.
AcceptedWasTaken ==
  \A report \in reports : \A i \in DOMAIN report.jobs :
    Accepts(report, i) =>
      \E call \in CallsOf(report, i) : call.answer.taken \/ TwilioBodyIsLost(call)

\* What may hide an acceptance: the answer did not come back; with FCM, APNs and Expo, its body
\* did not; or Expo's document does not hold one ticket with a usable identifier.
AcceptanceIsHidden(call) ==
  LET answer == call.answer IN
  \/ ~answer.arrived
  \/ ~answer.readable /\ JobOf[call.job].provider \in { "fcm", "apns", "expo" }
  \/ /\ FromExpo(call)
     /\ \/ ~answer.json \/ ~answer.data \/ Len(answer.tickets) # 1
        \/ ~ValidTicketId(answer.tickets[1].id)

\* A job that was taken is reported as anything else only when the acceptance was hidden; a
\* success that merely says nothing more is still a success (the body of FCM's answer that
\* is no JSON, Twilio's and SendGrid's bodies).
UnreportedAcceptanceHasCause ==
  \A report \in reports : \A i \in DOMAIN report.jobs :
    ~Accepts(report, i) =>
      \A call \in CallsOf(report, i) : call.answer.taken => AcceptanceIsHidden(call)

\* A notification is sent again after it was taken only because the client never got the
\* answer of the API, or because the acceptance was hidden from the adapter.
RepeatHasCause ==
  \A first, second \in calls :
    ( /\ first.client = second.client /\ first.job = second.job
      /\ first.try < second.try /\ first.answer.taken )
    => << first.client, first.try >> \in cuts \/ AcceptanceIsHidden(first)

(***************************************************************************)
(* What leaves for a provider.                                             *)
(***************************************************************************)
\* A job that is only to be validated never leaves as a real notification.
DryRunNeverDelivers ==
  \A call \in calls :
    LET job == JobOf[call.job] IN ~IsContact(job) /\ job.dry_run => call.request.dry

\* A job goes to its own provider and, with APNs, to the environment of its token, so that the
\* adapters' own checks against a wrong target and environment never have to answer.
RoutingIsExact ==
  /\ \A call \in calls :
       LET job == JobOf[call.job] IN
       /\ call.request.kind = job.provider
       /\ call.request.kind = "apns" => call.request.environment = job.target.environment
  /\ \A c \in Clients : \A i \in DOMAIN request[c].outcomes :
       request[c].outcomes[i].code \notin MismatchCodes

VisibleMembers(job) ==
  IF IsContact(job)
  THEN { name \in { "template_id", "subject", "text", "html" } \cap DOMAIN job.content :
           Visible(job.content[name]) }
  ELSE { name \in { "title", "body", "image_url" } : Visible(job[name]) }

\* a mail with explicit content next to a template identifier of white space
BlankTemplate(job) ==
  job.provider = "sendgrid" /\ job.content.template_id.set /\ ~TemplateMode(job.content)

\* Whatever of a job can be seen is in the message its provider gets, with the lifetime the job
\* asks for; a job that cannot be carried whole is refused.  A template identifier of white
\* space is the exception (see EmailKeepsItsContent).
ContentArrives ==
  \A call \in calls :
    LET job == JobOf[call.job] IN
    /\ VisibleMembers(job) \subseteq call.request.members \/ BlankTemplate(job)
    /\ ~IsContact(job) /\ job.ttl # NoDuration => call.request.ttl = job.ttl

\* docs/contact-delivery-v1.md:142: "Email explicit-content and dynamic-template modes cannot
\* be mixed."  A mail accepted as explicit content is not sent as a template.
EmailKeepsItsContent ==
  \A call \in calls :
    LET job == JobOf[call.job] IN
    job.provider = "sendgrid" =>
      ("template_id" \in call.request.members <=> TemplateMode(job.content))

(***************************************************************************)
(* Configuration, delays and the end.                                      *)
(***************************************************************************)
\* the setting that is there to turn a provider on
TurnedOn(job) ==
  CASE job.provider = "fcm"      -> Given(env, "FCM_SERVICE_ACCOUNT_JSON")
    [] job.provider = "apns"     -> \E name \in ApnsVariables : Given(env, name)
    [] job.provider = "expo"     -> TRUE
    [] job.provider = "web_push" -> Given(env, "VAPID_PRIVATE_KEY")
    [] job.provider = "sendgrid" -> \/ CredentialGiven(env, "SENDGRID_API_KEY")
                                    \/ Given(env, SendGridSender(env))
    [] OTHER -> \E name \in TwilioCredentialNames : CredentialGiven(env, name)

\* A private key the server started with although it cannot be used: FCM's is not tried before
\* the first token (fcm.rs:213), and of APNs' only the form is looked at, so that one of another
\* curve fails with the first signature (apns.rs:70, 368-375); so would VAPID's without random
\* numbers (web_push.rs:341-346).
KeyIsOfNoUse(job) ==
  LET key == Value(env, KeyVariable(job.provider)) IN
  \/ job.provider = "fcm" /\ key = "unreadable_key"
  \/ job.provider \in { "apns", "web_push" } /\ key = "unsignable_key"

\* A server that starts with a setting of a provider serves that provider: nobody is told that
\* it is not configured, with two exceptions: APNs tokens of the other environment, and a
\* private key that passed the start although it is of no use.  And nothing is sent while the
\* readiness probe of its lane fails.
ConfigurationIsHonest ==
  /\ \A report \in reports : \A i \in DOMAIN report.jobs :
       LET job == JobOf[report.jobs[i]] IN
       report.outcomes[i] = NotConfigured =>
         \/ ~TurnedOn(job)
         \/ job.provider = "apns" /\ job.target.environment # ApnsEnvironment(env)
         \/ KeyIsOfNoUse(job)
  /\ \A call \in calls :
       IF IsContact(JobOf[call.job]) THEN ContactReady(env) ELSE PushReady(env)

\* Expo's successes, and its failures whose document holds an error of the request, are judged by
\* the document, and the header next to it is not read (expo.rs:276, 616)
JudgedByDocument(call) ==
  FromExpo(call) /\ call.answer.json /\ (Success(call.answer.status) \/ call.answer.code # None)

\* A delay a provider asks for in seconds reaches the client whenever the job may be tried again:
\* in full, up to the cap of a day.  The exception is an answer of Expo that is judged by its
\* document: its delay is lost, although docs/expo.md:36 says that the header is honoured.
HintReaches ==
  \A report \in reports : \A i \in DOMAIN report.jobs : \A call \in CallsOf(report, i) :
    ( /\ IsRetryable(report.outcomes[i].class)
      /\ call.answer.arrived /\ call.answer.header.form = "seconds" )
    => \/ report.outcomes[i].hint = Least(1000 * call.answer.header.value, MaxRetryAfter)
       \/ JudgedByDocument(call)

\* After a signal the process ends, unless it is killed before: no request in flight holds it
\* up for ever.
ShutdownCompletes == (server = "stopping") ~> (server \in { "stopped", "down" })
=============================================================================
