--------------------------- MODULE MCHttpIngestion ---------------------------
(***************************************************************************)
(* An instance of HttpIngestion: one client, two submissions, jobs of all  *)
(* six providers that are plain, only to be validated, or on the edge of   *)
(* what the contracts and the adapters let through, and the answers the    *)
(* adapters tell apart.                                                    *)
(***************************************************************************)
EXTENDS HttpIngestionProperties, TLC

(***************************************************************************)
(* Jobs.                                                                   *)
(***************************************************************************)
NoData == [empty |-> TRUE, len |-> 2, aps |-> FALSE]
SomeData == [empty |-> FALSE, len |-> 20, aps |-> FALSE]

Identified ==
  [job_id |-> Text(8), tenant_id |-> Text(8), application_id |-> Text(8),
   idempotency_key |-> Text(8)]

Push(target) ==
  Identified @@
  [provider |-> target.kind, target |-> target, title |-> Text(5), body |-> Text(20),
   image_url |-> Absent, data |-> NoData, ttl |-> NoDuration, collapse_key |-> Absent,
   trace |-> {}, dry_run |-> FALSE]

FcmTarget == [kind |-> "fcm", token |-> Text(40)]
ApnsTarget(environment) ==
  [kind |-> "apns", environment |-> environment, token |-> Text(64) @@ [hex |-> TRUE]]
ExpoTarget == [kind |-> "expo", token |-> Text(40) @@ [bracketed |-> TRUE]]

Key(bytes) == Text(90) @@ [base64 |-> TRUE, bytes |-> bytes, point |-> TRUE]
WebTarget(host) ==
  [kind |-> "web_push", p256dh |-> Key(65), auth |-> Key(16),
   endpoint |-> [parses |-> TRUE, https |-> TRUE, host |-> host, port |-> 443,
                 credentials |-> FALSE, fragment |-> FALSE]]
PushServiceHost == [name |-> "updates", parent |-> "push_service", range |-> None]
OtherHost == [name |-> "other", parent |-> "domain", range |-> None]
PrivateHost == [name |-> "address", parent |-> "none", range |-> "private"]

Mail(subject, text, template, data) ==
  Identified @@
  [provider |-> "sendgrid",
   target |-> [kind |-> "email", address |-> [shaped |-> TRUE], name |-> Absent],
   content |-> [kind |-> "email", subject |-> subject, text |-> text, html |-> Absent,
                template_id |-> template, data |-> data,
                reply_to |-> [set |-> FALSE, shaped |-> FALSE]]]

Message(text) ==
  Identified @@
  [provider |-> "twilio", target |-> [kind |-> "sms", address |-> [shaped |-> TRUE]],
   content |-> [kind |-> "sms", text |-> text]]

MCJobOf ==
  [ fcm          |-> [Push(FcmTarget) EXCEPT !.ttl = 3600, !.image_url = Text(30)],
    fcm_dry      |-> [Push(FcmTarget) EXCEPT !.dry_run = TRUE],
    fcm_blank    |-> [Push(FcmTarget) EXCEPT !.title = Blank, !.body = Blank],
    apns         |-> [Push(ApnsTarget("production")) EXCEPT !.collapse_key = Text(64)],
    apns_sandbox |-> Push(ApnsTarget("sandbox")),
    apns_image   |-> [Push(ApnsTarget("sandbox")) EXCEPT !.title = Blank, !.body = Blank,
                                                        !.image_url = Text(30)],
    apns_data    |-> [Push(ApnsTarget("sandbox")) EXCEPT !.title = Blank, !.body = Absent,
                                                        !.data = SomeData],
    apns_dry     |-> [Push(ApnsTarget("sandbox")) EXCEPT !.dry_run = TRUE],
    apns_short   |-> [Push(ApnsTarget("sandbox")) EXCEPT !.target.token.len = 30],
    expo         |-> [Push(ExpoTarget) EXCEPT !.ttl = 0],
    expo_dry     |-> [Push(ExpoTarget) EXCEPT !.dry_run = TRUE],
    expo_mixed   |-> [Push(ExpoTarget) EXCEPT !.provider = "fcm"],
    web          |-> Push(WebTarget(PushServiceHost)),
    web_other    |-> [Push(WebTarget(OtherHost)) EXCEPT !.ttl = 0],
    web_private  |-> Push(WebTarget(PrivateHost)),
    web_large    |-> [Push(WebTarget(PushServiceHost)) EXCEPT !.body = Text(3072)],
    mail         |-> Mail(Text(10), Text(100), Absent, NoData),
    mail_blank   |-> Mail(Text(10), Text(100), Blank, NoData),
    template     |-> Mail(Absent, Absent, Text(36), SomeData),
    sms          |-> Message(Text(160)),
    sms_long     |-> Message(Text(1601)) ]

MCBatches ==
  { << name >> : name \in DOMAIN MCJobOf }
  \cup { << >>, << "fcm", "expo", "web" >>,
         << "expo", "apns_short" >>, << "fcm_blank", "fcm" >>, << "sms", "mail" >> }

(***************************************************************************)
(* Answers.  What a provider answers with a failure it did not take.       *)
(***************************************************************************)
NoHeader == [form |-> None, value |-> 0]
Seconds(n) == [form |-> "seconds", value |-> n]
Date(at) == [form |-> "date", value |-> at]

Answer(status, code, header) ==
  [arrived |-> TRUE, status |-> status, header |-> header, readable |-> TRUE, json |-> TRUE,
   code |-> code, data |-> TRUE, tickets |-> << >>, taken |-> Success(status)]

Ok == Answer(200, None, NoHeader)
Unreadable(answer) == [answer EXCEPT !.readable = FALSE, !.json = FALSE]
Garbled(answer) == [answer EXCEPT !.json = FALSE]
Lost(taken) == [Ok EXCEPT !.arrived = FALSE, !.taken = taken]

Ticket(id) == [ok |-> TRUE, id |-> id, code |-> None]
Failed(code) == [ok |-> FALSE, id |-> Absent, code |-> code]
Tickets(tickets) == [Ok EXCEPT !.tickets = tickets, !.taken = \E k \in DOMAIN tickets :
                                                                 tickets[k].ok]

MCAnswersOf ==
  [ fcm |-> { Ok, Garbled(Ok), Unreadable(Ok), Lost(TRUE), Lost(FALSE),
              Answer(429, "QUOTA_EXCEEDED", Seconds(7)), Answer(404, "UNREGISTERED", NoHeader),
              Answer(503, None, Date(500)) },
    apns |-> { Ok, Unreadable(Ok), Lost(TRUE), Answer(429, "TooManyRequests", Seconds(7)),
               Answer(410, "Unregistered", NoHeader), Answer(500, None, NoHeader),
               Answer(403, "ExpiredProviderToken", NoHeader) },
    expo |-> { Tickets(<< Ticket(Text(36)) >>), Tickets(<< Ticket(Absent) >>),
               Tickets(<< Ticket(Text(257)) >>), Tickets(<< Failed("DeviceNotRegistered") >>),
               [Tickets(<< Failed("MessageRateExceeded") >>) EXCEPT !.header = Seconds(7)],
               Unreadable(Tickets(<< Ticket(Text(36)) >>)),
               Garbled(Tickets(<< Ticket(Text(36)) >>)),
               Tickets(<< Ticket(Text(36)), Ticket(Text(36)) >>), Lost(TRUE),
               [Ok EXCEPT !.data = FALSE],
               Answer(429, "TOO_MANY_REQUESTS", Seconds(7)), Answer(503, None, Seconds(7)) },
    web_push |-> { Answer(201, None, NoHeader), Lost(TRUE), Lost(FALSE),
                   Answer(410, None, NoHeader), Answer(429, None, Seconds(7)),
                   Answer(503, None, Seconds(100000)) },
    sendgrid |-> { Answer(202, None, NoHeader), Lost(TRUE), Answer(400, None, NoHeader),
                   Answer(429, None, Seconds(7)), Answer(503, None, NoHeader) },
    twilio |-> { Answer(201, None, NoHeader), Lost(TRUE),
                 [Answer(201, "21610", NoHeader) EXCEPT !.taken = FALSE],
                 [Unreadable(Answer(201, "21610", NoHeader)) EXCEPT !.taken = FALSE],
                 Unreadable(Answer(201, None, NoHeader)),
                 Answer(400, "21211", NoHeader), Answer(429, None, Seconds(7)) } ]

MCTokenAnswers ==
  { Ok, Lost(FALSE), Answer(429, "oauth", Seconds(7)), Answer(400, "invalid_grant", NoHeader) }

MCResolutions ==
  { [ok |-> FALSE, ranges |-> {}], [ok |-> TRUE, ranges |-> { "public" }],
    [ok |-> TRUE, ranges |-> { "public", "loopback" }] }

(***************************************************************************)
(* Environments.                                                           *)
(***************************************************************************)
Guarded == [ENABLE_SHARED_SECRET_AUTH |-> "on", SERVER_AUTH_SECRET |-> "secret"]
FcmOn == [FCM_SERVICE_ACCOUNT_JSON |-> "service_account"]
ApnsOn == [APNS_KEY_P8 |-> "key", APNS_KEY_ID |-> "id", APNS_TEAM_ID |-> "team",
           APNS_TOPIC |-> "topic"]
WebPushOn == [VAPID_PRIVATE_KEY |-> "key", VAPID_SUBJECT |-> "subject"]
SendGridOn == [SENDGRID_API_KEY |-> "key", EMAIL_FROM |-> "sender"]
TwilioOn == [TWILIO_ACCOUNT_SID |-> "sid", TWILIO_AUTH_TOKEN |-> "token",
             TWILIO_FROM_NUMBER |-> "number"]
All == Guarded @@ FcmOn @@ ApnsOn @@ WebPushOn @@ SendGridOn @@ TwilioOn

\* served
Sandbox == [APNS_ENVIRONMENT |-> "sandbox"] @@ All
AnyHost == [WEBPUSH_ALLOWED_HOSTS |-> "*", WEBPUSH_TTL_SECONDS |-> "seconds",
            SENDGRID_SANDBOX_MODE |-> "on", NATS_URL |-> "url"] @@ All
PoorKey == [FCM_SERVICE_ACCOUNT_JSON |-> "unreadable_key"] @@ Guarded
PoorSignatures ==
  [FCM_SERVICE_ACCOUNT_JSON |-> "unsignable_key", APNS_KEY_P8 |-> "unsignable_key",
   VAPID_PRIVATE_KEY |-> "unsignable_key"] @@ Sandbox
Stray == [VAPID_SUBJECT |-> "subject", FCM_PROJECT_ID |-> "project",
          TWILIO_AUTH_TOKEN |-> ""] @@ Guarded
Open == FcmOn @@ SendGridOn

\* not served
PartialApns == [APNS_KEY_P8 |-> ""] @@ All
PartialTwilio == [TWILIO_API_KEY_SID |-> "sid"] @@ All
BlankKey == [SENDGRID_API_KEY |-> "blank"] @@ Guarded
LateLane == [ENABLE_NATS_CONTACT_INGESTION |-> "on"] @@ All
Exporting == [FANWAAVE_EXPORT_OPENAPI |-> "internal", HOST |-> "bad"]
Binary == [EDITOR |-> "binary"] @@ All

MCEnvironments ==
  { Sandbox, AnyHost, PoorKey, PoorSignatures, Stray, Open, PartialApns, PartialTwilio,
    BlankKey, LateLane, Exporting, Binary }
=============================================================================
