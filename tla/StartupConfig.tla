---------------------------- MODULE StartupConfig ----------------------------
(***************************************************************************)
(* What src/src/runtime.rs, contact/runtime.rs, the two from_env of the    *)
(* NATS lanes and server.rs make of the process environment: which         *)
(* providers are registered, who is let in, which lanes run, or that the   *)
(* server does not start.                                                  *)
(*                                                                         *)
(* An environment is a function from the names that are set to the class   *)
(* of their value: "" empty, "blank" white space, "binary" not Unicode,    *)
(* "bad" anything the reader of that variable refuses, and otherwise what  *)
(* the reader tells apart.                                                 *)
(***************************************************************************)
EXTENDS Integers, Sequences

Value(env, name) == IF name \in DOMAIN env THEN env[name] ELSE "absent"

\* A private key that is only found out when a token is signed with it is "unreadable_key" (of
\* FCM alone, where nothing looks at it before) or "unsignable_key": an RSA key too weak, an EC
\* key of another curve than P-256, or, of VAPID's key, whose curve is checked, a host that has
\* no random numbers.
KeyVariable(provider) ==
  CASE provider = "fcm"  -> "FCM_SERVICE_ACCOUNT_JSON"
    [] provider = "apns" -> "APNS_KEY_P8"
    [] OTHER             -> "VAPID_PRIVATE_KEY"

\* non_empty_env
Given(env, name) == Value(env, name) \notin { "absent", "", "blank", "binary" }

EnvironmentFlag(env, name) == Value(env, name) = "on"

\* an optional setting that is fine when it is left out, like the positive integers
Fits(env, name) == Given(env, name) => Value(env, name) # "bad"

\* What comes of a provider's configuration.  States are tried in order: absent, refused, ready.
Configured(absent, valid) ==
  IF absent THEN "off" ELSE IF valid THEN "ready" ELSE "refused"

(***************************************************************************)
(* Push providers.                                                         *)
(***************************************************************************)
\* the override stands in for a project the document leaves out; whether the private key in it
\* can be read is not looked at
FcmDocumentFits(env) ==
  /\ Value(env, "FCM_SERVICE_ACCOUNT_JSON") # "bad"
  /\ IF Given(env, "FCM_PROJECT_ID")
     THEN Value(env, "FCM_PROJECT_ID") # "bad"
     ELSE Value(env, "FCM_SERVICE_ACCOUNT_JSON") # "without_project"

Fcm(env) == Configured(~Given(env, "FCM_SERVICE_ACCOUNT_JSON"), FcmDocumentFits(env))

ApnsVariables == { "APNS_KEY_P8", "APNS_KEY_ID", "APNS_TEAM_ID", "APNS_TOPIC" }

\* Mutant: a provider with a setting missing is left out instead of refused.
BugApns(env) ==
  Configured(\E name \in ApnsVariables : ~Given(env, name),
             /\ Fits(env, "APNS_ENVIRONMENT")
             /\ \A name \in ApnsVariables : Value(env, name) # "bad")

\* the environment is read only where there is something to configure
Apns(env) ==
  Configured(\A name \in ApnsVariables : ~Given(env, name),
             /\ \A name \in ApnsVariables : Given(env, name)
             /\ Fits(env, "APNS_ENVIRONMENT")
             /\ \A name \in ApnsVariables : Value(env, name) # "bad")

ApnsEnvironment(env) ==
  IF Value(env, "APNS_ENVIRONMENT") \in { "sandbox", "development" }
  THEN "sandbox" ELSE "production"

WebPush(env) ==
  Configured(~Given(env, "VAPID_PRIVATE_KEY"),
             /\ Given(env, "VAPID_SUBJECT")
             /\ \A name \in { "VAPID_PRIVATE_KEY", "VAPID_SUBJECT", "WEBPUSH_ALLOWED_HOSTS",
                              "WEBPUSH_TTL_SECONDS" } : Fits(env, name))

HostPolicy(env) ==
  IF ~Given(env, "WEBPUSH_ALLOWED_HOSTS") THEN [any |-> FALSE, hosts |-> { "push_service" }]
  ELSE IF Value(env, "WEBPUSH_ALLOWED_HOSTS") = "*" THEN [any |-> TRUE, hosts |-> {}]
  ELSE [any |-> FALSE, hosts |-> { Value(env, "WEBPUSH_ALLOWED_HOSTS") }]

DefaultTtlSeconds == 43200

\* each environment of APNs has a slot of its own
ApnsSlot(environment) ==
  IF environment = "sandbox" THEN "apns_sandbox" ELSE "apns_production"

\* Expo needs no configuration; APNs takes the slot of its environment.
PushSlots(env) ==
  { "expo" }
  \cup (IF Fcm(env) = "ready" THEN { "fcm" } ELSE {})
  \cup (IF Apns(env) = "ready" THEN { ApnsSlot(ApnsEnvironment(env)) } ELSE {})
  \cup (IF WebPush(env) = "ready" THEN { "web_push" } ELSE {})

PushRefused(env) == "refused" \in { Fcm(env), Apns(env), WebPush(env) }

(***************************************************************************)
(* Contact providers.                                                      *)
(***************************************************************************)
\* A credential counts as given unless it is unset or empty, and must then be printable
\* throughout: white space is not skipped over here.
CredentialGiven(env, name) == Value(env, name) \notin { "absent", "" }

CredentialFits(env, name) == Value(env, name) \notin { "blank", "binary", "bad" }

SendGridSender(env) ==
  IF Given(env, "SENDGRID_FROM_EMAIL") THEN "SENDGRID_FROM_EMAIL" ELSE "EMAIL_FROM"

SendGrid(env) ==
  Configured(~CredentialGiven(env, "SENDGRID_API_KEY") /\ ~Given(env, SendGridSender(env)),
             /\ CredentialGiven(env, "SENDGRID_API_KEY") /\ Given(env, SendGridSender(env))
             /\ CredentialFits(env, "SENDGRID_API_KEY")
             /\ \A name \in { SendGridSender(env), "SENDGRID_FROM_NAME", "SENDGRID_REGION" } :
                  Fits(env, name))

TwilioCredentialNames ==
  { "TWILIO_ACCOUNT_SID", "TWILIO_AUTH_TOKEN", "TWILIO_API_KEY_SID", "TWILIO_API_KEY_SECRET",
    "TWILIO_MESSAGING_SERVICE_SID" }

TwilioSettings ==
  { "TWILIO_FROM_NUMBER", "TWILIO_STATUS_CALLBACK_URL", "TWILIO_VALIDITY_PERIOD_SECONDS" }

\* the account's token, or an API key with its secret; never a mixture
TwilioCredentials(env) ==
  LET key    == CredentialGiven(env, "TWILIO_API_KEY_SID")
      secret == CredentialGiven(env, "TWILIO_API_KEY_SECRET") IN
  IF CredentialGiven(env, "TWILIO_AUTH_TOKEN") THEN ~key /\ ~secret ELSE key /\ secret

TwilioSender(env) ==
  CredentialGiven(env, "TWILIO_MESSAGING_SERVICE_SID") # Given(env, "TWILIO_FROM_NUMBER")

\* a credential that is white space is refused although nothing else of Twilio is set
Twilio(env) ==
  Configured(/\ \A name \in TwilioCredentialNames : ~CredentialGiven(env, name)
             /\ \A name \in TwilioSettings : ~Given(env, name),
             /\ \A name \in TwilioCredentialNames : CredentialFits(env, name)
             /\ CredentialGiven(env, "TWILIO_ACCOUNT_SID")
             /\ TwilioCredentials(env) /\ TwilioSender(env)
             /\ \A name \in TwilioSettings : Fits(env, name))

\* the rates are read even when the provider they limit is off
ContactRefused(env) ==
  \/ "refused" \in { SendGrid(env), Twilio(env) }
  \/ \E name \in { "EMAIL_RATE_PER_MIN", "SMS_RATE_PER_MIN" } : ~Fits(env, name)

ContactProviders(env) ==
  (IF SendGrid(env) = "ready" THEN { "sendgrid" } ELSE {})
  \cup (IF Twilio(env) = "ready" THEN { "twilio" } ELSE {})

(***************************************************************************)
(* The guard of the HTTP API, and the lanes.                               *)
(***************************************************************************)
AuthConfigured(env) == EnvironmentFlag(env, "ENABLE_SHARED_SECRET_AUTH")

AuthRefused(env) ==
  AuthConfigured(env) /\ ~(Given(env, "SERVER_AUTH_SECRET") /\ Fits(env, "SERVER_AUTH_SECRET"))

\* without a configured secret nobody is let in
Authenticate(env, credential) == AuthConfigured(env) /\ credential = "shared_secret"

EnvelopeSecretRefused(env) ==
  /\ EnvironmentFlag(env, "ENABLE_NATS_ENVELOPE_AUTH")
  /\ ~(Given(env, "NATS_SHARED_SECRET") /\ Fits(env, "NATS_SHARED_SECRET"))

PushLane(env) ==
  Configured(~Given(env, "NATS_URL"), ~EnvelopeSecretRefused(env) /\ Fits(env, "NATS_PUSH_LIMITS"))

\* opted into separately; the limits stand for the positive integers of each lane
ContactLane(env) ==
  Configured(~EnvironmentFlag(env, "ENABLE_NATS_CONTACT_INGESTION"),
             /\ Given(env, "NATS_URL") /\ ~EnvelopeSecretRefused(env)
             /\ Fits(env, "NATS_CONTACT_LIMITS"))

\* Flags are laid over the environment, and collecting that panics at the first value that is
\* not Unicode, whosever it is.
ArgumentsRefused(env) ==
  \/ \E name \in DOMAIN env : env[name] = "binary"
  \/ Value(env, "PORT") \in { "", "blank", "bad" }
  \/ Value(env, "FANWAAVE_EXPORT_OPENAPI") \in { "", "blank", "bad" }

\* host and port are read as they are: an empty one is no default, and a port past 65535 is an
\* integer all the same
AddressRefused(env) ==
  Value(env, "HOST") \in { "", "blank", "bad" } \/ Value(env, "PORT") = "too_large"

\* the process prints its API description and ends
ExportsOpenApi(env) == Value(env, "FANWAAVE_EXPORT_OPENAPI") \in { "internal", "public" }

(***************************************************************************)
(* run: the first refusal ends the start.  The push lane is already        *)
(* running when the contact lane is configured and the port is bound.      *)
(***************************************************************************)
Refused(env) ==
  \/ AddressRefused(env) \/ PushRefused(env) \/ ContactRefused(env) \/ AuthRefused(env)
  \/ PushLane(env) = "refused" \/ ContactLane(env) = "refused"

(***************************************************************************)
(* Readiness, as /readyz and /v1/contact/readyz report it.                 *)
(***************************************************************************)
PushReady(env) == AuthConfigured(env) /\ PushSlots(env) # {}

ContactReady(env) == AuthConfigured(env) /\ ContactProviders(env) # {}
=============================================================================
