---------------------------- MODULE PushAdapters ----------------------------
(***************************************************************************)
(* The four push adapters of src/src/providers: what each refuses before   *)
(* it calls its provider, the request it forms, and how it reads the       *)
(* answer.  The state they keep, the cached credentials, is in             *)
(* CredentialCache.                                                        *)
(*                                                                         *)
(* A provider's answer is a record:                                        *)
(*   arrived   the status line and headers came back                       *)
(*   status    the HTTP status        header    its Retry-After            *)
(*   readable  the body came back     json      and parsed                 *)
(*   code      the error code or reason in the body, "none" if there is    *)
(*             none; for Expo, the code of the request-level error         *)
(*   data      whether Expo's body has tickets at all                      *)
(*   tickets   Expo's tickets, each [ok, id, code]                         *)
(* A token an adapter signs itself is minted with the private key it was   *)
(* configured with, at the time of the system clock:                       *)
(*   clock     the clock tells a time since 1970                           *)
(*   key       the class of the key (see StartupConfig)                    *)
(***************************************************************************)
EXTENDS PushContract, RetryPolicy, Outcomes

None == "none"

\* an outcome, as far as it is told apart: OutcomeClass, provider_code, retry_after_ms
Reply(class, code, hint) == [class |-> class, code |-> code, hint |-> hint]

Proceed == Reply("proceed", None, NoDuration)
InvalidPayload(code) == Reply("invalid_payload", code, NoDuration)
Transient(code, hint) == Reply("transient_provider_failure", code, hint)
Internal == Reply("internal_failure", "internal_provider_error", NoDuration)
NotConfigured == Reply("permanent_provider_failure", "provider_not_configured", NoDuration)

\* The checks before a call are made in order and the first that fails answers: checks is a
\* sequence of << whether it fails, the reply >>.
FirstRefusal(checks) ==
  LET failing == { i \in DOMAIN checks : checks[i][1] } IN
  IF failing = {} THEN Proceed
  ELSE checks[CHOOSE i \in failing : \A k \in failing : i <= k][2]

Broken(job) == << ~MeetsPushContract(job), InvalidPayload("contract_validation_failed") >>
Misrouted(job, kind) ==
  << job.provider # kind \/ job.target.kind # kind, InvalidPayload("provider_target_mismatch") >>
MisTargeted(job, kind) ==
  << job.target.kind # kind, InvalidPayload("provider_target_mismatch") >>
NoDryRun(job) == << job.dry_run, InvalidPayload("dry_run_unsupported") >>

Success(status) == status \in 200..299
ServerError(status) == status \in 500..599
HintOf(answer) == ParseRetryAfter(answer.header, 0)

\* the optional members a message is built of, each copied when the job sets it
Copied(job) ==
  { name \in { "title", "body", "image_url" } : job[name].set }
  \cup (IF job.data.empty THEN {} ELSE { "data" })

Collapse(job) == IF job.collapse_key.set THEN { "collapse_key" } ELSE {}

\* what leaves for a provider: to which one and which of its environments, whether it is only
\* to be validated, the members of the message and its lifetime
Request(kind, environment, dry, members, ttl) ==
  [kind |-> kind, environment |-> environment, dry |-> dry, members |-> members, ttl |-> ttl]

(***************************************************************************)
(* FCM.  Only its API has a validate-only mode.                            *)
(***************************************************************************)
FcmRefusal(job) == FirstRefusal(<< Broken(job), MisTargeted(job, "fcm") >>)

FcmRequest(job) ==
  Request("fcm", "any", job.dry_run, Copied(job) \cup Collapse(job), job.ttl)

ClassifyFcmResponse(status, code) ==
  CASE code \in { "UNREGISTERED", "SENDER_ID_MISMATCH" }     -> "invalid_token"
    [] code = "INVALID_ARGUMENT"                             -> "invalid_payload"
    [] code \in { "QUOTA_EXCEEDED", "RESOURCE_EXHAUSTED" }   -> "throttled"
    [] code \in { "UNAVAILABLE", "INTERNAL" }                -> "transient_provider_failure"
    [] code \in { "THIRD_PARTY_AUTH_ERROR", "UNAUTHENTICATED", "PERMISSION_DENIED" }
                                                             -> "permanent_provider_failure"
    [] OTHER -> CASE status = 400         -> "invalid_payload"
                  [] status = 429         -> "throttled"
                  [] ServerError(status)  -> "transient_provider_failure"
                  [] OTHER                -> "permanent_provider_failure"

\* a success whose body is no JSON counts as a failure
BugFcmOutcome(job, answer) ==
  IF ~answer.arrived THEN Transient("transport_error", NoDuration)
  ELSE IF ~answer.readable \/ ~answer.json
  THEN Transient("response_read_error", HintOf(answer))
  ELSE IF Success(answer.status) THEN Reply("accepted", "name", NoDuration)
  ELSE Reply(ClassifyFcmResponse(answer.status, answer.code), answer.code, HintOf(answer))

FcmOutcome(job, answer) ==
  IF ~answer.arrived THEN Transient("transport_error", NoDuration)
  ELSE IF ~answer.readable THEN Transient("response_read_error", HintOf(answer))
  ELSE IF Success(answer.status)
  THEN Reply("accepted", IF answer.json THEN "name" ELSE None, NoDuration)
  ELSE Reply(ClassifyFcmResponse(answer.status, answer.code), answer.code, HintOf(answer))

NoClock(mint) == << ~mint.clock, Internal >>

\* A key that cannot be read or does not sign is found out here, and not when the server starts.
\* Otherwise the token stands or falls with the answer of the OAuth endpoint; Proceed is a
\* usable token.
FcmToken(mint, answer) ==
  LET decision == ClassifyHttpStatus(answer.status, HintOf(answer)) IN
  FirstRefusal(<<
    NoClock(mint),
    << mint.key = "unreadable_key", NotConfigured >>,
    << mint.key = "unsignable_key", Internal >>,
    << ~answer.arrived, Transient("oauth_transport_error", NoDuration) >>,
    << ~answer.readable, Transient("oauth_response_error", HintOf(answer)) >>,
    << answer.status = 429, Reply("throttled", answer.code, decision.retryAfter) >>,
    << decision.retryable, Transient(answer.code, decision.retryAfter) >>,
    << ~Success(answer.status) \/ ~answer.json \/ answer.code # None,
       Reply("permanent_provider_failure", answer.code, NoDuration) >> >>)

(***************************************************************************)
(* APNs.  The token is minted between the checks of the job and the check  *)
(* of the device token.                                                    *)
(***************************************************************************)
HasVisibleAlert(job) == Visible(job.title) \/ Visible(job.body)

\* the serialised payload, its punctuation left out
PayloadSize(job) == job.title.len + job.body.len + job.image_url.len + job.data.len

ValidDeviceToken(token) == token.len \in 32..512 /\ token.len % 2 = 0 /\ token.hex

NoSignature(mint) == << mint.key = "unsignable_key", NotConfigured >>

ApnsRefusal(job, environment, mint) ==
  FirstRefusal(<<
    Broken(job), MisTargeted(job, "apns"),
    << job.target.environment # environment, InvalidPayload("environment_mismatch") >>,
    NoClock(mint), NoDryRun(job),
    << job.data.aps, InvalidPayload("reserved_aps_key") >>,
    << job.collapse_key.len > 64, InvalidPayload("collapse_id_too_long") >>,
    << job.image_url.set /\ ~HasVisibleAlert(job), InvalidPayload("image_requires_alert") >>,
    << PayloadSize(job) > 4096, InvalidPayload("payload_too_large") >>,
    NoSignature(mint),
    << ~ValidDeviceToken(job.target.token),
       Reply("invalid_token", "invalid_device_token", NoDuration) >> >>)

\* without a visible alert the notification goes out in the background, and its texts, which
\* are white space then, do not
ApnsRequest(job, environment) ==
  Request("apns", environment, FALSE,
          (IF HasVisibleAlert(job) THEN Copied(job) ELSE Copied(job) \cap { "data" })
          \cup Collapse(job),
          job.ttl)

ClassifyApnsResponse(status, reason) ==
  CASE reason \in { "BadDeviceToken", "DeviceTokenNotForTopic", "Unregistered" }
         -> "invalid_token"
    [] reason \in { "BadCollapseId", "BadExpirationDate", "BadMessageId", "BadPath",
                    "BadPriority", "BadTopic", "DuplicateHeaders", "MethodNotAllowed",
                    "MissingDeviceToken", "MissingTopic", "PayloadEmpty", "TooManyTopics" }
         -> "invalid_payload"
    [] reason \in { "TooManyProviderTokenUpdates", "TooManyRequests" } -> "throttled"
    [] reason \in { "IdleTimeout", "InternalServerError", "ServiceUnavailable", "Shutdown" }
         -> "transient_provider_failure"
    [] reason \in { "BadCertificate", "BadCertificateEnvironment", "CertificateExpired",
                    "CertificateRevoked", "ExpiredProviderToken", "Forbidden",
                    "InvalidProviderToken", "MissingProviderToken", "TopicDisallowed" }
         -> "permanent_provider_failure"
    [] OTHER -> CASE status \in { 400, 404, 405, 413 } -> "invalid_payload"
                  [] status = 410                      -> "invalid_token"
                  [] status = 429                      -> "throttled"
                  [] ServerError(status)               -> "transient_provider_failure"
                  [] OTHER                             -> "permanent_provider_failure"

ApnsOutcome(job, answer) ==
  IF ~answer.arrived THEN Transient("transport_error", NoDuration)
  ELSE IF ~answer.readable THEN Transient("response_read_error", HintOf(answer))
  ELSE IF Success(answer.status) THEN Reply("accepted", "apns_id", NoDuration)
  ELSE Reply(ClassifyApnsResponse(answer.status, answer.code),
             IF answer.code = None THEN "http_status" ELSE answer.code, HintOf(answer))

(***************************************************************************)
(* Expo, one message at a time as the registry sends it.                   *)
(***************************************************************************)
ValidExpoPushToken(token) == token.bracketed /\ token.clean

\* only validating is not refused
BugExpoRefusal(job) ==
  FirstRefusal(<<
    Broken(job), Misrouted(job, "expo"),
    << ~ValidExpoPushToken(job.target.token),
       Reply("invalid_token", "invalid_expo_push_token", NoDuration) >> >>)

\* a single job cannot be of the wrong batch size or of two applications
ExpoRefusal(job) ==
  FirstRefusal(<<
    Broken(job), Misrouted(job, "expo"), NoDryRun(job),
    << ~ValidExpoPushToken(job.target.token),
       Reply("invalid_token", "invalid_expo_push_token", NoDuration) >> >>)

ExpoRequest(job) == Request("expo", "any", FALSE, Copied(job) \cup Collapse(job), job.ttl)

ClassifyExpoCode(code) ==
  CASE code = "TOO_MANY_REQUESTS" -> "throttled"
    [] code \in { "PUSH_TOO_MANY_EXPERIENCE_IDS", "PUSH_TOO_MANY_NOTIFICATIONS",
                  "PUSH_TOO_MANY_RECEIPTS" } -> "invalid_payload"
    [] OTHER -> "permanent_provider_failure"

\* an error of the request as a whole, from a body of any status: status and Retry-After are
\* not looked at
RequestError(code) == Reply(ClassifyExpoCode(code), code, NoDuration)

ClassifyRequestFailure(answer) ==
  IF answer.json /\ answer.code # None
  THEN RequestError(answer.code)
  ELSE LET decision == ClassifyHttpStatus(answer.status, HintOf(answer)) IN
       Reply(IF answer.status = 429 THEN "throttled"
             ELSE IF decision.retryable THEN "transient_provider_failure"
             ELSE IF answer.status \in { 400, 413 } THEN "invalid_payload"
             ELSE "permanent_provider_failure",
             "http_status", decision.retryAfter)

\* one error table for tickets and receipts
ExpoErrorClass(code) ==
  CASE code = "DeviceNotRegistered" -> "invalid_token"
    [] code = "MessageRateExceeded" -> "throttled"
    [] code \in { "MismatchSenderId", "InvalidCredentials" } -> "permanent_provider_failure"
    [] OTHER -> "invalid_payload"

ValidTicketId(id) == id.len \in 1..256 /\ id.clean

OutcomeFromTicket(ticket) ==
  IF ~ticket.ok THEN Reply(ExpoErrorClass(ticket.code), ticket.code, NoDuration)
  ELSE IF ValidTicketId(ticket.id) THEN Reply("accepted", "ticket", NoDuration)
  ELSE Reply("internal_failure", "invalid_ticket_response", NoDuration)

\* the first thing that goes wrong with an answer of Expo, tickets or receipts
ExpoAnswerFailure(answer, invalidBody) ==
  FirstRefusal(<<
    << ~answer.arrived, Transient("transport_error", NoDuration) >>,
    << ~answer.readable, Transient("response_read_error", HintOf(answer)) >>,
    << ~Success(answer.status), ClassifyRequestFailure(answer) >>,
    << ~answer.json, Reply("permanent_provider_failure", invalidBody, NoDuration) >>,
    << answer.code # None, RequestError(answer.code) >> >>)

ExpoOutcome(job, answer) ==
  LET failure == ExpoAnswerFailure(answer, "invalid_success_response") IN
  IF failure # Proceed THEN failure
  ELSE IF ~answer.data
  THEN Reply("permanent_provider_failure", "missing_tickets", NoDuration)
  ELSE IF Len(answer.tickets) # 1 THEN Internal
  ELSE OutcomeFromTicket(answer.tickets[1])

(***************************************************************************)
(* Web Push.                                                               *)
(***************************************************************************)
\* the address ranges no endpoint may be in; every other address is "public"
NonPublicRanges ==
  { "private", "loopback", "link_local", "unspecified", "broadcast", "documentation",
    "multicast", "shared", "benchmark", "reserved", "unique_local", "site_local" }

\* a host policy allows any public host, or the subdomains of the hosts it lists
HostMatches(host, policy) == host.name \in policy.hosts \/ host.parent \in policy.hosts

\* an address written into the endpoint has its range in `range`; a name has None there
EndpointRefusal(endpoint, policy) ==
  FirstRefusal(<<
    << EndpointErrors(endpoint) # {} \/ endpoint.fragment, InvalidPayload("invalid_endpoint") >>,
    << \/ "localhost" \in { endpoint.host.name, endpoint.host.parent }
       \/ endpoint.host.range \in NonPublicRanges
       \/ ~policy.any /\ ~HostMatches(endpoint.host, policy),
       InvalidPayload("endpoint_policy_rejected") >> >>)

\* Names are resolved only where any public host is allowed; every address found counts.
VerifyPublicDns(host, policy, resolved) ==
  IF ~policy.any \/ host.range # None
  THEN Proceed
  ELSE FirstRefusal(<<
         << ~resolved.ok, Transient("dns_resolution_failed", NoDuration) >>,
         << resolved.ranges = {}, Transient("dns_no_addresses", NoDuration) >>,
         << resolved.ranges \cap NonPublicRanges # {},
            InvalidPayload("endpoint_policy_rejected") >> >>)

\* a key must be base64, decode to its length and, for p256dh, be an uncompressed point
EncryptionRefusal(target) ==
  FirstRefusal(<<
    << ~target.p256dh.base64 \/ ~target.auth.base64, InvalidPayload("invalid_subscription_key") >>,
    << target.p256dh.bytes # 65 \/ ~target.p256dh.point, InvalidPayload("invalid_p256dh") >>,
    << target.auth.bytes # 16, InvalidPayload("invalid_auth_secret") >> >>)

MaxPlaintextPayload == 3072

WebPushRefusal(job, policy, resolved, mint) ==
  FirstRefusal(<<
    Broken(job), Misrouted(job, "web_push"), NoDryRun(job),
    << EndpointRefusal(job.target.endpoint, policy) # Proceed,
       EndpointRefusal(job.target.endpoint, policy) >>,
    << VerifyPublicDns(job.target.endpoint.host, policy, resolved) # Proceed,
       VerifyPublicDns(job.target.endpoint.host, policy, resolved) >>,
    << PayloadSize(job) > MaxPlaintextPayload, InvalidPayload("payload_too_large") >>,
    << EncryptionRefusal(job.target) # Proceed, EncryptionRefusal(job.target) >>,
    NoClock(mint), NoSignature(mint) >>)

\* no lifetime and none beyond now are confused
BugWebPushRequest(job, defaultTtl) ==
  Request("web_push", "any", FALSE, Copied(job) \cup Collapse(job),
          IF job.ttl <= 0 THEN defaultTtl ELSE job.ttl)

\* a job without a lifetime gets the configured one
WebPushRequest(job, defaultTtl) ==
  Request("web_push", "any", FALSE, Copied(job) \cup Collapse(job),
          IF job.ttl = NoDuration THEN defaultTtl ELSE job.ttl)

ClassifyWebPushResponse(status, hint) ==
  CASE status \in { 404, 410 } -> "invalid_token"
    [] status \in { 400, 413 } -> "invalid_payload"
    [] status = 429            -> "throttled"
    [] status \in { 401, 403 } -> "permanent_provider_failure"
    [] OTHER -> IF ClassifyHttpStatus(status, hint).retryable
                THEN "transient_provider_failure" ELSE "permanent_provider_failure"

\* the body is never read
WebPushOutcome(job, answer) ==
  IF ~answer.arrived THEN Transient("transport_error", NoDuration)
  ELSE IF Success(answer.status) THEN Reply("accepted", None, NoDuration)
  ELSE Reply(ClassifyWebPushResponse(answer.status, HintOf(answer)), "http_status",
             HintOf(answer))

(***************************************************************************)
(* Behind the registry: one adapter by the kind of the target.             *)
(***************************************************************************)
PushRefusal(job, config, resolved, mint) ==
  CASE job.target.kind = "fcm"  -> FcmRefusal(job)
    [] job.target.kind = "apns" -> ApnsRefusal(job, config.apnsEnvironment, mint)
    [] job.target.kind = "expo" -> ExpoRefusal(job)
    [] OTHER                    -> WebPushRefusal(job, config.hostPolicy, resolved, mint)

PushRequest(job, config) ==
  CASE job.target.kind = "fcm"  -> FcmRequest(job)
    [] job.target.kind = "apns" -> ApnsRequest(job, config.apnsEnvironment)
    [] job.target.kind = "expo" -> ExpoRequest(job)
    [] OTHER                    -> WebPushRequest(job, config.defaultTtl)

PushOutcome(job, answer) ==
  CASE job.target.kind = "fcm"  -> FcmOutcome(job, answer)
    [] job.target.kind = "apns" -> ApnsOutcome(job, answer)
    [] job.target.kind = "expo" -> ExpoOutcome(job, answer)
    [] OTHER                    -> WebPushOutcome(job, answer)
=============================================================================
