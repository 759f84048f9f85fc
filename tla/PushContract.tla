---------------------------- MODULE PushContract ----------------------------
(***************************************************************************)
(* The push job of src/src/contracts.rs and the checks of validation.rs,   *)
(* applied by the HTTP handlers, the JetStream triage and every adapter.   *)
(*                                                                         *)
(* A text is abstracted to what the checks read of it: whether it is set,  *)
(* its length in bytes, whether it is only white space, and whether all    *)
(* its characters are allowed where it stands.                             *)
(***************************************************************************)
EXTENDS Integers, FiniteSets, Sequences

Text(n) == [set |-> TRUE, len |-> n, blank |-> FALSE, clean |-> TRUE]
Absent  == [set |-> FALSE, len |-> 0, blank |-> TRUE, clean |-> TRUE]
Blank   == [set |-> TRUE, len |-> 2, blank |-> TRUE, clean |-> FALSE]
Dirty(n) == [set |-> TRUE, len |-> n, blank |-> FALSE, clean |-> FALSE]

ProviderKinds == { "fcm", "apns", "expo", "web_push" }

Fault(kind, field) == { <<kind, field>> }
FaultIf(condition, kind, field) == IF condition THEN Fault(kind, field) ELSE {}

TooLong(field, text, max) == FaultIf(text.len > max, "too_long", field)

IdentifierErrors(field, text, max) ==
  IF text.blank
  THEN Fault("required", field)
  ELSE TooLong(field, text, max) \cup FaultIf(~text.clean, "invalid_characters", field)

\* white space alone is no content
Visible(text) == ~text.blank

NotificationErrors(job) ==
  FaultIf(/\ ~Visible(job.title) /\ ~Visible(job.body) /\ ~Visible(job.image_url)
          /\ job.data.empty,
          "empty_notification", "notification")
  \cup TooLong("title", job.title, 256)
  \cup TooLong("body", job.body, 4096)
  \cup TooLong("image_url", job.image_url, 2048)
  \cup FaultIf(job.data.len > 4096, "data_too_large", "data")

OptionErrors(job) ==
  FaultIf(job.ttl > 28 * 24 * 60 * 60, "ttl_too_large", "ttl_seconds")
  \cup TooLong("collapse_key", job.collapse_key, 128)

TraceErrors(job) ==
  UNION { TooLong("trace", field, 512) : field \in job.trace }

TokenErrors(token) ==
  IF token.len < 8 \/ token.len > 4096
  THEN Fault("invalid_length", "token")
  ELSE FaultIf(~token.clean, "invalid_characters", "token")

\* an endpoint is a parsed URL; a fragment passes here and is refused by the adapter
EndpointErrors(endpoint) ==
  FaultIf(~(/\ endpoint.parses /\ endpoint.https /\ endpoint.host.name # "none"
            /\ endpoint.port = 443 /\ ~endpoint.credentials),
          "invalid_web_push_endpoint", "endpoint")

ValidSubscriptionKey(key) == key.len \in 8..512 /\ key.clean

TargetErrors(target) ==
  IF target.kind = "web_push"
  THEN EndpointErrors(target.endpoint)
       \cup FaultIf(~ValidSubscriptionKey(target.p256dh) \/ ~ValidSubscriptionKey(target.auth),
                    "invalid_web_push_key_material", "keys")
  ELSE TokenErrors(target.token)

PushErrors(job) ==
  IdentifierErrors("job_id", job.job_id, 128)
  \cup IdentifierErrors("tenant_id", job.tenant_id, 128)
  \cup IdentifierErrors("application_id", job.application_id, 128)
  \cup IdentifierErrors("idempotency_key", job.idempotency_key, 256)
  \cup FaultIf(job.provider # job.target.kind, "provider_target_mismatch", "provider")
  \cup NotificationErrors(job) \cup OptionErrors(job) \cup TraceErrors(job)
  \cup TargetErrors(job.target)

MeetsPushContract(job) == PushErrors(job) = {}
=============================================================================
