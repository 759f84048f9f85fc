--------------------------- MODULE ContactAdapters ---------------------------
(***************************************************************************)
(* The SendGrid and Twilio adapters of src/src/contact, in the manner of   *)
(* PushAdapters.  Neither needs the body to know that a message was        *)
(* accepted: a body that cannot be read counts as an empty one.  Their     *)
(* class for a bad address is invalid_target; it is invalid_token here.    *)
(***************************************************************************)
EXTENDS ContactContract, PushAdapters

BrokenContact(job) ==
  << ~MeetsContactContract(job), InvalidPayload("contract_validation_failed") >>

Mismatched(job, kind) ==
  << job.target.kind # kind, InvalidPayload("provider_target_mismatch") >>

ContentMismatched(job, kind) ==
  << job.content.kind # kind, InvalidPayload("provider_content_mismatch") >>

(***************************************************************************)
(* SendGrid.                                                               *)
(***************************************************************************)
SendGridRefusal(job) ==
  FirstRefusal(<< BrokenContact(job), Mismatched(job, "email"), ContentMismatched(job, "email") >>)

\* Either a template or explicit content, by whether a template identifier is there at all:
\* one of white space is.
SendGridMembers(content) ==
  IF content.template_id.set
  THEN { "template_id" }
  ELSE { "subject" } \cup { name \in { "text", "html" } : content[name].set }

\* sandbox mode validates the mail and delivers nothing
SendGridRequest(job, sandbox) ==
  Request("sendgrid", "any", sandbox,
          SendGridMembers(job.content)
          \cup (IF job.content.data.empty THEN {} ELSE { "data" })
          \cup (IF job.content.reply_to.set THEN { "reply_to" } ELSE {}),
          NoDuration)

ClassifySendGridFailure(status, hint) ==
  CASE status \in { 400, 406, 413 } -> "invalid_payload"
    [] status = 429                 -> "throttled"
    [] OTHER -> IF ClassifyHttpStatus(status, hint).retryable
                THEN "transient_provider_failure" ELSE "permanent_provider_failure"

SendGridOutcome(job, answer) ==
  IF ~answer.arrived THEN Transient("transport_error", NoDuration)
  ELSE IF Success(answer.status) THEN Reply("accepted", "message_id", NoDuration)
  ELSE Reply(ClassifySendGridFailure(answer.status, HintOf(answer)), "http_status",
             HintOf(answer))

(***************************************************************************)
(* Twilio.                                                                 *)
(***************************************************************************)
TwilioRefusal(job) ==
  FirstRefusal(<< BrokenContact(job), Mismatched(job, "sms"), ContentMismatched(job, "sms") >>)

TwilioRequest(job, validity) == Request("twilio", "any", FALSE, { "text" }, validity)

TwilioErrorClass(status, code, hint) ==
  CASE code \in { "21211", "21612", "21614", "21610", "30003", "30005", "30006" }
         -> "invalid_token"
    [] code \in { "21602", "21617" } -> "invalid_payload"
    [] code \in { "20003", "20404", "21606", "21608" } -> "permanent_provider_failure"
    [] OTHER ->
         IF status = 429 THEN "throttled"
         ELSE IF ClassifyHttpStatus(status, hint).retryable THEN "transient_provider_failure"
         ELSE IF status = 400 THEN "invalid_payload"
         ELSE "permanent_provider_failure"

\* a body that is lost counts as a failure
BugTwilioOutcome(job, answer) ==
  IF ~answer.arrived \/ ~answer.readable THEN Transient("transport_error", NoDuration)
  ELSE IF Success(answer.status) /\ answer.code = None THEN Reply("accepted", "sid", NoDuration)
  ELSE Reply(TwilioErrorClass(answer.status, answer.code, HintOf(answer)),
             "http_status", HintOf(answer))

\* a code in the body of a success tells of a message that was not accepted
TwilioOutcome(job, answer) ==
  LET code == IF answer.readable /\ answer.json THEN answer.code ELSE None IN
  IF ~answer.arrived THEN Transient("transport_error", NoDuration)
  ELSE IF Success(answer.status) /\ code = None THEN Reply("accepted", "sid", NoDuration)
  ELSE Reply(TwilioErrorClass(answer.status, code, HintOf(answer)),
             IF code = None THEN "http_status" ELSE "twilio_code", HintOf(answer))

(***************************************************************************)
(* Behind the registry: one adapter by the job's provider.                 *)
(***************************************************************************)
ContactRefusal(job) ==
  IF job.provider = "sendgrid" THEN SendGridRefusal(job) ELSE TwilioRefusal(job)

ContactRequest(job, config) ==
  IF job.provider = "sendgrid" THEN SendGridRequest(job, config.sandbox)
                               ELSE TwilioRequest(job, config.validity)

ContactOutcome(job, answer) ==
  IF job.provider = "sendgrid" THEN SendGridOutcome(job, answer) ELSE TwilioOutcome(job, answer)
=============================================================================
