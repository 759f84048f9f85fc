--------------------------- MODULE ContactContract ---------------------------
(***************************************************************************)
(* The contact job of src/src/contact/contracts.rs and the checks of       *)
(* contact/validation.rs.  Texts are abstracted as in PushContract; an     *)
(* address additionally says whether it has the shape of an email address  *)
(* or of an E.164 number.                                                  *)
(***************************************************************************)
EXTENDS PushContract

ContactKinds == { "sendgrid", "twilio" }

\* the provider a target or a content belongs to
ChannelProvider(channel) == IF channel = "email" THEN "sendgrid" ELSE "twilio"

ContactIdentifierErrors(field, text, max) ==
  IF text.len = 0
  THEN Fault("required", field)
  ELSE TooLong(field, text, max) \cup FaultIf(~text.clean, "invalid_characters", field)

\* The contract takes a template identifier of white space for none, and then asks for
\* explicit content.
TemplateMode(content) == Visible(content.template_id)

ModeErrors(content) ==
  LET hasBody == Visible(content.text) \/ Visible(content.html) IN
  IF TemplateMode(content)
  THEN FaultIf(Visible(content.subject) \/ hasBody, "invalid_email_content_mode", "content")
       \cup FaultIf(content.template_id.len > 128 \/ ~content.template_id.clean,
                    "invalid_template_id", "template_id")
  ELSE FaultIf(~Visible(content.subject) \/ ~hasBody, "invalid_email_content_mode", "content")
       \cup FaultIf(~content.data.empty, "template_data_without_template", "data")

EmailContentErrors(content) ==
  ModeErrors(content)
  \cup TooLong("subject", content.subject, 998)
  \cup FaultIf(content.subject.set /\ ~content.subject.clean, "invalid_characters", "subject")
  \cup TooLong("text", content.text, 512 * 1024)
  \cup TooLong("html", content.html, 512 * 1024)
  \cup FaultIf(content.data.len > 64 * 1024, "template_data_too_large", "data")

EmailErrors(target, content) ==
  FaultIf(~target.address.shaped, "invalid_email_address", "address")
  \cup TooLong("name", target.name, 256)
  \cup FaultIf(target.name.set /\ ~target.name.clean, "invalid_characters", "name")
  \cup FaultIf(content.reply_to.set /\ ~content.reply_to.shaped,
               "invalid_email_address", "reply_to")
  \cup EmailContentErrors(content)

SmsErrors(target, content) ==
  FaultIf(~target.address.shaped, "invalid_e164", "e164")
  \cup FaultIf(content.text.blank, "required", "body")
  \cup FaultIf(content.text.len > 1600, "sms_too_long", "body")
  \cup FaultIf(~content.text.clean, "invalid_characters", "body")

ChannelErrors(target, content) ==
  CASE target.kind = "email" /\ content.kind = "email" -> EmailErrors(target, content)
    [] target.kind = "sms" /\ content.kind = "sms"     -> SmsErrors(target, content)
    [] OTHER -> Fault("provider_channel_mismatch", "content")

ContactErrors(job) ==
  ContactIdentifierErrors("job_id", job.job_id, 128)
  \cup ContactIdentifierErrors("tenant_id", job.tenant_id, 128)
  \cup ContactIdentifierErrors("application_id", job.application_id, 128)
  \cup ContactIdentifierErrors("idempotency_key", job.idempotency_key, 256)
  \cup FaultIf(\/ job.provider # ChannelProvider(job.target.kind)
               \/ job.provider # ChannelProvider(job.content.kind),
               "provider_channel_mismatch", "provider")
  \cup ChannelErrors(job.target, job.content)

MeetsContactContract(job) == ContactErrors(job) = {}
=============================================================================
