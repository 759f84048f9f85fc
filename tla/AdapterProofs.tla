---------------------------- MODULE AdapterProofs -----------------------------
(***************************************************************************)
(* Lemmas about what stands between a job and its provider, and about what *)
(* is made of the provider's answer: for every job and every answer within *)
(* the assumptions of HttpIngestion, with no state in sight.               *)
(***************************************************************************)
EXTENDS HttpIngestionProperties, WellFoundedInduction, TLAPS

Hints == Durations \cup { NoDuration }

\* an outcome, and one a job that was not sent may end with
IsReply(reply) == reply.class \in OutcomeClasses /\ reply.hint \in Hints
IsRefusal(reply) == IsReply(reply) /\ reply.class # "accepted"

LEMMA HintFacts ==
  /\ NoDuration \in Hints
  /\ \A n \in Nat : Least(n, MaxRetryAfter) \in Hints
  BY RetryAssumption DEF Hints, Durations, Least

LEMMA ParsedHint ==
  ASSUME NEW answer, answer.header.value \in Nat
  PROVE  HintOf(answer) \in Hints
<1> DEFINE value == answer.header.value
<1>1. 1000 * value \in Nat /\ Greatest(value - 0, 0) \in Nat
  BY DEF Greatest
<1> QED BY <1>1, HintFacts DEF HintOf, ParseRetryAfter

LEMMA CappedHint ==
  ASSUME NEW hint \in Hints
  PROVE  Capped(hint) = hint
  BY RetryAssumption DEF Hints, Capped, Least, Durations, NoDuration

LEMMA ProceedIsNone ==
  ASSUME NEW reply, IsReply(reply)
  PROVE  reply # Proceed
<1>1. reply.class # "proceed"
  BY DEF IsReply, OutcomeClasses
<1> QED BY <1>1 DEF Proceed, Reply

LEMMA RefusalReplies ==
  ASSUME NEW code
  PROVE  /\ IsRefusal(InvalidPayload(code))
         /\ IsRefusal(Reply("invalid_token", code, NoDuration))
         /\ IsRefusal(Reply("permanent_provider_failure", code, NoDuration))
         /\ \A hint \in Hints : IsRefusal(Transient(code, hint))
         /\ \A hint \in Hints : IsRefusal(Reply("throttled", code, hint))
         /\ IsRefusal(Internal) /\ IsRefusal(NotConfigured) /\ IsRefusal(LocalRateLimit)
<1>1. NoDuration \in Hints /\ 1000 \in Hints
  BY HttpAssumption, RetryAssumption DEF Hints, Durations
<1>2. ASSUME NEW class \in OutcomeClasses \ { "accepted" }, NEW any, NEW hint \in Hints
      PROVE  IsRefusal(Reply(class, any, hint))
  BY DEF IsRefusal, IsReply, Reply
<1>3. { "invalid_payload", "transient_provider_failure", "internal_failure", "invalid_token",
        "permanent_provider_failure", "throttled" } \subseteq OutcomeClasses \ { "accepted" }
  BY DEF OutcomeClasses
<1>4. IsRefusal(InvalidPayload(code))
  BY <1>1, <1>2, <1>3 DEF InvalidPayload
<1>5. \A hint \in Hints : IsRefusal(Transient(code, hint))
  BY <1>2, <1>3 DEF Transient
<1>6. IsRefusal(Internal) /\ IsRefusal(NotConfigured) /\ IsRefusal(LocalRateLimit)
  BY <1>1, <1>2, <1>3 DEF Internal, NotConfigured, LocalRateLimit
<1> QED BY <1>1, <1>2, <1>3, <1>4, <1>5, <1>6

(***************************************************************************)
(* A list of checks.                                                       *)
(***************************************************************************)
\* Checks end in the reply of one that fails, or in Proceed when none does.
LEMMA FirstRefusalFacts ==
  ASSUME NEW checks, \E n \in Nat : DOMAIN checks = 1..n
  PROVE  \/ FirstRefusal(checks) = Proceed /\ \A i \in DOMAIN checks : ~checks[i][1]
         \/ \E i \in DOMAIN checks : checks[i][1] /\ FirstRefusal(checks) = checks[i][2]
<1> DEFINE failing == { i \in DOMAIN checks : checks[i][1] }
           first   == CHOOSE i \in failing : \A k \in failing : i <= k
<1>1. CASE failing = {}
  BY <1>1 DEF FirstRefusal
<1>2. CASE failing # {}
  <2>1. failing \subseteq Nat
    OBVIOUS
  <2>2. \A k, i \in Nat : k < i => << k, i >> \in OpToRel(<, Nat)
    BY DEF OpToRel
  <2>3. PICK i \in failing : \A k \in failing : ~(<< k, i >> \in OpToRel(<, Nat))
    BY <1>2, <2>1, NatLessThanWellFounded, WFMin
  <2>4. ASSUME NEW k \in failing PROVE i <= k
    <3>1. k \in Nat /\ i \in Nat /\ ~(k < i)
      BY <2>1, <2>2, <2>3
    <3> QED BY <3>1
  <2>5. first \in failing
    BY <2>4
  <2>6. FirstRefusal(checks) = checks[first][2]
    BY <1>2 DEF FirstRefusal
  <2> QED BY <2>5, <2>6
<1> QED BY <1>1, <1>2

\* Whatever refuses a job is an outcome, and not an acceptance.
LEMMA ChecksRefuse ==
  ASSUME NEW checks, \E n \in Nat : DOMAIN checks = 1..n,
         \A i \in DOMAIN checks : checks[i][1] => IsRefusal(checks[i][2])
  PROVE  /\ FirstRefusal(checks) = Proceed \/ IsRefusal(FirstRefusal(checks))
         /\ FirstRefusal(checks) = Proceed => \A i \in DOMAIN checks : ~checks[i][1]
<1>1. ASSUME NEW i \in DOMAIN checks, checks[i][1]
      PROVE  IsRefusal(checks[i][2]) /\ checks[i][2] # Proceed
  BY <1>1, ProceedIsNone DEF IsRefusal
<1> QED BY <1>1, FirstRefusalFacts

LEMMA Lists ==
  ASSUME NEW c1, NEW c2, NEW c3, NEW c4, NEW c5, NEW c6, NEW c7, NEW c8, NEW c9,
         NEW c10, NEW c11
  PROVE  /\ DOMAIN << c1, c2 >> = 1..2
         /\ \A i \in 1..2 : << c1, c2 >>[i] \in { c1, c2 }
         /\ DOMAIN << c1, c2, c3 >> = 1..3
         /\ \A i \in 1..3 : << c1, c2, c3 >>[i] \in { c1, c2, c3 }
         /\ DOMAIN << c1, c2, c3, c4 >> = 1..4
         /\ \A i \in 1..4 : << c1, c2, c3, c4 >>[i] \in { c1, c2, c3, c4 }
         /\ DOMAIN << c1, c2, c3, c4, c5 >> = 1..5
         /\ \A i \in 1..5 : << c1, c2, c3, c4, c5 >>[i] \in { c1, c2, c3, c4, c5 }
         /\ DOMAIN << c1, c2, c3, c4, c5, c6 >> = 1..6
         /\ \A i \in 1..6 : << c1, c2, c3, c4, c5, c6 >>[i] \in { c1, c2, c3, c4, c5, c6 }
         /\ DOMAIN << c1, c2, c3, c4, c5, c6, c7 >> = 1..7
         /\ \A i \in 1..7 :
              << c1, c2, c3, c4, c5, c6, c7 >>[i] \in { c1, c2, c3, c4, c5, c6, c7 }
         /\ DOMAIN << c1, c2, c3, c4, c5, c6, c7, c8 >> = 1..8
         /\ \A i \in 1..8 :
              << c1, c2, c3, c4, c5, c6, c7, c8 >>[i]
                \in { c1, c2, c3, c4, c5, c6, c7, c8 }
         /\ DOMAIN << c1, c2, c3, c4, c5, c6, c7, c8, c9 >> = 1..9
         /\ \A i \in 1..9 :
              << c1, c2, c3, c4, c5, c6, c7, c8, c9 >>[i]
                \in { c1, c2, c3, c4, c5, c6, c7, c8, c9 }
         /\ DOMAIN << c1, c2, c3, c4, c5, c6, c7, c8, c9, c10, c11 >> = 1..11
         /\ \A i \in 1..11 :
              << c1, c2, c3, c4, c5, c6, c7, c8, c9, c10, c11 >>[i]
                \in { c1, c2, c3, c4, c5, c6, c7, c8, c9, c10, c11 }
  OBVIOUS

(***************************************************************************)
(* What stands between a job and its provider.                             *)
(***************************************************************************)
LEMMA SharedChecks ==
  ASSUME NEW job, NEW kind, NEW mint
  PROVE  /\ IsRefusal(Broken(job)[2]) /\ IsRefusal(Misrouted(job, kind)[2])
         /\ IsRefusal(MisTargeted(job, kind)[2]) /\ IsRefusal(NoDryRun(job)[2])
         /\ NoDryRun(job)[1] = job.dry_run
         /\ IsRefusal(BrokenContact(job)[2]) /\ IsRefusal(Mismatched(job, kind)[2])
         /\ IsRefusal(ContentMismatched(job, kind)[2])
         /\ IsRefusal(NoClock(mint)[2]) /\ IsRefusal(NoSignature(mint)[2])
  BY RefusalReplies
     DEF NoClock, NoSignature, Broken, Misrouted, MisTargeted, NoDryRun, BrokenContact,
         Mismatched, ContentMismatched

LEMMA FcmRefuses ==
  ASSUME NEW job
  PROVE  FcmRefusal(job) = Proceed \/ IsRefusal(FcmRefusal(job))
<1> DEFINE c1 == Broken(job)
           c2 == MisTargeted(job, "fcm")
           checks == << c1, c2 >>
<1>1. FcmRefusal(job) = FirstRefusal(checks)
  BY DEF FcmRefusal
<1>2. IsRefusal(c1[2]) /\ IsRefusal(c2[2])
  BY SharedChecks
<1> HIDE DEF c1, c2
<1>3. DOMAIN checks = 1..2 /\ \A i \in 1..2 : checks[i] \in { c1, c2 }
  BY Lists
<1>4. \A i \in DOMAIN checks : IsRefusal(checks[i][2])
  BY <1>2, <1>3
<1> HIDE DEF checks
<1> QED BY <1>1, <1>3, <1>4, ChecksRefuse

LEMMA ApnsRefuses ==
  ASSUME NEW job, NEW environment, NEW mint
  PROVE  /\ \/ ApnsRefusal(job, environment, mint) = Proceed
            \/ IsRefusal(ApnsRefusal(job, environment, mint))
         /\ ApnsRefusal(job, environment, mint) = Proceed =>
              ~job.dry_run /\ (job.image_url.set => HasVisibleAlert(job))
<1> DEFINE c1  == Broken(job)
           c2  == MisTargeted(job, "apns")
           c3  == << job.target.environment # environment,
                     InvalidPayload("environment_mismatch") >>
           c4  == NoClock(mint)
           c5  == NoDryRun(job)
           c6  == << job.data.aps, InvalidPayload("reserved_aps_key") >>
           c7  == << job.collapse_key.len > 64, InvalidPayload("collapse_id_too_long") >>
           c8  == << job.image_url.set /\ ~HasVisibleAlert(job),
                     InvalidPayload("image_requires_alert") >>
           c9  == << PayloadSize(job) > 4096, InvalidPayload("payload_too_large") >>
           c10 == NoSignature(mint)
           c11 == << ~ValidDeviceToken(job.target.token),
                     Reply("invalid_token", "invalid_device_token", NoDuration) >>
           checks == << c1, c2, c3, c4, c5, c6, c7, c8, c9, c10, c11 >>
<1>1. /\ ApnsRefusal(job, environment, mint) = FirstRefusal(checks) /\ c5[1] = job.dry_run
      /\ c8[1] = (job.image_url.set /\ ~HasVisibleAlert(job))
  BY SharedChecks DEF ApnsRefusal
<1>2. IsRefusal(c1[2]) /\ IsRefusal(c2[2]) /\ IsRefusal(c4[2]) /\ IsRefusal(c5[2])
      /\ IsRefusal(c10[2])
  BY SharedChecks
<1>3. IsRefusal(c3[2]) /\ IsRefusal(c6[2]) /\ IsRefusal(c7[2])
  BY RefusalReplies
<1>4. IsRefusal(c8[2]) /\ IsRefusal(c9[2]) /\ IsRefusal(c11[2])
  BY RefusalReplies
<1> HIDE DEF c1, c2, c3, c4, c5, c6, c7, c8, c9, c10, c11
<1>5. DOMAIN checks = 1..11 /\ checks[5] = c5 /\ checks[8] = c8
      /\ \A i \in 1..11 : checks[i] \in { c1, c2, c3, c4, c5, c6, c7, c8, c9, c10, c11 }
  BY Lists
<1>6. \A i \in DOMAIN checks : IsRefusal(checks[i][2])
  BY <1>2, <1>3, <1>4, <1>5
<1> HIDE DEF checks
<1>7. ApnsRefusal(job, environment, mint) = Proceed => ~checks[5][1] /\ ~checks[8][1]
  <2>1. FirstRefusal(checks) = Proceed => \A i \in DOMAIN checks : ~checks[i][1]
    BY <1>5, <1>6, ChecksRefuse
  <2>2. 5 \in DOMAIN checks /\ 8 \in DOMAIN checks
    BY <1>5
  <2> QED BY <1>1, <2>1, <2>2
<1>8. FirstRefusal(checks) = Proceed \/ IsRefusal(FirstRefusal(checks))
  BY <1>5, <1>6, ChecksRefuse
<1> QED BY <1>1, <1>5, <1>7, <1>8

LEMMA ExpoRefuses ==
  ASSUME NEW job
  PROVE  /\ ExpoRefusal(job) = Proceed \/ IsRefusal(ExpoRefusal(job))
         /\ ExpoRefusal(job) = Proceed => ~job.dry_run
<1> DEFINE c1 == Broken(job)
           c2 == Misrouted(job, "expo")
           c3 == NoDryRun(job)
           c4 == << ~ValidExpoPushToken(job.target.token),
                    Reply("invalid_token", "invalid_expo_push_token", NoDuration) >>
           checks == << c1, c2, c3, c4 >>
<1>1. ExpoRefusal(job) = FirstRefusal(checks) /\ c3[1] = job.dry_run
  BY SharedChecks DEF ExpoRefusal
<1>2. IsRefusal(c1[2]) /\ IsRefusal(c2[2]) /\ IsRefusal(c3[2]) /\ IsRefusal(c4[2])
  BY SharedChecks, RefusalReplies
<1> HIDE DEF c1, c2, c3, c4
<1>3. DOMAIN checks = 1..4 /\ checks[3] = c3
      /\ \A i \in 1..4 : checks[i] \in { c1, c2, c3, c4 }
  BY Lists
<1>4. \A i \in DOMAIN checks : IsRefusal(checks[i][2])
  BY <1>2, <1>3
<1> HIDE DEF checks
<1>5. FirstRefusal(checks) = Proceed => \A i \in DOMAIN checks : ~checks[i][1]
  BY <1>3, <1>4, ChecksRefuse
<1>6. FirstRefusal(checks) = Proceed \/ IsRefusal(FirstRefusal(checks))
  BY <1>3, <1>4, ChecksRefuse
<1>7. 3 \in DOMAIN checks
  BY <1>3
<1> QED BY <1>1, <1>3, <1>5, <1>6, <1>7

LEMMA EndpointRefuses ==
  ASSUME NEW endpoint, NEW policy
  PROVE  \/ EndpointRefusal(endpoint, policy) = Proceed
         \/ IsRefusal(EndpointRefusal(endpoint, policy))
<1> DEFINE c1 == << EndpointErrors(endpoint) # {} \/ endpoint.fragment,
                    InvalidPayload("invalid_endpoint") >>
           c2 == << \/ "localhost" \in { endpoint.host.name, endpoint.host.parent }
                    \/ endpoint.host.range \in NonPublicRanges
                    \/ ~policy.any /\ ~HostMatches(endpoint.host, policy),
                    InvalidPayload("endpoint_policy_rejected") >>
           checks == << c1, c2 >>
<1>1. EndpointRefusal(endpoint, policy) = FirstRefusal(checks)
  BY DEF EndpointRefusal
<1>2. IsRefusal(c1[2]) /\ IsRefusal(c2[2])
  BY RefusalReplies
<1> HIDE DEF c1, c2
<1>3. DOMAIN checks = 1..2 /\ \A i \in 1..2 : checks[i] \in { c1, c2 }
  BY Lists
<1>4. \A i \in DOMAIN checks : IsRefusal(checks[i][2])
  BY <1>2, <1>3
<1> HIDE DEF checks
<1> QED BY <1>1, <1>3, <1>4, ChecksRefuse

LEMMA DnsRefuses ==
  ASSUME NEW host, NEW policy, NEW resolved
  PROVE  \/ VerifyPublicDns(host, policy, resolved) = Proceed
         \/ IsRefusal(VerifyPublicDns(host, policy, resolved))
<1> DEFINE c1 == << ~resolved.ok, Transient("dns_resolution_failed", NoDuration) >>
           c2 == << resolved.ranges = {}, Transient("dns_no_addresses", NoDuration) >>
           c3 == << resolved.ranges \cap NonPublicRanges # {},
                    InvalidPayload("endpoint_policy_rejected") >>
           checks == << c1, c2, c3 >>
<1>1. VerifyPublicDns(host, policy, resolved) \in { Proceed, FirstRefusal(checks) }
  BY DEF VerifyPublicDns
<1>2. IsRefusal(c1[2]) /\ IsRefusal(c2[2]) /\ IsRefusal(c3[2])
  BY RefusalReplies, HintFacts
<1> HIDE DEF c1, c2, c3
<1>3. DOMAIN checks = 1..3 /\ \A i \in 1..3 : checks[i] \in { c1, c2, c3 }
  BY Lists
<1>4. \A i \in DOMAIN checks : IsRefusal(checks[i][2])
  BY <1>2, <1>3
<1> HIDE DEF checks
<1>5. FirstRefusal(checks) = Proceed \/ IsRefusal(FirstRefusal(checks))
  BY <1>3, <1>4, ChecksRefuse
<1> QED BY <1>1, <1>5

LEMMA EncryptionRefuses ==
  ASSUME NEW target
  PROVE  EncryptionRefusal(target) = Proceed \/ IsRefusal(EncryptionRefusal(target))
<1> DEFINE c1 == << ~target.p256dh.base64 \/ ~target.auth.base64,
                    InvalidPayload("invalid_subscription_key") >>
           c2 == << target.p256dh.bytes # 65 \/ ~target.p256dh.point,
                    InvalidPayload("invalid_p256dh") >>
           c3 == << target.auth.bytes # 16, InvalidPayload("invalid_auth_secret") >>
           checks == << c1, c2, c3 >>
<1>1. EncryptionRefusal(target) = FirstRefusal(checks)
  BY DEF EncryptionRefusal
<1>2. IsRefusal(c1[2]) /\ IsRefusal(c2[2]) /\ IsRefusal(c3[2])
  BY RefusalReplies
<1> HIDE DEF c1, c2, c3
<1>3. DOMAIN checks = 1..3 /\ \A i \in 1..3 : checks[i] \in { c1, c2, c3 }
  BY Lists
<1>4. \A i \in DOMAIN checks : IsRefusal(checks[i][2])
  BY <1>2, <1>3
<1> HIDE DEF checks
<1> QED BY <1>1, <1>3, <1>4, ChecksRefuse

LEMMA WebPushRefuses ==
  ASSUME NEW job, NEW policy, NEW resolved, NEW mint
  PROVE  /\ \/ WebPushRefusal(job, policy, resolved, mint) = Proceed
            \/ IsRefusal(WebPushRefusal(job, policy, resolved, mint))
         /\ WebPushRefusal(job, policy, resolved, mint) = Proceed => ~job.dry_run
<1> DEFINE endpoint   == EndpointRefusal(job.target.endpoint, policy)
           dns        == VerifyPublicDns(job.target.endpoint.host, policy, resolved)
           encryption == EncryptionRefusal(job.target)
           c1 == Broken(job)
           c2 == Misrouted(job, "web_push")
           c3 == NoDryRun(job)
           c4 == << endpoint # Proceed, endpoint >>
           c5 == << dns # Proceed, dns >>
           c6 == << PayloadSize(job) > MaxPlaintextPayload, InvalidPayload("payload_too_large") >>
           c7 == << encryption # Proceed, encryption >>
           c8 == NoClock(mint)
           c9 == NoSignature(mint)
           checks == << c1, c2, c3, c4, c5, c6, c7, c8, c9 >>
<1>1. WebPushRefusal(job, policy, resolved, mint) = FirstRefusal(checks) /\ c3[1] = job.dry_run
  BY SharedChecks DEF WebPushRefusal
<1>2. IsRefusal(c1[2]) /\ IsRefusal(c2[2]) /\ IsRefusal(c3[2]) /\ IsRefusal(c6[2])
      /\ IsRefusal(c8[2]) /\ IsRefusal(c9[2])
  BY SharedChecks, RefusalReplies
<1>3. c4[1] => IsRefusal(c4[2])
  BY EndpointRefuses
<1>4. c5[1] => IsRefusal(c5[2])
  BY DnsRefuses
<1>5. c7[1] => IsRefusal(c7[2])
  BY EncryptionRefuses
<1> HIDE DEF c1, c2, c3, c4, c5, c6, c7, c8, c9
<1>6. DOMAIN checks = 1..9 /\ checks[3] = c3
      /\ \A i \in 1..9 : checks[i] \in { c1, c2, c3, c4, c5, c6, c7, c8, c9 }
  BY Lists
<1>7. \A i \in DOMAIN checks : checks[i][1] => IsRefusal(checks[i][2])
  BY <1>2, <1>3, <1>4, <1>5, <1>6
<1> HIDE DEF checks
<1>8. FirstRefusal(checks) = Proceed => \A i \in DOMAIN checks : ~checks[i][1]
  BY <1>6, <1>7, ChecksRefuse
<1>9. FirstRefusal(checks) = Proceed \/ IsRefusal(FirstRefusal(checks))
  BY <1>6, <1>7, ChecksRefuse
<1>10. 3 \in DOMAIN checks
  BY <1>6
<1> QED BY <1>1, <1>6, <1>8, <1>9, <1>10

LEMMA ContactRefuses ==
  ASSUME NEW job
  PROVE  ContactRefusal(job) = Proceed \/ IsRefusal(ContactRefusal(job))
<1>1. ASSUME NEW kind
      PROVE  LET reply == FirstRefusal(<< BrokenContact(job), Mismatched(job, kind),
                                          ContentMismatched(job, kind) >>) IN
             reply = Proceed \/ IsRefusal(reply)
  <2> DEFINE c1 == BrokenContact(job)
             c2 == Mismatched(job, kind)
             c3 == ContentMismatched(job, kind)
             checks == << c1, c2, c3 >>
  <2>1. IsRefusal(c1[2]) /\ IsRefusal(c2[2]) /\ IsRefusal(c3[2])
    BY SharedChecks
  <2> HIDE DEF c1, c2, c3
  <2>2. DOMAIN checks = 1..3 /\ \A i \in 1..3 : checks[i] \in { c1, c2, c3 }
    BY Lists
  <2>3. \A i \in DOMAIN checks : IsRefusal(checks[i][2])
    BY <2>1, <2>2
  <2> HIDE DEF checks
  <2>4. FirstRefusal(checks) = Proceed \/ IsRefusal(FirstRefusal(checks))
    BY <2>2, <2>3, ChecksRefuse
  <2> QED BY <2>4 DEF checks, c1, c2, c3
<1> QED BY <1>1 DEF ContactRefusal, SendGridRefusal, TwilioRefusal

LEMMA StatusHint ==
  ASSUME NEW status, NEW hint \in Hints
  PROVE  /\ ClassifyHttpStatus(status, hint).retryAfter \in Hints
         /\ ClassifyHttpStatus(status, hint).retryable = RetryableStatus(status)
         /\ RetryableStatus(status) => ClassifyHttpStatus(status, hint).retryAfter = hint
  BY CappedHint, HintFacts DEF ClassifyHttpStatus

LEMMA TokenRefuses ==
  ASSUME NEW mint, NEW answer, answer.header.value \in Nat
  PROVE  FcmToken(mint, answer) = Proceed \/ IsRefusal(FcmToken(mint, answer))
<1> DEFINE decision == ClassifyHttpStatus(answer.status, HintOf(answer))
           c1 == NoClock(mint)
           c2 == << mint.key = "unreadable_key", NotConfigured >>
           c3 == << mint.key = "unsignable_key", Internal >>
           c4 == << ~answer.arrived, Transient("oauth_transport_error", NoDuration) >>
           c5 == << ~answer.readable, Transient("oauth_response_error", HintOf(answer)) >>
           c6 == << answer.status = 429, Reply("throttled", answer.code, decision.retryAfter) >>
           c7 == << decision.retryable, Transient(answer.code, decision.retryAfter) >>
           c8 == << ~Success(answer.status) \/ ~answer.json \/ answer.code # None,
                    Reply("permanent_provider_failure", answer.code, NoDuration) >>
           checks == << c1, c2, c3, c4, c5, c6, c7, c8 >>
<1>1. FcmToken(mint, answer) = FirstRefusal(checks)
  BY DEF FcmToken
<1>2. HintOf(answer) \in Hints /\ decision.retryAfter \in Hints /\ NoDuration \in Hints
  BY ParsedHint, StatusHint, HintFacts
<1> HIDE DEF decision
<1>3. IsRefusal(c1[2]) /\ IsRefusal(c2[2]) /\ IsRefusal(c3[2])
  BY SharedChecks, RefusalReplies
<1>4. IsRefusal(c4[2]) /\ IsRefusal(c5[2]) /\ IsRefusal(c6[2])
  BY <1>2, RefusalReplies
<1>5. IsRefusal(c7[2]) /\ IsRefusal(c8[2])
  BY <1>2, RefusalReplies
<1> HIDE DEF c1, c2, c3, c4, c5, c6, c7, c8
<1>6. DOMAIN checks = 1..8
      /\ \A i \in 1..8 : checks[i] \in { c1, c2, c3, c4, c5, c6, c7, c8 }
  BY Lists
<1>7. \A i \in DOMAIN checks : IsRefusal(checks[i][2])
  BY <1>3, <1>4, <1>5, <1>6
<1> HIDE DEF checks
<1> QED BY <1>1, <1>6, <1>7, ChecksRefuse

LEMMA PushRefuses ==
  ASSUME NEW job, NEW config, NEW resolved, NEW mint
  PROVE  /\ \/ PushRefusal(job, config, resolved, mint) = Proceed
            \/ IsRefusal(PushRefusal(job, config, resolved, mint))
         /\ PushRefusal(job, config, resolved, mint) = Proceed =>
              /\ job.target.kind = "fcm" \/ ~job.dry_run
              /\ job.target.kind = "apns" => (job.image_url.set => HasVisibleAlert(job))
  BY FcmRefuses, ApnsRefuses, ExpoRefuses, WebPushRefuses DEF PushRefusal

\* A job ends where it is refused, or it keeps its contract and may be sent.
LEMMA AdmissionFacts ==
  ASSUME NEW e \in Environments, NEW name \in Names
  PROVE  LET job == JobOf[name] IN
         /\ \A reply \in AdmissionsOf[e][name] \ { Proceed } : IsRefusal(reply)
         /\ Proceed \in AdmissionsOf[e][name] =>
              /\ Registered(e, job)
              /\ IF IsContact(job) THEN MeetsContactContract(job)
                 ELSE /\ MeetsPushContract(job)
                      /\ job.target.kind = "fcm" \/ ~job.dry_run
                      /\ job.target.kind = "apns" => (job.image_url.set => HasVisibleAlert(job))
<1> DEFINE job      == JobOf[name]
           contract == IF IsContact(job) THEN MeetsContactContract(job) ELSE MeetsPushContract(job)
           adapter  == IF IsContact(job) THEN { ContactRefusal(job) }
                       ELSE { PushRefusal(job, Config(e), resolved, mint) :
                                resolved \in Resolutions, mint \in Mints(e, job) }
           sent     == { reply \in adapter : reply # Proceed }
                       \cup (IF IsContact(job) THEN { LocalRateLimit } ELSE {})
                       \cup (IF Proceed \in adapter THEN TokenOutcomes(e, job) ELSE {})
<1>1. AdmissionsOf[e][name] = IF ~contract THEN { InvalidPayload("contract_validation_failed") }
                              ELSE IF ~Registered(e, job) THEN { NotConfigured } ELSE sent
  BY DEF AdmissionsOf, Admissions, Names
<1>2. IsRefusal(InvalidPayload("contract_validation_failed")) /\ IsRefusal(NotConfigured)
      /\ IsRefusal(LocalRateLimit)
  BY RefusalReplies
<1>3. \A reply : IsRefusal(reply) => reply # Proceed
  BY ProceedIsNone DEF IsRefusal
<1>4. \A reply \in adapter : reply = Proceed \/ IsRefusal(reply)
  BY ContactRefuses, PushRefuses
<1>5. \A reply \in TokenOutcomes(e, job) : reply = Proceed \/ IsRefusal(reply)
  BY TokenRefuses, AnswerAssumption DEF TokenOutcomes
<1>6. (Proceed \in adapter /\ ~IsContact(job)) =>
        /\ job.target.kind = "fcm" \/ ~job.dry_run
        /\ job.target.kind = "apns" => (job.image_url.set => HasVisibleAlert(job))
  BY PushRefuses
<1> HIDE DEF adapter, contract, job
<1>7. \A reply \in sent : reply = Proceed \/ IsRefusal(reply)
  BY <1>2, <1>4, <1>5
<1>8. Proceed \in sent => Proceed \in adapter
  BY <1>2, <1>3
<1> HIDE DEF sent
<1>9. \A reply \in AdmissionsOf[e][name] : reply = Proceed \/ IsRefusal(reply)
  BY <1>1, <1>2, <1>7
<1>10. Proceed \in AdmissionsOf[e][name] =>
         contract /\ Registered(e, job) /\ Proceed \in adapter
  BY <1>1, <1>2, <1>3, <1>8
<1> QED BY <1>6, <1>9, <1>10 DEF contract, job

\* Under the contract, the provider of a job is the one its target belongs to.
LEMMA ContractRoutes ==
  ASSUME NEW job, MeetsPushContract(job)
  PROVE  job.provider = job.target.kind
<1>1. FaultIf(job.provider # job.target.kind, "provider_target_mismatch", "provider") = {}
  BY DEF MeetsPushContract, PushErrors
<1> QED BY <1>1 DEF FaultIf, Fault

(***************************************************************************)
(* How an answer is read.                                                  *)
(***************************************************************************)
\* An outcome judges the answer it is made of: it says accepted of what was taken, or of a
\* Twilio body that is lost; it says it of all that was taken, unless the acceptance is hidden;
\* and it carries the delay the provider asks for, unless the document is judged instead.
Judges(outcome, answer, lost, hidden, judged) ==
  /\ IsReply(outcome)
  /\ outcome.class = "accepted" => answer.taken \/ lost
  /\ (answer.taken /\ ~hidden) => outcome.class = "accepted"
  /\ (IsRetryable(outcome.class) /\ answer.arrived /\ answer.header.form = "seconds") =>
       outcome.hint = Least(1000 * answer.header.value, MaxRetryAfter) \/ judged

Failures == OutcomeClasses \ { "accepted" }

LEMMA AnswerFacts ==
  ASSUME NEW kind \in Kinds, NEW answer \in AnswersOf[kind]
  PROVE  /\ answer.taken \in BOOLEAN
         /\ HintOf(answer) \in Hints
         /\ answer.header.form = "seconds" =>
              HintOf(answer) = Least(1000 * answer.header.value, MaxRetryAfter)
         /\ (answer.taken /\ answer.arrived) => Success(answer.status)
         /\ (kind \in { "expo", "twilio" } /\ answer.taken) => answer.code = None
         /\ (kind = "expo" /\ Len(answer.tickets) = 1) => (answer.taken <=> answer.tickets[1].ok)
         /\ (kind # "expo" /\ answer.arrived /\ Success(answer.status)) =>
              (answer.taken \/ (kind = "twilio" /\ answer.code # None))
<1>1. answer.header.value \in Nat
  BY AnswerAssumption
<1>2. answer.header.form = "seconds" =>
        HintOf(answer) = Least(1000 * answer.header.value, MaxRetryAfter)
  BY DEF HintOf, ParseRetryAfter
<1> QED BY <1>1, <1>2, ParsedHint, AnswerAssumption

LEMMA ClassFacts ==
  ASSUME NEW status, NEW code, NEW hint
  PROVE  /\ ClassifyFcmResponse(status, code) \in Failures
         /\ ClassifyApnsResponse(status, code) \in Failures
         /\ ClassifyExpoCode(code) \in Failures /\ ExpoErrorClass(code) \in Failures
         /\ ClassifyWebPushResponse(status, hint) \in Failures
         /\ ClassifySendGridFailure(status, hint) \in Failures
         /\ TwilioErrorClass(status, code, hint) \in Failures
<1> USE DEF Failures, OutcomeClasses
<1>1. ClassifyFcmResponse(status, code) \in Failures
  BY DEF ClassifyFcmResponse
<1>2. ClassifyApnsResponse(status, code) \in Failures
  BY DEF ClassifyApnsResponse
<1>3. ClassifyExpoCode(code) \in Failures /\ ExpoErrorClass(code) \in Failures
  BY DEF ClassifyExpoCode, ExpoErrorClass
<1>4. ClassifyWebPushResponse(status, hint) \in Failures
  BY DEF ClassifyWebPushResponse
<1>5. ClassifySendGridFailure(status, hint) \in Failures
  BY DEF ClassifySendGridFailure
<1>6. TwilioErrorClass(status, code, hint) \in Failures
  BY DEF TwilioErrorClass
<1> QED BY <1>1, <1>2, <1>3, <1>4, <1>5, <1>6

LEMMA ReplyJudges ==
  ASSUME NEW class, NEW code, NEW hint \in Hints
  PROVE  LET reply == Reply(class, code, hint) IN
         /\ reply.class = class /\ reply.hint = hint
         /\ class \in OutcomeClasses => IsReply(reply)
  BY DEF Reply, IsReply

LEMMA KindsFacts ==
  { "fcm", "apns", "expo", "web_push", "sendgrid", "twilio" } = Kinds
  BY DEF Kinds, ProviderKinds, ContactKinds

LEMMA TransientFacts ==
  ASSUME NEW code, NEW hint \in Hints
  PROVE  /\ Transient(code, hint).class = "transient_provider_failure"
         /\ Transient(code, hint).hint = hint /\ IsReply(Transient(code, hint))
  BY DEF Transient, Reply, IsReply, OutcomeClasses

LEMMA FcmJudges ==
  ASSUME NEW job, NEW answer \in AnswersOf["fcm"]
  PROVE  Judges(FcmOutcome(job, answer), answer, FALSE, ~answer.arrived \/ ~answer.readable, FALSE)
<1> DEFINE outcome == FcmOutcome(job, answer)
           class   == ClassifyFcmResponse(answer.status, answer.code)
<1>1. HintOf(answer) \in Hints /\ NoDuration \in Hints /\ class \in Failures
  BY KindsFacts, AnswerFacts, HintFacts, ClassFacts
<1>2. CASE ~answer.arrived
  <2>1. outcome = Transient("transport_error", NoDuration)
    BY <1>2 DEF FcmOutcome
  <2> QED BY <1>1, <1>2, <2>1, TransientFacts DEF Judges
<1>3. CASE answer.arrived /\ ~answer.readable
  <2>1. outcome = Transient("response_read_error", HintOf(answer))
    BY <1>3 DEF FcmOutcome
  <2> QED BY <1>1, <1>3, <2>1, TransientFacts, KindsFacts, AnswerFacts DEF Judges
<1>4. CASE answer.arrived /\ answer.readable /\ Success(answer.status)
  <2>1. PICK code : outcome = Reply("accepted", code, NoDuration)
    BY <1>4 DEF FcmOutcome
  <2>2. answer.taken
    BY <1>4, KindsFacts, AnswerFacts
  <2> QED BY <1>1, <2>1, <2>2, ReplyJudges DEF Judges, OutcomeClasses, IsRetryable, RetryableClasses
<1>5. CASE answer.arrived /\ answer.readable /\ ~Success(answer.status)
  <2>1. outcome = Reply(class, answer.code, HintOf(answer))
    BY <1>5 DEF FcmOutcome
  <2>2. ~answer.taken
    BY <1>5, KindsFacts, AnswerFacts
  <2> HIDE DEF outcome, class
  <2> QED BY <1>1, <2>1, <2>2, ReplyJudges, KindsFacts, AnswerFacts DEF Judges, Failures, outcome
<1> QED BY <1>2, <1>3, <1>4, <1>5

LEMMA ApnsJudges ==
  ASSUME NEW job, NEW answer \in AnswersOf["apns"]
  PROVE  Judges(ApnsOutcome(job, answer), answer, FALSE, ~answer.arrived \/ ~answer.readable, FALSE)
<1> DEFINE outcome == ApnsOutcome(job, answer)
           class   == ClassifyApnsResponse(answer.status, answer.code)
<1>1. HintOf(answer) \in Hints /\ NoDuration \in Hints /\ class \in Failures
  BY KindsFacts, AnswerFacts, HintFacts, ClassFacts
<1>2. CASE ~answer.arrived
  <2>1. outcome = Transient("transport_error", NoDuration)
    BY <1>2 DEF ApnsOutcome
  <2> QED BY <1>1, <1>2, <2>1, TransientFacts DEF Judges
<1>3. CASE answer.arrived /\ ~answer.readable
  <2>1. outcome = Transient("response_read_error", HintOf(answer))
    BY <1>3 DEF ApnsOutcome
  <2> QED BY <1>1, <1>3, <2>1, TransientFacts, KindsFacts, AnswerFacts DEF Judges
<1>4. CASE answer.arrived /\ answer.readable /\ Success(answer.status)
  <2>1. outcome = Reply("accepted", "apns_id", NoDuration)
    BY <1>4 DEF ApnsOutcome
  <2>2. answer.taken
    BY <1>4, KindsFacts, AnswerFacts
  <2> QED BY <1>1, <2>1, <2>2, ReplyJudges DEF Judges, OutcomeClasses, IsRetryable, RetryableClasses
<1>5. CASE answer.arrived /\ answer.readable /\ ~Success(answer.status)
  <2>1. PICK code : outcome = Reply(class, code, HintOf(answer))
    BY <1>5 DEF ApnsOutcome
  <2>2. ~answer.taken
    BY <1>5, KindsFacts, AnswerFacts
  <2> HIDE DEF outcome, class
  <2> QED BY <1>1, <2>1, <2>2, ReplyJudges, KindsFacts, AnswerFacts DEF Judges, Failures, outcome
<1> QED BY <1>2, <1>3, <1>4, <1>5

LEMMA WebPushJudges ==
  ASSUME NEW job, NEW answer \in AnswersOf["web_push"]
  PROVE  Judges(WebPushOutcome(job, answer), answer, FALSE, ~answer.arrived, FALSE)
<1> DEFINE outcome == WebPushOutcome(job, answer)
           class   == ClassifyWebPushResponse(answer.status, HintOf(answer))
<1>1. HintOf(answer) \in Hints /\ NoDuration \in Hints /\ class \in Failures
  BY KindsFacts, AnswerFacts, HintFacts, ClassFacts
<1>2. CASE ~answer.arrived
  <2>1. outcome = Transient("transport_error", NoDuration)
    BY <1>2 DEF WebPushOutcome
  <2> QED BY <1>1, <1>2, <2>1, TransientFacts DEF Judges
<1>3. CASE answer.arrived /\ Success(answer.status)
  <2>1. outcome = Reply("accepted", None, NoDuration)
    BY <1>3 DEF WebPushOutcome
  <2>2. answer.taken
    BY <1>3, KindsFacts, AnswerFacts
  <2> QED BY <1>1, <2>1, <2>2, ReplyJudges DEF Judges, OutcomeClasses, IsRetryable, RetryableClasses
<1>4. CASE answer.arrived /\ ~Success(answer.status)
  <2>1. outcome = Reply(class, "http_status", HintOf(answer))
    BY <1>4 DEF WebPushOutcome
  <2>2. ~answer.taken
    BY <1>4, KindsFacts, AnswerFacts
  <2> HIDE DEF outcome, class
  <2> QED BY <1>1, <2>1, <2>2, ReplyJudges, KindsFacts, AnswerFacts DEF Judges, Failures, outcome
<1> QED BY <1>2, <1>3, <1>4

LEMMA SendGridJudges ==
  ASSUME NEW job, NEW answer \in AnswersOf["sendgrid"]
  PROVE  Judges(SendGridOutcome(job, answer), answer, FALSE, ~answer.arrived, FALSE)
<1> DEFINE outcome == SendGridOutcome(job, answer)
           class   == ClassifySendGridFailure(answer.status, HintOf(answer))
<1>1. HintOf(answer) \in Hints /\ NoDuration \in Hints /\ class \in Failures
  BY KindsFacts, AnswerFacts, HintFacts, ClassFacts
<1>2. CASE ~answer.arrived
  <2>1. outcome = Transient("transport_error", NoDuration)
    BY <1>2 DEF SendGridOutcome
  <2> QED BY <1>1, <1>2, <2>1, TransientFacts DEF Judges
<1>3. CASE answer.arrived /\ Success(answer.status)
  <2>1. outcome = Reply("accepted", "message_id", NoDuration)
    BY <1>3 DEF SendGridOutcome
  <2>2. answer.taken
    BY <1>3, KindsFacts, AnswerFacts
  <2> QED BY <1>1, <2>1, <2>2, ReplyJudges DEF Judges, OutcomeClasses, IsRetryable, RetryableClasses
<1>4. CASE answer.arrived /\ ~Success(answer.status)
  <2>1. outcome = Reply(class, "http_status", HintOf(answer))
    BY <1>4 DEF SendGridOutcome
  <2>2. ~answer.taken
    BY <1>4, KindsFacts, AnswerFacts
  <2> HIDE DEF outcome, class
  <2> QED BY <1>1, <2>1, <2>2, ReplyJudges, KindsFacts, AnswerFacts DEF Judges, Failures, outcome
<1> QED BY <1>2, <1>3, <1>4

LEMMA TwilioJudges ==
  ASSUME NEW job, NEW answer \in AnswersOf["twilio"]
  PROVE  Judges(TwilioOutcome(job, answer), answer, ~(answer.readable /\ answer.json),
                ~answer.arrived, FALSE)
<1> DEFINE outcome == TwilioOutcome(job, answer)
           code    == IF answer.readable /\ answer.json THEN answer.code ELSE None
           class   == TwilioErrorClass(answer.status, code, HintOf(answer))
<1>1. HintOf(answer) \in Hints /\ NoDuration \in Hints /\ class \in Failures
  BY KindsFacts, AnswerFacts, HintFacts, ClassFacts
<1>2. CASE ~answer.arrived
  <2>1. outcome = Transient("transport_error", NoDuration)
    BY <1>2 DEF TwilioOutcome
  <2> QED BY <1>1, <1>2, <2>1, TransientFacts DEF Judges
<1>3. CASE answer.arrived /\ Success(answer.status) /\ code = None
  <2>1. outcome = Reply("accepted", "sid", NoDuration)
    BY <1>3 DEF TwilioOutcome
  <2>2. answer.taken \/ ~(answer.readable /\ answer.json)
    BY <1>3, KindsFacts, AnswerFacts
  <2> HIDE DEF code, outcome
  <2> QED
    BY <1>1, <2>1, <2>2, ReplyJudges
    DEF Judges, OutcomeClasses, IsRetryable, RetryableClasses, outcome
<1>4. CASE answer.arrived /\ ~(Success(answer.status) /\ code = None)
  <2>1. PICK shown : outcome = Reply(class, shown, HintOf(answer))
    BY <1>4 DEF TwilioOutcome
  <2>2. ~answer.taken
    BY <1>4, KindsFacts, AnswerFacts
  <2> HIDE DEF outcome, class
  <2> QED BY <1>1, <2>1, <2>2, ReplyJudges, KindsFacts, AnswerFacts DEF Judges, Failures, outcome
<1> QED BY <1>2, <1>3, <1>4

\* The first thing that goes wrong with Expo's answer.
LEMMA ExpoFailureIs ==
  ASSUME NEW answer, NEW code
  PROVE  ExpoAnswerFailure(answer, code) =
           IF ~answer.arrived THEN Transient("transport_error", NoDuration)
           ELSE IF ~answer.readable THEN Transient("response_read_error", HintOf(answer))
           ELSE IF ~Success(answer.status) THEN ClassifyRequestFailure(answer)
           ELSE IF ~answer.json THEN Reply("permanent_provider_failure", code, NoDuration)
           ELSE IF answer.code # None THEN RequestError(answer.code) ELSE Proceed
<1> DEFINE c1 == << ~answer.arrived, Transient("transport_error", NoDuration) >>
           c2 == << ~answer.readable, Transient("response_read_error", HintOf(answer)) >>
           c3 == << ~Success(answer.status), ClassifyRequestFailure(answer) >>
           c4 == << ~answer.json, Reply("permanent_provider_failure", code, NoDuration) >>
           c5 == << answer.code # None, RequestError(answer.code) >>
           checks  == << c1, c2, c3, c4, c5 >>
           failing == { i \in DOMAIN checks : checks[i][1] }
           first   == CHOOSE i \in failing : \A k \in failing : i <= k
<1>1. ExpoAnswerFailure(answer, code) = FirstRefusal(checks)
  BY DEF ExpoAnswerFailure
<1>2. FirstRefusal(checks) = IF failing = {} THEN Proceed ELSE checks[first][2]
  BY DEF FirstRefusal
<1> HIDE DEF c1, c2, c3, c4, c5
<1>3. DOMAIN checks = 1..5 /\ checks[1] = c1 /\ checks[2] = c2 /\ checks[3] = c3 /\ checks[4] = c4
      /\ checks[5] = c5
  OBVIOUS
<1> HIDE DEF checks
<1>4. failing = { i \in { 1, 2, 3, 4, 5 } : checks[i][1] }
  BY <1>3
<1>5. ASSUME NEW i \in failing, \A k \in failing : i <= k PROVE first = i
  <2>1. failing \subseteq 1..5
    BY <1>4
  <2> HIDE DEF failing
  <2>2. first \in failing /\ \A k \in failing : first <= k
    BY <1>5
  <2> HIDE DEF first
  <2>3. first \in 1..5 /\ i \in 1..5 /\ first <= i /\ i <= first
    BY <1>5, <2>1, <2>2
  <2> QED BY <2>3
<1> HIDE DEF first
<1>6. failing # {} =>
        first = IF c1[1] THEN 1 ELSE IF c2[1] THEN 2 ELSE IF c3[1] THEN 3 ELSE IF c4[1] THEN 4
                ELSE 5
  BY <1>3, <1>4, <1>5
<1>7. failing = {} <=> ~c1[1] /\ ~c2[1] /\ ~c3[1] /\ ~c4[1] /\ ~c5[1]
  BY <1>3, <1>4
<1> HIDE DEF failing
<1>8. FirstRefusal(checks) = IF c1[1] THEN c1[2] ELSE IF c2[1] THEN c2[2] ELSE IF c3[1] THEN c3[2]
                             ELSE IF c4[1] THEN c4[2] ELSE IF c5[1] THEN c5[2] ELSE Proceed
  BY <1>2, <1>3, <1>6, <1>7
<1> QED BY <1>1, <1>8 DEF c1, c2, c3, c4, c5

LEMMA ExpoJudges ==
  ASSUME NEW job, NEW answer \in AnswersOf["expo"]
  PROVE  Judges(ExpoOutcome(job, answer), answer, FALSE,
                \/ ~answer.arrived \/ ~answer.readable \/ ~answer.json \/ ~answer.data
                \/ Len(answer.tickets) # 1 \/ ~ValidTicketId(answer.tickets[1].id),
                answer.json /\ (Success(answer.status) \/ answer.code # None))
<1> DEFINE outcome == ExpoOutcome(job, answer)
           failure == ExpoAnswerFailure(answer, "invalid_success_response")
           ticket  == answer.tickets[1]
           hint    == HintOf(answer)
           sound   == answer.arrived /\ answer.readable /\ Success(answer.status) /\ answer.json
                      /\ answer.code = None
<1>1. hint \in Hints /\ NoDuration \in Hints
  BY KindsFacts, AnswerFacts, HintFacts
<1>2. ASSUME NEW class \in Failures, NEW code, NEW h \in Hints
      PROVE  IsReply(Reply(class, code, h)) /\ Reply(class, code, h) # Proceed
  BY <1>2, ProceedIsNone, ReplyJudges DEF Failures
<1>3. IsReply(Transient("transport_error", NoDuration))
      /\ IsReply(Transient("response_read_error", hint))
  BY <1>1, TransientFacts
<1>4. \A reply : IsReply(reply) => reply # Proceed
  BY ProceedIsNone
<1>5. CASE ~answer.arrived
  <2>1. outcome = Transient("transport_error", NoDuration)
    BY <1>3, <1>4, <1>5, ExpoFailureIs DEF ExpoOutcome
  <2> HIDE DEF outcome
  <2> QED BY <1>1, <1>5, <2>1, TransientFacts DEF Judges, outcome
<1>6. CASE answer.arrived /\ ~answer.readable
  <2>1. outcome = Transient("response_read_error", hint)
    BY <1>3, <1>4, <1>6, ExpoFailureIs DEF ExpoOutcome
  <2> HIDE DEF outcome
  <2> QED BY <1>1, <1>6, <2>1, TransientFacts, KindsFacts, AnswerFacts DEF Judges, outcome
<1>7. CASE answer.arrived /\ answer.readable /\ ~Success(answer.status)
  <2>1. ~answer.taken
    BY <1>7, KindsFacts, AnswerFacts
  <2>2. CASE answer.json /\ answer.code # None
    <3>1. RequestError(answer.code) = Reply(ClassifyExpoCode(answer.code), answer.code, NoDuration)
      BY DEF RequestError
    <3>2. ClassifyExpoCode(answer.code) \in Failures
      BY ClassFacts
    <3>3. outcome = Reply(ClassifyExpoCode(answer.code), answer.code, NoDuration)
      BY <1>1, <1>2, <1>7, <2>2, <3>1, <3>2, ExpoFailureIs DEF ExpoOutcome, ClassifyRequestFailure
    <3> HIDE DEF outcome
    <3> QED BY <1>1, <2>1, <2>2, <3>2, <3>3, ReplyJudges DEF Judges, Failures, outcome
  <2>3. CASE ~(answer.json /\ answer.code # None)
    <3> DEFINE decision == ClassifyHttpStatus(answer.status, hint)
               class    == IF answer.status = 429 THEN "throttled"
                           ELSE IF decision.retryable THEN "transient_provider_failure"
                           ELSE IF answer.status \in { 400, 413 } THEN "invalid_payload"
                           ELSE "permanent_provider_failure"
    <3>1. class \in Failures /\ decision.retryAfter \in Hints
      BY <1>1, StatusHint DEF Failures, OutcomeClasses
    <3>2. IsRetryable(class) => decision.retryAfter = hint
      <4>1. RetryableStatus(429)
        BY DEF RetryableStatus
      <4>2. ~IsRetryable("invalid_payload") /\ ~IsRetryable("permanent_provider_failure")
        BY DEF IsRetryable, RetryableClasses
      <4>3. decision.retryable = RetryableStatus(answer.status)
        BY <1>1, StatusHint
      <4> HIDE DEF decision
      <4>4. IsRetryable(class) => RetryableStatus(answer.status)
        BY <4>1, <4>2, <4>3
      <4> QED BY <1>1, <4>4, StatusHint DEF decision
    <3>3. ClassifyRequestFailure(answer) = Reply(class, "http_status", decision.retryAfter)
      BY <2>3 DEF ClassifyRequestFailure
    <3> HIDE DEF class, decision, hint
    <3>4. outcome = Reply(class, "http_status", decision.retryAfter)
      BY <1>2, <1>7, <3>1, <3>3, ExpoFailureIs DEF ExpoOutcome
    <3> HIDE DEF outcome
    <3>5. /\ outcome.class = class /\ outcome.hint = decision.retryAfter /\ IsReply(outcome)
          /\ outcome.class # "accepted"
      BY <3>1, <3>4, ReplyJudges DEF Failures
    <3>6. answer.header.form = "seconds" =>
            hint = Least(1000 * answer.header.value, MaxRetryAfter)
      BY KindsFacts, AnswerFacts DEF hint
    <3> QED BY <2>1, <3>2, <3>5, <3>6 DEF Judges, outcome
  <2> QED BY <2>2, <2>3
<1>8. CASE answer.arrived /\ answer.readable /\ Success(answer.status) /\ ~answer.json
  <2>1. "permanent_provider_failure" \in Failures
        /\ ~IsRetryable("permanent_provider_failure")
    BY DEF Failures, OutcomeClasses, IsRetryable, RetryableClasses
  <2>2. outcome = Reply("permanent_provider_failure", "invalid_success_response", NoDuration)
    BY <1>1, <1>2, <1>8, <2>1, ExpoFailureIs DEF ExpoOutcome
  <2> HIDE DEF outcome
  <2> QED BY <1>1, <1>8, <2>1, <2>2, ReplyJudges DEF Judges, Failures, outcome
<1>9. CASE answer.arrived /\ answer.readable /\ Success(answer.status) /\ answer.json
           /\ answer.code # None
  <2>1. ~answer.taken
    BY <1>9, KindsFacts, AnswerFacts
  <2>2. ClassifyExpoCode(answer.code) \in Failures
    BY ClassFacts
  <2>3. outcome = Reply(ClassifyExpoCode(answer.code), answer.code, NoDuration)
    BY <1>1, <1>2, <1>9, <2>2, ExpoFailureIs DEF ExpoOutcome, RequestError
  <2> HIDE DEF outcome
  <2> QED BY <1>1, <1>9, <2>1, <2>2, <2>3, ReplyJudges DEF Judges, Failures, outcome
<1>10. CASE sound
  <2>1. failure = Proceed
    BY <1>10, ExpoFailureIs
  <2>2. "permanent_provider_failure" \in Failures /\ "internal_failure" \in Failures
        /\ "accepted" \in OutcomeClasses
    BY DEF Failures, OutcomeClasses
  <2>3. CASE ~answer.data \/ Len(answer.tickets) # 1
    <3>1. PICK class \in Failures, code \in { "missing_tickets", "internal_provider_error" } :
            outcome = Reply(class, code, NoDuration)
      <4>1. outcome \in { Reply("permanent_provider_failure", "missing_tickets", NoDuration),
                          Internal }
        BY <2>1, <2>3 DEF ExpoOutcome
      <4> QED BY <2>2, <4>1 DEF Internal
    <3> HIDE DEF outcome
    <3> QED BY <1>1, <1>10, <2>3, <3>1, ReplyJudges DEF Judges, Failures, outcome
  <2>4. CASE answer.data /\ Len(answer.tickets) = 1 /\ ~ticket.ok
    <3>1. outcome = Reply(ExpoErrorClass(ticket.code), ticket.code, NoDuration)
      BY <2>1, <2>4 DEF ExpoOutcome, OutcomeFromTicket
    <3>2. ~answer.taken
      BY <2>4, KindsFacts, AnswerFacts
    <3>3. ExpoErrorClass(ticket.code) \in Failures
      BY ClassFacts
    <3> HIDE DEF outcome
    <3> QED BY <1>1, <1>10, <3>1, <3>2, <3>3, ReplyJudges DEF Judges, Failures, outcome
  <2>5. CASE answer.data /\ Len(answer.tickets) = 1 /\ ticket.ok /\ ValidTicketId(ticket.id)
    <3>1. outcome = Reply("accepted", "ticket", NoDuration)
      BY <2>1, <2>5 DEF ExpoOutcome, OutcomeFromTicket
    <3>2. answer.taken
      BY <2>5, KindsFacts, AnswerFacts
    <3> HIDE DEF outcome
    <3> QED BY <1>1, <1>10, <2>2, <3>1, <3>2, ReplyJudges DEF Judges, outcome
  <2>6. CASE answer.data /\ Len(answer.tickets) = 1 /\ ticket.ok /\ ~ValidTicketId(ticket.id)
    <3>1. outcome = Reply("internal_failure", "invalid_ticket_response", NoDuration)
      BY <2>1, <2>6 DEF ExpoOutcome, OutcomeFromTicket
    <3> HIDE DEF outcome
    <3> QED BY <1>1, <1>10, <2>2, <2>6, <3>1, ReplyJudges DEF Judges, Failures, outcome
  <2> QED BY <2>3, <2>4, <2>5, <2>6
<1> QED BY <1>5, <1>6, <1>7, <1>8, <1>9, <1>10

\* What a handler makes of the answer to a request judges it.
LEMMA CallJudges ==
  ASSUME NEW e \in Environments, NEW call, call.job \in Names,
         call.answer \in AnswersOf[JobOf[call.job].provider],
         Proceed \in AdmissionsOf[e][call.job]
  PROVE  Judges(OutcomeOf(JobOf[call.job], call.answer), call.answer,
                TwilioBodyIsLost(call), AcceptanceIsHidden(call), JudgedByDocument(call))
<1> DEFINE job     == JobOf[call.job]
           answer  == call.answer
           outcome == OutcomeOf(job, answer)
<1>1. job.provider \in { "fcm", "apns", "expo", "web_push", "sendgrid", "twilio" }
  BY JobAssumption, KindsFacts
<1>2. ~IsContact(job) => job.target.kind = job.provider
  BY AdmissionFacts, ContractRoutes
<1>3. CASE job.provider = "fcm"
  <2>1. outcome = FcmOutcome(job, answer)
    BY <1>2, <1>3 DEF OutcomeOf, PushOutcome, IsContact, ContactKinds
  <2>2. (~answer.arrived \/ ~answer.readable) => AcceptanceIsHidden(call)
    BY <1>3 DEF AcceptanceIsHidden
  <2>3. Judges(FcmOutcome(job, answer), answer, FALSE, ~answer.arrived \/ ~answer.readable, FALSE)
    BY <1>3, FcmJudges
  <2> HIDE DEF outcome, answer, job
  <2> QED BY <2>1, <2>2, <2>3 DEF Judges, outcome, answer, job
<1>4. CASE job.provider = "apns"
  <2>1. outcome = ApnsOutcome(job, answer)
    BY <1>2, <1>4 DEF OutcomeOf, PushOutcome, IsContact, ContactKinds
  <2>2. (~answer.arrived \/ ~answer.readable) => AcceptanceIsHidden(call)
    BY <1>4 DEF AcceptanceIsHidden
  <2>3. Judges(ApnsOutcome(job, answer), answer, FALSE, ~answer.arrived \/ ~answer.readable, FALSE)
    BY <1>4, ApnsJudges
  <2> HIDE DEF outcome, answer, job
  <2> QED BY <2>1, <2>2, <2>3 DEF Judges, outcome, answer, job
<1>5. CASE job.provider = "expo"
  <2>1. outcome = ExpoOutcome(job, answer)
    BY <1>2, <1>5 DEF OutcomeOf, PushOutcome, IsContact, ContactKinds
  <2>2. (\/ ~answer.arrived \/ ~answer.readable \/ ~answer.json \/ ~answer.data
         \/ Len(answer.tickets) # 1 \/ ~ValidTicketId(answer.tickets[1].id))
        => AcceptanceIsHidden(call)
    BY <1>5 DEF AcceptanceIsHidden, FromExpo
  <2>3. (answer.json /\ (Success(answer.status) \/ answer.code # None)) => JudgedByDocument(call)
    BY <1>5 DEF JudgedByDocument, FromExpo
  <2>4. Judges(ExpoOutcome(job, answer), answer, FALSE, 
                     \/ ~answer.arrived \/ ~answer.readable \/ ~answer.json \/ ~answer.data
                     \/ Len(answer.tickets) # 1 \/ ~ValidTicketId(answer.tickets[1].id),
                     answer.json /\ (Success(answer.status) \/ answer.code # None))
    BY <1>5, ExpoJudges
  <2> HIDE DEF outcome, answer, job
  <2> QED BY <2>1, <2>2, <2>3, <2>4 DEF Judges, outcome, answer, job
<1>6. CASE job.provider = "web_push"
  <2>1. outcome = WebPushOutcome(job, answer)
    BY <1>2, <1>6 DEF OutcomeOf, PushOutcome, IsContact, ContactKinds
  <2>2. ~answer.arrived => AcceptanceIsHidden(call)
    BY DEF AcceptanceIsHidden
  <2>3. Judges(WebPushOutcome(job, answer), answer, FALSE, ~answer.arrived, FALSE)
    BY <1>6, WebPushJudges
  <2> HIDE DEF outcome, answer, job
  <2> QED BY <2>1, <2>2, <2>3 DEF Judges, outcome, answer, job
<1>7. CASE job.provider = "sendgrid"
  <2>1. outcome = SendGridOutcome(job, answer)
    BY <1>7 DEF OutcomeOf, ContactOutcome, IsContact, ContactKinds
  <2>2. ~answer.arrived => AcceptanceIsHidden(call)
    BY DEF AcceptanceIsHidden
  <2>3. Judges(SendGridOutcome(job, answer), answer, FALSE, ~answer.arrived, FALSE)
    BY <1>7, SendGridJudges
  <2> HIDE DEF outcome, answer, job
  <2> QED BY <2>1, <2>2, <2>3 DEF Judges, outcome, answer, job
<1>8. CASE job.provider = "twilio"
  <2>1. outcome = TwilioOutcome(job, answer)
    BY <1>8 DEF OutcomeOf, ContactOutcome, IsContact, ContactKinds
  <2>2. ~answer.arrived => AcceptanceIsHidden(call)
    BY DEF AcceptanceIsHidden
  <2>3. ~(answer.readable /\ answer.json) => TwilioBodyIsLost(call)
    BY <1>8 DEF TwilioBodyIsLost
  <2>4. Judges(TwilioOutcome(job, answer), answer, ~(answer.readable /\ answer.json),
               ~answer.arrived, FALSE)
    BY <1>8, TwilioJudges
  <2> HIDE DEF outcome, answer, job
  <2> QED BY <2>1, <2>2, <2>3, <2>4 DEF Judges, outcome, answer, job
<1> QED BY <1>1, <1>3, <1>4, <1>5, <1>6, <1>7, <1>8
(***************************************************************************)
(* Which codes an outcome may carry.                                       *)
(***************************************************************************)
OwnCodes == MismatchCodes \cup { NotConfigured.code }

\* an outcome that says neither that a job is at the wrong place nor that its provider is off
Plain(reply) == reply.code \notin OwnCodes

LEMMA OwnCodesAre ==
  OwnCodes = { "environment_mismatch", "provider_target_mismatch", "provider_content_mismatch",
               "provider_not_configured" }
  BY DEF OwnCodes, MismatchCodes, NotConfigured, Reply

LEMMA PlainReplies ==
  /\ \A class, code, hint : code \notin OwnCodes => Plain(Reply(class, code, hint))
  /\ \A code : code \notin OwnCodes => Plain(InvalidPayload(code))
  /\ \A code, hint : code \notin OwnCodes => Plain(Transient(code, hint))
  /\ Plain(Proceed) /\ Plain(Internal) /\ Plain(LocalRateLimit)
<1>1. \A class, code, hint : code \notin OwnCodes => Plain(Reply(class, code, hint))
  BY DEF Plain, Reply
<1>2. None \notin OwnCodes /\ "internal_provider_error" \notin OwnCodes
      /\ "local_rate_limit" \notin OwnCodes
  BY OwnCodesAre DEF None
<1> QED BY <1>1, <1>2 DEF InvalidPayload, Transient, Proceed, Internal, LocalRateLimit

\* Only a key of no use ends a job that its adapter serves with NotConfigured.
PlainBut(reply, useless) == Plain(reply) \/ (useless /\ reply = NotConfigured)

\* Checks end in a plain outcome when every one that fails has one, but for a key of no use.
LEMMA ChecksArePlainBut ==
  ASSUME NEW checks, NEW useless, \E n \in Nat : DOMAIN checks = 1..n,
         \A i \in DOMAIN checks : checks[i][1] => PlainBut(checks[i][2], useless)
  PROVE  PlainBut(FirstRefusal(checks), useless)
  BY FirstRefusalFacts, PlainReplies DEF PlainBut

LEMMA ChecksArePlain ==
  ASSUME NEW checks, \E n \in Nat : DOMAIN checks = 1..n,
         \A i \in DOMAIN checks : checks[i][1] => Plain(checks[i][2])
  PROVE  Plain(FirstRefusal(checks))
  BY FirstRefusalFacts, PlainReplies

\* The shared checks do not fail for a job that keeps its contract and is where it belongs.
LEMMA SharedChecksPass ==
  ASSUME NEW job, NEW kind, NEW mint
  PROVE  /\ MeetsPushContract(job) => ~Broken(job)[1]
         /\ MeetsContactContract(job) => ~BrokenContact(job)[1]
         /\ (job.provider = kind /\ job.target.kind = kind) => ~Misrouted(job, kind)[1]
         /\ job.target.kind = kind => ~MisTargeted(job, kind)[1] /\ ~Mismatched(job, kind)[1]
         /\ job.content.kind = kind => ~ContentMismatched(job, kind)[1]
         /\ Plain(NoDryRun(job)[2]) /\ Plain(NoClock(mint)[2])
         /\ NoSignature(mint)[1] =>
              PlainBut(NoSignature(mint)[2], mint.key = "unsignable_key")
<1>1. Plain(NoDryRun(job)[2]) /\ Plain(NoClock(mint)[2])
  BY PlainReplies, OwnCodesAre DEF NoDryRun, NoClock
<1> QED
  BY <1>1 DEF NoSignature, PlainBut, Broken, BrokenContact, Misrouted, MisTargeted, Mismatched,
              ContentMismatched

LEMMA FcmIsPlain ==
  ASSUME NEW job, MeetsPushContract(job), job.target.kind = "fcm"
  PROVE  Plain(FcmRefusal(job))
<1> DEFINE c1 == Broken(job)
           c2 == MisTargeted(job, "fcm")
           checks == << c1, c2 >>
<1>1. FcmRefusal(job) = FirstRefusal(checks)
  BY DEF FcmRefusal
<1>2. ~c1[1] /\ ~c2[1]
  BY SharedChecksPass
<1> HIDE DEF c1, c2
<1>3. DOMAIN checks = 1..2 /\ \A i \in 1..2 : checks[i] \in { c1, c2 }
  BY Lists
<1>4. \A i \in DOMAIN checks : ~checks[i][1]
  BY <1>2, <1>3
<1> HIDE DEF checks
<1> QED BY <1>1, <1>3, <1>4, ChecksArePlain

LEMMA ApnsIsPlain ==
  ASSUME NEW job, NEW environment, NEW mint, MeetsPushContract(job), job.target.kind = "apns",
         job.target.environment = environment
  PROVE  PlainBut(ApnsRefusal(job, environment, mint), mint.key = "unsignable_key")
<1> DEFINE c1  == Broken(job)
           c2  == MisTargeted(job, "apns")
           c3  == << job.target.environment # environment,
                     InvalidPayload("environment_mismatch") >>
           c4  == NoClock(mint)
           c5  == NoDryRun(job)
           c6  == << job.data.aps, InvalidPayload("reserved_aps_key") >>
           c7  == << job.collapse_key.len > 64, InvalidPayload("collapse_id_too_long") >>
           c8  == << job.image_url.set /\ ~HasVisibleAlert(job),
                     InvalidPayload("image_requires_alert") >>
           c9  == << PayloadSize(job) > 4096, InvalidPayload("payload_too_large") >>
           c10 == NoSignature(mint)
           c11 == << ~ValidDeviceToken(job.target.token),
                     Reply("invalid_token", "invalid_device_token", NoDuration) >>
           checks == << c1, c2, c3, c4, c5, c6, c7, c8, c9, c10, c11 >>
           useless == mint.key = "unsignable_key"
<1>1. ApnsRefusal(job, environment, mint) = FirstRefusal(checks)
  BY DEF ApnsRefusal
<1>2. /\ ~c1[1] /\ ~c2[1] /\ ~c3[1] /\ Plain(c4[2]) /\ Plain(c5[2])
      /\ c10[1] => PlainBut(c10[2], useless)
  BY SharedChecksPass
<1>3. Plain(c6[2]) /\ Plain(c7[2]) /\ Plain(c8[2])
  BY PlainReplies, OwnCodesAre
<1>4. Plain(c9[2]) /\ Plain(c11[2])
  BY PlainReplies, OwnCodesAre
<1> HIDE DEF c1, c2, c3, c4, c5, c6, c7, c8, c9, c10, c11, useless
<1>5. DOMAIN checks = 1..11
      /\ \A i \in 1..11 : checks[i] \in { c1, c2, c3, c4, c5, c6, c7, c8, c9, c10, c11 }
  BY Lists
<1>6. \A i \in DOMAIN checks : checks[i][1] => PlainBut(checks[i][2], useless)
  BY <1>2, <1>3, <1>4, <1>5 DEF PlainBut
<1> HIDE DEF checks
<1>7. PlainBut(FirstRefusal(checks), useless)
  BY <1>5, <1>6, ChecksArePlainBut
<1> QED BY <1>1, <1>7 DEF useless

LEMMA ExpoIsPlain ==
  ASSUME NEW job, MeetsPushContract(job), job.provider = "expo", job.target.kind = "expo"
  PROVE  Plain(ExpoRefusal(job))
<1> DEFINE c1 == Broken(job)
           c2 == Misrouted(job, "expo")
           c3 == NoDryRun(job)
           c4 == << ~ValidExpoPushToken(job.target.token),
                    Reply("invalid_token", "invalid_expo_push_token", NoDuration) >>
           checks == << c1, c2, c3, c4 >>
<1>1. ExpoRefusal(job) = FirstRefusal(checks)
  BY DEF ExpoRefusal
<1>2. ~c1[1] /\ ~c2[1] /\ Plain(c3[2])
  BY SharedChecksPass
<1>3. Plain(c4[2])
  BY PlainReplies, OwnCodesAre
<1> HIDE DEF c1, c2, c3, c4
<1>4. DOMAIN checks = 1..4 /\ \A i \in 1..4 : checks[i] \in { c1, c2, c3, c4 }
  BY Lists
<1>5. \A i \in DOMAIN checks : checks[i][1] => Plain(checks[i][2])
  BY <1>2, <1>3, <1>4
<1> HIDE DEF checks
<1> QED BY <1>1, <1>4, <1>5, ChecksArePlain

LEMMA EndpointIsPlain ==
  ASSUME NEW endpoint, NEW policy
  PROVE  Plain(EndpointRefusal(endpoint, policy))
<1> DEFINE c1 == << EndpointErrors(endpoint) # {} \/ endpoint.fragment,
                    InvalidPayload("invalid_endpoint") >>
           c2 == << \/ "localhost" \in { endpoint.host.name, endpoint.host.parent }
                    \/ endpoint.host.range \in NonPublicRanges
                    \/ ~policy.any /\ ~HostMatches(endpoint.host, policy),
                    InvalidPayload("endpoint_policy_rejected") >>
           checks == << c1, c2 >>
<1>1. EndpointRefusal(endpoint, policy) = FirstRefusal(checks)
  BY DEF EndpointRefusal
<1>2. Plain(c1[2]) /\ Plain(c2[2])
  BY PlainReplies, OwnCodesAre
<1> HIDE DEF c1, c2
<1>3. DOMAIN checks = 1..2 /\ \A i \in 1..2 : checks[i] \in { c1, c2 }
  BY Lists
<1>4. \A i \in DOMAIN checks : Plain(checks[i][2])
  BY <1>2, <1>3
<1> HIDE DEF checks
<1> QED BY <1>1, <1>3, <1>4, ChecksArePlain

LEMMA DnsIsPlain ==
  ASSUME NEW host, NEW policy, NEW resolved
  PROVE  Plain(VerifyPublicDns(host, policy, resolved))
<1> DEFINE c1 == << ~resolved.ok, Transient("dns_resolution_failed", NoDuration) >>
           c2 == << resolved.ranges = {}, Transient("dns_no_addresses", NoDuration) >>
           c3 == << resolved.ranges \cap NonPublicRanges # {},
                    InvalidPayload("endpoint_policy_rejected") >>
           checks == << c1, c2, c3 >>
<1>1. VerifyPublicDns(host, policy, resolved) \in { Proceed, FirstRefusal(checks) }
  BY DEF VerifyPublicDns
<1>2. Plain(c1[2]) /\ Plain(c2[2]) /\ Plain(c3[2])
  BY PlainReplies, OwnCodesAre
<1> HIDE DEF c1, c2, c3
<1>3. DOMAIN checks = 1..3 /\ \A i \in 1..3 : checks[i] \in { c1, c2, c3 }
  BY Lists
<1>4. \A i \in DOMAIN checks : Plain(checks[i][2])
  BY <1>2, <1>3
<1> HIDE DEF checks
<1> QED BY <1>1, <1>3, <1>4, ChecksArePlain, PlainReplies

LEMMA EncryptionIsPlain ==
  ASSUME NEW target
  PROVE  Plain(EncryptionRefusal(target))
<1> DEFINE c1 == << ~target.p256dh.base64 \/ ~target.auth.base64,
                    InvalidPayload("invalid_subscription_key") >>
           c2 == << target.p256dh.bytes # 65 \/ ~target.p256dh.point,
                    InvalidPayload("invalid_p256dh") >>
           c3 == << target.auth.bytes # 16, InvalidPayload("invalid_auth_secret") >>
           checks == << c1, c2, c3 >>
<1>1. EncryptionRefusal(target) = FirstRefusal(checks)
  BY DEF EncryptionRefusal
<1>2. Plain(c1[2]) /\ Plain(c2[2]) /\ Plain(c3[2])
  BY PlainReplies, OwnCodesAre
<1> HIDE DEF c1, c2, c3
<1>3. DOMAIN checks = 1..3 /\ \A i \in 1..3 : checks[i] \in { c1, c2, c3 }
  BY Lists
<1>4. \A i \in DOMAIN checks : Plain(checks[i][2])
  BY <1>2, <1>3
<1> HIDE DEF checks
<1> QED BY <1>1, <1>3, <1>4, ChecksArePlain

LEMMA WebPushIsPlain ==
  ASSUME NEW job, NEW policy, NEW resolved, NEW mint, MeetsPushContract(job),
         job.provider = "web_push", job.target.kind = "web_push"
  PROVE  PlainBut(WebPushRefusal(job, policy, resolved, mint), mint.key = "unsignable_key")
<1> DEFINE endpoint   == EndpointRefusal(job.target.endpoint, policy)
           dns        == VerifyPublicDns(job.target.endpoint.host, policy, resolved)
           encryption == EncryptionRefusal(job.target)
           c1 == Broken(job)
           c2 == Misrouted(job, "web_push")
           c3 == NoDryRun(job)
           c4 == << endpoint # Proceed, endpoint >>
           c5 == << dns # Proceed, dns >>
           c6 == << PayloadSize(job) > MaxPlaintextPayload, InvalidPayload("payload_too_large") >>
           c7 == << encryption # Proceed, encryption >>
           c8 == NoClock(mint)
           c9 == NoSignature(mint)
           checks == << c1, c2, c3, c4, c5, c6, c7, c8, c9 >>
           useless == mint.key = "unsignable_key"
<1>1. WebPushRefusal(job, policy, resolved, mint) = FirstRefusal(checks)
  BY DEF WebPushRefusal
<1>2. /\ ~c1[1] /\ ~c2[1] /\ Plain(c3[2]) /\ Plain(c8[2])
      /\ c9[1] => PlainBut(c9[2], useless)
  BY SharedChecksPass
<1>3. Plain(c4[2]) /\ Plain(c5[2]) /\ Plain(c7[2])
  BY EndpointIsPlain, DnsIsPlain, EncryptionIsPlain
<1>4. Plain(c6[2])
  BY PlainReplies, OwnCodesAre
<1> HIDE DEF c1, c2, c3, c4, c5, c6, c7, c8, c9, useless
<1>5. DOMAIN checks = 1..9
      /\ \A i \in 1..9 : checks[i] \in { c1, c2, c3, c4, c5, c6, c7, c8, c9 }
  BY Lists
<1>6. \A i \in DOMAIN checks : checks[i][1] => PlainBut(checks[i][2], useless)
  BY <1>2, <1>3, <1>4, <1>5 DEF PlainBut
<1> HIDE DEF checks
<1>7. PlainBut(FirstRefusal(checks), useless)
  BY <1>5, <1>6, ChecksArePlainBut
<1> QED BY <1>1, <1>7 DEF useless

LEMMA FaultFacts ==
  /\ \A kind, field : Fault(kind, field) # {}
  /\ \A kind, field : FaultIf(TRUE, kind, field) # {}
  BY DEF Fault, FaultIf

\* Under the contract, target and content of a contact job are those of its provider's channel,
\* and a mail is either a template or explicit content.
LEMMA ContactContractFacts ==
  ASSUME NEW job, job.provider \in ContactKinds, MeetsContactContract(job)
  PROVE  /\ job.provider = "sendgrid" =>
              /\ job.target.kind = "email" /\ job.content.kind = "email"
              /\ TemplateMode(job.content) =>
                   /\ ~Visible(job.content.subject) /\ ~Visible(job.content.text)
                   /\ ~Visible(job.content.html)
         /\ job.provider # "sendgrid" =>
              /\ job.provider = "twilio"
              /\ job.target.kind = "sms" /\ job.content.kind = "sms"
<1> DEFINE target   == job.target
           content  == job.content
           astray   == \/ job.provider # ChannelProvider(target.kind)
                       \/ job.provider # ChannelProvider(content.kind)
<1>1. FaultIf(astray, "provider_channel_mismatch", "provider") = {}
      /\ ChannelErrors(target, content) = {}
  <2>1. ContactErrors(job) = {}
    BY DEF MeetsContactContract
  <2>2. /\ FaultIf(astray, "provider_channel_mismatch", "provider") \subseteq ContactErrors(job)
        /\ ChannelErrors(target, content) \subseteq ContactErrors(job)
    BY Zenon DEF ContactErrors
  <2> QED BY <2>1, <2>2
<1>2. ~astray
  BY <1>1 DEF FaultIf, Fault
<1>3. \/ target.kind = "email" /\ content.kind = "email" /\ EmailErrors(target, content) = {}
      \/ target.kind = "sms" /\ content.kind = "sms"
  <2>1. Fault("provider_channel_mismatch", "content") # {}
    BY FaultFacts
  <2>2. ~(target.kind = "email" /\ content.kind = "email")
        /\ ~(target.kind = "sms" /\ content.kind = "sms")
        => ChannelErrors(target, content) = Fault("provider_channel_mismatch", "content")
    BY DEF ChannelErrors
  <2>3. (target.kind = "email" /\ content.kind = "email") =>
          ChannelErrors(target, content) = EmailErrors(target, content)
    BY DEF ChannelErrors
  <2> QED BY <1>1, <2>1, <2>2, <2>3
<1>4. ASSUME target.kind = "email", TemplateMode(content)
      PROVE  ~Visible(content.subject) /\ ~Visible(content.text) /\ ~Visible(content.html)
  <2> DEFINE hasBody == Visible(content.text) \/ Visible(content.html)
  <2>1. EmailErrors(target, content) = {}
    BY <1>3, <1>4
  <2>2. ModeErrors(content) = {}
    BY <2>1 DEF EmailErrors, EmailContentErrors
  <2>3. FaultIf(Visible(content.subject) \/ hasBody, "invalid_email_content_mode", "content") = {}
    BY <1>4, <2>2 DEF ModeErrors
  <2> QED BY <2>3 DEF FaultIf, Fault
<1>5. job.provider \in { "sendgrid", "twilio" }
  BY DEF ContactKinds
<1> QED BY <1>2, <1>3, <1>4, <1>5 DEF ChannelProvider

LEMMA ContactIsPlain ==
  ASSUME NEW job, job.provider \in ContactKinds, MeetsContactContract(job)
  PROVE  Plain(ContactRefusal(job))
<1>1. ASSUME NEW kind, job.target.kind = kind, job.content.kind = kind
      PROVE  Plain(FirstRefusal(<< BrokenContact(job), Mismatched(job, kind),
                                   ContentMismatched(job, kind) >>))
  <2> DEFINE c1 == BrokenContact(job)
             c2 == Mismatched(job, kind)
             c3 == ContentMismatched(job, kind)
             checks == << c1, c2, c3 >>
  <2>1. ~c1[1] /\ ~c2[1] /\ ~c3[1]
    BY <1>1, SharedChecksPass
  <2> HIDE DEF c1, c2, c3
  <2>2. DOMAIN checks = 1..3 /\ \A i \in 1..3 : checks[i] \in { c1, c2, c3 }
    BY Lists
  <2>3. \A i \in DOMAIN checks : ~checks[i][1]
    BY <2>1, <2>2
  <2> HIDE DEF checks
  <2>4. Plain(FirstRefusal(checks))
    BY <2>2, <2>3, ChecksArePlain
  <2> QED BY <2>4 DEF checks, c1, c2, c3
<1>2. CASE job.provider = "sendgrid"
  <2>1. job.target.kind = "email" /\ job.content.kind = "email"
    BY <1>2, ContactContractFacts
  <2> QED BY <1>1, <1>2, <2>1 DEF ContactRefusal, SendGridRefusal
<1>3. CASE job.provider # "sendgrid"
  <2>1. job.target.kind = "sms" /\ job.content.kind = "sms"
    BY <1>3, ContactContractFacts
  <2> QED BY <1>1, <1>3, <2>1 DEF ContactRefusal, TwilioRefusal
<1> QED BY <1>2, <1>3

LEMMA TokenIsPlain ==
  ASSUME NEW mint, NEW answer \in TokenAnswers
  PROVE  PlainBut(FcmToken(mint, answer), mint.key = "unreadable_key")
<1> DEFINE decision == ClassifyHttpStatus(answer.status, HintOf(answer))
           c1 == NoClock(mint)
           c2 == << mint.key = "unreadable_key", NotConfigured >>
           c3 == << mint.key = "unsignable_key", Internal >>
           c4 == << ~answer.arrived, Transient("oauth_transport_error", NoDuration) >>
           c5 == << ~answer.readable, Transient("oauth_response_error", HintOf(answer)) >>
           c6 == << answer.status = 429, Reply("throttled", answer.code, decision.retryAfter) >>
           c7 == << decision.retryable, Transient(answer.code, decision.retryAfter) >>
           c8 == << ~Success(answer.status) \/ ~answer.json \/ answer.code # None,
                    Reply("permanent_provider_failure", answer.code, NoDuration) >>
           checks == << c1, c2, c3, c4, c5, c6, c7, c8 >>
           useless == mint.key = "unreadable_key"
<1>1. FcmToken(mint, answer) = FirstRefusal(checks)
  BY DEF FcmToken
<1>2. answer.code \notin OwnCodes
  BY CodeAssumption DEF OwnCodes
<1> HIDE DEF decision
<1>3. c2[1] => PlainBut(c2[2], useless)
  BY DEF PlainBut
<1>4. Plain(c1[2]) /\ Plain(c3[2])
  BY PlainReplies, SharedChecksPass
<1>5. Plain(c4[2]) /\ Plain(c5[2])
  BY PlainReplies, OwnCodesAre
<1>6. Plain(c6[2]) /\ Plain(c7[2]) /\ Plain(c8[2])
  BY <1>2, PlainReplies
<1> HIDE DEF c1, c2, c3, c4, c5, c6, c7, c8, useless
<1>7. DOMAIN checks = 1..8
      /\ \A i \in 1..8 : checks[i] \in { c1, c2, c3, c4, c5, c6, c7, c8 }
  BY Lists
<1>8. \A i \in DOMAIN checks : checks[i][1] => PlainBut(checks[i][2], useless)
  BY <1>3, <1>4, <1>5, <1>6, <1>7 DEF PlainBut
<1> HIDE DEF checks
<1>9. PlainBut(FirstRefusal(checks), useless)
  BY <1>7, <1>8, ChecksArePlainBut
<1> QED BY <1>1, <1>9 DEF useless

\* The code of an outcome made of an answer is the provider's, or one of the adapter's own that
\* says that the answer is of no use.
LEMMA OutcomesArePlain ==
  ASSUME NEW job, NEW kind \in Kinds, NEW answer \in AnswersOf[kind]
  PROVE  Plain(OutcomeOf(job, answer))
<1>1. /\ answer.code \notin OwnCodes
      /\ Len(answer.tickets) = 1 => answer.tickets[1].code \notin OwnCodes
  BY CodeAssumption DEF OwnCodes
<1>2. /\ None \notin OwnCodes
      /\ { "transport_error", "response_read_error", "name", "apns_id", "http_status",
           "invalid_success_response", "missing_tickets", "ticket", "invalid_ticket_response",
           "message_id", "sid", "twilio_code" } \cap OwnCodes = {}
  BY OwnCodesAre DEF None
<1>3. Plain(FcmOutcome(job, answer)) /\ Plain(ApnsOutcome(job, answer))
  BY <1>1, <1>2, PlainReplies DEF FcmOutcome, ApnsOutcome
<1>4. Plain(WebPushOutcome(job, answer)) /\ Plain(SendGridOutcome(job, answer))
      /\ Plain(TwilioOutcome(job, answer))
  BY <1>2, PlainReplies DEF WebPushOutcome, SendGridOutcome, TwilioOutcome
<1>5. Plain(ExpoAnswerFailure(answer, "invalid_success_response"))
  <2>1. Plain(RequestError(answer.code))
    BY <1>1, PlainReplies DEF RequestError
  <2>2. Plain(ClassifyRequestFailure(answer))
    BY <1>2, <2>1, PlainReplies DEF ClassifyRequestFailure
  <2>3. Plain(Transient("transport_error", NoDuration))
        /\ Plain(Transient("response_read_error", HintOf(answer)))
        /\ Plain(Reply("permanent_provider_failure", "invalid_success_response", NoDuration))
    BY <1>2, PlainReplies
  <2> QED BY <2>1, <2>2, <2>3, PlainReplies, ExpoFailureIs
<1>6. Plain(ExpoOutcome(job, answer))
  <2> DEFINE ticket == answer.tickets[1]
  <2>1. Len(answer.tickets) = 1 => Plain(OutcomeFromTicket(ticket))
    BY <1>1, <1>2, PlainReplies DEF OutcomeFromTicket
  <2>2. Plain(Reply("permanent_provider_failure", "missing_tickets", NoDuration))
        /\ Plain(Internal)
    BY <1>2, PlainReplies
  <2> QED BY <1>5, <2>1, <2>2 DEF ExpoOutcome
<1>7. CASE IsContact(job)
  BY <1>4, <1>7 DEF OutcomeOf, ContactOutcome
<1>8. CASE ~IsContact(job)
  BY <1>3, <1>4, <1>6, <1>8 DEF OutcomeOf, PushOutcome
<1> QED BY <1>7, <1>8
(***************************************************************************)
(* Where a job goes, and what of it arrives.                               *)
(***************************************************************************)
\* A push job that keeps its contract is of one of the four kinds, by provider and by target.
LEMMA PushKinds ==
  ASSUME NEW job, job.provider \in Kinds, ~IsContact(job), MeetsPushContract(job)
  PROVE  /\ job.provider \in { "fcm", "apns", "expo", "web_push" }
         /\ job.target.kind = job.provider
  BY ContractRoutes DEF Kinds, IsContact, ProviderKinds

\* The registry has an APNs token's slot only where the adapter in it is of its environment.
LEMMA SlotIsExact ==
  ASSUME NEW e, NEW job, ~IsContact(job), job.target.kind = "apns", Registered(e, job),
         job.target.environment \in { "production", "sandbox" }
  PROVE  job.target.environment = ApnsEnvironment(e)
<1>1. ApnsSlot(job.target.environment) \in PushSlots(e)
  BY DEF Registered, SlotFor
<1>2. ApnsSlot(job.target.environment) \notin { "expo", "fcm", "web_push" }
  BY DEF ApnsSlot
<1>3. ApnsSlot(job.target.environment) = ApnsSlot(ApnsEnvironment(e))
  BY <1>1, <1>2 DEF PushSlots
<1> QED BY <1>3 DEF ApnsSlot, ApnsEnvironment

\* The adapters find these keys of no use when they mint a token.
UselessKey(e, job) ==
  LET key == Value(e, KeyVariable(job.provider)) IN
  \/ job.provider = "fcm" /\ key = "unreadable_key"
  \/ job.provider \in { "apns", "web_push" } /\ key = "unsignable_key"

\* A job in its contract and on its own adapter is refused with a plain outcome, unless the key
\* of the adapter is of no use.
LEMMA PushIsPlain ==
  ASSUME NEW e, NEW job, NEW resolved, NEW mint \in Mints(e, job), job.provider \in Kinds,
         ~IsContact(job), MeetsPushContract(job), Registered(e, job),
         job.target.kind = "apns" => job.target.environment \in { "production", "sandbox" }
  PROVE  PlainBut(PushRefusal(job, Config(e), resolved, mint), UselessKey(e, job))
<1>1. /\ job.provider \in { "fcm", "apns", "expo", "web_push" }
      /\ job.target.kind = job.provider
  BY PushKinds
<1>2. mint.key = Value(e, KeyVariable(job.provider))
  BY DEF Mints
<1>3. CASE job.provider = "fcm"
  BY <1>1, <1>3, FcmIsPlain DEF PushRefusal, PlainBut
<1>4. CASE job.provider = "apns"
  <2>1. job.target.environment = ApnsEnvironment(e)
    BY <1>1, <1>4, SlotIsExact
  <2>2. Config(e).apnsEnvironment = ApnsEnvironment(e)
    BY DEF Config
  <2>3. PlainBut(ApnsRefusal(job, ApnsEnvironment(e), mint), mint.key = "unsignable_key")
    BY <1>1, <1>4, <2>1, ApnsIsPlain
  <2>4. mint.key = "unsignable_key" => UselessKey(e, job)
    BY <1>2, <1>4 DEF UselessKey
  <2> QED BY <1>1, <1>4, <2>2, <2>3, <2>4 DEF PushRefusal, PlainBut
<1>5. CASE job.provider = "expo"
  BY <1>1, <1>5, ExpoIsPlain DEF PushRefusal, PlainBut
<1>6. CASE job.provider = "web_push"
  <2>1. PlainBut(WebPushRefusal(job, Config(e).hostPolicy, resolved, mint),
                 mint.key = "unsignable_key")
    BY <1>1, <1>6, WebPushIsPlain
  <2>2. mint.key = "unsignable_key" => UselessKey(e, job)
    BY <1>2, <1>6 DEF UselessKey
  <2> QED BY <1>1, <1>6, <2>1, <2>2 DEF PushRefusal, PlainBut
<1> QED BY <1>1, <1>3, <1>4, <1>5, <1>6

\* No job ends at the wrong place, and it is told that its provider is not configured only when
\* the registry has none, or when the key of its adapter is of no use.
LEMMA AdmissionsArePlain ==
  ASSUME NEW e \in Environments, NEW name \in Names, NEW reply \in AdmissionsOf[e][name]
  PROVE  LET job == JobOf[name] IN
         /\ reply.code \notin MismatchCodes
         /\ reply = NotConfigured =>
              /\ IF IsContact(job) THEN MeetsContactContract(job) ELSE MeetsPushContract(job)
              /\ ~Registered(e, job) \/ UselessKey(e, job)
<1> DEFINE job      == JobOf[name]
           contract == IF IsContact(job) THEN MeetsContactContract(job) ELSE MeetsPushContract(job)
           adapter  == IF IsContact(job) THEN { ContactRefusal(job) }
                       ELSE { PushRefusal(job, Config(e), resolved, mint) :
                                resolved \in Resolutions, mint \in Mints(e, job) }
           useless  == UselessKey(e, job)
<1>1. AdmissionsOf[e][name] = IF ~contract THEN { InvalidPayload("contract_validation_failed") }
                              ELSE IF ~Registered(e, job) THEN { NotConfigured }
                              ELSE { other \in adapter : other # Proceed }
                                   \cup (IF IsContact(job) THEN { LocalRateLimit } ELSE {})
                                   \cup (IF Proceed \in adapter THEN TokenOutcomes(e, job) ELSE {})
  BY DEF AdmissionsOf, Admissions, Names
<1>2. /\ \A other : Plain(other) => other # NotConfigured /\ other.code \notin MismatchCodes
      /\ NotConfigured.code \notin MismatchCodes
  BY DEF Plain, OwnCodes, MismatchCodes, NotConfigured, Reply
<1>3. Plain(InvalidPayload("contract_validation_failed")) /\ Plain(LocalRateLimit)
  BY PlainReplies, OwnCodesAre
<1>4. job.provider \in Kinds
      /\ (~IsContact(job) /\ job.target.kind = "apns" =>
            job.target.environment \in { "production", "sandbox" })
  BY JobAssumption, ShapeAssumption
<1>5. ASSUME contract, Registered(e, job) PROVE \A other \in adapter : PlainBut(other, useless)
  <2>1. CASE IsContact(job)
    BY <1>5, <2>1, ContactIsPlain DEF IsContact, PlainBut
  <2>2. CASE ~IsContact(job)
    BY <1>4, <1>5, <2>2, PushIsPlain
  <2> QED BY <2>1, <2>2
<1>6. \A other \in TokenOutcomes(e, job) : PlainBut(other, useless)
  <2>1. CASE job.provider # "fcm"
    BY <2>1, PlainReplies DEF TokenOutcomes, PlainBut
  <2>2. CASE job.provider = "fcm"
    <3>1. \A mint \in Mints(e, job) : mint.key = "unreadable_key" => useless
      BY <2>2 DEF Mints, UselessKey
    <3>2. ASSUME NEW mint \in Mints(e, job), NEW answer \in TokenAnswers
          PROVE  PlainBut(FcmToken(mint, answer), useless)
      BY <3>1, TokenIsPlain DEF PlainBut
    <3> QED BY <2>2, <3>2 DEF TokenOutcomes
  <2> QED BY <2>1, <2>2
<1> HIDE DEF adapter, contract, useless, job
<1>7. CASE ~contract
  BY <1>1, <1>2, <1>3, <1>7 DEF job
<1>8. CASE contract /\ ~Registered(e, job)
  BY <1>1, <1>2, <1>8 DEF job, contract
<1>9. CASE contract /\ Registered(e, job)
  <2>1. PlainBut(reply, useless)
    BY <1>1, <1>3, <1>5, <1>6, <1>9 DEF PlainBut
  <2> QED BY <1>2, <1>9, <2>1 DEF PlainBut, job, useless, contract
<1> QED BY <1>7, <1>8, <1>9

\* A message leaves for the provider of its job, and whole.
RightPlace(job, message) ==
  /\ message.kind = job.provider
  /\ message.kind = "apns" => message.environment = job.target.environment

WholeContent(job, message) ==
  /\ VisibleMembers(job) \subseteq message.members \/ BlankTemplate(job)
  /\ ~IsContact(job) /\ job.ttl # NoDuration => message.ttl = job.ttl

\* Of a push job every text that can be seen is copied.
LEMMA SeenIsCopied ==
  ASSUME NEW job, ~IsContact(job),
         \A part \in { "title", "body", "image_url" } : IsText(job[part])
  PROVE  VisibleMembers(job) \subseteq Copied(job)
<1>1. VisibleMembers(job) = { name \in { "title", "body", "image_url" } : Visible(job[name]) }
  BY DEF VisibleMembers
<1>2. \A name \in { "title", "body", "image_url" } : Visible(job[name]) => job[name].set
  BY DEF IsText
<1> QED BY <1>1, <1>2 DEF Copied

LEMMA PushArrives ==
  ASSUME NEW e \in Environments, NEW name \in Names, ~IsContact(JobOf[name]),
         Proceed \in AdmissionsOf[e][name]
  PROVE  LET job     == JobOf[name]
             message == RequestFor(e, job) IN
         RightPlace(job, message) /\ WholeContent(job, message)
<1> DEFINE job     == JobOf[name]
           message == RequestFor(e, job)
<1>1. /\ job.provider \in Kinds /\ Registered(e, job) /\ MeetsPushContract(job)
      /\ job.target.kind = "apns" => (job.image_url.set => HasVisibleAlert(job))
  BY JobAssumption, AdmissionFacts
<1>2. job.provider \in { "fcm", "apns", "expo", "web_push" } /\ job.target.kind = job.provider
  BY <1>1, PushKinds
<1>3. /\ \A part \in { "title", "body", "image_url" } : IsText(job[part])
      /\ job.target.kind = "apns" => job.target.environment \in { "production", "sandbox" }
  BY ShapeAssumption
<1>4. VisibleMembers(job) \subseteq Copied(job)
  BY <1>3, SeenIsCopied
<1>5. message = PushRequest(job, Config(e))
  BY DEF RequestFor
<1> HIDE DEF job, message
<1>6. ASSUME job.provider = "fcm" PROVE RightPlace(job, message) /\ WholeContent(job, message)
  <2>1. message = Request("fcm", "any", job.dry_run, Copied(job) \cup Collapse(job), job.ttl)
    BY <1>2, <1>5, <1>6 DEF PushRequest, FcmRequest
  <2>2. /\ message.kind = "fcm" /\ message.members = Copied(job) \cup Collapse(job)
        /\ job.ttl # NoDuration => message.ttl = job.ttl
    BY <2>1 DEF Request
  <2> QED BY <1>4, <1>6, <2>2 DEF RightPlace, WholeContent
<1>7. ASSUME job.provider = "apns" PROVE RightPlace(job, message) /\ WholeContent(job, message)
  <2> DEFINE members == (IF HasVisibleAlert(job) THEN Copied(job) ELSE Copied(job) \cap { "data" })
                        \cup Collapse(job)
  <2>1. message = Request("apns", Config(e).apnsEnvironment, FALSE, members, job.ttl)
    BY <1>2, <1>5, <1>7 DEF PushRequest, ApnsRequest
  <2>2. Config(e).apnsEnvironment = ApnsEnvironment(e)
    BY DEF Config
  <2>3. job.target.environment = ApnsEnvironment(e)
    BY <1>1, <1>2, <1>3, <1>7, SlotIsExact DEF job
  <2>4. VisibleMembers(job) \subseteq members
    <3>1. CASE HasVisibleAlert(job)
      BY <1>4, <3>1
    <3>2. CASE ~HasVisibleAlert(job)
      <4>1. ~job.image_url.set
        BY <1>1, <1>2, <1>7, <3>2
      <4>2. ~Visible(job.title) /\ ~Visible(job.body) /\ ~Visible(job.image_url)
        BY <1>3, <3>2, <4>1 DEF HasVisibleAlert, IsText
      <4>3. ~IsContact(job)
        BY DEF job
      <4> QED BY <4>2, <4>3 DEF VisibleMembers
    <3> QED BY <3>1, <3>2
  <2> HIDE DEF members
  <2>5. /\ message.kind = "apns" /\ message.environment = job.target.environment
        /\ message.members = members /\ message.ttl = job.ttl
    BY <2>1, <2>2, <2>3 DEF Request
  <2> QED BY <1>7, <2>4, <2>5 DEF RightPlace, WholeContent
<1>8. ASSUME job.provider = "expo" PROVE RightPlace(job, message) /\ WholeContent(job, message)
  <2>1. message = Request("expo", "any", FALSE, Copied(job) \cup Collapse(job), job.ttl)
    BY <1>2, <1>5, <1>8 DEF PushRequest, ExpoRequest
  <2>2. /\ message.kind = "expo" /\ message.members = Copied(job) \cup Collapse(job)
        /\ job.ttl # NoDuration => message.ttl = job.ttl
    BY <2>1 DEF Request
  <2> QED BY <1>4, <1>8, <2>2 DEF RightPlace, WholeContent
<1>9. ASSUME job.provider = "web_push" PROVE RightPlace(job, message) /\ WholeContent(job, message)
  <2>1. message = Request("web_push", "any", FALSE, Copied(job) \cup Collapse(job),
                          IF job.ttl = NoDuration THEN Config(e).defaultTtl ELSE job.ttl)
    BY <1>2, <1>5, <1>9 DEF PushRequest, WebPushRequest
  <2>2. /\ message.kind = "web_push" /\ message.members = Copied(job) \cup Collapse(job)
        /\ job.ttl # NoDuration => message.ttl = job.ttl
    BY <2>1 DEF Request
  <2> QED BY <1>4, <1>9, <2>2 DEF RightPlace, WholeContent
<1> QED BY <1>2, <1>6, <1>7, <1>8, <1>9 DEF job, message

LEMMA ContactArrives ==
  ASSUME NEW e \in Environments, NEW name \in Names, IsContact(JobOf[name]),
         Proceed \in AdmissionsOf[e][name]
  PROVE  LET job     == JobOf[name]
             message == RequestFor(e, job) IN
         RightPlace(job, message) /\ WholeContent(job, message)
<1> DEFINE job     == JobOf[name]
           content == job.content
           message == RequestFor(e, job)
           parts   == { "template_id", "subject", "text", "html" }
<1>1. job.provider \in ContactKinds /\ MeetsContactContract(job)
  BY AdmissionFacts DEF IsContact
<1>2. VisibleMembers(job) = { part \in parts \cap DOMAIN content : Visible(content[part]) }
      /\ message = ContactRequest(job, Config(e))
  BY DEF VisibleMembers, RequestFor
<1>3. /\ content.kind = "email" => \A part \in parts : IsText(content[part])
      /\ content.kind # "email" => DOMAIN content \cap { "template_id", "subject", "html" } = {}
  BY ShapeAssumption
<1>4. IsContact(job)
  OBVIOUS
<1>5. /\ job.provider = "sendgrid" =>
           /\ job.target.kind = "email" /\ content.kind = "email"
           /\ TemplateMode(content) => /\ ~Visible(content.subject) /\ ~Visible(content.text)
                                       /\ ~Visible(content.html)
      /\ job.provider # "sendgrid" =>
           job.provider = "twilio" /\ job.target.kind = "sms" /\ content.kind = "sms"
  BY <1>1, ContactContractFacts
<1> HIDE DEF job, content, message
<1>6. ASSUME job.provider = "sendgrid" PROVE RightPlace(job, message) /\ WholeContent(job, message)
  <2>1. PICK sandbox \in { Config(e).sandbox } : message = SendGridRequest(job, sandbox)
    BY <1>2, <1>6 DEF ContactRequest
  <2>2. message.kind = "sendgrid" /\ SendGridMembers(content) \subseteq message.members
    BY <2>1 DEF SendGridRequest, Request, content
  <2>3. \A part \in parts : Visible(content[part]) => content[part].set
    BY <1>3, <1>5, <1>6 DEF IsText
  <2>4. VisibleMembers(job) \subseteq SendGridMembers(content) \/ BlankTemplate(job)
    <3>1. CASE ~content.template_id.set
      <4>1. ~Visible(content.template_id)
        BY <2>3, <3>1
      <4> QED BY <1>2, <2>3, <3>1, <4>1 DEF SendGridMembers
    <3>2. CASE content.template_id.set /\ TemplateMode(content)
      BY <1>2, <1>5, <1>6, <3>2 DEF SendGridMembers
    <3>3. CASE content.template_id.set /\ ~TemplateMode(content)
      BY <1>6, <3>3 DEF BlankTemplate, content
    <3> QED BY <3>1, <3>2, <3>3
  <2> QED BY <1>4, <1>6, <2>2, <2>4 DEF RightPlace, WholeContent
<1>7. ASSUME job.provider # "sendgrid" PROVE RightPlace(job, message) /\ WholeContent(job, message)
  <2>1. message = Request("twilio", "any", FALSE, { "text" }, Config(e).validity)
    BY <1>2, <1>7 DEF ContactRequest, TwilioRequest
  <2>2. message.kind = "twilio" /\ message.members = { "text" }
    BY <2>1 DEF Request
  <2>3. VisibleMembers(job) \subseteq { "text" }
    BY <1>2, <1>3, <1>5, <1>7
  <2> QED BY <1>4, <1>5, <1>7, <2>2, <2>3 DEF RightPlace, WholeContent
<1> QED BY <1>6, <1>7 DEF job, message

(***************************************************************************)
(* A server that has started.                                              *)
(***************************************************************************)
LEMMA ReadyUnlessRefused ==
  ASSUME NEW absent, NEW valid, ~absent, Configured(absent, valid) # "refused"
  PROVE  Configured(absent, valid) = "ready"
  BY DEF Configured

\* A setting of a provider is enough for a server that starts to have it in its registry.
LEMMA TurnedOnIsServed ==
  ASSUME ~Refused(env), NEW job, job.provider \in Kinds, TurnedOn(job),
         ~IsContact(job) => job.target.kind = job.provider,
         job.provider = "apns" => job.target.environment = ApnsEnvironment(env)
  PROVE  Registered(env, job)
<1>1. /\ Fcm(env) # "refused" /\ Apns(env) # "refused" /\ WebPush(env) # "refused"
      /\ SendGrid(env) # "refused" /\ Twilio(env) # "refused"
  BY DEF Refused, PushRefused, ContactRefused
<1>2. job.provider \in { "fcm", "apns", "expo", "web_push", "sendgrid", "twilio" }
  BY KindsFacts
<1>3. CASE job.provider = "fcm"
  <2>1. Given(env, "FCM_SERVICE_ACCOUNT_JSON")
    BY <1>3 DEF TurnedOn
  <2>2. Fcm(env) = "ready"
    BY <1>1, <2>1, ReadyUnlessRefused DEF Fcm
  <2> QED BY <1>3, <2>2 DEF Registered, IsContact, ContactKinds, SlotFor, PushSlots
<1>4. CASE job.provider = "apns"
  <2>1. \E name \in ApnsVariables : Given(env, name)
    BY <1>4 DEF TurnedOn
  <2>2. Apns(env) = "ready"
    BY <1>1, <2>1, ReadyUnlessRefused DEF Apns
  <2> QED BY <1>4, <2>2 DEF Registered, IsContact, ContactKinds, SlotFor, PushSlots
<1>5. CASE job.provider = "expo"
  BY <1>5 DEF Registered, IsContact, ContactKinds, SlotFor, PushSlots
<1>6. CASE job.provider = "web_push"
  <2>1. Given(env, "VAPID_PRIVATE_KEY")
    BY <1>6 DEF TurnedOn
  <2>2. WebPush(env) = "ready"
    BY <1>1, <2>1, ReadyUnlessRefused DEF WebPush
  <2> QED BY <1>6, <2>2 DEF Registered, IsContact, ContactKinds, SlotFor, PushSlots
<1>7. CASE job.provider = "sendgrid"
  <2>1. CredentialGiven(env, "SENDGRID_API_KEY") \/ Given(env, SendGridSender(env))
    BY <1>7 DEF TurnedOn
  <2>2. SendGrid(env) = "ready"
    BY <1>1, <2>1, ReadyUnlessRefused DEF SendGrid
  <2> QED BY <1>7, <2>2 DEF Registered, IsContact, ContactKinds, ContactProviders
<1>8. CASE job.provider = "twilio"
  <2>1. \E name \in TwilioCredentialNames : CredentialGiven(env, name)
    BY <1>8 DEF TurnedOn
  <2>2. Twilio(env) = "ready"
    BY <1>1, <2>1, ReadyUnlessRefused DEF Twilio
  <2> QED BY <1>8, <2>2 DEF Registered, IsContact, ContactKinds, ContactProviders
<1> QED BY <1>2, <1>3, <1>4, <1>5, <1>6, <1>7, <1>8
=============================================================================
