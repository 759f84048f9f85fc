------------------------ MODULE ReceiptFollowUpProofs ------------------------
(***************************************************************************)
(* Whatever replicas, crashes, late receipts and cancellations do, the     *)
(* ledger keeps its promise, what it says is true, what keeps a finding    *)
(* out of it is named, and lookups keep to the retry policy and to Expo:   *)
(* for every number of workers and tickets, whatever the policy of each,   *)
(* every entropy and every answer.                                         *)
(***************************************************************************)
EXTENDS ReceiptFollowUp, TLAPS

(***************************************************************************)
(* The retry arithmetic.                                                   *)
(***************************************************************************)
LEMMA Division ==
  ASSUME NEW n \in Nat, NEW d \in Nat \ {0}
  PROVE  n \div d \in Nat /\ d * (n \div d) <= n
  OBVIOUS

LEMMA Remainder ==
  ASSUME NEW n \in Nat, NEW d \in Nat \ {0}
  PROVE  n % d \in 0..(d - 1)
  OBVIOUS

\* A factor can be cancelled.
LEMMA Cancellation ==
  ASSUME NEW a \in Nat, NEW b \in Nat, NEW d \in Nat \ {0}, d * a <= d * b
  PROVE  a <= b
<1> SUFFICES ASSUME b < a PROVE FALSE
  OBVIOUS
<1>1. PICK e \in Nat \ {0} : a = b + e
  <2>1. a - b \in Nat \ {0} /\ a = b + (a - b)
    OBVIOUS
  <2> QED BY <2>1
<1>2. d * a = d * b + d * e
  BY <1>1
<1>3. d * b \in Nat /\ d * e \in Nat \ {0}
  BY <1>1
<1> QED BY <1>2, <1>3

\* A policy the code can hold.
IsPolicy(policy) ==
  /\ policy.base \in Nat \ {0} /\ policy.max \in Durations
  /\ policy.jitter \in 0..MaxJitter

\* The jitter window never passes half of the delay it is cut from.
LEMMA JitterWindowIsHalf ==
  ASSUME NEW policy, IsPolicy(policy), NEW capped \in Nat
  PROVE  JitterWindow(policy, capped) \in Nat /\ 2 * JitterWindow(policy, capped) <= capped
<1> DEFINE j == policy.jitter
           window == JitterWindow(policy, capped)
<1>1. j \in Nat /\ JitterScale \in Nat \ {0} /\ 2 * j <= JitterScale
  BY RetryAssumption DEF IsPolicy
<1>2. capped * j \in Nat
  BY <1>1
<1>3. window \in Nat /\ JitterScale * window <= capped * j
  BY <1>1, <1>2, Division DEF JitterWindow
<1> HIDE DEF window, j
<1>4. capped * (2 * j) <= capped * JitterScale
  <2>1. PICK e \in Nat : JitterScale = 2 * j + e
    <3>1. JitterScale - 2 * j \in Nat /\ JitterScale = 2 * j + (JitterScale - 2 * j)
      BY <1>1
    <3> QED BY <3>1
  <2>2. capped * JitterScale = capped * (2 * j) + capped * e
    BY <1>1, <2>1
  <2>3. capped * e \in Nat /\ capped * (2 * j) \in Nat
    BY <1>1, <2>1
  <2> QED BY <2>2, <2>3
<1>5. JitterScale * (2 * window) = 2 * (JitterScale * window)
  BY <1>1, <1>3
<1>6. capped * (2 * j) = 2 * (capped * j) /\ capped * JitterScale = JitterScale * capped
  BY <1>1
<1>7. JitterScale * (2 * window) <= JitterScale * capped
  BY <1>1, <1>2, <1>3, <1>4, <1>5, <1>6
<1>8. 2 * window <= capped
  BY <1>1, <1>3, <1>7, Cancellation
<1> QED BY <1>3, <1>8 DEF window

\* What Retry-After may be once it is parsed.
Hints == Durations \cup { NoDuration }

Floor(hint) == IF hint = NoDuration THEN 0 ELSE hint

LEMMA DurationFacts ==
  /\ Durations \subseteq Nat /\ 0 \in Durations
  /\ \A d \in Durations : d <= MaxRetryAfter
  /\ NoDuration \notin Durations
  BY RetryAssumption DEF Durations, NoDuration

\* A delay waits for the provider, keeps half of the exponential step and stays under the
\* ceiling or at what the provider asked for.
LEMMA JitteredDelay ==
  ASSUME NEW policy, IsPolicy(policy), NEW m \in Nat \ {0}, NEW entropy \in Nat,
         NEW hint \in Hints
  PROVE  LET wait == Jittered(policy, m, entropy, hint) IN
         /\ wait \in Nat
         /\ Floor(hint) <= wait
         /\ CappedDelay(policy, m) <= 2 * wait
         /\ wait <= Greatest(policy.max, Floor(hint))
<1> DEFINE capped == CappedDelay(policy, m)
           window == JitterWindow(policy, capped)
           offset == entropy % (window + 1)
           floor  == Floor(hint)
           wait   == Jittered(policy, m, entropy, hint)
<1>1. policy.max \in Nat /\ policy.max <= MaxRetryAfter /\ MaxRetryAfter \in Nat
  BY DurationFacts, RetryAssumption DEF IsPolicy
<1>2. policy.base * m \in Nat
  BY DEF IsPolicy
<1>3. capped \in Nat /\ capped <= policy.max
  BY <1>1, <1>2 DEF CappedDelay, Least
<1>4. window \in Nat /\ 2 * window <= capped
  BY <1>3, JitterWindowIsHalf
<1>5. offset \in 0..window
  <2>1. window + 1 \in Nat \ {0} /\ (window + 1) - 1 = window
    BY <1>4
  <2> QED BY <2>1, Remainder
<1>6. floor \in Nat /\ floor <= MaxRetryAfter
  BY DurationFacts, <1>1 DEF Hints, Floor
<1>7. (IF hint = NoDuration THEN 0 ELSE Least(hint, MaxRetryAfter)) = floor
  BY DurationFacts, <1>1 DEF Hints, Floor, Least
<1>8. wait = Least(Greatest(capped - offset, floor), MaxRetryAfter)
  BY <1>7 DEF Jittered
<1> HIDE DEF capped, window, offset, floor, wait
<1>9. /\ wait \in Nat /\ floor <= wait /\ capped <= 2 * wait
      /\ wait <= Greatest(policy.max, floor)
  BY <1>1, <1>3, <1>4, <1>5, <1>6, <1>8 DEF Least, Greatest
<1> QED BY <1>9 DEF capped, floor, wait

\* Whatever it is made of, a policy is one the other lemmas are about.
LEMMA NewPolicyIsPolicy ==
  ASSUME NEW base \in Nat, NEW max \in Nat, NEW attempts \in Nat, NEW jitter \in Nat
  PROVE  LET policy == NewPolicy(base, max, attempts, jitter) IN
         /\ IsPolicy(policy) /\ policy.max >= 1 /\ policy.maxAttempts \in Nat \ {0}
<1>1. /\ Greatest(base, 1) \in Nat \ {0} /\ Greatest(attempts, 1) \in Nat \ {0}
      /\ Least(jitter, MaxJitter) \in 0..MaxJitter
  BY RetryAssumption DEF Greatest, Least
<1>2. Least(Greatest(max, Greatest(base, 1)), MaxRetryAfter) \in 1..MaxRetryAfter
  BY RetryAssumption DEF Greatest, Least
<1> QED BY <1>1, <1>2, RetryAssumption DEF NewPolicy, IsPolicy, Durations

\* The exponential part of the schedule starts at a millisecond at least and only grows.
LEMMA CappedDelayGrows ==
  ASSUME NEW policy, IsPolicy(policy), policy.max >= 1, NEW m \in Nat \ {0}, NEW n \in Nat, m <= n
  PROVE  /\ CappedDelay(policy, m) \in 1..policy.max
         /\ CappedDelay(policy, n) \in 1..policy.max
         /\ CappedDelay(policy, m) <= CappedDelay(policy, n)
<1> DEFINE b == policy.base
<1>1. b \in Nat \ {0} /\ policy.max \in Nat
  BY DurationFacts DEF IsPolicy
<1> HIDE DEF b
<1>2. PICK k \in Nat : n = m + k
  <2>1. n - m \in Nat /\ n = m + (n - m)
    OBVIOUS
  <2> QED BY <2>1
<1>3. b * n = b * m + b * k /\ b * m \in Nat \ {0} /\ b * k \in Nat
  BY <1>1, <1>2
<1>4. b * m >= 1 /\ b * n >= b * m /\ b * n \in Nat
  BY <1>3
<1> QED BY <1>1, <1>4 DEF CappedDelay, Least, b

\* A policy made of anything waits at least a millisecond and at most a day between two attempts,
\* never less than the provider asks for, and never more than twice what a later attempt would
\* wait: jitter takes back at most one doubling (retry.rs:53-108).
THEOREM SchedulesAreSound ==
  ASSUME NEW base \in Nat, NEW max \in Nat, NEW attempts \in Nat, NEW jitter \in Nat,
         NEW m \in Nat \ {0}, NEW n \in Nat, m <= n, NEW e \in Nat, NEW f \in Nat,
         NEW hint \in Hints
  PROVE  LET policy == NewPolicy(base, max, attempts, jitter) IN
         /\ Jittered(policy, m, e, hint) \in 1..MaxRetryAfter
         /\ Floor(hint) <= Jittered(policy, m, e, hint)
         /\ Jittered(policy, m, e, NoDuration) <= 2 * Jittered(policy, n, f, NoDuration)
<1> DEFINE policy == NewPolicy(base, max, attempts, jitter)
           first  == Jittered(policy, m, e, NoDuration)
           later  == Jittered(policy, n, f, NoDuration)
           wait   == Jittered(policy, m, e, hint)
<1>1. IsPolicy(policy) /\ policy.max >= 1
  BY NewPolicyIsPolicy
<1>2. policy.max \in Nat /\ policy.max <= MaxRetryAfter /\ MaxRetryAfter \in Nat
  BY <1>1, DurationFacts, RetryAssumption DEF IsPolicy
<1> HIDE DEF policy
<1>3. /\ CappedDelay(policy, m) \in 1..policy.max /\ CappedDelay(policy, n) \in 1..policy.max
      /\ CappedDelay(policy, m) <= CappedDelay(policy, n)
  BY <1>1, CappedDelayGrows
<1>4. /\ wait \in Nat /\ Floor(hint) <= wait /\ CappedDelay(policy, m) <= 2 * wait
      /\ wait <= Greatest(policy.max, Floor(hint))
  BY <1>1, JitteredDelay
<1>5. first \in Nat /\ later \in Nat /\ CappedDelay(policy, n) <= 2 * later
  <2>1. n \in Nat \ {0} /\ NoDuration \in Hints
    BY DEF Hints
  <2> QED BY <1>1, <2>1, JitteredDelay
<1>6. first <= CappedDelay(policy, m)
  <2> DEFINE capped == CappedDelay(policy, m)
             window == JitterWindow(policy, capped)
             offset == e % (window + 1)
  <2>1. capped \in Nat /\ capped <= MaxRetryAfter
    BY <1>2, <1>3
  <2>2. window \in Nat
    BY <1>1, <2>1, JitterWindowIsHalf
  <2>3. offset \in Nat
    <3>1. window + 1 \in Nat \ {0} /\ (window + 1) - 1 = window
      BY <2>2
    <3>2. offset \in 0..window
      BY <3>1, Remainder
    <3> QED BY <2>2, <3>2
  <2>4. first = Least(Greatest(capped - offset, 0), MaxRetryAfter)
    BY DEF Jittered
  <2> HIDE DEF capped, window, offset
  <2>5. Least(Greatest(capped - offset, 0), MaxRetryAfter) <= capped
    BY <1>2, <2>1, <2>3 DEF Least, Greatest
  <2> QED BY <2>4, <2>5 DEF capped
<1>7. Floor(hint) \in Nat /\ Floor(hint) <= MaxRetryAfter
  BY <1>2, DurationFacts DEF Hints, Floor
<1>8. wait \in 1..MaxRetryAfter
  <2> HIDE DEF wait
  <2>1. Greatest(policy.max, Floor(hint)) <= MaxRetryAfter
    BY <1>2, <1>7 DEF Greatest
  <2> QED BY <1>2, <1>3, <1>4, <1>7, <2>1 DEF Greatest
<1>9. first <= 2 * later
  <2> HIDE DEF first, later
  <2> QED BY <1>2, <1>3, <1>5, <1>6
<1> QED BY <1>4, <1>8, <1>9 DEF policy

LEMMA PolicyIsPolicy ==
  ASSUME NEW w \in Workers
  PROVE  IsPolicy(PolicyOf[w]) /\ PolicyOf[w].maxAttempts \in Nat \ {0}
  BY FollowUpAssumption DEF IsPolicy

\* the factor of the exponential step after n lookups
Step(n) == 2 ^ Least(n - 1, 63)

\* The policy gives up exactly when its attempts are used, and delays a lookup otherwise.
LEMMA DelayFacts ==
  ASSUME NEW w \in Workers, NEW n \in 1..(PolicyOf[w].maxAttempts + 1),
         NEW entropy \in Entropies, NEW hint \in Hints
  PROVE  LET policy == PolicyOf[w]
             wait   == DelayForAttempt(policy, n - 1, entropy, hint) IN
         /\ wait = NoDuration <=> n = policy.maxAttempts + 1
         /\ wait # NoDuration =>
              /\ wait \in Nat
              /\ Floor(hint) <= wait
              /\ CappedDelay(policy, Step(n)) <= 2 * wait
              /\ wait <= Greatest(policy.max, Floor(hint))
<1> DEFINE policy == PolicyOf[w]
           wait   == DelayForAttempt(policy, n - 1, entropy, hint)
           most   == policy.maxAttempts
<1>1. IsPolicy(policy) /\ most \in Nat \ {0}
  BY PolicyIsPolicy
<1>2. n \in Nat /\ n - 1 \in Nat /\ (n - 1 >= most <=> n = most + 1)
  <2>1. n \in 1..(most + 1)
    OBVIOUS
  <2> HIDE DEF most
  <2> QED BY <1>1, <2>1
<1>3. CASE n = most + 1
  BY <1>2, <1>3 DEF DelayForAttempt
<1>4. CASE n # most + 1
  <2>1. n - 1 <= most
    <3>1. n \in 1..(most + 1)
      OBVIOUS
    <3> HIDE DEF most
    <3> QED BY <1>1, <3>1
  <2>2. Least(n - 1, 63) \in 0..Least(most, 63)
    <3> HIDE DEF most
    <3> QED BY <1>1, <1>2, <2>1 DEF Least
  <2>3. Step(n) \in Nat \ {0}
    BY <2>2, PowersOfTwo DEF Step
  <2>4. wait = Jittered(policy, Step(n), entropy, hint)
    BY <1>2, <1>4 DEF DelayForAttempt, Step
  <2>5. entropy \in Nat
    BY FollowUpAssumption
  <2>6. /\ wait \in Nat /\ Floor(hint) <= wait /\ CappedDelay(policy, Step(n)) <= 2 * wait
        /\ wait <= Greatest(policy.max, Floor(hint))
    BY <1>1, <2>3, <2>4, <2>5, JitteredDelay
  <2> HIDE DEF wait
  <2>7. wait # NoDuration
    BY <2>6 DEF NoDuration
  <2> QED BY <1>4, <2>6, <2>7 DEF wait
<1> QED BY <1>3, <1>4

(***************************************************************************)
(* What a lookup brings.                                                   *)
(***************************************************************************)
\* The first of five checks that fails answers.
LEMMA FirstOfFive ==
  ASSUME NEW c1, NEW c2, NEW c3, NEW c4, NEW c5
  PROVE  LET reply == FirstRefusal(<< c1, c2, c3, c4, c5 >>) IN
         /\ c1[1] => reply = c1[2]
         /\ ~c1[1] /\ c2[1] => reply = c2[2]
         /\ ~c1[1] /\ ~c2[1] /\ c3[1] => reply = c3[2]
         /\ ~c1[1] /\ ~c2[1] /\ ~c3[1] /\ c4[1] => reply = c4[2]
         /\ ~c1[1] /\ ~c2[1] /\ ~c3[1] /\ ~c4[1] /\ c5[1] => reply = c5[2]
         /\ ~c1[1] /\ ~c2[1] /\ ~c3[1] /\ ~c4[1] /\ ~c5[1] => reply = Proceed
<1> DEFINE checks  == << c1, c2, c3, c4, c5 >>
           failing == { i \in DOMAIN checks : checks[i][1] }
           first   == CHOOSE i \in failing : \A k \in failing : i <= k
<1>1. /\ DOMAIN checks = 1..5 /\ checks[1] = c1 /\ checks[2] = c2 /\ checks[3] = c3
      /\ checks[4] = c4 /\ checks[5] = c5
  OBVIOUS
<1> HIDE DEF checks
<1>2. /\ failing \subseteq { 1, 2, 3, 4, 5 }
      /\ 1 \in failing <=> c1[1]
      /\ 2 \in failing <=> c2[1]
      /\ 3 \in failing <=> c3[1]
      /\ 4 \in failing <=> c4[1]
      /\ 5 \in failing <=> c5[1]
  BY <1>1
<1>3. FirstRefusal(checks) = IF failing = {} THEN Proceed ELSE checks[first][2]
  BY DEF FirstRefusal
<1> HIDE DEF failing
<1>4. ASSUME NEW n \in failing, \A k \in failing : n <= k PROVE first = n
  <2>1. n \in Nat /\ \A i \in failing : i \in Nat
    BY <1>2, <1>4
  <2>2. first \in failing /\ \A k \in failing : first <= k
    BY <1>4
  <2> HIDE DEF first
  <2>3. first <= n /\ n <= first /\ first \in Nat
    BY <1>4, <2>1, <2>2
  <2> QED BY <2>1, <2>3
<1>5. c1[1] => first = 1 /\ failing # {}
  BY <1>2, <1>4
<1>6. ~c1[1] /\ c2[1] => first = 2 /\ failing # {}
  BY <1>2, <1>4
<1>7. ~c1[1] /\ ~c2[1] /\ c3[1] => first = 3 /\ failing # {}
  BY <1>2, <1>4
<1>8. ~c1[1] /\ ~c2[1] /\ ~c3[1] /\ c4[1] => first = 4 /\ failing # {}
  BY <1>2, <1>4
<1>9. ~c1[1] /\ ~c2[1] /\ ~c3[1] /\ ~c4[1] /\ c5[1] => first = 5 /\ failing # {}
  BY <1>2, <1>4
<1>10. ~c1[1] /\ ~c2[1] /\ ~c3[1] /\ ~c4[1] /\ ~c5[1] => failing = {}
  BY <1>2
<1> HIDE DEF first
<1> QED BY <1>1, <1>3, <1>5, <1>6, <1>7, <1>8, <1>9, <1>10 DEF checks

LEMMA CappedHint ==
  ASSUME NEW hint \in Hints
  PROVE  Capped(hint) = hint
  BY DurationFacts, RetryAssumption DEF Hints, Capped, Least, Durations

\* A header asks for what is made of it.
LEMMA ParsedHint ==
  ASSUME NEW answer, answer.header.value \in Nat, answer.arrived
  PROVE  HintOf(answer) \in Hints /\ Floor(HintOf(answer)) = AskedFor(answer)
<1> DEFINE value == answer.header.value
           form  == answer.header.form
<1>1. /\ value \in Nat /\ 1000 * value \in Nat /\ Greatest(value - 0, 0) = value
      /\ NoDuration \in Hints /\ Floor(NoDuration) = 0
  BY DEF Greatest, Hints, Floor
<1>2. \A n \in Nat : Least(n, MaxRetryAfter) \in Durations
  BY RetryAssumption DEF Least, Durations
<1>3. \A d \in Durations : d \in Hints /\ Floor(d) = d
  BY DurationFacts DEF Hints, Floor
<1>4. CASE form = "seconds"
  <2>1. HintOf(answer) = Least(1000 * value, MaxRetryAfter) /\ AskedFor(answer) = HintOf(answer)
    BY <1>4 DEF HintOf, ParseRetryAfter, AskedFor
  <2> QED BY <1>1, <1>2, <1>3, <2>1
<1>5. CASE form = "date"
  <2>1. HintOf(answer) = Least(value, MaxRetryAfter) /\ AskedFor(answer) = HintOf(answer)
    BY <1>1, <1>5 DEF HintOf, ParseRetryAfter, AskedFor
  <2> QED BY <1>1, <1>2, <1>3, <2>1
<1>6. CASE form \notin { "seconds", "date" }
  <2>1. HintOf(answer) = NoDuration /\ AskedFor(answer) = 0
    BY <1>6 DEF HintOf, ParseRetryAfter, AskedFor
  <2> QED BY <1>1, <2>1
<1> QED BY <1>4, <1>5, <1>6

\* what a worker has to wait for after an answer
Owed(answer) == IF JudgedByDocument(answer) THEN 0 ELSE AskedFor(answer)

\* A failure of the request whose document holds no error keeps the delay when it can be tried
\* again.
LEMMA RequestFailureHint ==
  ASSUME NEW answer, answer.header.value \in Nat, answer.arrived,
         ~(answer.json /\ answer.code # None)
  PROVE  LET failed == ClassifyRequestFailure(answer) IN
         /\ failed.hint \in Hints /\ failed # Proceed
         /\ IsRetryable(failed.class) => Floor(failed.hint) = AskedFor(answer)
<1> DEFINE failed   == ClassifyRequestFailure(answer)
           decision == ClassifyHttpStatus(answer.status, HintOf(answer))
<1>1. /\ HintOf(answer) \in Hints /\ Capped(HintOf(answer)) = HintOf(answer)
      /\ Floor(HintOf(answer)) = AskedFor(answer) /\ NoDuration \in Hints
  BY ParsedHint, CappedHint DEF Hints
<1>2. /\ failed.hint = decision.retryAfter
      /\ failed.class = IF answer.status = 429 THEN "throttled"
                        ELSE IF decision.retryable THEN "transient_provider_failure"
                        ELSE IF answer.status \in { 400, 413 } THEN "invalid_payload"
                        ELSE "permanent_provider_failure"
  BY DEF ClassifyRequestFailure, Reply
<1>3. /\ decision.retryable = RetryableStatus(answer.status)
      /\ decision.retryAfter = IF RetryableStatus(answer.status) THEN HintOf(answer)
                               ELSE NoDuration
      /\ answer.status = 429 => RetryableStatus(answer.status)
  BY <1>1 DEF ClassifyHttpStatus, RetryableStatus
<1>4. failed # Proceed
  <2>1. failed.class # "proceed"
    BY <1>2
  <2> HIDE DEF failed
  <2> QED BY <2>1 DEF Proceed, Reply
<1>5. IsRetryable(failed.class) => RetryableStatus(answer.status)
  BY <1>2, <1>3 DEF IsRetryable, RetryableClasses
<1> HIDE DEF failed, decision
<1> QED BY <1>1, <1>2, <1>3, <1>4, <1>5 DEF failed

LEMMA ProceedHint ==
  ASSUME NEW class, NEW code, NEW hint, class # "proceed"
  PROVE  Reply(class, code, hint) # Proceed /\ Reply(class, code, hint).hint = hint
  BY DEF Reply, Proceed

\* Whatever Expo answers, the delay that is left of it is within a day; of an answer that can be
\* tried again it is what the answer asks for, unless the document is judged; and receipts are
\* judged by their document.
LEMMA FailureHint ==
  ASSUME NEW answer, answer.header.value \in Nat, NEW code
  PROVE  LET failure == ExpoAnswerFailure(answer, code) IN
         /\ failure.hint \in Hints
         /\ IsRetryable(failure.class) => Floor(failure.hint) = Owed(answer)
         /\ failure = Proceed => Owed(answer) = 0
<1> DEFINE failed == ClassifyRequestFailure(answer)
           c1 == << ~answer.arrived, Transient("transport_error", NoDuration) >>
           c2 == << ~answer.readable, Transient("response_read_error", HintOf(answer)) >>
           c3 == << ~Success(answer.status), failed >>
           c4 == << ~answer.json, Reply("permanent_provider_failure", code, NoDuration) >>
           c5 == << answer.code # None, RequestError(answer.code) >>
           failure == ExpoAnswerFailure(answer, code)
<1>1. failure = FirstRefusal(<< c1, c2, c3, c4, c5 >>)
  BY DEF ExpoAnswerFailure
<1>2. /\ c1[1] => failure = c1[2]
      /\ ~c1[1] /\ c2[1] => failure = c2[2]
      /\ ~c1[1] /\ ~c2[1] /\ c3[1] => failure = c3[2]
      /\ ~c1[1] /\ ~c2[1] /\ ~c3[1] /\ c4[1] => failure = c4[2]
      /\ ~c1[1] /\ ~c2[1] /\ ~c3[1] /\ ~c4[1] /\ c5[1] => failure = c5[2]
      /\ ~c1[1] /\ ~c2[1] /\ ~c3[1] /\ ~c4[1] /\ ~c5[1] => failure = Proceed
  <2> HIDE DEF c1, c2, c3, c4, c5, failure
  <2> QED BY <1>1, FirstOfFive
<1> HIDE DEF failure, failed
<1>3. NoDuration \in Hints /\ Floor(NoDuration) = 0
  BY DEF Hints, Floor
<1>4. /\ RequestError(answer.code).hint = NoDuration /\ RequestError(answer.code) # Proceed
      /\ Proceed.hint = NoDuration
  <2>1. ClassifyExpoCode(answer.code) # "proceed"
    BY DEF ClassifyExpoCode
  <2> QED BY <2>1, ProceedHint DEF RequestError, Proceed, Reply
<1>5. CASE ~answer.arrived
  <2>1. failure = Transient("transport_error", NoDuration)
    BY <1>2, <1>5
  <2>2. Owed(answer) = 0
    BY <1>5 DEF Owed, AskedFor
  <2> QED BY <1>3, <2>1, <2>2, ProceedHint DEF Transient, failure
<1>6. CASE answer.arrived /\ ~answer.readable
  <2>1. failure = Transient("response_read_error", HintOf(answer))
    BY <1>2, <1>6
  <2>2. Owed(answer) = AskedFor(answer)
    BY <1>6 DEF Owed, JudgedByDocument
  <2> QED BY <1>6, <2>1, <2>2, ProceedHint, ParsedHint DEF Transient, failure
<1>7. CASE answer.arrived /\ answer.readable /\ ~Success(answer.status)
  <2>1. failure = failed
    BY <1>2, <1>7
  <2>2. CASE answer.json /\ answer.code # None
    <3>1. failed = RequestError(answer.code)
      BY <2>2 DEF failed, ClassifyRequestFailure
    <3>2. Owed(answer) = 0
      BY <1>7, <2>2 DEF Owed, JudgedByDocument
    <3> QED BY <1>3, <1>4, <2>1, <3>1, <3>2 DEF failure
  <2>3. CASE ~(answer.json /\ answer.code # None)
    <3>1. Owed(answer) = AskedFor(answer)
      BY <1>7, <2>3 DEF Owed, JudgedByDocument
    <3> QED BY <1>7, <2>1, <2>3, <3>1, RequestFailureHint DEF failed, failure
  <2> QED BY <2>2, <2>3
<1>8. CASE answer.arrived /\ answer.readable /\ Success(answer.status) /\ ~answer.json
  <2>1. failure = Reply("permanent_provider_failure", code, NoDuration)
    BY <1>2, <1>8
  <2>2. failure.class = "permanent_provider_failure" /\ failure.hint = NoDuration
    BY <2>1 DEF Reply
  <2>3. failure # Proceed /\ ~IsRetryable(failure.class)
    BY <2>2 DEF Proceed, Reply, IsRetryable, RetryableClasses
  <2> QED BY <1>3, <2>2, <2>3 DEF failure
<1>9. CASE answer.arrived /\ answer.readable /\ Success(answer.status) /\ answer.json
  <2>1. failure \in { RequestError(answer.code), Proceed }
    BY <1>2, <1>9
  <2>2. Owed(answer) = 0
    BY <1>9 DEF Owed, JudgedByDocument
  <2> QED BY <1>3, <1>4, <2>1, <2>2 DEF failure
<1> QED BY <1>5, <1>6, <1>7, <1>8, <1>9

(***************************************************************************)
(* What the invariant speaks of.                                           *)
(***************************************************************************)
Reasons == { "provider_confirmed", "time_to_live_elapsed", "consent_revoked", "ownership_denied",
             "missing_credentials", "invalid_token", "invalid_payload", "policy_denied",
             "canceled_by_caller", "provider_permanent_failure", "retry_budget_exhausted",
             "internal_permanent_failure" }

FindingShape ==
  [job : Tickets, state : States, reason : Reasons, attempts : Nat, coded : BOOLEAN]

\* What a worker finds out is consistent and true, and was found within the budget.
IsFinding(f) ==
  /\ f \in FindingShape
  /\ f.reason \in ReasonsFor(f.state)
  /\ \E w \in Workers : f.attempts \in 1..(PolicyOf[w].maxAttempts + 1)
  /\ f.coded = MayCarryCode(f.reason)
  /\ IsTruthful(f)

Stages == { "due", "asking", "telling", "stuck" }

LedgerInv ==
  /\ ledger \in [{ ReceiptKey(t) : t \in Tickets } -> { NoReceipt } \cup WellFormed]
  /\ ReceiptIsTruthful

LEMMA ReasonFacts ==
  ASSUME NEW state \in States
  PROVE  ReasonsFor(state) \subseteq Reasons
  BY DEF States, ReasonsFor, Reasons

LEMMA ReasonsAreAll == UNION { ReasonsFor(state) : state \in States } = Reasons
<1>1. UNION { ReasonsFor(state) : state \in States } \subseteq Reasons
  BY ReasonFacts
<1>2. ASSUME NEW r \in Reasons PROVE \E state \in States : r \in ReasonsFor(state)
  <2>1. "delivered" \in States /\ "expired" \in States /\ "rejected" \in States
        /\ "canceled" \in States /\ "permanently_failed" \in States
    BY DEF States
  <2>2. r \in ReasonsFor("delivered") \/ r \in ReasonsFor("expired")
        \/ r \in ReasonsFor("rejected") \/ r \in ReasonsFor("canceled")
        \/ r \in ReasonsFor("permanently_failed")
    BY DEF Reasons, ReasonsFor
  <2> QED BY <2>1, <2>2
<1> QED BY <1>1, <1>2

(***************************************************************************)
(* Findings.                                                               *)
(***************************************************************************)
\* A finding is a consistent receipt whatever the class it is made of.
LEMMA FindingFacts ==
  ASSUME NEW t \in Tickets, NEW class, NEW n \in Nat
  PROVE  LET f == Finding(t, class, n) IN
         /\ f \in FindingShape
         /\ f.job = t /\ f.attempts = n
         /\ f.reason \in ReasonsFor(f.state)
         /\ f.coded = MayCarryCode(f.reason)
         /\ f.reason = CASE class = "accepted"        -> "provider_confirmed"
                         [] class = "invalid_token"   -> "invalid_token"
                         [] class = "invalid_payload" -> "invalid_payload"
                         [] class = "permanent_provider_failure"
                                                      -> "provider_permanent_failure"
                         [] OTHER                     -> "retry_budget_exhausted"
         /\ f.state = "delivered" => class = "accepted"
<1> DEFINE f == Finding(t, class, n)
           Made(state, reason) == [job |-> t, state |-> state, reason |-> reason,
                                   attempts |-> n, coded |-> MayCarryCode(reason)]
<1>1. ASSUME NEW state \in States, NEW reason \in Reasons
      PROVE  /\ Made(state, reason) \in FindingShape
             /\ Made(state, reason).job = t /\ Made(state, reason).attempts = n
             /\ Made(state, reason).state = state /\ Made(state, reason).reason = reason
             /\ Made(state, reason).coded = MayCarryCode(reason)
  <2>1. MayCarryCode(reason) \in BOOLEAN
    BY DEF MayCarryCode
  <2> QED BY <2>1 DEF FindingShape
<1>2. { "delivered", "rejected", "permanently_failed" } \subseteq States
  BY DEF States
<1>3. { "provider_confirmed", "invalid_token", "invalid_payload", "provider_permanent_failure",
        "retry_budget_exhausted" } \subseteq Reasons
  BY DEF Reasons
<1>4. f = CASE class = "accepted"        -> Made("delivered", "provider_confirmed")
            [] class = "invalid_token"   -> Made("rejected", "invalid_token")
            [] class = "invalid_payload" -> Made("rejected", "invalid_payload")
            [] class = "permanent_provider_failure"
                                    -> Made("permanently_failed", "provider_permanent_failure")
            [] OTHER                -> Made("permanently_failed", "retry_budget_exhausted")
  BY DEF Finding
<1> HIDE DEF f, Made
<1>5. CASE class = "accepted"
  <2>1. f = Made("delivered", "provider_confirmed")
    BY <1>4, <1>5
  <2> QED BY <1>1, <1>2, <1>3, <1>5, <2>1 DEF f, ReasonsFor
<1>6. CASE class = "invalid_token"
  <2>1. f = Made("rejected", "invalid_token")
    BY <1>4, <1>6
  <2> QED BY <1>1, <1>2, <1>3, <1>6, <2>1 DEF f, ReasonsFor
<1>7. CASE class = "invalid_payload"
  <2>1. f = Made("rejected", "invalid_payload")
    BY <1>4, <1>7
  <2> QED BY <1>1, <1>2, <1>3, <1>7, <2>1 DEF f, ReasonsFor
<1>8. CASE class = "permanent_provider_failure"
  <2>1. f = Made("permanently_failed", "provider_permanent_failure")
    BY <1>4, <1>8
  <2> QED BY <1>1, <1>2, <1>3, <1>8, <2>1 DEF f, ReasonsFor
<1>9. CASE class \notin { "accepted", "invalid_token", "invalid_payload",
                          "permanent_provider_failure" }
  <2>1. f = Made("permanently_failed", "retry_budget_exhausted")
    BY <1>4, <1>9
  <2> QED BY <1>1, <1>2, <1>3, <1>9, <2>1 DEF f, ReasonsFor
<1> QED BY <1>5, <1>6, <1>7, <1>8, <1>9

\* What a final class says of the notification.
LEMMA ClassFacts ==
  ASSUME NEW t \in Tickets, NEW shown, \A s \in shown : verdict[s] # None,
         ~IsRetryable(LookupClass(t, shown))
  PROVE  LET class == LookupClass(t, shown) IN
         /\ class \in { "accepted", "invalid_token", "invalid_payload",
                        "permanent_provider_failure" }
         /\ class = "accepted" => verdict[t] = "ok"
         /\ class = "invalid_token" => verdict[t] = "DeviceNotRegistered"
         /\ class # "accepted" => verdict[t] \notin { None, "ok" }
<1> DEFINE class == LookupClass(t, shown)
<1>1. t \in shown
  BY DEF LookupClass, IsRetryable, RetryableClasses
<1>2. verdict[t] # None
  BY <1>1
<1>3. CASE verdict[t] = "ok"
  BY <1>1, <1>3 DEF LookupClass
<1>4. CASE verdict[t] # "ok"
  <2>1. class = ExpoErrorClass(verdict[t])
    BY <1>1, <1>4 DEF LookupClass
  <2>2. class # "throttled"
    BY DEF IsRetryable, RetryableClasses
  <2>3. /\ class \in { "invalid_token", "throttled", "permanent_provider_failure",
                       "invalid_payload" }
        /\ class = "invalid_token" => verdict[t] = "DeviceNotRegistered"
    BY <2>1 DEF ExpoErrorClass
  <2> QED BY <1>2, <1>4, <2>2, <2>3
<1> QED BY <1>3, <1>4

\* What a worker finds out from receipts is true.
LEMMA FoundIsFinding ==
  ASSUME NEW t \in Tickets, NEW shown, \A s \in shown : verdict[s] # None,
         ~IsRetryable(LookupClass(t, shown)),
         NEW w \in Workers, NEW n \in 1..(PolicyOf[w].maxAttempts + 1)
  PROVE  IsFinding(Finding(t, LookupClass(t, shown), n))
<1> DEFINE class == LookupClass(t, shown)
           f == Finding(t, class, n)
<1>1. n \in Nat
  BY PolicyIsPolicy
<1>2. /\ class \in { "accepted", "invalid_token", "invalid_payload",
                     "permanent_provider_failure" }
      /\ class = "accepted" => verdict[t] = "ok"
      /\ class = "invalid_token" => verdict[t] = "DeviceNotRegistered"
      /\ class # "accepted" => verdict[t] \notin { None, "ok" }
  BY ClassFacts
<1> HIDE DEF class
<1>3. /\ f \in FindingShape /\ f.job = t /\ f.attempts = n /\ f.reason \in ReasonsFor(f.state)
      /\ f.coded = MayCarryCode(f.reason)
      /\ f.state = "delivered" => class = "accepted"
      /\ f.reason = CASE class = "accepted"        -> "provider_confirmed"
                      [] class = "invalid_token"   -> "invalid_token"
                      [] class = "invalid_payload" -> "invalid_payload"
                      [] class = "permanent_provider_failure"
                                                   -> "provider_permanent_failure"
                      [] OTHER                     -> "retry_budget_exhausted"
  BY <1>1, FindingFacts
<1> HIDE DEF f
<1>4. /\ f.reason = "invalid_token" => class = "invalid_token"
      /\ f.reason \in { "invalid_token", "invalid_payload", "provider_permanent_failure" } =>
           class # "accepted"
      /\ f.reason # "retry_budget_exhausted"
  BY <1>2, <1>3
<1>5. IsTruthful(f)
  BY <1>2, <1>3, <1>4 DEF IsTruthful
<1>6. IsFinding(f)
  BY <1>3, <1>5 DEF IsFinding, FindingShape
<1> QED BY <1>6 DEF f, class

\* A ticket is given up with the last attempt of the policy.
LEMMA LateIsFinding ==
  ASSUME NEW t \in Tickets, NEW w \in Workers, NEW n, n = PolicyOf[w].maxAttempts + 1
  PROVE  IsFinding(Finding(t, "transient_provider_failure", n))
<1> DEFINE f == Finding(t, "transient_provider_failure", n)
<1>1. n \in Nat /\ n \in 1..(PolicyOf[w].maxAttempts + 1)
  BY PolicyIsPolicy
<1>2. /\ f \in FindingShape /\ f.job = t /\ f.attempts = n
      /\ f.reason \in ReasonsFor(f.state) /\ f.coded = MayCarryCode(f.reason)
      /\ f.state # "delivered" /\ f.reason = "retry_budget_exhausted"
  BY <1>1, FindingFacts
<1> HIDE DEF f
<1>3. IsTruthful(f)
  BY <1>2 DEF IsTruthful
<1>4. IsFinding(f)
  BY <1>1, <1>2, <1>3 DEF IsFinding, FindingShape
<1> QED BY <1>4 DEF f

(***************************************************************************)
(* The invariant holds at first and is kept.                               *)
(***************************************************************************)
WorkRecords ==
  [stage : Stages, lookups : Nat, open : SUBSET Tickets, found : SUBSET FindingShape,
   answer : LookupAnswers \cup { NoAnswer }, wait : Nat]

\* The conjunct of BackoffIsBounded for worker w in state r.
Patient(w, r) ==
  r.stage = "telling" /\ r.open # {} =>
    /\ Owed(r.answer) <= r.wait
    /\ CappedDelay(PolicyOf[w], Step(r.lookups)) <= 2 * r.wait
    /\ r.wait <= Greatest(PolicyOf[w].max, Owed(r.answer))

\* What the invariant says of worker w in state r.
Sound(w, r) ==
  /\ r \in WorkRecords
  /\ r.lookups <= PolicyOf[w].maxAttempts + 1
  /\ r.stage = "due" => r.lookups <= PolicyOf[w].maxAttempts
  /\ r.stage = "asking" => r.lookups >= 1
  /\ r.stage = "telling" /\ r.open # {} => r.lookups \in 1..PolicyOf[w].maxAttempts
  /\ \A f \in r.found : IsFinding(f)
  /\ Patient(w, r)

Workforce == work \in [Workers -> WorkRecords] /\ \A w \in Workers : Sound(w, work[w])

LEMMA SoundIsPatient == Workforce => BackoffIsBounded
  BY DEF Workforce, Sound, Patient, Owed, Step, BackoffIsBounded

LEMMA FreshIsSound ==
  ASSUME NEW open \in SUBSET Tickets, NEW w \in Workers
  PROVE  Sound(w, Fresh(open))
<1>1. PolicyOf[w].maxAttempts \in Nat
  BY PolicyIsPolicy
<1>2. Fresh(open) \in WorkRecords
  BY DEF Fresh, WorkRecords, Stages
<1> QED BY <1>1, <1>2 DEF Fresh, Sound, Patient

LEMMA ScheduledIsSound ==
  ASSUME NEW w \in Workers, Sound(w, work[w]), work[w].stage = "asking",
         NEW found, \A f \in found : IsFinding(f),
         NEW answer \in LookupAnswers, NEW hint \in Hints, Floor(hint) = Owed(answer),
         NEW entropy \in Entropies
  PROVE  Sound(w, Scheduled(w, found, answer, hint, entropy))
<1> DEFINE self == work[w]
           n    == self.lookups
           most == PolicyOf[w].maxAttempts
           left == self.open \ { f.job : f \in found }
           wait == DelayForAttempt(PolicyOf[w], n - 1, entropy, hint)
           late == { Finding(t, "transient_provider_failure", n) : t \in left }
           next == Scheduled(w, found, answer, hint, entropy)
<1>1. self \in WorkRecords /\ n \in 1..(most + 1) /\ left \subseteq Tickets /\ most \in Nat \ {0}
  BY PolicyIsPolicy DEF Sound, WorkRecords
<1>2. /\ wait = NoDuration <=> n = most + 1
      /\ wait # NoDuration =>
           /\ wait \in Nat
           /\ Owed(answer) <= wait
           /\ CappedDelay(PolicyOf[w], Step(n)) <= 2 * wait
           /\ wait <= Greatest(PolicyOf[w].max, Owed(answer))
  BY <1>1, DelayFacts
<1>3. found \subseteq FindingShape
  BY DEF IsFinding, FindingShape
<1>4. next = IF left = {} \/ wait = NoDuration
             THEN [self EXCEPT !.stage = "telling", !.open = {}, !.found = found \cup late]
             ELSE [self EXCEPT !.stage = "telling", !.open = left, !.found = found,
                               !.answer = answer, !.wait = wait]
  BY DEF Scheduled
<1> HIDE DEF wait, next, left, most
<1>5. CASE left = {} \/ wait = NoDuration
  <2>1. \A f \in late : IsFinding(f)
    BY <1>1, <1>2, <1>5, LateIsFinding DEF most
  <2>2. late \subseteq FindingShape
    BY <2>1 DEF IsFinding, FindingShape
  <2> HIDE DEF late
  <2>3. next = [self EXCEPT !.stage = "telling", !.open = {}, !.found = found \cup late]
    BY <1>4, <1>5
  <2>4. next \in WorkRecords /\ next.stage = "telling" /\ next.open = {}
        /\ next.found = found \cup late /\ next.lookups = n
    BY <1>1, <1>3, <2>2, <2>3 DEF WorkRecords, Stages
  <2>5. Sound(w, next)
    BY <1>1, <2>1, <2>4 DEF Sound, Patient, most
  <2> QED BY <2>5 DEF next
<1>6. CASE left # {} /\ wait # NoDuration
  <2>1. next = [self EXCEPT !.stage = "telling", !.open = left, !.found = found,
                            !.answer = answer, !.wait = wait]
    BY <1>4, <1>6
  <2>2. /\ next \in WorkRecords /\ next.stage = "telling" /\ next.found = found
        /\ next.answer = answer /\ next.wait = wait /\ next.lookups = n
    BY <1>1, <1>2, <1>3, <1>6, <2>1 DEF WorkRecords, Stages
  <2> HIDE DEF n
  <2>3. n \in 1..most /\ n <= most + 1
    BY <1>1, <1>2, <1>6
  <2>4. Patient(w, next)
    BY <1>2, <1>6, <2>2 DEF Patient
  <2>5. Sound(w, next)
    BY <2>2, <2>3, <2>4 DEF Sound, most
  <2> QED BY <2>5 DEF next
<1> QED BY <1>5, <1>6

LEMMA FindingIsWellFormed ==
  ASSUME NEW f, IsFinding(f), TerminalError(f, CodeOf(f)) = None
  PROVE  f \in WellFormed /\ f.job \in Tickets /\ IsTruthful(f)
<1>1. f.attempts \in Nat /\ f.attempts > 0
  BY PolicyIsPolicy DEF IsFinding, FindingShape
<1>2. ~(f.attempts > MaxDeliveryAttempts)
  BY DEF TerminalError, None
<1>3. f.attempts \in 0..MaxDeliveryAttempts
  BY <1>1, <1>2, FollowUpAssumption
<1>4. f \in [job : Tickets, state : States, reason : Reasons,
             attempts : 0..MaxDeliveryAttempts, coded : BOOLEAN]
  BY <1>3 DEF IsFinding, FindingShape
<1>5. f.reason \in ReasonsFor(f.state) /\ (f.coded => MayCarryCode(f.reason))
  BY DEF IsFinding
<1>6. f \in WellFormed
  BY <1>1, <1>4, <1>5, ReasonsAreAll DEF WellFormed
<1> QED BY <1>6 DEF IsFinding, FindingShape

\* A refusal the property knows the cause of.
IsExplained(receipt, error) ==
  \/ /\ error = "invalid_provider_code" /\ CarriesTicket(receipt.reason)
     /\ ~ValidProviderCode(IdOf[receipt.job])
  \/ /\ error = "too_many_attempts" /\ receipt.attempts > MaxDeliveryAttempts
     /\ \E w \in Workers : receipt.attempts <= PolicyOf[w].maxAttempts + 1

\* Nothing but a ticket that is no provider code or too many attempts stands against a finding.
LEMMA FindingIsRecordable ==
  ASSUME NEW f, IsFinding(f), TerminalError(f, CodeOf(f)) # None
  PROVE  IsExplained(f, TerminalError(f, CodeOf(f)))
<1>1. PICK w \in Workers : f.attempts \in 1..(PolicyOf[w].maxAttempts + 1)
  BY DEF IsFinding
<1>2. /\ f.attempts # 0 /\ f.attempts \in Nat
      /\ f.attempts <= PolicyOf[w].maxAttempts + 1
  BY <1>1, PolicyIsPolicy
<1>3. f.reason \in ReasonsFor(f.state) /\ ~(f.coded /\ ~MayCarryCode(f.reason))
  BY DEF IsFinding
<1>4. CASE f.attempts > MaxDeliveryAttempts
  <2>1. TerminalError(f, CodeOf(f)) = "too_many_attempts"
    BY <1>3, <1>4 DEF TerminalError
  <2> QED BY <1>2, <1>4, <2>1 DEF IsExplained
<1>5. CASE ~(f.attempts > MaxDeliveryAttempts)
  <2>1. /\ f.coded /\ ~ValidProviderCode(CodeOf(f))
        /\ TerminalError(f, CodeOf(f)) = "invalid_provider_code"
    BY <1>2, <1>3, <1>5 DEF TerminalError
  <2>2. ValidProviderCode(ErrorCode)
    BY DEF ValidProviderCode, ErrorCode
  <2>3. CarriesTicket(f.reason) /\ CodeOf(f) = IdOf[f.job]
    BY <2>1, <2>2 DEF CodeOf
  <2> QED BY <2>1, <2>3 DEF IsExplained
<1> QED BY <1>4, <1>5

LEMMA LedgerInit == Init => LedgerInv
<1> SUFFICES ASSUME Init PROVE LedgerInv
  OBVIOUS
<1>1. ledger = [key \in { ReceiptKey(t) : t \in Tickets } |-> NoReceipt]
  BY DEF Init
<1>2. ReceiptIsTruthful
  BY <1>1 DEF ReceiptIsTruthful
<1> QED BY <1>1, <1>2 DEF LedgerInv

\* What is recorded is what the ledger had, or the new receipt under a key that had none.
LEMMA RecordedKeepsLedger ==
  ASSUME LedgerInv, NEW r \in WellFormed, r.job \in Tickets, IsTruthful(r),
         ledger' = Recorded(r), verdict' = verdict
  PROVE  LedgerInv'
<1> DEFINE Keys == { ReceiptKey(t) : t \in Tickets }
           k == ReceiptKey(r.job)
<1>1. k \in Keys /\ ledger \in [Keys -> { NoReceipt } \cup WellFormed]
  BY DEF LedgerInv
<1>2. \A key \in Keys : ledger[key] # NoReceipt =>
        ReceiptKey(ledger[key].job) = key /\ IsTruthful(ledger[key])
  BY <1>1 DEF LedgerInv, ReceiptIsTruthful
<1>3. ledger' \in [Keys -> { NoReceipt } \cup WellFormed]
      /\ \A key \in Keys : ledger'[key] = ledger[key] \/ (key = k /\ ledger'[key] = r)
  BY <1>1 DEF Recorded
<1>4. ASSUME NEW key \in Keys, ledger'[key] # NoReceipt
      PROVE  ReceiptKey(ledger'[key].job) = key /\ IsTruthful(ledger'[key])
  BY <1>2, <1>3, <1>4
<1>5. ReceiptIsTruthful'
  <2>1. ASSUME NEW key \in Keys, ledger'[key] # NoReceipt
        PROVE  ReceiptKey(ledger'[key].job) = key /\ IsTruthful(ledger[key])'
    <3>1. ReceiptKey(ledger'[key].job) = key /\ IsTruthful(ledger'[key])
      BY <1>4, <2>1
    <3> QED BY <3>1 DEF IsTruthful
  <2>2. DOMAIN ledger' = Keys
    BY <1>3
  <2> QED BY <2>1, <2>2 DEF ReceiptIsTruthful
<1> QED BY <1>3, <1>5 DEF LedgerInv

\* Nothing new is learnt of a notification whose fate is known.
LEMMA SettledIsTruthful ==
  ASSUME NEW t \in Tickets, NEW v, verdict \in [Tickets -> Verdicts \cup { None }],
         verdict[t] = None, verdict' = [verdict EXCEPT ![t] = v],
         NEW f, f.job \in Tickets, IsTruthful(f)
  PROVE  IsTruthful(f)'
<1>1. CASE f.job # t
  <2>1. verdict'[f.job] = verdict[f.job]
    BY <1>1
  <2> QED BY <2>1 DEF IsTruthful
<1>2. CASE f.job = t
  <2>1. /\ f.state # "delivered"
        /\ f.reason \notin { "invalid_token", "invalid_payload", "provider_permanent_failure" }
    BY <1>2 DEF IsTruthful, None
  <2> QED BY <2>1 DEF IsTruthful
<1> QED BY <1>1, <1>2

VerdictTypes == verdict \in [Tickets -> Verdicts \cup { None }]

FollowUpInv == VerdictTypes /\ Workforce /\ LedgerInv /\ VerdictsAreRecordable

LEMMA FollowUpInit == Init => FollowUpInv
<1> SUFFICES ASSUME Init PROVE FollowUpInv
  OBVIOUS
<1>1. VerdictTypes
  BY DEF Init, VerdictTypes
<1>2. \A w \in Workers : Sound(w, Fresh(Tickets))
  BY FreshIsSound
<1>3. \A w \in Workers : Fresh(Tickets) \in WorkRecords
  BY <1>2 DEF Sound
<1>4. Workforce
  BY <1>2, <1>3 DEF Init, Workforce
<1>5. VerdictsAreRecordable
  BY DEF Init, VerdictsAreRecordable
<1> QED BY <1>1, <1>4, <1>5, LedgerInit DEF FollowUpInv

\* A worker that goes on soundly leaves the others sound, while no verdict changes.
LEMMA OneWorkerMoves ==
  ASSUME Workforce, NEW w \in Workers, NEW r, Sound(w, r), work' = [work EXCEPT ![w] = r],
         verdict' = verdict
  PROVE  Workforce'
<1>1. r \in WorkRecords
  BY DEF Sound
<1>2. work' \in [Workers -> WorkRecords]
  BY <1>1 DEF Workforce
<1>3. ASSUME NEW v \in Workers PROVE Sound(v, work[v])'
  <2>1. Sound(v, work'[v])
    BY DEF Workforce
  <2> QED BY <2>1 DEF Sound, IsFinding, IsTruthful, Patient
<1> QED BY <1>2, <1>3 DEF Workforce

LEMMA SettleKeeps ==
  ASSUME FollowUpInv, NEW t \in Tickets, Settle(t)
  PROVE  FollowUpInv'
<1>1. PICK v \in Verdicts : verdict' = [verdict EXCEPT ![t] = v]
  BY DEF Settle
<1>2. VerdictTypes'
  BY <1>1 DEF FollowUpInv, VerdictTypes
<1>3. ASSUME NEW f, f.job \in Tickets, IsTruthful(f)
      PROVE  IsTruthful(f)'
  BY <1>1, <1>3, SettledIsTruthful DEF Settle, FollowUpInv, VerdictTypes
<1>4. Workforce'
  <2>1. ASSUME NEW w \in Workers PROVE Sound(w, work[w])'
    <3>1. Sound(w, work[w]) /\ work'[w] = work[w]
      BY DEF FollowUpInv, Workforce, Settle
    <3>2. ASSUME NEW f \in work[w].found PROVE IsFinding(f)'
      <4>1. IsFinding(f)
        BY <3>1 DEF Sound
      <4>2. IsTruthful(f)'
        BY <4>1, <1>3 DEF IsFinding, FindingShape
      <4> QED BY <4>1, <4>2 DEF IsFinding
    <3> QED BY <3>1, <3>2 DEF Sound, Patient
  <2> QED BY <2>1 DEF FollowUpInv, Workforce, Settle
<1>5. LedgerInv'
  <2>1. ledger' = ledger
    BY DEF Settle
  <2>2. ASSUME NEW key \in DOMAIN ledger, ledger[key] # NoReceipt
        PROVE  ReceiptKey(ledger[key].job) = key /\ IsTruthful(ledger[key])'
    <3>1. ReceiptKey(ledger[key].job) = key /\ IsTruthful(ledger[key])
      BY <2>2 DEF FollowUpInv, LedgerInv, ReceiptIsTruthful
    <3>2. ledger[key].job \in Tickets
      BY <2>2 DEF FollowUpInv, LedgerInv, WellFormed
    <3> DEFINE r == ledger[key]
    <3>3. r.job \in Tickets /\ IsTruthful(r) /\ r' = r
      BY <2>1, <3>1, <3>2
    <3>4. verdict'[r.job] = verdict[r.job] \/ verdict[r.job] = None
      BY <1>1, <3>3 DEF Settle, FollowUpInv, VerdictTypes
    <3>5. IsTruthful(r)'
      BY <2>1, <3>3, <3>4 DEF IsTruthful, None
    <3> QED BY <3>1, <3>5
  <2>3. ReceiptIsTruthful'
    BY <2>1, <2>2 DEF ReceiptIsTruthful
  <2> QED BY <2>1, <2>3 DEF FollowUpInv, LedgerInv
<1>6. VerdictsAreRecordable'
  BY DEF Settle, FollowUpInv, VerdictsAreRecordable
<1> QED BY <1>2, <1>4, <1>5, <1>6 DEF FollowUpInv

\* Only what a worker does changes when neither verdicts, ledger nor refusals do.
LEMMA OneWorkerKeeps ==
  ASSUME FollowUpInv, NEW w \in Workers, NEW r, Sound(w, r), work' = [work EXCEPT ![w] = r],
         UNCHANGED << verdict, ledger, refused >>
  PROVE  FollowUpInv'
<1>1. Workforce'
  BY OneWorkerMoves DEF FollowUpInv
<1>2. VerdictTypes' /\ VerdictsAreRecordable'
  BY DEF FollowUpInv, VerdictTypes, VerdictsAreRecordable
<1>3. LedgerInv'
  BY DEF FollowUpInv, LedgerInv, ReceiptIsTruthful, IsTruthful
<1> QED BY <1>1, <1>2, <1>3 DEF FollowUpInv

LEMMA LookUpKeeps ==
  ASSUME FollowUpInv, NEW w \in Workers, LookUp(w)
  PROVE  FollowUpInv'
<1> DEFINE r == [work[w] EXCEPT !.stage = "asking", !.lookups = @ + 1]
<1>1. Sound(w, work[w]) /\ work[w].stage = "due" /\ work \in [Workers -> WorkRecords]
  BY DEF FollowUpInv, Workforce, LookUp
<1> DEFINE n == work[w].lookups + 1
<1>2. n \in Nat /\ n >= 1 /\ n <= PolicyOf[w].maxAttempts + 1
  BY <1>1, PolicyIsPolicy DEF Sound, WorkRecords
<1>3. r = [work[w] EXCEPT !.stage = "asking", !.lookups = n]
  OBVIOUS
<1> HIDE DEF n
<1>4. /\ r \in WorkRecords /\ r.stage = "asking" /\ r.lookups = n
      /\ r.found = work[w].found
  BY <1>1, <1>2, <1>3 DEF Sound, WorkRecords, Stages
<1>5. work' = [work EXCEPT ![w] = r]
  BY <1>1 DEF LookUp, WorkRecords
<1> HIDE DEF r
<1>6. Sound(w, r)
  BY <1>1, <1>2, <1>4 DEF Sound, Patient
<1> QED BY <1>5, <1>6, OneWorkerKeeps DEF LookUp

LEMMA LookupFailsKeeps ==
  ASSUME FollowUpInv, NEW w \in Workers, LookupFails(w)
  PROVE  FollowUpInv'
<1>1. Sound(w, work[w]) /\ work[w].stage = "asking"
  BY DEF FollowUpInv, Workforce, LookupFails
<1>2. PICK answer \in LookupAnswers, entropy \in Entropies :
        LET failure == ExpoAnswerFailure(answer, "invalid_receipt_response") IN
        work' = [work EXCEPT ![w] = IF IsRetryable(failure.class)
                                    THEN Scheduled(w, {}, answer, failure.hint, entropy)
                                    ELSE [@ EXCEPT !.stage = "stuck"]]
  BY DEF LookupFails
<1> DEFINE failure == ExpoAnswerFailure(answer, "invalid_receipt_response")
<1>3. /\ failure.hint \in Hints
      /\ IsRetryable(failure.class) => Floor(failure.hint) = Owed(answer)
  BY FailureHint, FollowUpAssumption
<1> HIDE DEF failure
<1>4. CASE IsRetryable(failure.class)
  <2> DEFINE r == Scheduled(w, {}, answer, failure.hint, entropy)
  <2>1. work' = [work EXCEPT ![w] = r]
    BY <1>2, <1>4 DEF failure
  <2>2. Sound(w, r)
    BY <1>1, <1>3, <1>4, ScheduledIsSound
  <2> HIDE DEF r
  <2> QED BY <2>1, <2>2, OneWorkerKeeps DEF LookupFails
<1>5. CASE ~IsRetryable(failure.class)
  <2> DEFINE r == [work[w] EXCEPT !.stage = "stuck"]
  <2>1. work' = [work EXCEPT ![w] = r]
    BY <1>2, <1>5 DEF failure
  <2>2. r \in WorkRecords /\ r.stage = "stuck" /\ r.found = work[w].found
        /\ r.lookups = work[w].lookups
    BY <1>1 DEF Sound, WorkRecords, Stages
  <2>3. Sound(w, r)
    BY <1>1, <2>2 DEF Sound, Patient
  <2> HIDE DEF r
  <2> QED BY <2>1, <2>3, OneWorkerKeeps DEF LookupFails
<1> QED BY <1>4, <1>5

LEMMA LookupReturnsKeeps ==
  ASSUME FollowUpInv, NEW w \in Workers, LookupReturns(w)
  PROVE  FollowUpInv'
<1>1. /\ Sound(w, work[w]) /\ work[w].stage = "asking"
      /\ work[w].lookups \in 1..(PolicyOf[w].maxAttempts + 1) /\ work[w].open \subseteq Tickets
  BY PolicyIsPolicy DEF FollowUpInv, Workforce, LookupReturns, Sound, WorkRecords
<1>2. PICK answer \in LookupAnswers, entropy \in Entropies,
           shown \in SUBSET { t \in work[w].open : verdict[t] # None } :
        LET final == { t \in work[w].open : ~IsRetryable(LookupClass(t, shown)) }
            found == { Finding(t, LookupClass(t, shown), work[w].lookups) : t \in final } IN
        /\ ExpoAnswerFailure(answer, "invalid_receipt_response") = Proceed
        /\ work' = [work EXCEPT ![w] = Scheduled(w, found, answer, NoDuration, entropy)]
  BY DEF LookupReturns
<1> DEFINE final == { t \in work[w].open : ~IsRetryable(LookupClass(t, shown)) }
           found == { Finding(t, LookupClass(t, shown), work[w].lookups) : t \in final }
           r == Scheduled(w, found, answer, NoDuration, entropy)
<1>3. \A s \in shown : verdict[s] # None
  BY <1>2
<1>4. \A f \in found : IsFinding(f)
  BY <1>1, <1>3, FoundIsFinding
<1>5. work' = [work EXCEPT ![w] = r]
  BY <1>2
<1>6. NoDuration \in Hints /\ Floor(NoDuration) = Owed(answer)
  BY <1>2, FailureHint, FollowUpAssumption DEF Hints, Floor
<1> HIDE DEF found
<1>7. Sound(w, r)
  BY <1>1, <1>4, <1>6, ScheduledIsSound
<1> HIDE DEF r
<1> QED BY <1>5, <1>7, OneWorkerKeeps DEF LookupReturns

LEMMA ResumeKeeps ==
  ASSUME FollowUpInv, NEW w \in Workers, Resume(w)
  PROVE  FollowUpInv'
<1> DEFINE r == [work[w] EXCEPT !.stage = "due", !.answer = NoAnswer, !.wait = 0]
<1>1. Sound(w, work[w]) /\ work[w].stage = "telling" /\ work[w].open # {}
      /\ work \in [Workers -> WorkRecords]
  BY DEF FollowUpInv, Workforce, Resume
<1>2. work[w].lookups \in 1..PolicyOf[w].maxAttempts
  BY <1>1 DEF Sound
<1>3. /\ r \in WorkRecords /\ r.stage = "due" /\ r.lookups = work[w].lookups
      /\ r.found = work[w].found
  BY <1>1 DEF Sound, WorkRecords, Stages
<1>4. work' = [work EXCEPT ![w] = r]
  BY <1>1 DEF Resume, WorkRecords
<1> HIDE DEF r
<1>5. Sound(w, r)
  BY <1>1, <1>2, <1>3, PolicyIsPolicy DEF Sound, Patient
<1> QED BY <1>4, <1>5, OneWorkerKeeps DEF Resume

LEMMA CrashKeeps ==
  ASSUME FollowUpInv, NEW w \in Workers, Crash(w)
  PROVE  FollowUpInv'
<1>1. Unrecorded \in SUBSET Tickets
  BY DEF Unrecorded
<1>2. Sound(w, Fresh(Unrecorded))
  BY <1>1, FreshIsSound
<1> QED BY <1>2, OneWorkerKeeps DEF Crash

LEMMA TellKeeps ==
  ASSUME FollowUpInv, NEW w \in Workers, Tell(w)
  PROVE  FollowUpInv'
<1>1. PICK f \in work[w].found :
        /\ work' = [work EXCEPT ![w].found = @ \ { f }]
        /\ IF TerminalError(f, CodeOf(f)) = None
           THEN ledger' = Recorded(f) /\ UNCHANGED refused
           ELSE /\ refused' =
                     refused \cup { [receipt |-> f, error |-> TerminalError(f, CodeOf(f))] }
                /\ UNCHANGED ledger
  BY DEF Tell
<1> DEFINE r == [work[w] EXCEPT !.found = @ \ { f }]
<1>2. Sound(w, work[w]) /\ work \in [Workers -> WorkRecords] /\ verdict' = verdict
  BY DEF FollowUpInv, Workforce, Tell
<1>3. IsFinding(f)
  BY <1>2 DEF Sound
<1>4. /\ r \in WorkRecords /\ r.stage = work[w].stage /\ r.lookups = work[w].lookups
      /\ r.open = work[w].open /\ r.answer = work[w].answer /\ r.wait = work[w].wait
      /\ r.found \subseteq work[w].found
  BY <1>2 DEF Sound, WorkRecords
<1>5. work' = [work EXCEPT ![w] = r]
  BY <1>1, <1>2 DEF WorkRecords
<1> HIDE DEF r
<1>6. Sound(w, r)
  BY <1>2, <1>4 DEF Sound, Patient
<1>7. Workforce'
  BY <1>2, <1>5, <1>6, OneWorkerMoves DEF FollowUpInv
<1>8. VerdictTypes'
  BY <1>2 DEF FollowUpInv, VerdictTypes
<1>9. CASE TerminalError(f, CodeOf(f)) = None
  <2>1. ledger' = Recorded(f) /\ refused' = refused
    BY <1>1, <1>9
  <2>2. LedgerInv'
    BY <1>2, <1>3, <1>9, <2>1, FindingIsWellFormed, RecordedKeepsLedger DEF FollowUpInv
  <2>3. VerdictsAreRecordable'
    BY <2>1 DEF FollowUpInv, VerdictsAreRecordable
  <2> QED BY <1>7, <1>8, <2>2, <2>3 DEF FollowUpInv
<1>10. CASE TerminalError(f, CodeOf(f)) # None
  <2>1. /\ refused' = refused \cup { [receipt |-> f, error |-> TerminalError(f, CodeOf(f))] }
        /\ ledger' = ledger
    BY <1>1, <1>10
  <2>2. LedgerInv'
    BY <1>2, <2>1 DEF FollowUpInv, LedgerInv, ReceiptIsTruthful, IsTruthful
  <2>3. VerdictsAreRecordable'
    <3>1. IsExplained(f, TerminalError(f, CodeOf(f)))
      BY <1>3, <1>10, FindingIsRecordable
    <3> QED BY <2>1, <3>1 DEF FollowUpInv, VerdictsAreRecordable, IsExplained
  <2> QED BY <1>7, <1>8, <2>2, <2>3 DEF FollowUpInv
<1> QED BY <1>9, <1>10

CancelReceipt(t) == [job |-> t, state |-> "canceled", reason |-> "canceled_by_caller",
                     attempts |-> 0, coded |-> FALSE]

LEMMA CancellationIsWellFormed ==
  ASSUME NEW t \in Tickets
  PROVE  CancelReceipt(t) \in WellFormed /\ IsTruthful(CancelReceipt(t))
<1> DEFINE r == CancelReceipt(t)
<1>1. 0 \in 0..MaxDeliveryAttempts
  BY FollowUpAssumption
<1>2. r \in [job : Tickets, state : States, reason : Reasons,
             attempts : 0..MaxDeliveryAttempts, coded : BOOLEAN]
  BY <1>1 DEF CancelReceipt, States, Reasons
<1>3. r.reason \in ReasonsFor(r.state) /\ ~RequiresProviderAttempt(r.reason) /\ ~r.coded
  BY DEF CancelReceipt, ReasonsFor, RequiresProviderAttempt
<1>4. r \in WellFormed
  BY <1>2, <1>3, ReasonsAreAll DEF WellFormed
<1>5. IsTruthful(r)
  BY DEF CancelReceipt, IsTruthful
<1> QED BY <1>4, <1>5

LEMMA CancelKeeps ==
  ASSUME FollowUpInv, NEW t \in Tickets, Cancel(t)
  PROVE  FollowUpInv'
<1>1. ledger' = Recorded(CancelReceipt(t)) /\ UNCHANGED << verdict, work, refused >>
  BY DEF Cancel, CancelReceipt
<1>2. CancelReceipt(t).job \in Tickets
  BY DEF CancelReceipt
<1>3. LedgerInv'
  BY <1>1, <1>2, CancellationIsWellFormed, RecordedKeepsLedger DEF FollowUpInv
<1>4. Workforce'
  BY <1>1 DEF FollowUpInv, Workforce, Sound, IsFinding, IsTruthful, Patient
<1>5. VerdictTypes' /\ VerdictsAreRecordable'
  BY <1>1 DEF FollowUpInv, VerdictTypes, VerdictsAreRecordable
<1> QED BY <1>3, <1>4, <1>5 DEF FollowUpInv

LEMMA FollowUpStep == FollowUpInv /\ [Next]_vars => FollowUpInv'
<1> SUFFICES ASSUME FollowUpInv, [Next]_vars PROVE FollowUpInv'
  OBVIOUS
<1>1. ASSUME NEW w \in Workers, LookUp(w) PROVE FollowUpInv'
  BY <1>1, LookUpKeeps
<1>2. ASSUME NEW w \in Workers, LookupFails(w) PROVE FollowUpInv'
  BY <1>2, LookupFailsKeeps
<1>3. ASSUME NEW w \in Workers, LookupReturns(w) PROVE FollowUpInv'
  BY <1>3, LookupReturnsKeeps
<1>4. ASSUME NEW w \in Workers, Tell(w) PROVE FollowUpInv'
  BY <1>4, TellKeeps
<1>5. ASSUME NEW w \in Workers, Resume(w) PROVE FollowUpInv'
  BY <1>5, ResumeKeeps
<1>6. ASSUME NEW w \in Workers, Crash(w) PROVE FollowUpInv'
  BY <1>6, CrashKeeps
<1>7. ASSUME NEW t \in Tickets, Settle(t) PROVE FollowUpInv'
  BY <1>7, SettleKeeps
<1>8. ASSUME NEW t \in Tickets, Cancel(t) PROVE FollowUpInv'
  BY <1>8, CancelKeeps
<1>9. CASE UNCHANGED vars
  BY <1>9 DEF vars, FollowUpInv, VerdictTypes, Workforce, Sound, Patient, IsFinding, IsTruthful,
              LedgerInv, ReceiptIsTruthful, VerdictsAreRecordable
<1> QED BY <1>1, <1>2, <1>3, <1>4, <1>5, <1>6, <1>7, <1>8, <1>9 DEF Next

(***************************************************************************)
(* The theorems.                                                           *)
(***************************************************************************)
\* The inductive invariant holds in every reachable state.
THEOREM FollowUpInvariance == Spec => []FollowUpInv
  BY FollowUpInit, FollowUpStep, PTL DEF Spec

\* A receipt in the ledger says what Expo said of that notification, and that the budget was
\* used only when it was (receipt.rs, expo.rs:528).
THEOREM ReceiptsAreTruthful == Spec => []ReceiptIsTruthful
<1>1. FollowUpInv => ReceiptIsTruthful
  BY DEF FollowUpInv, LedgerInv
<1> QED BY <1>1, FollowUpInvariance, PTL

\* Lookups keep to the retry policy and to Expo's Retry-After, but for answers that are judged
\* by their document, whose Retry-After is lost (retry.rs:76, expo.rs:276, 616).
THEOREM LookupsArePatient == Spec => []BackoffIsBounded
<1>1. FollowUpInv => BackoffIsBounded
  BY SoundIsPatient DEF FollowUpInv
<1> QED BY <1>1, FollowUpInvariance, PTL

\* Nothing but a ticket that is no provider code, or a policy that goes on past the attempts a
\* receipt may count, keeps a finding out of the ledger (receipt.rs:140-189).
THEOREM FindingsCanBeRecorded == Spec => []VerdictsAreRecordable
<1>1. FollowUpInv => VerdictsAreRecordable
  BY DEF FollowUpInv
<1> QED BY <1>1, FollowUpInvariance, PTL

\* Recording is a step of the abstract ledger, or none.
LEMMA RecordedIsRecord ==
  ASSUME LedgerInv, NEW r \in WellFormed, r.job \in Tickets, ledger' = Recorded(r)
  PROVE  [L!Next]_ledger
<1> DEFINE Keys == { ReceiptKey(t) : t \in Tickets }
           k == ReceiptKey(r.job)
<1>1. k \in Keys /\ ledger \in [Keys -> { NoReceipt } \cup WellFormed]
  BY DEF LedgerInv
<1>2. CASE ledger[k] = NoReceipt
  <2>1. ledger' = [ledger EXCEPT ![k] = r]
    BY <1>2 DEF Recorded
  <2>2. ledger'[k] = r
    BY <1>1, <2>1
  <2>3. L!Record(k)
    BY <1>2, <2>1, <2>2 DEF L!Record
  <2> QED BY <1>1, <2>3 DEF L!Next
<1>3. CASE ledger[k] # NoReceipt
  BY <1>3 DEF Recorded
<1> QED BY <1>2, <1>3

LEMMA LedgerStep == FollowUpInv /\ [Next]_vars => [L!Next]_ledger
<1> SUFFICES ASSUME FollowUpInv, [Next]_vars PROVE [L!Next]_ledger
  OBVIOUS
<1>1. ASSUME NEW w \in Workers, Tell(w) PROVE [L!Next]_ledger
  <2>1. PICK f \in work[w].found :
          IF TerminalError(f, CodeOf(f)) = None
          THEN ledger' = Recorded(f) /\ UNCHANGED refused
          ELSE /\ refused' =
                    refused \cup { [receipt |-> f, error |-> TerminalError(f, CodeOf(f))] }
               /\ UNCHANGED ledger
    BY <1>1 DEF Tell
  <2>2. IsFinding(f)
    BY <1>1, <2>1 DEF FollowUpInv, Workforce, Sound
  <2>3. CASE TerminalError(f, CodeOf(f)) = None
    <3>1. f \in WellFormed /\ f.job \in Tickets
      BY <2>2, <2>3, FindingIsWellFormed
    <3> QED BY <2>1, <2>3, <3>1, RecordedIsRecord DEF FollowUpInv
  <2>4. CASE TerminalError(f, CodeOf(f)) # None
    BY <2>1, <2>4
  <2> QED BY <2>3, <2>4
<1>2. ASSUME NEW t \in Tickets, Cancel(t) PROVE [L!Next]_ledger
  <2>1. ledger' = Recorded(CancelReceipt(t)) /\ CancelReceipt(t).job \in Tickets
    BY <1>2 DEF Cancel, CancelReceipt
  <2> QED BY <2>1, CancellationIsWellFormed, RecordedIsRecord DEF FollowUpInv
<1>3. ASSUME NEW w \in Workers,
             LookUp(w) \/ LookupFails(w) \/ LookupReturns(w) \/ Resume(w) \/ Crash(w)
      PROVE  UNCHANGED ledger
  BY <1>3 DEF LookUp, LookupFails, LookupReturns, Resume, Crash
<1>4. ASSUME NEW t \in Tickets, Settle(t) PROVE UNCHANGED ledger
  BY <1>4 DEF Settle
<1>5. CASE UNCHANGED vars
  BY <1>5 DEF vars
<1> QED BY <1>1, <1>2, <1>3, <1>4, <1>5 DEF Next

\* Every step of the workers, of Expo and of callers is one of the abstract ledger or leaves it
\* alone: under a key the first well-formed receipt stands (receipt.rs:213).
THEOREM LedgerIsInsertOnce == Spec => ImplementsLedger
<1>1. Init => L!Init
  BY DEF Init, L!Init
<1> QED
  BY <1>1, LedgerStep, FollowUpInit, FollowUpStep, PTL DEF Spec, ImplementsLedger, L!Spec

\* What a receipt was made of does not change either: Expo's verdict is given once.
LEMMA VerdictsStand ==
  ASSUME FollowUpInv, [Next]_vars, NEW t \in Tickets, verdict[t] # None
  PROVE  verdict'[t] = verdict[t]
<1>1. ASSUME NEW u \in Tickets, Settle(u) PROVE verdict'[t] = verdict[t]
  <2>1. PICK v : verdict' = [verdict EXCEPT ![u] = v]
    BY <1>1 DEF Settle
  <2>2. u # t
    BY <1>1 DEF Settle
  <2> QED BY <2>1, <2>2
<1>2. ASSUME NEW w \in Workers,
             \/ LookUp(w) \/ LookupFails(w) \/ LookupReturns(w) \/ Tell(w) \/ Resume(w)
             \/ Crash(w)
      PROVE  verdict' = verdict
  BY <1>2 DEF LookUp, LookupFails, LookupReturns, Tell, Resume, Crash
<1>3. ASSUME NEW u \in Tickets, Cancel(u) PROVE verdict' = verdict
  BY <1>3 DEF Cancel
<1>4. CASE UNCHANGED vars
  BY <1>4 DEF vars
<1> QED BY <1>1, <1>2, <1>3, <1>4 DEF Next

\* A receipt in the ledger and a verdict of Expo are not changed by a step.
WhatStandsStays ==
  /\ \A key \in DOMAIN ledger : ledger[key] # NoReceipt => ledger'[key] = ledger[key]
  /\ \A t \in Tickets : verdict[t] # None => verdict'[t] = verdict[t]

\* A receipt is final: no replica, replay, late answer or cancellation puts another one in its
\* place, and the verdict it speaks of stays what it was (receipt.rs:221-236).
THEOREM ReceiptsAreFinal == Spec => [][WhatStandsStays]_vars
<1>1. ASSUME FollowUpInv, [Next]_vars, NEW key \in DOMAIN ledger, ledger[key] # NoReceipt
      PROVE  ledger'[key] = ledger[key]
  <2> DEFINE Keys == { ReceiptKey(t) : t \in Tickets }
  <2>1. ledger \in [Keys -> { NoReceipt } \cup WellFormed]
    BY <1>1 DEF FollowUpInv, LedgerInv
  <2>2. [L!Next]_ledger
    BY <1>1, LedgerStep
  <2>3. ASSUME NEW k \in Keys, L!Record(k) PROVE ledger'[key] = ledger[key]
    <3>1. ledger[k] = NoReceipt /\ ledger' = [ledger EXCEPT ![k] = ledger'[k]]
      BY <2>3 DEF L!Record
    <3> QED BY <1>1, <2>1, <3>1
  <2> QED BY <2>2, <2>3 DEF L!Next
<1>2. FollowUpInv /\ [Next]_vars => WhatStandsStays
  BY <1>1, VerdictsStand DEF WhatStandsStays
<1> QED BY <1>2, FollowUpInit, FollowUpStep, PTL DEF Spec
=============================================================================
