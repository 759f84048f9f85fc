----------------------- MODULE ContactRateLimiterProofs -----------------------
(***************************************************************************)
(* The contact rate limiter keeps its quota in every window, its hints are *)
(* honest and it is a token bucket, for every limit, number of callers and *)
(* granularity of time.                                                    *)
(***************************************************************************)
EXTENDS ContactRateLimiter, TLAPS

LEMMA RateType == PerMinute \in Nat \ {0} /\ Capacity \in Nat /\ Capacity >= Minute
<1>1. PerMinute \in Nat \ {0}
  BY LimiterAssumption DEF PerMinute
<1>2. ASSUME NEW p \in Nat \ {0}, NEW m \in Nat \ {0}
      PROVE  p * m \in Nat /\ p * m >= m
  BY <1>2
<1> QED BY <1>1, <1>2, LimiterAssumption DEF Capacity

\* Division with a positive divisor.
LEMMA Division ==
  ASSUME NEW n \in Nat, NEW d \in Nat \ {0}
  PROVE  /\ n \div d \in Nat
         /\ d * (n \div d) <= n
         /\ n < d * (n \div d) + d
  OBVIOUS

\* A quotient is known from its bounds.
LEMMA Quotient ==
  ASSUME NEW n \in Nat, NEW d \in Nat \ {0}, NEW q \in Int,
         d * q <= n, n < d * q + d
  PROVE  n \div d = q
<1> DEFINE p == n \div d
<1>1. p \in Nat /\ d * p <= n /\ n < d * p + d
  BY Division
<1> HIDE DEF p
<1>2. ~(p < q)
  <2> SUFFICES ASSUME p < q PROVE FALSE
    OBVIOUS
  <2>1. d * (p + 1) <= d * q
    BY <1>1
  <2> QED BY <1>1, <2>1
<1>3. ~(q < p)
  <2> SUFFICES ASSUME q < p PROVE FALSE
    OBVIOUS
  <2>1. d * (q + 1) <= d * p
    BY <1>1
  <2> QED BY <1>1, <2>1
<1>4. p = q
  BY <1>1, <1>2, <1>3
<1> QED BY <1>4 DEF p

\* More never divides to less.
LEMMA DivisionIsMonotone ==
  ASSUME NEW m \in Nat, NEW n \in Nat, NEW d \in Nat \ {0}, m <= n
  PROVE  m \div d <= n \div d
<1> DEFINE p == m \div d
           q == n \div d
<1>1. p \in Nat /\ q \in Nat /\ d * p <= m /\ n < d * q + d
  BY Division
<1> HIDE DEF p, q
<1> SUFFICES ASSUME q < p PROVE FALSE
  BY <1>1 DEF p, q
<1>2. d * (q + 1) <= d * p
  BY <1>1
<1> QED BY <1>1, <1>2

\* The hint is short by less than a millisecond's refill, and covers what is missing when
\* less than that is missing.
LEMMA HintFacts ==
  ASSUME NEW missing \in Nat, missing <= Minute
  PROVE  /\ Hint(missing) \in Milli..Minute
         /\ Hint(missing) * PerMinute > missing - PerMinute * Milli
         /\ missing < PerMinute * Milli => Hint(missing) * PerMinute >= missing
<1> DEFINE rounded == (2 * missing + PerMinute) \div (2 * PerMinute)
           clamped == IF rounded < Floor THEN Floor
                      ELSE IF rounded > Minute THEN Minute ELSE rounded
           q == clamped \div Milli
           hint == Milli * q
<1>0. /\ PerMinute \in Nat \ {0} /\ 2 * PerMinute \in Nat \ {0}
      /\ Minute \in Nat \ {0} /\ Milli \in Nat \ {0} /\ Floor \in Milli..Minute
  BY RateType, LimiterAssumption
<1>1. rounded \in Nat /\ 2 * missing + PerMinute < 2 * PerMinute * rounded + 2 * PerMinute
  <2> DEFINE n == 2 * missing + PerMinute
             d == 2 * PerMinute
  <2>1. n \in Nat /\ d \in Nat \ {0}
    BY <1>0
  <2> HIDE DEF n, d
  <2>2. n \div d \in Nat /\ n < d * (n \div d) + d
    BY <2>1, Division
  <2> QED BY <2>2 DEF n, d
<1>2. Hint(missing) = hint
  BY DEF Hint
<1> HIDE DEF rounded
<1>3. clamped \in Milli..Minute /\ (clamped >= rounded \/ clamped = Minute)
  BY <1>0, <1>1
<1> HIDE DEF clamped
<1>4. 2 * (PerMinute * clamped) > 2 * missing - PerMinute
  <2>1. CASE clamped >= rounded
    <3>1. PerMinute * clamped >= PerMinute * rounded
      BY <1>0, <1>1, <1>3, <2>1
    <3>2. 2 * PerMinute * rounded = 2 * (PerMinute * rounded)
      BY <1>0, <1>1
    <3>3. PerMinute * rounded \in Nat /\ PerMinute * clamped \in Nat
      BY <1>0, <1>1, <1>3
    <3> QED BY <1>0, <1>1, <3>1, <3>2, <3>3
  <2>2. CASE clamped = Minute
    <3>1. PerMinute * Minute >= Minute /\ PerMinute * Minute \in Nat
      BY <1>0
    <3> QED BY <1>0, <2>2, <3>1
  <2> QED BY <1>3, <2>1, <2>2
<1>5. q \in Nat /\ Milli * q <= clamped /\ clamped < Milli * q + Milli
  BY <1>0, <1>3, Division
<1> HIDE DEF q
<1>6. hint \in Nat /\ hint <= clamped /\ clamped + 1 <= hint + Milli
  BY <1>0, <1>3, <1>5
<1>7. hint >= Milli
  <2>1. q # 0
    BY <1>0, <1>3, <1>5
  <2> QED BY <1>0, <1>5, <2>1
<1> HIDE DEF hint
<1>8. PerMinute * clamped + PerMinute <= hint * PerMinute + PerMinute * Milli
  <2>1. PerMinute * (clamped + 1) <= PerMinute * (hint + Milli)
    BY <1>0, <1>3, <1>6
  <2>2. /\ PerMinute * (clamped + 1) = PerMinute * clamped + PerMinute
        /\ PerMinute * (hint + Milli) = hint * PerMinute + PerMinute * Milli
    BY <1>0, <1>3, <1>6
  <2> QED BY <2>1, <2>2
<1>9. /\ PerMinute * clamped \in Nat /\ hint * PerMinute \in Nat /\ PerMinute * Milli \in Nat
      /\ hint * PerMinute >= PerMinute * Milli
  BY <1>0, <1>3, <1>6, <1>7
<1>10. hint * PerMinute > missing - PerMinute * Milli
  BY <1>0, <1>4, <1>8, <1>9
<1> QED BY <1>0, <1>2, <1>3, <1>6, <1>7, <1>9, <1>10

-----------------------------------------------------------------------------
\* What the window was granted and what the bucket holds come from a full bucket and the
\* refill since the window began.
WindowInv ==
  /\ before <= granted
  /\ \/ granted = before
     \/ /\ since <= last
        /\ (granted - before) * Minute + level <= Capacity + PerMinute * (last - since)

\* What the bucket will hold, if it does not overflow, when the time of a caller's hint is over.
AtHint(c) == level + (told[c].at + told[c].hint - last) * PerMinute

\* That is short of a token by less than a millisecond's refill, and no longer short once the
\* caller has heeded a hint.
ToldInv ==
  \A c \in Callers :
    told[c] # None =>
      /\ AtHint(c) > Minute - PerMinute * Milli
      /\ told[c].heeded => AtHint(c) >= Minute

BucketInv ==
  /\ TypeOK
  /\ last <= clock /\ since <= clock
  /\ WindowInv
  /\ ToldInv

\* What a refill does to the level.
LEMMA RefilledFacts ==
  ASSUME TypeOK, last <= clock
  PROVE  /\ Refilled(clock) \in 0..Capacity
         /\ Refilled(clock) >= level
         /\ Refilled(clock) <= level + (clock - last) * PerMinute
         /\ \/ Refilled(clock) = Capacity
            \/ Refilled(clock) = level + (clock - last) * PerMinute
<1>1. clock - last \in Nat /\ Elapsed(clock) = clock - last /\ level \in 0..Capacity
  BY LimiterAssumption DEF TypeOK, Elapsed
<1>2. (clock - last) * PerMinute \in Nat
  BY <1>1, RateType
<1> QED BY <1>1, <1>2, RateType DEF Refilled

\* What a caller was told, as numbers.
LEMMA ToldTypes ==
  ASSUME TypeOK, NEW c \in Callers
  PROVE  /\ told[c].at \in Int /\ told[c].hint \in Nat /\ told[c].heeded \in BOOLEAN
         /\ level \in Nat /\ last \in Nat /\ AtHint(c) \in Int
<1>1. told[c].at \in Int /\ told[c].hint \in Nat /\ told[c].heeded \in BOOLEAN
  <2>1. CASE told[c] = None
    BY <2>1 DEF None
  <2>2. CASE told[c] \in [at : 0..MaxTime, hint : Milli..Minute, heeded : BOOLEAN]
    <3>1. told[c].at \in 0..MaxTime /\ told[c].hint \in Milli..Minute
          /\ told[c].heeded \in BOOLEAN
      BY <2>2
    <3> QED BY <3>1, LimiterAssumption
  <2> QED BY <2>1, <2>2 DEF TypeOK
<1>2. level \in Nat /\ last \in Nat /\ PerMinute \in Nat
  BY RateType, LimiterAssumption DEF TypeOK
<1>3. (told[c].at + told[c].hint - last) * PerMinute \in Int
  BY <1>1, <1>2
<1> QED BY <1>1, <1>2, <1>3 DEF AtHint

\* When the time of a hint is over the bucket holds what AtHint says, or a token.
LEMMA HintIsOver ==
  ASSUME TypeOK, last <= clock, NEW c \in Callers, clock >= told[c].at + told[c].hint
  PROVE  Refilled(clock) >= Minute \/ Refilled(clock) >= AtHint(c)
<1> DEFINE due == told[c].at + told[c].hint - last
<1>1. /\ due \in Int /\ clock - last \in Nat /\ due <= clock - last
      /\ PerMinute \in Nat \ {0} /\ level \in Nat
      /\ Minute \in Nat /\ Capacity \in Nat /\ Capacity >= Minute
  BY ToldTypes, RateType, LimiterAssumption DEF TypeOK
<1>2. AtHint(c) = level + due * PerMinute
  BY DEF AtHint
<1> HIDE DEF due
<1>3. due * PerMinute <= (clock - last) * PerMinute
      /\ due * PerMinute \in Int /\ (clock - last) * PerMinute \in Int
  BY <1>1
<1> QED BY <1>1, <1>2, <1>3, RefilledFacts

\* Steps that leave the bucket and the hints alone.
LEMMA ToldUnchanged ==
  ASSUME ToldInv, UNCHANGED <<bucket, told>> PROVE ToldInv'
  BY DEF ToldInv, AtHint, bucket, PerMinute, None

LEMMA BucketInit == Init => BucketInv
<1> SUFFICES ASSUME Init PROVE BucketInv
  OBVIOUS
<1>1. TypeOK
  BY LimiterAssumption, RateType DEF Init, TypeOK, Absent
<1> QED BY <1>1, LimiterAssumption DEF Init, BucketInv, WindowInv, ToldInv

LEMMA BucketStep == BucketInv /\ [Next]_vars => BucketInv'
<1> SUFFICES ASSUME BucketInv, [Next]_vars PROVE BucketInv'
  OBVIOUS
<1>0. /\ TypeOK /\ last <= clock /\ since <= clock /\ WindowInv /\ ToldInv
      /\ clock \in Nat /\ last \in Nat /\ since \in Nat /\ granted \in Nat /\ before \in Nat
      /\ level \in Nat
  BY LimiterAssumption DEF BucketInv, TypeOK
<1>r. PerMinute \in Nat \ {0} /\ Minute \in Nat \ {0} /\ Capacity \in Nat /\ Capacity >= Minute
  BY RateType, LimiterAssumption
<1> DEFINE filled == Refilled(clock)
<1>f. /\ filled \in 0..Capacity /\ filled >= level
      /\ filled <= level + (clock - last) * PerMinute
  BY <1>0, RefilledFacts
<1> HIDE DEF filled
<1>1. ASSUME NEW c \in Callers, Arrive(c) PROVE BucketInv'
  <2>1. ToldInv'
    BY <1>0, <1>1, ToldUnchanged DEF Arrive, history
  <2> QED BY <1>0, <1>1, <2>1 DEF Arrive, bucket, history, BucketInv, TypeOK, WindowInv,
                    Capacity, PerMinute
<1>2. ASSUME NEW c \in Callers, Grant(c) PROVE BucketInv'
  <2>1. /\ level' = filled - Minute /\ filled >= Minute /\ last' = clock
        /\ granted' = granted + 1 /\ told' = [d \in Callers |-> None]
        /\ clock' = clock /\ since' = since /\ before' = before
        /\ arrived' = [arrived EXCEPT ![c] = Absent]
    BY <1>2 DEF Grant, Now, filled
  <2>2. TypeOK'
    BY <1>0, <1>r, <1>f, <2>1 DEF TypeOK, Absent, Capacity, PerMinute
  <2>3. WindowInv'
    <3> DEFINE n == granted - before
    <3>1. n \in Nat /\ granted' - before' = n + 1
      BY <1>0, <2>1 DEF WindowInv
    <3> HIDE DEF n
    <3>2. (n + 1) * Minute + level' = n * Minute + filled
      BY <1>f, <1>r, <2>1, <3>1
    <3>3. n * Minute + filled <= Capacity + PerMinute * (clock - since)
      <4>1. CASE granted = before
        <5>1. n * Minute = 0 /\ PerMinute * (clock - since) >= 0
          BY <1>0, <1>r, <4>1 DEF n
        <5> QED BY <1>f, <1>r, <5>1, <1>0
      <4>2. CASE granted # before
        <5>1. n * Minute + level <= Capacity + PerMinute * (last - since)
          BY <1>0, <4>2 DEF WindowInv, n
        <5>2. PerMinute * (clock - since)
                = PerMinute * (last - since) + (clock - last) * PerMinute
          BY <1>0, <1>r
        <5>3. n * Minute \in Nat /\ PerMinute * (last - since) \in Int
          BY <1>0, <1>r, <3>1
        <5> QED BY <1>0, <1>r, <1>f, <5>1, <5>2, <5>3
      <4> QED BY <4>1, <4>2
    <3>4. PerMinute' = PerMinute /\ Capacity' = Capacity
      BY DEF PerMinute, Capacity
    <3> QED BY <1>0, <2>1, <3>1, <3>2, <3>3, <3>4 DEF WindowInv
  <2>4. ToldInv'
    BY <2>1 DEF ToldInv
  <2> QED BY <1>0, <2>1, <2>2, <2>3, <2>4 DEF BucketInv
<1>3. ASSUME NEW c \in Callers, Refuse(c) PROVE BucketInv'
  <2>1. /\ level' = filled /\ filled < Minute /\ last' = clock
        /\ told' = [told EXCEPT ![c] = [at |-> clock, hint |-> Hint(Minute - filled),
                                        heeded |-> Heeds(c)]]
        /\ clock' = clock /\ since' = since /\ before' = before /\ granted' = granted
        /\ arrived' = [arrived EXCEPT ![c] = Absent]
    BY <1>3 DEF Refuse, Tell, Now, filled
  <2> DEFINE hint == Hint(Minute - filled)
             short == PerMinute * Milli
  <2>2. /\ hint \in Milli..Minute
        /\ hint * PerMinute > Minute - filled - short
        /\ Minute - filled < short => hint * PerMinute >= Minute - filled
    BY <1>f, <1>r, <2>1, HintFacts
  <2> HIDE DEF hint
  <2>t. \A d \in Callers : told'[d] = IF d = c THEN [at |-> clock, hint |-> hint,
                                                     heeded |-> Heeds(c)] ELSE told[d]
    BY <1>0, <2>1 DEF TypeOK, hint
  <2>3. TypeOK'
    <3>1. told' \in [Callers ->
             [at : 0..MaxTime, hint : Milli..Minute, heeded : BOOLEAN] \cup { None }]
      <4>1. Heeds(c) \in BOOLEAN
        BY DEF Heeds
      <4>2. [at |-> clock, hint |-> hint, heeded |-> Heeds(c)]
              \in [at : 0..MaxTime, hint : Milli..Minute, heeded : BOOLEAN]
        BY <1>0, <2>2, <4>1 DEF TypeOK
      <4> QED BY <1>0, <2>1, <4>2 DEF TypeOK, hint
    <3> QED BY <1>0, <1>r, <1>f, <2>1, <3>1 DEF TypeOK, Absent, Capacity, PerMinute
  <2>4. WindowInv'
    <3>1. CASE granted = before
      BY <1>0, <2>1, <3>1 DEF WindowInv
    <3>2. CASE granted # before
      <4> DEFINE n == (granted - before) * Minute
      <4>1. n \in Int
        BY <1>0, <1>r
      <4>2. since <= last /\ n + level <= Capacity + PerMinute * (last - since)
        BY <1>0, <3>2 DEF WindowInv
      <4> HIDE DEF n
      <4>3. PerMinute * (clock - since)
              = PerMinute * (last - since) + (clock - last) * PerMinute
            /\ PerMinute * (last - since) \in Int /\ (clock - last) * PerMinute \in Int
        BY <1>0, <1>r
      <4>4. n + filled <= Capacity + PerMinute * (clock - since)
        BY <1>0, <1>r, <1>f, <4>1, <4>2, <4>3
      <4>5. PerMinute' = PerMinute /\ Capacity' = Capacity
        BY DEF PerMinute, Capacity
      <4> QED BY <1>0, <2>1, <4>4, <4>5 DEF WindowInv, n
    <3> QED BY <3>1, <3>2
  <2>5. ToldInv'
    <3>0. filled = level + (clock - last) * PerMinute /\ short \in Nat
      BY <1>0, <1>f, <1>r, <2>1, RefilledFacts, LimiterAssumption DEF filled
    <3> HIDE DEF short
    <3> SUFFICES ASSUME NEW d \in Callers, told'[d] # None
                 PROVE  /\ AtHint(d)' > Minute - short
                        /\ told'[d].heeded => AtHint(d)' >= Minute
      BY <2>1 DEF ToldInv, None, short, PerMinute
    <3>1. AtHint(d)' = filled + (told'[d].at + told'[d].hint - clock) * PerMinute
      BY <2>1 DEF AtHint, PerMinute
    <3>2. CASE d # c
      <4>1. told'[d] = told[d]
        BY <2>t, <3>2
      <4>2. told[d].at \in Int /\ told[d].hint \in Nat
        BY <1>0, ToldTypes
      <4> DEFINE due == told[d].at + told[d].hint
      <4>3. (due - last) * PerMinute = (clock - last) * PerMinute + (due - clock) * PerMinute
            /\ (clock - last) * PerMinute \in Int /\ (due - clock) * PerMinute \in Int
        BY <1>0, <1>r, <4>2
      <4>4. AtHint(d) = level + (due - last) * PerMinute
        BY <1>0, <4>2 DEF AtHint
      <4>5. AtHint(d)' = filled + (due - clock) * PerMinute
        BY <1>0, <3>1, <4>1, <4>2
      <4> HIDE DEF due
      <4>6. AtHint(d)' = AtHint(d)
        BY <1>0, <3>0, <4>3, <4>4, <4>5
      <4>7. told[d] # None
        BY <4>1
      <4> QED BY <1>0, <4>1, <4>6, <4>7 DEF ToldInv, short
    <3>3. CASE d = c
      <4>1. told'[d].at = clock /\ told'[d].hint = hint /\ told'[d].heeded = Heeds(c)
        BY <2>t, <3>3
      <4>2. hint \in Nat /\ clock + hint - clock = hint /\ hint * PerMinute \in Nat
        BY <1>0, <1>r, <2>2, LimiterAssumption
      <4>3. AtHint(d)' = filled + hint * PerMinute
        BY <3>1, <4>1, <4>2
      <4>4. ASSUME Heeds(c) PROVE Minute - filled < short
        <5>1. told[c] # None /\ clock >= told[c].at + told[c].hint
          BY <4>4 DEF Heeds, Now
        <5>2. filled >= AtHint(c) /\ AtHint(c) \in Int
          BY <1>0, <1>f, <1>r, <2>1, <5>1, HintIsOver, ToldTypes DEF filled
        <5>3. AtHint(c) > Minute - short
          BY <1>0, <5>1 DEF ToldInv, short
        <5> QED BY <1>f, <1>r, <3>0, <5>2, <5>3
      <4>5. filled \in Nat
        BY <1>f, <1>r
      <4> QED BY <1>r, <2>2, <3>0, <4>1, <4>2, <4>3, <4>4, <4>5
    <3> QED BY <3>2, <3>3
  <2> QED BY <1>0, <2>1, <2>3, <2>4, <2>5 DEF BucketInv
<1>4. ASSUME NEW c \in Callers, Abandon(c) PROVE BucketInv'
  <2>1. ToldInv'
    BY <1>0, <1>4, ToldUnchanged DEF Abandon, history
  <2> QED BY <1>0, <1>4, <2>1 DEF Abandon, bucket, history, BucketInv, TypeOK, WindowInv,
                    Capacity, PerMinute
<1>5. CASE Tick
  <2>1. ToldInv'
    BY <1>0, <1>5, ToldUnchanged DEF Tick, history
  <2> QED BY <1>0, <1>5, <2>1, LimiterAssumption DEF Tick, bucket, history, BucketInv, TypeOK,
                    WindowInv, Capacity, PerMinute
<1>6. CASE Observe
  <2>1. ToldInv'
    BY <1>0, <1>6, ToldUnchanged DEF Observe
  <2> QED BY <1>0, <1>6, <2>1 DEF Observe, bucket, BucketInv, TypeOK, WindowInv,
                    Capacity, PerMinute
<1>7. CASE UNCHANGED vars
  <2>1. ToldInv'
    BY <1>0, <1>7, ToldUnchanged DEF vars, bucket
  <2> QED BY <1>0, <1>7, <2>1 DEF vars, BucketInv, TypeOK, WindowInv, Capacity, PerMinute
<1> QED BY <1>1, <1>2, <1>3, <1>4, <1>5, <1>6, <1>7 DEF Next

THEOREM BucketInvariance == Spec => []BucketInv
<1> QED BY BucketInit, BucketStep, PTL DEF Spec

\* Every variable of the limiter keeps its type: the level never passes a full bucket, nor does
\* a hint pass its clamp (rate_limit.rs:46-63).
THEOREM LimiterTypes == Spec => []TypeOK
<1>1. BucketInv => TypeOK
  BY DEF BucketInv
<1> QED BY <1>1, BucketInvariance, PTL

\* try_take keeps its quota in every window of time.
THEOREM QuotaIsKept == Spec => []GrantsAreBounded
<1>1. BucketInv => GrantsAreBounded
  <2> SUFFICES ASSUME BucketInv PROVE GrantsAreBounded
    OBVIOUS
  <2>0. /\ last <= clock /\ since <= clock /\ WindowInv
        /\ clock \in Nat /\ last \in Nat /\ since \in Nat /\ granted \in Nat /\ before \in Nat
        /\ level \in Nat
        /\ PerMinute \in Nat \ {0} /\ Minute \in Nat \ {0} /\ Capacity \in Nat
    BY RateType, LimiterAssumption DEF BucketInv, TypeOK
  <2>1. CASE granted = before
    <3>1. (granted - before) * Minute = 0 /\ PerMinute * (clock - since) >= 0
      BY <2>0, <2>1
    <3> QED BY <2>0, <3>1 DEF GrantsAreBounded
  <2>2. CASE granted # before
    <3>1. PerMinute * (clock - since) = PerMinute * (last - since) + PerMinute * (clock - last)
          /\ PerMinute * (last - since) \in Int /\ PerMinute * (clock - last) \in Nat
          /\ (granted - before) * Minute \in Int
      BY <2>0
    <3> QED BY <2>0, <2>2, <3>1 DEF WindowInv, GrantsAreBounded
  <2> QED BY <2>1, <2>2
<1> QED BY <1>1, BucketInvariance, PTL

\* A hint of try_take, cut to whole milliseconds by its callers (rate_limit.rs:57-63,
\* contact/http.rs:270-272), is short of the next token by less than a millisecond's refill, and
\* a caller that waited as told and was refused again is then told a time that suffices.
THEOREM HintsAreHonest == Spec => []HintSuffices
<1>1. BucketInv => HintSuffices
  <2> SUFFICES ASSUME BucketInv, NEW c \in Callers,
                      told[c] # None, clock >= told[c].at + told[c].hint
               PROVE  \/ Refilled(clock) >= Minute
                      \/ ~told[c].heeded /\ Refilled(clock) + PerMinute * Milli > Minute
    BY DEF HintSuffices
  <2>1. /\ TypeOK /\ last <= clock
        /\ AtHint(c) > Minute - PerMinute * Milli
        /\ told[c].heeded => AtHint(c) >= Minute
    BY DEF BucketInv, ToldInv
  <2>2. AtHint(c) \in Int /\ Refilled(clock) \in Nat /\ told[c].heeded \in BOOLEAN
        /\ Minute \in Nat /\ PerMinute * Milli \in Nat
    BY <2>1, ToldTypes, RefilledFacts, RateType, LimiterAssumption
  <2>3. Refilled(clock) >= Minute \/ Refilled(clock) >= AtHint(c)
    BY <2>1, HintIsOver
  <2> QED BY <2>1, <2>2, <2>3
<1> QED BY <1>1, BucketInvariance, PTL

-----------------------------------------------------------------------------
\* The limiter is a token bucket: what it holds in whole tokens falls by one with every
\* grant and otherwise only rises, up to the burst.
THEOREM LimiterImplementsBucket == Spec => ImplementsTokenBucket
<1> DEFINE filled == Refilled(clock)
<1>r. PerMinute \in Nat \ {0} /\ Minute \in Nat \ {0} /\ Capacity \in Nat
      /\ Capacity = Minute * PerMinute /\ Capacity \div Minute = PerMinute
  <2>1. PerMinute \in Nat \ {0} /\ Minute \in Nat \ {0} /\ Capacity \in Nat
    BY RateType, LimiterAssumption
  <2>2. Capacity = Minute * PerMinute
    BY <2>1 DEF Capacity
  <2>3. Capacity < Minute * PerMinute + Minute
    BY <2>1, <2>2
  <2> QED BY <2>1, <2>2, <2>3, Quotient
<1>1. Init => AbstractBucket!Init
  <2> SUFFICES ASSUME Init PROVE AbstractBucket!Init
    OBVIOUS
  <2>1. TypeOK /\ last <= clock /\ level = Capacity /\ granted = 0
    BY BucketInit DEF BucketInv, Init
  <2>2. filled = Capacity
    BY <2>1, <1>r, RefilledFacts
  <2> QED BY <1>r, <2>1, <2>2 DEF AbstractBucket!Init
<1>2. BucketInv /\ BucketInv' /\ [Next]_vars => [AbstractBucket!Next]_(AbstractBucket!vars)
  <2> SUFFICES ASSUME BucketInv, BucketInv', [Next]_vars
               PROVE  [AbstractBucket!Next]_(AbstractBucket!vars)
    OBVIOUS
  <2>0. /\ TypeOK /\ last <= clock /\ clock \in Nat /\ last \in Nat /\ level \in Nat
        /\ filled \in 0..Capacity
    BY RefilledFacts, LimiterAssumption DEF BucketInv, TypeOK
  <2>1. ASSUME NEW n \in 0..Capacity PROVE n \div Minute \in 0..PerMinute
    BY <1>r, <2>1, DivisionIsMonotone, Division
  \* a step that leaves the bucket alone, or stores what it refilled
  <2>2. ASSUME filled' = filled, granted' = granted
        PROVE  [AbstractBucket!Next]_(AbstractBucket!vars)
    BY <2>2 DEF AbstractBucket!vars
  <2>3. ASSUME bucket' = bucket, clock' = clock PROVE filled' = filled
    BY <2>3 DEF bucket, Refilled, Elapsed, Capacity, PerMinute
  <2>4. ASSUME last' = clock', level' \in 0..Capacity, clock' \in Nat PROVE filled' = level'
    BY <2>4, <1>r DEF Refilled, Elapsed, Capacity, PerMinute
  <2>5. ASSUME NEW c \in Callers, Grant(c) PROVE AbstractBucket!Next
    <3>1. level' = filled - Minute /\ filled >= Minute /\ last' = clock' /\ clock' = clock
          /\ granted' = granted + 1
      BY <2>5 DEF Grant, Now
    <3>2. filled' = filled - Minute
      BY <2>0, <1>r, <2>4, <3>1
    <3>3. (filled - Minute) \div Minute = (filled \div Minute) - 1
      <4> DEFINE q == filled \div Minute
      <4>0. filled \in Nat
        BY <2>0, <1>r
      <4> HIDE DEF filled
      <4>1. q \in Nat /\ Minute * q <= filled /\ filled < Minute * q + Minute
        BY <4>0, <1>r, Division
      <4> HIDE DEF q
      <4>2. Minute * (q - 1) = Minute * q - Minute
        BY <1>r, <4>1
      <4>3. filled - Minute \in Nat /\ q - 1 \in Int
            /\ Minute * (q - 1) <= filled - Minute
            /\ filled - Minute < Minute * (q - 1) + Minute
        BY <2>0, <1>r, <3>1, <4>1, <4>2
      <4>4. (filled - Minute) \div Minute = q - 1
        BY <1>r, <4>3, Quotient
      <4> QED BY <4>4 DEF q
    <3>4. filled \div Minute > 0
      <4>1. filled - Minute \in 0..Capacity
        BY <2>0, <1>r, <3>1
      <4>2. (filled - Minute) \div Minute \in Nat
        BY <4>1, <2>1, <1>r
      <4>3. filled \div Minute \in Nat
        BY <2>0, <2>1, <1>r
      <4> QED BY <3>3, <4>2, <4>3
    <3> QED BY <3>1, <3>2, <3>3, <3>4 DEF AbstractBucket!Next, AbstractBucket!Take
  <2>6. ASSUME NEW c \in Callers, Refuse(c) PROVE filled' = filled /\ granted' = granted
    <3>1. level' = filled /\ last' = clock' /\ clock' = clock /\ granted' = granted
      BY <2>6 DEF Refuse, Now
    <3> QED BY <2>0, <2>4, <3>1
  <2>7. CASE Tick
    <3>1. clock' = clock + 1 /\ level' = level /\ last' = last /\ granted' = granted
      BY <2>7 DEF Tick, bucket, history
    <3>2. filled' \in 0..Capacity /\ filled' >= filled
      <4>1. /\ Elapsed(clock) = clock - last /\ Elapsed(clock)' = (clock + 1) - last
            /\ Capacity' = Capacity /\ PerMinute' = PerMinute
        BY <2>0, <3>1 DEF Elapsed, Capacity, PerMinute
      <4>2. /\ ((clock + 1) - last) * PerMinute = (clock - last) * PerMinute + PerMinute
            /\ (clock - last) * PerMinute \in Nat
        BY <2>0, <1>r
      <4>3. filled' = IF level + ((clock + 1) - last) * PerMinute <= Capacity
                      THEN level + ((clock + 1) - last) * PerMinute ELSE Capacity
        BY <3>1, <4>1 DEF Refilled
      <4>4. filled = IF level + (clock - last) * PerMinute <= Capacity
                     THEN level + (clock - last) * PerMinute ELSE Capacity
        BY <4>1 DEF Refilled
      <4> QED BY <2>0, <1>r, <4>2, <4>3, <4>4
    <3>3. /\ filled' \div Minute \in 0..PerMinute /\ filled \div Minute \in 0..PerMinute
          /\ filled \div Minute <= filled' \div Minute
      BY <2>0, <2>1, <3>2, <1>r, DivisionIsMonotone
    <3> QED BY <3>1, <3>3 DEF AbstractBucket!Next, AbstractBucket!Refill, AbstractBucket!vars
  <2>8. ASSUME \/ \E c \in Callers : Arrive(c) \/ Abandon(c)
               \/ Observe
               \/ UNCHANGED vars
        PROVE  bucket' = bucket /\ clock' = clock /\ granted' = granted
    BY <2>8 DEF Arrive, Abandon, Observe, vars, bucket, history
  <2> QED BY <2>2, <2>3, <2>5, <2>6, <2>7, <2>8 DEF Next
<1> QED BY <1>1, <1>2, BucketInvariance, PTL DEF Spec, ImplementsTokenBucket, AbstractBucket!Spec
=============================================================================
