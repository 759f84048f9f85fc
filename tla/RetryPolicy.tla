----------------------------- MODULE RetryPolicy -----------------------------
(***************************************************************************)
(* The retry arithmetic of src/src/retry.rs.  Durations are milliseconds;  *)
(* MaxRetryAfter is the 24-hour ceiling, JitterScale the 10 000 basis      *)
(* points of a whole and MaxJitter the 5 000 a policy may ask for.         *)
(* NoDuration stands for Option::None.                                     *)
(***************************************************************************)
EXTENDS Integers

CONSTANTS MaxRetryAfter, JitterScale, MaxJitter

ASSUME RetryAssumption ==
  /\ MaxRetryAfter \in Nat \ {0} /\ JitterScale \in Nat \ {0} /\ MaxJitter \in Nat
  /\ 2 * MaxJitter <= JitterScale

NoDuration == -1

Least(a, b) == IF a <= b THEN a ELSE b
Greatest(a, b) == IF a >= b THEN a ELSE b

Durations == 0..MaxRetryAfter

Capped(duration) ==
  IF duration = NoDuration THEN NoDuration ELSE Least(duration, MaxRetryAfter)

(***************************************************************************)
(* Classification of an HTTP status by the shared table.                   *)
(***************************************************************************)
RetryableStatus(status) == status \in { 408, 425, 429 } \cup 500..599

\* a decision keeps the provider's delay, capped, only when it is retryable
ClassifyHttpStatus(status, retryAfter) ==
  [ retryable |-> RetryableStatus(status),
    retryAfter |-> IF RetryableStatus(status) THEN Capped(retryAfter) ELSE NoDuration ]

\* Mutants, here and elsewhere under the prefix Bug: a delay as large as the provider likes, and
\* seconds taken for milliseconds.
BugParseRetryAfter(header, now) ==
  CASE header.form = "seconds" -> 1000 * header.value
    [] header.form = "date"    -> Greatest(header.value - now, 0)
    [] OTHER                   -> NoDuration

BugParseSeconds(header, now) ==
  CASE header.form = "seconds" -> Least(header.value, MaxRetryAfter)
    [] header.form = "date"    -> Least(Greatest(header.value - now, 0), MaxRetryAfter)
    [] OTHER                   -> NoDuration

\* a Retry-After header: delta seconds, an HTTP date (a time already past gives zero), or
\* text that is neither
ParseRetryAfter(header, now) ==
  CASE header.form = "seconds" -> Least(1000 * header.value, MaxRetryAfter)
    [] header.form = "date"    -> Least(Greatest(header.value - now, 0), MaxRetryAfter)
    [] OTHER                   -> NoDuration

(***************************************************************************)
(* The schedule.                                                           *)
(***************************************************************************)
NewPolicy(baseDelay, maxDelay, maxAttempts, jitter) ==
  LET base == Greatest(baseDelay, 1) IN
  [ base        |-> base,
    max         |-> Least(Greatest(maxDelay, base), MaxRetryAfter),
    maxAttempts |-> Greatest(maxAttempts, 1),
    jitter      |-> Least(jitter, MaxJitter) ]

\* what the exponential part of the schedule is cut down to
CappedDelay(policy, multiplier) == Least(policy.base * multiplier, policy.max)

JitterWindow(policy, capped) == (capped * policy.jitter) \div JitterScale

\* jitter on top of the capped delay
BugJittered(policy, multiplier, entropy, retryAfter) ==
  LET capped == CappedDelay(policy, multiplier)
      local  == capped + (entropy % (JitterWindow(policy, capped) + 1))
      floor  == IF retryAfter = NoDuration THEN 0 ELSE Least(retryAfter, MaxRetryAfter)
  IN  Least(Greatest(local, floor), MaxRetryAfter)

\* jitter only shortens the local delay; the provider's delay is a floor under it
Jittered(policy, multiplier, entropy, retryAfter) ==
  LET capped == CappedDelay(policy, multiplier)
      local  == capped - (entropy % (JitterWindow(policy, capped) + 1))
      floor  == IF retryAfter = NoDuration THEN 0 ELSE Least(retryAfter, MaxRetryAfter)
  IN  Least(Greatest(local, floor), MaxRetryAfter)

DelayForAttempt(policy, attempt, entropy, retryAfter) ==
  IF attempt >= policy.maxAttempts
  THEN NoDuration
  ELSE Jittered(policy, 2 ^ Least(attempt, 63), entropy, retryAfter)
=============================================================================
