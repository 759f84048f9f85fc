-------------------------- MODULE ContactRateLimiter --------------------------
(***************************************************************************)
(* The token bucket of src/contact/rate_limit.rs, one per contact provider *)
(* and shared by the HTTP handlers and the durable contact lane. Callers   *)
(* wait for the mutex; the one that gets it refills the bucket by the time *)
(* that passed and takes a token or is told when to come back.             *)
(*                                                                         *)
(* The code counts in fractions of a token. Here one token is Minute       *)
(* parts, so that a unit of time, the nanosecond of Instant and Duration,  *)
(* refills PerMinute whole parts and the arithmetic of the bucket is       *)
(* exact; the rounding of f64 inside the bucket is left out. The retry     *)
(* hint is rounded as the code and its callers round it: to the nearest    *)
(* unit, within its clamp, and then down to whole milliseconds.            *)
(***************************************************************************)
EXTENDS Integers

CONSTANTS
  Callers,   \* tasks that dispatch contact jobs
  Limit,     \* EMAIL_RATE_PER_MIN or SMS_RATE_PER_MIN
  Minute,    \* units of time in a minute
  Milli,     \* units of time in a millisecond
  Floor,     \* units of time in the 0.05 seconds below which no hint falls
  MaxTime    \* bound: how far the clock runs

ASSUME LimiterAssumption ==
  /\ Limit \in Nat
  /\ Minute \in Nat \ {0}
  /\ Milli \in Nat \ {0}
  /\ Floor \in Milli..Minute
  /\ MaxTime \in Nat

VARIABLES
  clock,    \* the monotonic clock behind Instant
  arrived,  \* caller -> when it called try_acquire, or Absent
  level,    \* tokens of the bucket, in parts
  last,     \* when the bucket was last refilled
  granted,  \* history: tokens granted so far
  since,    \* history: the start of the observed window
  before,   \* history: tokens granted before it
  told      \* history: caller -> its last refusal since the last grant to anyone, or None

bucket  == <<level, last>>
history == <<granted, since, before, told>>
vars    == <<clock, arrived, level, last, granted, since, before, told>>

Absent == -1
None   == [at |-> -1, hint |-> 0, heeded |-> FALSE]

\* per_minute
PerMinute == IF Limit > 1 THEN Limit ELSE 1

Capacity == PerMinute * Minute

Init ==
  /\ clock = 0
  /\ arrived = [c \in Callers |-> Absent]
  /\ level = Capacity
  /\ last = 0
  /\ granted = 0
  /\ since = 0
  /\ before = 0
  /\ told = [c \in Callers |-> None]

Waiting(c) == arrived[c] # Absent

\* try_acquire is called; another task may hold the mutex
Arrive(c) ==
  /\ ~Waiting(c)
  /\ arrived' = [arrived EXCEPT ![c] = clock]
  /\ UNCHANGED <<clock, bucket, history>>

\* mutant: the clock is read when the caller arrives, before it waits for the mutex
BugNow(c) == arrived[c]

\* Instant::now(), read by try_take under the mutex
Now(c) == clock

\* duration_since, zero for an earlier instant
Elapsed(now) == IF now >= last THEN now - last ELSE 0

\* mutant: the bucket overflows
BugRefilled(now) == level + Elapsed(now) * PerMinute

Refilled(now) ==
  LET parts == level + Elapsed(now) * PerMinute
  IN  IF parts <= Capacity THEN parts ELSE Capacity

\* the mutex is free between two calls of try_take, which never awaits
Grant(c) ==
  /\ Waiting(c)
  /\ Refilled(Now(c)) >= Minute
  /\ level' = Refilled(Now(c)) - Minute
  /\ last' = Now(c)
  /\ arrived' = [arrived EXCEPT ![c] = Absent]
  /\ granted' = granted + 1
  /\ told' = [d \in Callers |-> None]
  /\ UNCHANGED <<clock, since, before>>

\* The time after which the missing parts are there: to the nearest unit, between 0.05 seconds
\* and a minute, and then the whole milliseconds of it, which is what the callers pass on.
Hint(missing) ==
  LET rounded == (2 * missing + PerMinute) \div (2 * PerMinute)
      clamped == IF rounded < Floor THEN Floor ELSE IF rounded > Minute THEN Minute ELSE rounded
  IN  Milli * (clamped \div Milli)

Heeds(c) == told[c] # None /\ Now(c) >= told[c].at + told[c].hint

\* history: caller c is refused and told a hint
Tell(c) ==
  told' = [told EXCEPT ![c] = [at |-> Now(c), hint |-> Hint(Minute - Refilled(Now(c))),
                               heeded |-> Heeds(c)]]

\* mutant: a refusal moves last but forgets the parts that came in
BugRefuse(c) ==
  /\ Waiting(c)
  /\ Refilled(Now(c)) < Minute
  /\ last' = Now(c)
  /\ arrived' = [arrived EXCEPT ![c] = Absent]
  /\ Tell(c)
  /\ UNCHANGED <<clock, level, granted, since, before>>

Refuse(c) ==
  /\ Waiting(c)
  /\ Refilled(Now(c)) < Minute
  /\ level' = Refilled(Now(c))
  /\ last' = Now(c)
  /\ arrived' = [arrived EXCEPT ![c] = Absent]
  /\ Tell(c)
  /\ UNCHANGED <<clock, granted, since, before>>

\* a caller whose request or task is dropped leaves the queue of the mutex
Abandon(c) ==
  /\ Waiting(c)
  /\ arrived' = [arrived EXCEPT ![c] = Absent]
  /\ UNCHANGED <<clock, bucket, history>>

Tick ==
  /\ clock < MaxTime
  /\ clock' = clock + 1
  /\ UNCHANGED <<arrived, bucket, history>>

\* an observer starts to count grants, at any moment
Observe ==
  /\ since' = clock
  /\ before' = granted
  /\ UNCHANGED <<clock, arrived, bucket, granted, told>>

Next ==
  \/ \E c \in Callers : Arrive(c) \/ Grant(c) \/ Refuse(c) \/ Abandon(c)
  \/ Tick
  \/ Observe

Spec == Init /\ [][Next]_vars

-----------------------------------------------------------------------------
TypeOK ==
  /\ clock \in 0..MaxTime
  /\ arrived \in [Callers -> 0..MaxTime \cup { Absent }]
  /\ level \in 0..Capacity
  /\ last \in 0..MaxTime
  /\ granted \in Nat
  /\ since \in 0..MaxTime
  /\ before \in Nat
  /\ told \in [Callers ->
       [at : 0..MaxTime, hint : Milli..Minute, heeded : BOOLEAN] \cup { None }]

\* In no window of time, whenever it starts, does the limiter grant more than a full bucket
\* and what the window refills, however callers queue for the mutex.
GrantsAreBounded ==
  (granted - before) * Minute <= Capacity + PerMinute * (clock - since)

\* A hint is short by less than what a millisecond refills, and a caller that came back when
\* it was told to and was refused for that shortage is then told a time that suffices: unless
\* another caller is granted a token meanwhile, waiting as told is refused at most once more.
HintSuffices ==
  \A c \in Callers :
    told[c] # None /\ clock >= told[c].at + told[c].hint =>
      \/ Refilled(clock) >= Minute
      \/ ~told[c].heeded /\ Refilled(clock) + PerMinute * Milli > Minute

\* Refinement: what the bucket would grant now, in whole tokens.
AbstractBucket == INSTANCE TokenBucket WITH
  Burst <- PerMinute, tokens <- Refilled(clock) \div Minute, taken <- granted

ImplementsTokenBucket == AbstractBucket!Spec
=============================================================================
