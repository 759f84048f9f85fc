--------------------------- MODULE CredentialCache ---------------------------
(***************************************************************************)
(* The credential caches of src/providers/fcm.rs and apns.rs. A sender     *)
(* locks the cache, takes the token it finds or replaces one that is due,  *)
(* unlocks and sends with it. FCM fetches a token over the network while   *)
(* it holds the lock; APNs signs one and awaits nothing.                   *)
(*                                                                         *)
(* The mutex is Tokio's: senders get it in the order in which they asked,  *)
(* and one that is dropped leaves the line. A sender of the HTTP API is    *)
(* dropped with its client's connection. The unit of time is a second.     *)
(***************************************************************************)
EXTENDS Integers, FiniteSets

CONSTANTS
  Senders,     \* tasks that send through the provider, one request at a time
  Lives,       \* expires_in of the tokens the OAuth endpoint may issue
  Margin,      \* ACCESS_TOKEN_REFRESH_MARGIN_SECONDS
  SignedLife,  \* how long Apple accepts a provider token
  CacheTime,   \* PROVIDER_TOKEN_CACHE_SECONDS
  Timeout,     \* DEFAULT_REQUEST_TIMEOUT
  MaxTime      \* bound: how far the clock runs

\* 20 seconds against a margin of 60, and 50 minutes of Apple's 60
ASSUME CacheAssumption ==
  /\ IsFiniteSet(Senders)
  /\ Lives \subseteq Nat
  /\ Margin \in Nat /\ SignedLife \in Nat /\ CacheTime \in Nat \ {0}
  /\ Timeout \in Nat \ {0} /\ MaxTime \in Nat
  /\ 2 * Timeout <= Margin
  /\ CacheTime + Timeout <= SignedLife

VARIABLES
  provider,  \* "fcm" or "apns"
  clock,     \* the monotonic clock behind Instant
  stage,     \* sender -> what it is doing
  ahead,     \* waiting or minting sender -> the senders before it in line for the mutex
  since,     \* sender -> when its request to the OAuth endpoint or the provider began
  cached,    \* the guarded slot: a token or None
  token,     \* sending sender -> its token
  arrived,   \* history: when the sender asked for the mutex
  line       \* history: how many senders were before it then

history == <<arrived, line>>
vars    == <<provider, clock, stage, ahead, since, cached, token, arrived, line>>

Stages == { "idle", "waiting", "minting", "sending" }

None == [expires |-> 0, dies |-> 0, life |-> 0]

Init ==
  /\ provider \in { "fcm", "apns" }
  /\ clock = 0
  /\ stage = [s \in Senders |-> "idle"]
  /\ ahead = [s \in Senders |-> {}]
  /\ since = [s \in Senders |-> 0]
  /\ cached = None
  /\ token = [s \in Senders |-> None]
  /\ arrived = [s \in Senders |-> 0]
  /\ line = [s \in Senders |-> 0]

\* senders that wait for the mutex or hold it
InLine == { s \in Senders : stage[s] \in { "waiting", "minting" } }

Goto(s, next) == stage' = [stage EXCEPT ![s] = next]

Leave(s) == ahead' = [t \in Senders |-> IF t = s THEN {} ELSE ahead[t] \ { s }]

\* mutant: the slot is not locked through the refresh
BugOwns(s) == stage[s] = "waiting"

\* the mutex is s's, and s has not looked at the slot yet
Owns(s) == stage[s] = "waiting" /\ ahead[s] = {}

\* cached.expires_at > Instant::now(); an empty slot expired at 0
Usable == cached.expires > clock

Ask(s) ==
  /\ stage[s] = "idle"
  /\ Goto(s, "waiting")
  /\ ahead' = [ahead EXCEPT ![s] = InLine]
  /\ arrived' = [arrived EXCEPT ![s] = clock]
  /\ line' = [line EXCEPT ![s] = Cardinality(InLine)]
  /\ UNCHANGED <<provider, clock, since, cached, token>>

\* the sender's future is gone, and with it all it held
Ends(s) ==
  /\ Goto(s, "idle")
  /\ Leave(s)
  /\ since' = [since EXCEPT ![s] = 0]
  /\ token' = [token EXCEPT ![s] = None]
  /\ arrived' = [arrived EXCEPT ![s] = 0]
  /\ line' = [line EXCEPT ![s] = 0]
  /\ UNCHANGED <<provider, clock, cached>>

\* unlock, and send with the token
SendWith(s, tok) ==
  /\ Leave(s)
  /\ Goto(s, "sending")
  /\ since' = [since EXCEPT ![s] = clock]
  /\ token' = [token EXCEPT ![s] = tok]

Reuse(s) ==
  /\ Owns(s)
  /\ Usable
  /\ SendWith(s, cached)
  /\ UNCHANGED <<provider, clock, cached, history>>

\* apns: encode_provider_token and the store, with no await between check and store
Sign(s) ==
  LET signed == [expires |-> clock + CacheTime, dies |-> clock + SignedLife,
                 life |-> SignedLife]
  IN  /\ provider = "apns"
      /\ Owns(s)
      /\ ~Usable
      /\ cached' = signed
      /\ SendWith(s, signed)
      /\ UNCHANGED <<provider, clock, history>>

\* fcm: the request of refresh_access_token leaves, the mutex stays locked
MintStarts(s) ==
  /\ provider = "fcm"
  /\ Owns(s)
  /\ ~Usable
  /\ Goto(s, "minting")
  /\ since' = [since EXCEPT ![s] = clock]
  /\ UNCHANGED <<provider, clock, ahead, cached, token, history>>

\* mutants: the subtraction neither saturates nor has a floor; there is no margin
BugUsableSeconds(life) == life - Margin
BugNoMargin(life) == life

\* expires_in.saturating_sub(margin).max(1), added to Instant::now() when the response was
\* read
UsableSeconds(life) == IF life > Margin THEN life - Margin ELSE 1

\* The endpoint issued the token at some time since the request left.
MintReturns(s) ==
  /\ stage[s] = "minting"
  /\ \E life \in Lives, issued \in since[s]..clock :
       LET minted == [expires |-> clock + UsableSeconds(life), dies |-> issued + life,
                      life |-> life]
       IN  cached' = minted /\ SendWith(s, minted)
  /\ UNCHANGED <<provider, clock, history>>

\* mutant: the error path does not unlock
BugMintFails(s) ==
  /\ stage[s] = "minting"
  /\ Goto(s, "idle")
  /\ UNCHANGED <<provider, clock, ahead, since, cached, token, history>>

\* any error of refresh_access_token: the slot keeps what it had, and the next in line tries
MintFails(s) == stage[s] = "minting" /\ Ends(s)

\* apns: unix_now or the signature fails
SignFails(s) == provider = "apns" /\ Owns(s) /\ ~Usable /\ Ends(s)

\* the provider answers, or the request times out
Answered(s) == stage[s] = "sending" /\ Ends(s)

\* the future is dropped at an await: its place in line, its lock and its request with it
Dropped(s) == stage[s] # "idle" /\ Ends(s)

\* A free mutex is taken, and a request at its timeout returns, before time moves on.
MayPass(s) ==
  /\ ~Owns(s)
  /\ stage[s] \in { "minting", "sending" } => clock < since[s] + Timeout

Tick ==
  /\ clock < MaxTime
  /\ \A s \in Senders : MayPass(s)
  /\ clock' = clock + 1
  /\ UNCHANGED <<provider, stage, ahead, since, cached, token, history>>

Next ==
  \/ \E s \in Senders :
       \/ Ask(s) \/ Reuse(s) \/ Sign(s) \/ SignFails(s)
       \/ MintStarts(s) \/ MintReturns(s) \/ MintFails(s)
       \/ Answered(s) \/ Dropped(s)
  \/ Tick

Spec == Init /\ [][Next]_vars

-----------------------------------------------------------------------------
Tokens == [expires : Nat, dies : Nat, life : Nat]

TypeOK ==
  /\ provider \in { "fcm", "apns" }
  /\ clock \in 0..MaxTime
  /\ stage \in [Senders -> Stages]
  /\ ahead \in [Senders -> SUBSET Senders]
  /\ since \in [Senders -> 0..MaxTime]
  /\ cached \in Tokens
  /\ token \in [Senders -> Tokens]
  /\ arrived \in [Senders -> 0..MaxTime]
  /\ line \in [Senders -> Nat]

\* No request carries a token past its life, until the provider answers it: the margin
\* covers the time the token took to arrive and the time the request takes. Tokens that
\* live no longer than the margin are exempt.
TokensAreFresh ==
  \A s \in Senders :
    stage[s] = "sending" /\ (provider = "apns" \/ token[s].life > Margin)
      => clock < token[s].dies

\* Concurrent senders share one mint: two never run at once, nor one beside a token that
\* can still be used.
MintsAreShared ==
  \A s \in Senders : stage[s] = "minting" =>
    ~Usable /\ \A t \in Senders : stage[t] = "minting" => t = s

\* A token that can still be used is never replaced, whoever fails or is dropped.
UsableTokenIsKept == [][cached' # cached => ~Usable]_vars

\* Senders are served in turn and nobody keeps the mutex: a sender waits for at most one
\* timed-out refresh of each sender that was before it, and for its own requests, also
\* when refreshes fail and senders are dropped.
WaitIsBounded ==
  \A s \in Senders :
    /\ stage[s] = "waiting" => clock <= arrived[s] + line[s] * Timeout
    /\ stage[s] # "idle" => clock <= arrived[s] + (line[s] + 2) * Timeout
=============================================================================
