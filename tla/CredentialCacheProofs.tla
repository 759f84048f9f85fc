------------------------ MODULE CredentialCacheProofs ------------------------
(***************************************************************************)
(* The credential caches hand out fresh tokens, share their mints and      *)
(* serve their senders in turn, for every number of senders, token life,   *)
(* margin and timeout within CacheAssumption.                              *)
(***************************************************************************)
EXTENDS CredentialCache, FiniteSetTheorems, WellFoundedInduction, TLAPS

Minting(s) == stage[s] = "minting"

\* The line is a strict order in which every sender knows all that are before it; the one
\* that mints is its first, and the slot needs its token.
LineInv ==
  /\ \A s \in Senders : ahead[s] \subseteq InLine \ { s }
  /\ \A s \in Senders : s \notin InLine => ahead[s] = {}
  /\ \A s, t \in InLine : s = t \/ s \in ahead[t] \/ t \in ahead[s]
  /\ \A s \in Senders : \A t \in ahead[s] : ahead[t] \subseteq ahead[s]
  /\ \A s \in Senders : Minting(s) => ahead[s] = {} /\ ~Usable /\ provider = "fcm"

\* No request outlives its timeout.
RequestInv ==
  \A s \in Senders : stage[s] \in { "minting", "sending" } =>
    since[s] <= clock /\ clock <= since[s] + Timeout

Guarded(tok) == provider = "apns" \/ tok.life > Margin

\* A cached token outlives its use by a request, and so does a token on its way.
FreshInv ==
  /\ Usable /\ Guarded(cached) => cached.expires + Timeout <= cached.dies
  /\ \A s \in Senders : stage[s] = "sending" /\ Guarded(token[s]) =>
       since[s] + Timeout < token[s].dies

\* The time a sender may have waited: a timed-out refresh of each sender that has left the
\* line before it.
Budget(s) == (line[s] - Cardinality(ahead[s])) * Timeout

WaitInv ==
  \A s \in Senders :
    /\ arrived[s] <= clock
    /\ Cardinality(ahead[s]) <= line[s]
    /\ stage[s] = "waiting" =>
         /\ \A o \in Senders : Minting(o) => since[o] <= arrived[s] + Budget(s)
         /\ (\A o \in Senders : ~Minting(o)) => clock <= arrived[s] + Budget(s)
    /\ stage[s] = "minting" => since[s] <= arrived[s] + line[s] * Timeout
    /\ stage[s] = "sending" => since[s] <= arrived[s] + (line[s] + 1) * Timeout

CacheInv == TypeOK /\ LineInv /\ RequestInv /\ FreshInv /\ WaitInv

-----------------------------------------------------------------------------
(* Types *)

LEMMA UsableFacts ==
  ASSUME NEW life \in Nat
  PROVE  /\ UsableSeconds(life) \in Nat \ {0}
         /\ life > Margin => UsableSeconds(life) = life - Margin
BY CacheAssumption DEF UsableSeconds

LEMMA LineIsFinite ==
  ASSUME NEW S \in SUBSET Senders
  PROVE  IsFiniteSet(S) /\ Cardinality(S) \in Nat
BY CacheAssumption, FS_Subset, FS_CardinalityType

LEMMA TypesInit == Init => TypeOK
BY CacheAssumption DEF Init, TypeOK, Stages, None, Tokens

LEMMA TypesStep ==
  ASSUME TypeOK, [Next]_vars
  PROVE  TypeOK'
<1> USE CacheAssumption DEF TypeOK, history
<1>n. None \in Tokens
  BY DEF None, Tokens
<1>l. ASSUME NEW s \in Senders, Leave(s)
      PROVE  ahead' \in [Senders -> SUBSET Senders]
  BY <1>l DEF Leave
<1>g. ASSUME NEW s \in Senders, NEW next \in Stages, Goto(s, next)
      PROVE  stage' \in [Senders -> Stages]
  BY <1>g DEF Goto
<1>s. ASSUME NEW s \in Senders, NEW tok \in Tokens, SendWith(s, tok)
      PROVE  /\ ahead' \in [Senders -> SUBSET Senders] /\ stage' \in [Senders -> Stages]
             /\ since' \in [Senders -> 0..MaxTime] /\ token' \in [Senders -> Tokens]
  <2>1. "sending" \in Stages /\ Leave(s) /\ Goto(s, "sending")
    BY <1>s DEF SendWith, Stages
  <2> QED BY <1>s, <1>l, <1>g, <2>1 DEF SendWith
<1>e. ASSUME NEW s \in Senders, Ends(s) PROVE TypeOK'
  <2>1. "idle" \in Stages /\ Leave(s) /\ Goto(s, "idle")
    BY <1>e DEF Ends, Stages
  <2> QED BY <1>e, <1>n, <1>l, <1>g, <2>1 DEF Ends
<1>1. ASSUME NEW s \in Senders, Ask(s) PROVE TypeOK'
  <2>1. InLine \in SUBSET Senders /\ "waiting" \in Stages
    BY DEF InLine, Stages
  <2>2. Cardinality(InLine) \in Nat
    BY <2>1, LineIsFinite
  <2> QED BY <1>1, <2>1, <2>2, <1>g DEF Ask
<1>2. ASSUME NEW s \in Senders, Reuse(s) PROVE TypeOK'
  BY <1>2, <1>s DEF Reuse
<1>3. ASSUME NEW s \in Senders, Sign(s) PROVE TypeOK'
  <2>1. [expires |-> clock + CacheTime, dies |-> clock + SignedLife, life |-> SignedLife]
          \in Tokens
    BY DEF Tokens
  <2> QED BY <1>3, <1>s, <2>1 DEF Sign
<1>4. ASSUME NEW s \in Senders, MintStarts(s) PROVE TypeOK'
  BY <1>4, <1>g DEF MintStarts, Stages
<1>5. ASSUME NEW s \in Senders, MintReturns(s) PROVE TypeOK'
  <2>1. PICK life \in Lives, issued \in since[s]..clock :
          LET minted == [expires |-> clock + UsableSeconds(life), dies |-> issued + life,
                         life |-> life]
          IN  cached' = minted /\ SendWith(s, minted)
    BY <1>5 DEF MintReturns
  <2>2. [expires |-> clock + UsableSeconds(life), dies |-> issued + life, life |-> life]
          \in Tokens
    BY UsableFacts DEF Tokens
  <2> QED BY <1>5, <1>s, <2>1, <2>2 DEF MintReturns
<1>6. ASSUME NEW s \in Senders,
             SignFails(s) \/ MintFails(s) \/ Answered(s) \/ Dropped(s)
      PROVE  TypeOK'
  BY <1>6, <1>e DEF SignFails, MintFails, Answered, Dropped
<1>7. CASE Tick
  BY <1>7 DEF Tick
<1>8. CASE UNCHANGED vars
  BY <1>8 DEF vars
<1> QED BY <1>1, <1>2, <1>3, <1>4, <1>5, <1>6, <1>7, <1>8 DEF Next

-----------------------------------------------------------------------------
(* The line *)

\* s leaves the line, or was not in it, and goes on without the mutex.
Leaves(s) ==
  /\ Leave(s)
  /\ \E next \in { "idle", "sending" } : Goto(s, next)
  /\ UNCHANGED <<provider, clock>>

\* A step moves one sender, or time.
LEMMA Moves ==
  ASSUME [Next]_vars
  PROVE  \/ \E s \in Senders : Ask(s) \/ MintStarts(s) \/ Leaves(s)
         \/ Tick
         \/ UNCHANGED vars
<1>1. ASSUME NEW s \in Senders, Ends(s) \/ Reuse(s) \/ Sign(s) PROVE Leaves(s)
  BY <1>1 DEF Ends, Reuse, Sign, SendWith, Leaves
<1>2. ASSUME NEW s \in Senders, MintReturns(s) PROVE Leaves(s)
  BY <1>2 DEF MintReturns, SendWith, Leaves
<1> QED
  BY <1>1, <1>2 DEF Next, SignFails, MintFails, Answered, Dropped

\* Who is first in line is alone there: nobody else mints.
LEMMA FirstIsAlone ==
  ASSUME LineInv, NEW s \in InLine, NEW t \in InLine, ahead[s] = {}, ahead[t] = {}
  PROVE  s = t
BY DEF LineInv

LEMMA MintingInLine ==
  ASSUME NEW s \in Senders, Minting(s)
  PROVE  s \in InLine
BY DEF Minting, InLine

\* The slot changes only when nobody mints afterwards, and holds a usable token then.
LEMMA SlotChanges ==
  ASSUME TypeOK, LineInv, [Next]_vars, cached' # cached
  PROVE  ~Usable /\ \A s \in Senders : ~Minting(s)'
<1> USE DEF TypeOK, Stages
<1>1. PICK s \in Senders : Sign(s) \/ MintReturns(s)
  BY DEF Next, Ask, Reuse, MintStarts, SignFails, MintFails, Answered, Dropped, Ends, Tick,
     vars
<1>2. stage' = [stage EXCEPT ![s] = "sending"]
  BY <1>1 DEF Sign, MintReturns, SendWith, Goto
<1>3. CASE Sign(s)
  BY <1>2, <1>3 DEF Sign, LineInv, Minting
<1>4. CASE MintReturns(s)
  <2>1. Minting(s) /\ s \in InLine
    BY <1>4, MintingInLine DEF MintReturns, Minting
  <2>2. ASSUME NEW t \in Senders, Minting(t) PROVE t = s
    BY <2>1, <2>2, MintingInLine, FirstIsAlone DEF LineInv
  <2>3. ~Usable
    BY <2>1 DEF LineInv
  <2>4. ASSUME NEW t \in Senders, Minting(t)' PROVE FALSE
    <3>1. t # s
      BY <1>2, <2>4 DEF Minting
    <3>2. Minting(t)
      BY <1>2, <2>4, <3>1 DEF Minting
    <3> QED BY <3>1, <3>2, <2>2
  <2> QED BY <2>3, <2>4
<1> QED BY <1>1, <1>3, <1>4

LEMMA LineStep ==
  ASSUME TypeOK, LineInv, [Next]_vars
  PROVE  LineInv'
<1> USE DEF TypeOK, Stages
<1>1. ASSUME NEW s \in Senders, Ask(s) PROVE LineInv'
  <2>1. /\ stage[s] = "idle" /\ s \notin InLine /\ ahead[s] = {}
        /\ stage' = [stage EXCEPT ![s] = "waiting"]
        /\ ahead' = [ahead EXCEPT ![s] = InLine]
        /\ UNCHANGED <<provider, clock, cached>>
    BY <1>1 DEF Ask, InLine, Goto, LineInv
  <2>2. InLine' = InLine \cup { s }
    BY <2>1 DEF InLine
  <2>3. \A t \in Senders : Minting(t)' => Minting(t) /\ t # s
    BY <2>1 DEF Minting
  <2>4. ahead'[s] = InLine /\ \A t \in Senders \ { s } : ahead'[t] = ahead[t]
    BY <2>1
  <2>5. InLine \subseteq Senders /\ Usable' = Usable
    BY <2>1 DEF InLine, Usable
  <2>6. \A t \in Senders : ahead[t] \subseteq InLine
    BY DEF LineInv
  <2>7. \A t \in Senders : ahead'[t] \subseteq InLine' \ { t }
    BY <2>1, <2>2, <2>4, <2>5 DEF LineInv
  <2>8. \A t \in Senders : t \notin InLine' => ahead'[t] = {}
    BY <2>2, <2>4 DEF LineInv
  <2>9. \A t, u \in InLine' : t = u \/ t \in ahead'[u] \/ u \in ahead'[t]
    BY <2>1, <2>2, <2>4, <2>5 DEF LineInv
  <2>10. \A t \in Senders : \A u \in ahead'[t] : ahead'[u] \subseteq ahead'[t]
    <3> TAKE t \in Senders
    <3> TAKE u \in ahead'[t]
    <3>1. u \in InLine /\ u # s /\ u \in Senders
      BY <2>1, <2>4, <2>5, <2>6
    <3> QED BY <3>1, <2>4, <2>6 DEF LineInv
  <2>11. \A t \in Senders : Minting(t)' => ahead'[t] = {} /\ ~Usable' /\ provider' = "fcm"
    BY <2>1, <2>3, <2>4, <2>5 DEF LineInv
  <2> QED BY <2>7, <2>8, <2>9, <2>10, <2>11 DEF LineInv
<1>2. ASSUME NEW s \in Senders, MintStarts(s) PROVE LineInv'
  <2>1. /\ stage[s] = "waiting" /\ ahead[s] = {} /\ ~Usable /\ provider = "fcm"
        /\ stage' = [stage EXCEPT ![s] = "minting"]
        /\ UNCHANGED <<provider, clock, ahead, cached>>
    BY <1>2 DEF MintStarts, Owns, Goto
  <2>2. InLine' = InLine /\ Usable' = Usable
    BY <2>1 DEF InLine, Usable
  <2>3. \A t \in Senders : Minting(t)' => Minting(t) \/ t = s
    BY <2>1 DEF Minting
  <2> QED BY <2>1, <2>2, <2>3 DEF LineInv
<1>3. ASSUME NEW s \in Senders, Leaves(s) PROVE LineInv'
  <2>1. PICK next \in { "idle", "sending" } : Goto(s, next)
    BY <1>3 DEF Leaves
  <2>2. /\ stage' = [stage EXCEPT ![s] = next]
        /\ ahead' = [t \in Senders |-> IF t = s THEN {} ELSE ahead[t] \ { s }]
        /\ UNCHANGED <<provider, clock>>
    BY <1>3, <2>1 DEF Leaves, Leave, Goto
  <2>3. InLine' = InLine \ { s }
    BY <2>2 DEF InLine
  <2>4. \A t \in Senders : Minting(t)' => Minting(t) /\ t # s
    BY <2>2 DEF Minting
  <2>5. (\E t \in Senders : Minting(t)') => Usable' = Usable
    BY <2>2, SlotChanges DEF Usable
  <2>6. \A t \in Senders : ahead'[t] \subseteq InLine' \ { t }
    BY <2>2, <2>3 DEF LineInv
  <2>7. \A t \in Senders : t \notin InLine' => ahead'[t] = {}
    BY <2>2, <2>3 DEF LineInv
  <2>8. \A t, u \in InLine' : t = u \/ t \in ahead'[u] \/ u \in ahead'[t]
    <3>1. InLine \subseteq Senders
      BY DEF InLine
    <3> QED BY <2>2, <2>3, <3>1 DEF LineInv
  <2>9. \A t \in Senders : \A u \in ahead'[t] : ahead'[u] \subseteq ahead'[t]
    BY <2>2 DEF LineInv
  <2>10. \A t \in Senders : Minting(t)' => ahead'[t] = {} /\ ~Usable' /\ provider' = "fcm"
    BY <2>2, <2>4, <2>5 DEF LineInv
  <2> QED BY <2>6, <2>7, <2>8, <2>9, <2>10 DEF LineInv
<1>4. CASE Tick
  <2>1. InLine' = InLine /\ (~Usable => ~Usable')
    BY <1>4 DEF Tick, InLine, Usable, Tokens
  <2> QED BY <1>4, <2>1 DEF Tick, LineInv, Minting
<1>5. CASE UNCHANGED vars
  BY <1>5 DEF vars, LineInv, InLine, Minting, Usable
<1> QED BY <1>1, <1>2, <1>3, <1>4, <1>5, Moves

\* Somebody in line is first.
LEMMA LineHasFirst ==
  ASSUME TypeOK, LineInv, NEW r \in InLine
  PROVE  \E s \in InLine : ahead[s] = {}
<1> DEFINE T == { ahead[t] : t \in InLine }
<1>1. InLine \subseteq Senders /\ T \in SUBSET (SUBSET Senders) /\ T # {}
  BY DEF InLine, TypeOK
<1>2. IsWellFoundedOn(StrictSubsetOrdering(Senders), SUBSET Senders)
  BY CacheAssumption, FS_StrictSubsetOrderingWellFounded, FS_FiniteSubsetsOfFinite
<1>3. \E x \in T : \A y \in T : <<y, x>> \notin StrictSubsetOrdering(Senders)
  <2> HIDE DEF T
  <2> QED BY <1>1, <1>2, WFMin
<1>4. PICK s \in InLine :
        \A t \in InLine : <<ahead[t], ahead[s]>> \notin StrictSubsetOrdering(Senders)
  BY <1>3
<1>5. ASSUME NEW t \in ahead[s] PROVE FALSE
  <2>1. t \in InLine /\ t \in Senders /\ ahead[t] \subseteq ahead[s] /\ t \notin ahead[t]
    BY <1>1 DEF LineInv
  <2>2. ahead[t] # ahead[s] /\ ahead[t] \in SUBSET Senders /\ ahead[s] \in SUBSET Senders
    BY <1>1, <2>1 DEF TypeOK
  <2> QED BY <1>4, <2>1, <2>2 DEF StrictSubsetOrdering
<1> QED BY <1>5

-----------------------------------------------------------------------------
(* Requests and tokens *)

\* What a step does to a request: it begins now, goes on, or is over.
LEMMA Requests ==
  ASSUME TypeOK, [Next]_vars, NEW s \in Senders, stage'[s] \in { "minting", "sending" }
  PROVE  \/ since'[s] = clock /\ clock' = clock
         \/ /\ stage'[s] = stage[s] /\ since'[s] = since[s] /\ token'[s] = token[s]
            /\ clock' = clock
         \/ /\ stage'[s] = stage[s] /\ since'[s] = since[s] /\ token'[s] = token[s]
            /\ Tick
<1> USE DEF TypeOK
<1>1. ASSUME NEW t \in Senders, Ask(t) \/ MintStarts(t)
      PROVE  \/ since'[s] = clock /\ clock' = clock
             \/ /\ stage'[s] = stage[s] /\ since'[s] = since[s] /\ token'[s] = token[s]
                /\ clock' = clock
  BY <1>1 DEF Ask, MintStarts, Goto
<1>2. ASSUME NEW t \in Senders, NEW tok, SendWith(t, tok), clock' = clock
      PROVE  \/ since'[s] = clock /\ clock' = clock
             \/ /\ stage'[s] = stage[s] /\ since'[s] = since[s] /\ token'[s] = token[s]
                /\ clock' = clock
  BY <1>2 DEF SendWith, Goto
<1>3. ASSUME NEW t \in Senders, Ends(t)
      PROVE  /\ stage'[s] = stage[s] /\ since'[s] = since[s] /\ token'[s] = token[s]
             /\ clock' = clock
  BY <1>3 DEF Ends, Goto
<1>4. CASE Tick
  BY <1>4 DEF Tick
<1>5. CASE UNCHANGED vars
  BY <1>5 DEF vars
<1> QED
  BY <1>1, <1>2, <1>3, <1>4, <1>5 DEF Next, Reuse, Sign, SignFails, MintReturns, MintFails,
     Answered, Dropped

LEMMA RequestStep ==
  ASSUME TypeOK, RequestInv, [Next]_vars
  PROVE  RequestInv'
<1> SUFFICES ASSUME NEW s \in Senders, stage'[s] \in { "minting", "sending" }
             PROVE  since'[s] <= clock' /\ clock' <= since'[s] + Timeout
  BY DEF RequestInv
<1>1. clock \in Nat /\ since[s] \in Nat /\ Timeout \in Nat
  BY CacheAssumption DEF TypeOK
<1> QED BY <1>1, Requests DEF RequestInv, Tick, MayPass

\* A token found or made while the mutex is held outlives the request that begins with it.
LEMMA FreshStep ==
  ASSUME TypeOK, LineInv, RequestInv, FreshInv, [Next]_vars
  PROVE  FreshInv'
<1> USE CacheAssumption
<1> DEFINE Outlives(tok) == Guarded(tok) => clock + Timeout < tok.dies
           Lasts(tok) == tok.expires > clock /\ Guarded(tok) =>
                           tok.expires + Timeout <= tok.dies
<1>0. clock \in Nat /\ cached \in Tokens /\ Lasts(cached) /\ provider' = provider
  BY DEF TypeOK, FreshInv, Usable, Next, Ask, Reuse, Sign, SignFails, MintStarts,
     MintReturns, MintFails, Answered, Dropped, Ends, Tick, vars
<1>1. ASSUME NEW s \in Senders, NEW tok \in Tokens, SendWith(s, tok), Outlives(tok),
             Lasts(tok), cached' \in { cached, tok }, clock' = clock
      PROVE  FreshInv'
  <2>1. /\ stage' = [stage EXCEPT ![s] = "sending"]
        /\ since' = [since EXCEPT ![s] = clock] /\ token' = [token EXCEPT ![s] = tok]
    BY <1>1 DEF SendWith, Goto
  <2>2. ASSUME NEW t \in Senders, stage'[t] = "sending", Guarded(token[t])'
        PROVE  since'[t] + Timeout < token'[t].dies
    <3>1. CASE t = s
      BY <1>0, <1>1, <2>1, <2>2, <3>1 DEF TypeOK, Guarded
    <3>2. CASE t # s
      BY <1>0, <2>1, <2>2, <3>2 DEF TypeOK, Guarded, FreshInv
    <3> QED BY <3>1, <3>2
  <2>3. Usable' /\ Guarded(cached)' => cached'.expires + Timeout <= cached'.dies
    BY <1>0, <1>1 DEF Usable, Guarded
  <2> QED BY <2>2, <2>3 DEF FreshInv, Guarded
<1>2. ASSUME NEW s \in Senders, Reuse(s) PROVE FreshInv'
  <2>1. SendWith(s, cached) /\ Usable /\ cached' = cached /\ clock' = clock
    BY <1>2 DEF Reuse
  <2>2. Outlives(cached)
    BY <1>0, <2>1 DEF Usable, Tokens
  <2> QED BY <1>0, <1>1, <2>1, <2>2
<1>3. ASSUME NEW s \in Senders, Sign(s) PROVE FreshInv'
  <2> DEFINE signed == [expires |-> clock + CacheTime, dies |-> clock + SignedLife,
                        life |-> SignedLife]
  <2>1. SendWith(s, signed) /\ cached' = signed /\ clock' = clock
    BY <1>3 DEF Sign
  <2>2. signed \in Tokens /\ Outlives(signed) /\ Lasts(signed)
    BY <1>0 DEF Tokens
  <2> HIDE DEF signed
  <2> QED BY <1>1, <2>1, <2>2
<1>4. ASSUME NEW s \in Senders, MintReturns(s) PROVE FreshInv'
  <2>1. PICK life \in Lives, issued \in since[s]..clock :
          LET minted == [expires |-> clock + UsableSeconds(life), dies |-> issued + life,
                         life |-> life]
          IN  cached' = minted /\ SendWith(s, minted)
    BY <1>4 DEF MintReturns
  <2> DEFINE minted == [expires |-> clock + UsableSeconds(life), dies |-> issued + life,
                        life |-> life]
  <2>2. since[s] \in Nat /\ clock <= since[s] + Timeout /\ issued \in Nat
        /\ issued + Timeout >= clock
    BY <1>0, <1>4 DEF TypeOK, RequestInv, MintReturns
  <2>3. life \in Nat /\ UsableSeconds(life) \in Nat
        /\ (life > Margin => UsableSeconds(life) = life - Margin)
    BY UsableFacts
  <2>4. /\ minted \in Tokens
        /\ minted.expires = clock + UsableSeconds(life)
        /\ minted.dies = issued + life /\ minted.life = life
    BY <1>0, <2>2, <2>3 DEF Tokens
  <2>5. cached' = minted /\ SendWith(s, minted) /\ clock' = clock /\ Minting(s)
    BY <1>4, <2>1 DEF MintReturns, Minting
  <2> HIDE DEF minted
  <2>6. Guarded(minted) => life > Margin
    BY <2>4, <2>5 DEF Guarded, LineInv
  <2>7. life > Margin => clock + Timeout < minted.dies
    BY <1>0, <2>2, <2>3, <2>4
  <2>8. life > Margin => minted.expires + Timeout <= minted.dies
    BY <1>0, <2>2, <2>3, <2>4
  <2> QED BY <1>1, <2>4, <2>5, <2>6, <2>7, <2>8
<1>5. ASSUME NEW s \in Senders, Ask(s) \/ MintStarts(s) \/ Ends(s) PROVE FreshInv'
  BY <1>0, <1>5 DEF Ask, MintStarts, Ends, Goto, TypeOK, FreshInv, Usable, Guarded
<1>6. CASE Tick \/ UNCHANGED vars
  BY <1>0, <1>6 DEF Tick, vars, TypeOK, FreshInv, Usable, Guarded, Tokens
<1> QED
  BY <1>2, <1>3, <1>4, <1>5, <1>6 DEF Next, SignFails, MintFails, Answered, Dropped

-----------------------------------------------------------------------------
(* Waiting *)

LEMMA Products ==
  ASSUME NEW a \in Int, NEW b \in Int, a <= b
  PROVE  /\ a * Timeout \in Int
         /\ (a + 1) * Timeout = a * Timeout + Timeout
         /\ a * Timeout <= b * Timeout
         /\ a >= 0 => a * Timeout >= 0
BY CacheAssumption

\* What is waited for, for one sender: the conjuncts of WaitInv.
Waits(s) ==
  /\ arrived[s] <= clock
  /\ Cardinality(ahead[s]) <= line[s]
  /\ stage[s] = "waiting" =>
       /\ \A o \in Senders : Minting(o) => since[o] <= arrived[s] + Budget(s)
       /\ (\A o \in Senders : ~Minting(o)) => clock <= arrived[s] + Budget(s)
  /\ stage[s] = "minting" => since[s] <= arrived[s] + line[s] * Timeout
  /\ stage[s] = "sending" => since[s] <= arrived[s] + (line[s] + 1) * Timeout

LEMMA WaitStep ==
  ASSUME TypeOK, LineInv, RequestInv, WaitInv, [Next]_vars
  PROVE  WaitInv'
<1> USE CacheAssumption DEF TypeOK, Stages
<1>0. /\ clock \in Nat /\ Timeout \in Nat
      /\ \A s \in Senders : /\ Waits(s) /\ since[s] \in Nat /\ arrived[s] \in Nat
                            /\ line[s] \in Nat /\ Cardinality(ahead[s]) \in Nat
                            /\ IsFiniteSet(ahead[s])
  BY LineIsFinite DEF WaitInv, Waits
<1>1. ASSUME NEW s \in Senders, Ask(s) PROVE WaitInv'
  <2>1. /\ stage[s] = "idle" /\ stage' = [stage EXCEPT ![s] = "waiting"]
        /\ ahead' = [ahead EXCEPT ![s] = InLine]
        /\ arrived' = [arrived EXCEPT ![s] = clock]
        /\ line' = [line EXCEPT ![s] = Cardinality(InLine)]
        /\ clock' = clock /\ since' = since
    BY <1>1 DEF Ask, Goto
  <2>2. Cardinality(InLine) \in Nat
    BY LineIsFinite DEF InLine
  <2>3. \A o \in Senders : Minting(o)' <=> Minting(o)
    BY <2>1 DEF Minting
  <2>4. Waits(s)'
    <3>1. Budget(s)' = 0
      BY <1>0, <2>1, <2>2, Products DEF Budget
    <3>2. \A o \in Senders : Minting(o) => since[o] <= clock
      BY DEF RequestInv, Minting
    <3> QED BY <1>0, <2>1, <2>2, <2>3, <3>1, <3>2 DEF Waits
  <2>5. ASSUME NEW t \in Senders, t # s PROVE Waits(t)'
    <3>1. /\ ahead'[t] = ahead[t] /\ arrived'[t] = arrived[t] /\ line'[t] = line[t]
          /\ stage'[t] = stage[t]
      BY <2>1, <2>5
    <3>2. Budget(t)' = Budget(t)
      BY <3>1 DEF Budget
    <3> QED BY <1>0, <2>1, <2>3, <3>1, <3>2 DEF Waits
  <2> QED BY <2>4, <2>5 DEF WaitInv, Waits
<1>2. ASSUME NEW s \in Senders, MintStarts(s) PROVE WaitInv'
  <2>1. /\ stage[s] = "waiting" /\ ahead[s] = {}
        /\ stage' = [stage EXCEPT ![s] = "minting"] /\ since' = [since EXCEPT ![s] = clock]
        /\ UNCHANGED <<clock, ahead, arrived, line>>
    BY <1>2 DEF MintStarts, Owns, Goto, history
  <2>2. \A o \in Senders : ~Minting(o)
    <3> SUFFICES ASSUME NEW o \in Senders, Minting(o) PROVE FALSE
      OBVIOUS
    <3>1. s \in InLine /\ o \in InLine /\ ahead[o] = {}
      BY <2>1, MintingInLine DEF InLine, LineInv
    <3> QED BY <2>1, <3>1, FirstIsAlone DEF Minting
  <2>3. \A t \in Senders : stage[t] = "waiting" => clock <= arrived[t] + Budget(t)
    BY <1>0, <2>2 DEF Waits
  <2>4. \A t \in Senders : Budget(t)' = Budget(t)
    BY <2>1 DEF Budget
  <2>5. \A o \in Senders : Minting(o)' <=> o = s
    BY <2>1, <2>2 DEF Minting
  <2>6. Waits(s)'
    <3>1. Cardinality(ahead[s]) = 0
      BY <2>1, FS_EmptySet
    <3>2. Budget(s) = line[s] * Timeout
      BY <1>0, <3>1 DEF Budget
    <3> QED BY <1>0, <2>1, <2>3, <3>2 DEF Waits
  <2>7. ASSUME NEW t \in Senders, t # s PROVE Waits(t)'
    <3>1. stage'[t] = stage[t] /\ since'[t] = since[t] /\ since'[s] = clock
      BY <2>1, <2>7
    <3> QED BY <1>0, <2>1, <2>3, <2>4, <2>5, <3>1 DEF Waits
  <2> QED BY <2>6, <2>7 DEF WaitInv, Waits
<1>3. CASE Tick
  <2>1. /\ clock' = clock + 1 /\ \A s \in Senders : ~Owns(s)
        /\ UNCHANGED <<stage, ahead, since, arrived, line>>
    BY <1>3 DEF Tick, MayPass, history
  <2>2. \A t \in Senders : (Budget(t)' = Budget(t)) /\ (Minting(t)' <=> Minting(t))
    BY <2>1 DEF Budget, Minting
  <2>3. ASSUME NEW t \in Senders, stage[t] = "waiting"
        PROVE  \E o \in Senders : Minting(o)
    <3>1. PICK o \in InLine : ahead[o] = {}
      BY <2>3, LineHasFirst DEF InLine
    <3> QED BY <2>1, <3>1 DEF Owns, InLine, Minting
  <2>4. ASSUME NEW t \in Senders PROVE Waits(t)'
    BY <1>0, <2>1, <2>2, <2>3 DEF Waits
  <2> QED BY <2>4 DEF WaitInv, Waits
<1>4. CASE UNCHANGED vars
  <2>1. \A t \in Senders : (Budget(t)' = Budget(t)) /\ (Minting(t)' <=> Minting(t))
    BY <1>4 DEF vars, Budget, Minting
  <2> QED BY <1>0, <1>4, <2>1 DEF vars, WaitInv, Waits
<1>5. ASSUME NEW s \in Senders, Leaves(s),
             \/ Ends(s)
             \/ /\ UNCHANGED history
                /\ stage[s] \in { "waiting", "minting" } /\ ahead[s] = {}
                /\ \E tok : SendWith(s, tok)
      PROVE  WaitInv'
  <2>0. /\ ahead' = [t \in Senders |-> IF t = s THEN {} ELSE ahead[t] \ { s }]
        /\ clock' = clock /\ \E next \in { "idle", "sending" } :
                               stage' = [stage EXCEPT ![s] = next]
    BY <1>5 DEF Leaves, Leave, Goto
  <2>1. Cardinality(ahead'[s]) = 0
    BY <2>0, FS_EmptySet
  <2>2. \A t \in Senders \ { s } :
          /\ stage'[t] = stage[t] /\ since'[t] = since[t]
          /\ arrived'[t] = arrived[t] /\ line'[t] = line[t] /\ ahead'[t] = ahead[t] \ { s }
    BY <1>5, <2>0 DEF Ends, SendWith, history
  <2>3. ~Minting(s)' /\ \A t \in Senders \ { s } : Minting(t)' <=> Minting(t)
    BY <2>0, <2>2 DEF Minting
  <2>4. Waits(s)'
    <3>1. CASE Ends(s)
      <4>1. stage'[s] = "idle" /\ arrived'[s] = 0 /\ line'[s] = 0
        BY <3>1 DEF Ends, Goto
      <4> QED BY <1>0, <2>0, <2>1, <4>1 DEF Waits
    <3>2. CASE ~Ends(s)
      <4>1. /\ stage'[s] = "sending" /\ since'[s] = clock /\ ahead[s] = {}
            /\ arrived'[s] = arrived[s] /\ line'[s] = line[s]
            /\ stage[s] \in { "waiting", "minting" }
        BY <1>5, <3>2 DEF SendWith, Goto, history
      <4>2. clock <= arrived[s] + (line[s] + 1) * Timeout
        <5>1. (line[s] + 1) * Timeout = line[s] * Timeout + Timeout
              /\ line[s] * Timeout \in Int
          BY <1>0, Products
        <5>2. CASE stage[s] = "minting"
          BY <1>0, <5>1, <5>2 DEF RequestInv, Waits
        <5>3. CASE stage[s] = "waiting"
          <6>1. ASSUME NEW o \in Senders, Minting(o) PROVE FALSE
            <7>1. s \in InLine /\ o \in InLine /\ ahead[o] = {}
              BY <5>3, <6>1, MintingInLine DEF InLine, LineInv
            <7> QED BY <4>1, <5>3, <6>1, <7>1, FirstIsAlone DEF Minting
          <6>2. Budget(s) = line[s] * Timeout
            BY <1>0, <4>1, FS_EmptySet DEF Budget
          <6> QED BY <1>0, <5>1, <5>3, <6>1, <6>2 DEF Waits
        <5> QED BY <4>1, <5>2, <5>3
      <4> QED BY <1>0, <2>0, <2>1, <4>1, <4>2 DEF Waits
    <3> QED BY <3>1, <3>2
  <2>5. ASSUME NEW t \in Senders, t # s PROVE Waits(t)'
    <3>1. Cardinality(ahead'[t]) = IF s \in ahead[t] THEN Cardinality(ahead[t]) - 1
                                   ELSE Cardinality(ahead[t])
      <4>1. ahead'[t] = ahead[t] \ { s } /\ IsFiniteSet(ahead[t])
        BY <1>0, <2>2, <2>5
      <4>2. Cardinality(ahead[t] \ { s }) = IF s \in ahead[t]
                                             THEN Cardinality(ahead[t]) - 1
                                             ELSE Cardinality(ahead[t])
        BY <4>1, FS_RemoveElement
      <4> QED BY <4>1, <4>2
    <3>2. Cardinality(ahead'[t]) <= line[t]
      BY <1>0, <3>1 DEF Waits
    <3>3. Budget(t) <= Budget(t)'
      <4> DEFINE m == line[t] - Cardinality(ahead[t])
                 n == line'[t] - Cardinality(ahead'[t])
      <4>1. m \in Int /\ n \in Int /\ m <= n
        BY <1>0, <2>2, <2>5, <3>1
      <4>2. Budget(t) = m * Timeout /\ Budget(t)' = n * Timeout
        BY DEF Budget
      <4> HIDE DEF m, n
      <4> QED BY <4>1, <4>2, Products
    <3>4. Budget(t) \in Int /\ Budget(t)' \in Int
      BY <1>0, <2>2, <2>5, <3>1, Products DEF Budget
    <3>5. stage[t] = "waiting" =>
            /\ \A o \in Senders : Minting(o)' => since'[o] <= arrived[t] + Budget(t)'
            /\ (\A o \in Senders : ~Minting(o)') => clock <= arrived[t] + Budget(t)'
      <4> SUFFICES ASSUME stage[t] = "waiting"
                   PROVE  /\ \A o \in Senders : Minting(o)' =>
                               since'[o] <= arrived[t] + Budget(t)'
                          /\ (\A o \in Senders : ~Minting(o)') =>
                               clock <= arrived[t] + Budget(t)'
        OBVIOUS
      <4>1. CASE ~Minting(s)
        BY <1>0, <2>2, <2>3, <3>3, <3>4, <4>1 DEF Waits
      <4>2. CASE Minting(s)
        <5>1. s \in InLine /\ t \in InLine /\ ahead[s] = {} /\ s \in ahead[t]
          BY <2>5, <4>2, MintingInLine DEF InLine, LineInv
        <5>2. Budget(t)' = Budget(t) + Timeout
          <6>1. line'[t] - Cardinality(ahead'[t]) = (line[t] - Cardinality(ahead[t])) + 1
            BY <1>0, <2>2, <2>5, <3>1, <5>1
          <6> QED BY <1>0, <6>1, Products DEF Budget
        <5>3. clock <= since[s] + Timeout /\ since[s] <= arrived[t] + Budget(t)
          BY <1>0, <4>2 DEF RequestInv, Minting, Waits
        <5>4. \A o \in Senders : ~Minting(o)'
          <6>1. ASSUME NEW o \in Senders, Minting(o) PROVE o = s
            <7>1. o \in InLine /\ ahead[o] = {}
              BY <6>1, MintingInLine DEF LineInv
            <7> QED BY <5>1, <7>1, FirstIsAlone
          <6> QED BY <2>3, <6>1
        <5> QED BY <1>0, <3>4, <5>2, <5>3, <5>4
      <4> QED BY <4>1, <4>2
    <3> QED BY <1>0, <2>0, <2>2, <2>5, <3>2, <3>5 DEF Waits
  <2> QED BY <2>4, <2>5 DEF WaitInv, Waits
<1>6. ASSUME NEW s \in Senders, Reuse(s) \/ Sign(s) \/ MintReturns(s)
      PROVE  /\ UNCHANGED history /\ Leaves(s)
             /\ stage[s] \in { "waiting", "minting" } /\ ahead[s] = {}
             /\ \E tok : SendWith(s, tok)
  <2>1. stage[s] \in { "waiting", "minting" } /\ ahead[s] = {}
    BY <1>6 DEF Reuse, Sign, MintReturns, Owns, LineInv, Minting
  <2> QED BY <1>6, <2>1 DEF Reuse, Sign, MintReturns, SendWith, Leaves
<1>7. ASSUME NEW s \in Senders, Ends(s) PROVE Leaves(s)
  BY <1>7 DEF Ends, Leaves
<1> QED
  BY <1>1, <1>2, <1>3, <1>4, <1>5, <1>6, <1>7 DEF Next, SignFails, MintFails, Answered,
     Dropped

-----------------------------------------------------------------------------
LEMMA CacheInit == Init => CacheInv
<1> SUFFICES ASSUME Init PROVE CacheInv
  OBVIOUS
<1>1. TypeOK
  BY TypesInit
<1>2. LineInv /\ RequestInv /\ FreshInv
  BY DEF Init, LineInv, RequestInv, FreshInv, InLine, Minting, Usable, None
<1>3. WaitInv
  BY FS_EmptySet DEF Init, WaitInv
<1> QED BY <1>1, <1>2, <1>3 DEF CacheInv

LEMMA CacheStep == CacheInv /\ [Next]_vars => CacheInv'
BY TypesStep, LineStep, RequestStep, FreshStep, WaitStep DEF CacheInv

THEOREM CacheInvariance == Spec => []CacheInv
BY CacheInit, CacheStep, PTL DEF Spec

\* Every variable of the caches keeps its type; the life of a cached token is never cut below
\* zero by the margin (fcm.rs:308).
THEOREM CacheTypes == Spec => []TypeOK
<1>1. CacheInv => TypeOK
  BY DEF CacheInv
<1> QED BY <1>1, CacheInvariance, PTL

\* A request never carries a token past its life: twice the timeout fits in FCM's margin,
\* and once in what APNs leaves of the hour.
THEOREM TokensStayFresh == Spec => []TokensAreFresh
<1>1. CacheInv => TokensAreFresh
  <2> SUFFICES ASSUME CacheInv, NEW s \in Senders, stage[s] = "sending", Guarded(token[s])
               PROVE  clock < token[s].dies
    BY DEF TokensAreFresh, Guarded
  <2>1. /\ clock \in Nat /\ since[s] \in Nat /\ token[s].dies \in Nat
        /\ clock <= since[s] + Timeout /\ since[s] + Timeout < token[s].dies
    BY DEF CacheInv, TypeOK, Tokens, RequestInv, FreshInv
  <2> QED BY <2>1, CacheAssumption
<1> QED BY <1>1, CacheInvariance, PTL

\* One mint at a time, and none that is not needed.
THEOREM MintsStayShared == Spec => []MintsAreShared
<1>1. CacheInv => MintsAreShared
  <2> SUFFICES ASSUME CacheInv, NEW s \in Senders, Minting(s)
               PROVE  ~Usable /\ \A t \in Senders : Minting(t) => t = s
    BY DEF MintsAreShared, Minting
  <2>1. LineInv
    BY DEF CacheInv
  <2>2. ~Usable
    BY <2>1 DEF LineInv
  <2>3. ASSUME NEW t \in Senders, Minting(t) PROVE t = s
    <3>1. s \in InLine /\ t \in InLine /\ ahead[s] = {} /\ ahead[t] = {}
      BY <2>1, <2>3, MintingInLine DEF LineInv
    <3> QED BY <2>1, <3>1, FirstIsAlone
  <2> QED BY <2>2, <2>3
<1> QED BY <1>1, CacheInvariance, PTL

\* The slot is replaced only when its token is due.
THEOREM UsableTokensStay == Spec => UsableTokenIsKept
<1>1. CacheInv /\ [Next]_vars => [cached' # cached => ~Usable]_vars
  BY SlotChanges DEF CacheInv
<1> QED BY <1>1, CacheInvariance, PTL DEF Spec, UsableTokenIsKept

\* Nobody waits longer than the senders before it may take.
THEOREM WaitsAreBounded == Spec => []WaitIsBounded
<1>1. CacheInv => WaitIsBounded
  <2> SUFFICES ASSUME CacheInv, NEW s \in Senders
               PROVE  /\ stage[s] = "waiting" => clock <= arrived[s] + line[s] * Timeout
                      /\ stage[s] # "idle" =>
                           clock <= arrived[s] + (line[s] + 2) * Timeout
    BY DEF WaitIsBounded
  <2>0. /\ clock \in Nat /\ since[s] \in Nat /\ arrived[s] \in Nat /\ line[s] \in Nat
        /\ Timeout \in Nat /\ stage[s] \in Stages /\ ahead[s] \in SUBSET Senders
    BY CacheAssumption DEF CacheInv, TypeOK
  <2>1. /\ line[s] * Timeout \in Nat
        /\ (line[s] + 1) * Timeout = line[s] * Timeout + Timeout
        /\ (line[s] + 2) * Timeout = line[s] * Timeout + Timeout + Timeout
    BY <2>0
  <2>2. stage[s] = "waiting" => clock <= arrived[s] + line[s] * Timeout
    <3> SUFFICES ASSUME stage[s] = "waiting" PROVE clock <= arrived[s] + line[s] * Timeout
      OBVIOUS
    <3> DEFINE n == Cardinality(ahead[s])
    <3>1. n \in Nat /\ n <= line[s] /\ IsFiniteSet(ahead[s])
      BY <2>0, LineIsFinite DEF CacheInv, WaitInv
    <3>2. Budget(s) \in Int /\ Budget(s) <= line[s] * Timeout
      BY <2>0, <3>1, Products DEF Budget
    <3>3. CASE \A o \in Senders : ~Minting(o)
      BY <2>0, <2>1, <3>2, <3>3 DEF CacheInv, WaitInv
    <3>4. ASSUME NEW o \in Senders, Minting(o)
          PROVE  clock <= arrived[s] + line[s] * Timeout
      <4>1. o \in ahead[s]
        BY <3>4, MintingInLine DEF CacheInv, LineInv, InLine, Minting
      <4>2. n # 0
        BY <3>1, <4>1, FS_EmptySet
      <4>3. Budget(s) + Timeout <= line[s] * Timeout
        <5>1. (line[s] - n) + 1 <= line[s]
          BY <2>0, <3>1, <4>2
        <5> HIDE DEF n
        <5>2. (line[s] - n) * Timeout + Timeout <= line[s] * Timeout
          BY <2>0, <3>1, <5>1, Products
        <5> QED BY <5>2 DEF Budget, n
      <4>4. since[o] \in Nat /\ clock <= since[o] + Timeout
            /\ since[o] <= arrived[s] + Budget(s)
        BY <3>4 DEF CacheInv, TypeOK, RequestInv, WaitInv, Minting
      <4> QED BY <2>0, <2>1, <3>2, <4>3, <4>4
    <3> QED BY <3>3, <3>4
  <2>3. stage[s] \in { "minting", "sending" } => clock <= arrived[s] + (line[s] + 2) * Timeout
    BY <2>0, <2>1 DEF CacheInv, RequestInv, WaitInv
  <2> QED BY <2>0, <2>1, <2>2, <2>3 DEF Stages
<1> QED BY <1>1, CacheInvariance, PTL
=============================================================================
