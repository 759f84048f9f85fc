-------------------------- MODULE AckProgressProofs ---------------------------
(***************************************************************************)
(* Heartbeats keep the claim of every handler that starts with room for    *)
(* them, for every ack-wait, number of messages and permits, and bound on  *)
(* calls, publishes and lost heartbeats.                                   *)
(***************************************************************************)
EXTENDS AckProgress, TLAPS

\* The longest silence the server can hear from a handler that is still processing: what
\* it had waited before the handler started, and one interval per heartbeat that is due.
Silence(j) == startIdle[j] + (lost[j] + 1) * Interval

LEMMA IntervalType == Interval \in Nat \ {0}
  BY TimingAssumption DEF Interval

\* One more lost heartbeat is one more interval of silence.
LEMMA SilenceFacts ==
  ASSUME NEW s \in Nat, NEW l \in Nat, NEW i \in Nat
  PROVE  /\ s + (l + 1) * i \in Nat /\ s + (l + 1) * i >= i
         /\ s + (l + 1) * i >= s + i
         /\ s + ((l + 1) + 1) * i = s + (l + 1) * i + i
<1>1. l * i \in Nat
  OBVIOUS
<1>2. (l + 1) * i = l * i + i /\ ((l + 1) + 1) * i = l * i + i + i
  OBVIOUS
<1> QED BY <1>1, <1>2

\* What the invariant says of one message: silence is bounded, and only a message that
\* exceeded the bound, or waited too long before its handler started, has expired.
KeepsClaim(j) ==
  /\ stage[j] = "queued" => (j \in expired <=> idle[j] = AckWait)
  /\ stage[j] = "processing" /\ j \notin expired => idle[j] + beat[j] <= Silence(j)
  /\ stage[j] = "publishing" /\ j \notin expired => idle[j] <= Silence(j) + spent[j]
  /\ stage[j] = "publishing" => spent[j] <= MaxPublish
  /\ stage[j] # "queued" /\ HasRoom(j) => j \notin expired

TimingInv == TypeOK /\ \A j \in Jobs : KeepsClaim(j)

LEMMA TimingInit == Init => TimingInv
<1> SUFFICES ASSUME Init PROVE TimingInv
  OBVIOUS
<1> USE TimingAssumption, IntervalType
<1>1. TypeOK
  BY DEF Init, TypeOK, JobStages
<1>2. \A j \in Jobs : KeepsClaim(j)
  BY DEF Init, KeepsClaim
<1> QED BY <1>1, <1>2 DEF TimingInv

\* A message whose clocks a step leaves alone keeps what the invariant says of it.
LEMMA ClaimKept ==
  ASSUME NEW j \in Jobs, KeepsClaim(j),
         stage'[j] = stage[j], idle'[j] = idle[j], beat'[j] = beat[j], spent'[j] = spent[j],
         startIdle'[j] = startIdle[j], lost'[j] = lost[j], j \in expired' <=> j \in expired
  PROVE  KeepsClaim(j)'
  BY DEF KeepsClaim, HasRoom, Silence, Interval

LEMMA TimingStep == TimingInv /\ [Next]_vars => TimingInv'
<1> SUFFICES ASSUME TimingInv, [Next]_vars PROVE TimingInv'
  OBVIOUS
<1> USE TimingAssumption, IntervalType
<1>0. /\ TypeOK /\ \A j \in Jobs : KeepsClaim(j)
      /\ \A j \in Jobs : /\ startIdle[j] \in Nat /\ lost[j] \in Nat /\ Silence(j) \in Nat
                         /\ Silence(j) >= startIdle[j] + Interval /\ Silence(j) >= Interval
  BY SilenceFacts DEF TimingInv, TypeOK, Silence
<1>1. ASSUME NEW j \in Jobs, Start(j)
      PROVE  TimingInv'
  <2>1. TypeOK'
    BY <1>0, <1>1 DEF Start, TypeOK, JobStages
  <2>2. ASSUME NEW k \in Jobs PROVE KeepsClaim(k)'
    <3>1. CASE k # j
      BY <1>0, <1>1, <3>1, ClaimKept DEF Start, TypeOK
    <3>2. CASE k = j
      <4>1. /\ stage'[j] = "processing" /\ idle'[j] = idle[j] /\ startIdle'[j] = idle[j]
            /\ beat'[j] = Interval /\ lost'[j] = lost[j] /\ expired' = expired
            /\ stage[j] = "queued" /\ idle[j] \in Nat
        BY <1>1 DEF Start, TimingInv, TypeOK
      <4>2. Silence(j)' \in Nat /\ Silence(j)' >= idle[j] + Interval
        <5>1. Silence(j)' = idle[j] + (lost[j] + 1) * Interval
          BY <4>1 DEF Silence, Interval
        <5> QED BY <1>0, <4>1, <5>1, SilenceFacts
      <4>3. j \in expired => ~HasRoom(j)'
        <5>1. HasRoom(j)' <=> Silence(j)' + MaxPublish < AckWait
          BY DEF HasRoom, Silence
        <5> QED BY <1>0, <4>1, <4>2, <5>1 DEF KeepsClaim
      <4> QED BY <3>2, <4>1, <4>2, <4>3 DEF KeepsClaim
    <3> QED BY <3>1, <3>2
  <2> QED BY <2>1, <2>2 DEF TimingInv
<1>2. ASSUME NEW j \in Jobs, Heartbeat(j)
      PROVE  TimingInv'
  <2>1. TypeOK'
    BY <1>0, <1>2 DEF Heartbeat, TypeOK
  <2>2. ASSUME NEW k \in Jobs PROVE KeepsClaim(k)'
    <3>1. CASE k # j
      BY <1>0, <1>2, <3>1, ClaimKept DEF Heartbeat, TypeOK
    <3>2. CASE k = j
      <4>1. /\ stage'[j] = "processing" /\ beat'[j] = Interval /\ expired' = expired
            /\ j \notin expired => idle'[j] = 0
            /\ stage[j] = "processing"
            /\ UNCHANGED <<startIdle, lost>>
        BY <1>2 DEF Heartbeat, TimingInv, TypeOK
      <4>2. Silence(j)' = Silence(j) /\ (HasRoom(j)' <=> HasRoom(j))
        BY <4>1 DEF Silence, HasRoom, Interval
      <4> QED BY <1>0, <3>2, <4>1, <4>2 DEF KeepsClaim
    <3> QED BY <3>1, <3>2
  <2> QED BY <2>1, <2>2 DEF TimingInv
<1>3. ASSUME NEW j \in Jobs, HeartbeatFails(j)
      PROVE  TimingInv'
  <2>1. TypeOK'
    BY <1>0, <1>3 DEF HeartbeatFails, TypeOK
  <2>2. ASSUME NEW k \in Jobs PROVE KeepsClaim(k)'
    <3>1. CASE k # j
      BY <1>0, <1>3, <3>1, ClaimKept DEF HeartbeatFails, TypeOK
    <3>2. CASE k = j
      <4>1. /\ stage'[j] = "processing" /\ beat'[j] = Interval /\ expired' = expired
            /\ idle'[j] = idle[j] /\ lost'[j] = lost[j] + 1 /\ startIdle' = startIdle
            /\ stage[j] = "processing" /\ beat[j] = 0 /\ idle[j] \in Nat
        BY <1>3 DEF HeartbeatFails, TimingInv, TypeOK
      <4>2. Silence(j)' = Silence(j) + Interval
        <5>1. Silence(j)' = startIdle[j] + ((lost[j] + 1) + 1) * Interval
          BY <4>1 DEF Silence, Interval
        <5> QED BY <1>0, <5>1, SilenceFacts DEF Silence
      <4>3. HasRoom(j)' => HasRoom(j)
        <5>1. (HasRoom(j)' <=> Silence(j)' + MaxPublish < AckWait)
              /\ (HasRoom(j) <=> Silence(j) + MaxPublish < AckWait)
          BY DEF HasRoom, Silence
        <5> QED BY <1>0, <4>2, <5>1
      <4> QED BY <1>0, <3>2, <4>1, <4>2, <4>3 DEF KeepsClaim
    <3> QED BY <3>1, <3>2
  <2> QED BY <2>1, <2>2 DEF TimingInv
<1>4. ASSUME NEW j \in Jobs, Return(j) \/ Settle(j)
      PROVE  TimingInv'
  <2>1. TypeOK'
    BY <1>0, <1>4 DEF Return, Settle, TypeOK, JobStages
  <2>2. ASSUME NEW k \in Jobs PROVE KeepsClaim(k)'
    <3>1. CASE k # j
      BY <1>0, <1>4, <3>1, ClaimKept DEF Return, Settle, TypeOK
    <3>2. CASE k = j
      <4>1. /\ UNCHANGED <<idle, beat, startIdle, lost, expired>>
            /\ \/ /\ stage[j] = "processing" /\ stage'[j] = "publishing"
                  /\ spent'[j] = 0
               \/ stage[j] = "publishing" /\ stage'[j] = "settled" /\ spent'[j] = spent[j]
            /\ idle[j] \in Nat /\ beat[j] \in Nat
        BY <1>4 DEF Return, Settle, TimingInv, TypeOK
      <4>2. Silence(j)' = Silence(j) /\ (HasRoom(j)' <=> HasRoom(j))
        BY <4>1 DEF Silence, HasRoom, Interval
      <4> QED BY <1>0, <3>2, <4>1, <4>2 DEF KeepsClaim
    <3> QED BY <3>1, <3>2
  <2> QED BY <2>1, <2>2 DEF TimingInv
<1>5. CASE Tick
  <2>1. TypeOK'
    <3>1. \A j \in Jobs : stage[j] = "processing" => beat[j] > 0
      BY <1>5 DEF Tick, MayPass
    <3> QED BY <1>0, <1>5, <3>1 DEF Tick, TypeOK, Aged
  <2>2. ASSUME NEW k \in Jobs PROVE KeepsClaim(k)'
    <3>1. /\ stage' = stage /\ startIdle' = startIdle /\ lost' = lost
          /\ idle'[k] = IF Aged(k) THEN idle[k] + 1 ELSE idle[k]
          /\ beat'[k] = IF stage[k] = "processing" THEN beat[k] - 1 ELSE beat[k]
          /\ spent'[k] = IF k \in Holders THEN spent[k] + 1 ELSE spent[k]
          /\ k \in expired' <=> k \in expired \/ (Aged(k) /\ idle[k] + 1 = AckWait)
          /\ MayPass(k)
      BY <1>5 DEF Tick
    <3>2. idle[k] \in 0..AckWait /\ beat[k] \in Nat /\ spent[k] \in Nat
      BY <1>0 DEF TypeOK
    <3>3. Silence(k)' = Silence(k) /\ (HasRoom(k)' <=> HasRoom(k))
          /\ (HasRoom(k) <=> Silence(k) + MaxPublish < AckWait)
      BY <3>1 DEF Silence, HasRoom, Interval
    <3>4. CASE stage[k] = "queued"
      BY <1>0, <3>1, <3>2, <3>4 DEF KeepsClaim, Aged
    <3>5. CASE stage[k] = "processing"
      BY <1>0, <3>1, <3>2, <3>3, <3>5 DEF KeepsClaim, Aged, MayPass
    <3>6. CASE stage[k] = "publishing"
      <4>1. k \in Holders
        BY <3>6 DEF Holders
      <4> QED BY <1>0, <3>1, <3>2, <3>3, <3>6, <4>1 DEF KeepsClaim, Aged, MayPass
    <3>7. CASE stage[k] = "settled"
      BY <1>0, <3>1, <3>3, <3>7 DEF KeepsClaim, Aged
    <3> QED BY <1>0, <3>4, <3>5, <3>6, <3>7 DEF TypeOK, JobStages
  <2> QED BY <2>1, <2>2 DEF TimingInv
<1>6. CASE UNCHANGED vars
  BY <1>0, <1>6, ClaimKept DEF vars, TimingInv, TypeOK
<1> QED BY <1>1, <1>2, <1>3, <1>4, <1>5, <1>6 DEF Next

\* A handler that starts with room for its heartbeats and its publish is not redelivered
\* while it works, however long the provider call lasts.
THEOREM HeartbeatsSuffice == Spec => []HeartbeatsKeepClaim
<1>1. TimingInv => HeartbeatsKeepClaim
  BY DEF TimingInv, KeepsClaim, HeartbeatsKeepClaim
<1> QED BY <1>1, TimingInit, TimingStep, PTL DEF Spec

\* Clocks and counters keep their types.
THEOREM TimingTypes == Spec => []TypeOK
<1>1. TimingInv => TypeOK
  BY DEF TimingInv
<1> QED BY <1>1, TimingInit, TimingStep, PTL DEF Spec
=============================================================================
