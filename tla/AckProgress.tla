----------------------------- MODULE AckProgress -----------------------------
(***************************************************************************)
(* The timing of one fetch of the durable consumer: messages that JetStream *)
(* delivered together wait for the semaphore, run under                    *)
(* run_with_ack_progress and publish their result, while the server counts *)
(* the time since it last heard of each of them against ack_wait.          *)
(*                                                                         *)
(* Time is discrete, its unit a constant of the instance. Only the first   *)
(* expiry of each message is tracked: what a redelivery leads to is        *)
(* JetStreamIngestion's subject.                                           *)
(***************************************************************************)
EXTENDS Integers, FiniteSets

CONSTANTS
  Jobs,            \* messages delivered by one fetch
  AckWait,         \* NATS_ACK_WAIT_SECONDS
  HeartbeatFloor,  \* the five seconds below which heartbeats are not sent
  MaxConcurrency,  \* permits of the semaphore
  MaxWork,         \* bound: the longest provider call (client request timeouts)
  MaxPublish,      \* bound: the longest result publish
  MaxLost          \* bound: heartbeats lost per message

ASSUME TimingAssumption ==
  /\ AckWait \in Nat \ {0}
  /\ HeartbeatFloor \in Nat \ {0}
  /\ MaxConcurrency \in Nat \ {0}
  /\ MaxWork \in Nat /\ MaxPublish \in Nat /\ MaxLost \in Nat

VARIABLES
  stage,      \* job -> queued, processing, publishing or settled
  idle,       \* job -> time since the server last heard of it, at most AckWait
  beat,       \* job -> time until the next heartbeat
  spent,      \* job -> time in the current stage
  startIdle,  \* history: idle when the handler started
  lost,       \* history: heartbeats of the job that did not reach the server
  expired     \* jobs the server considers unacknowledged and will redeliver

vars == <<stage, idle, beat, spent, startIdle, lost, expired>>

JobStages == { "queued", "processing", "publishing", "settled" }

\* progress_every
Interval ==
  IF AckWait \div 3 >= HeartbeatFloor THEN AckWait \div 3 ELSE HeartbeatFloor

Init ==
  /\ stage = [j \in Jobs |-> "queued"]
  /\ idle = [j \in Jobs |-> 0]
  /\ beat = [j \in Jobs |-> Interval]
  /\ spent = [j \in Jobs |-> 0]
  /\ startIdle = [j \in Jobs |-> 0]
  /\ lost = [j \in Jobs |-> 0]
  /\ expired = {}

\* the permit is held from here until the message is settled
Holders == { j \in Jobs : stage[j] \in { "processing", "publishing" } }

\* A permit comes free and the handler starts. The ticker's first, immediate tick is
\* consumed without a heartbeat: the first one follows a full interval later.
Start(j) ==
  /\ stage[j] = "queued"
  /\ Cardinality(Holders) < MaxConcurrency
  /\ stage' = [stage EXCEPT ![j] = "processing"]
  /\ beat' = [beat EXCEPT ![j] = Interval]
  /\ startIdle' = [startIdle EXCEPT ![j] = idle[j]]
  /\ UNCHANGED <<idle, spent, lost, expired>>

\* mutant: the heartbeat never leaves the process
BugHeartbeat(j) ==
  /\ stage[j] = "processing"
  /\ beat[j] = 0
  /\ beat' = [beat EXCEPT ![j] = Interval]
  /\ UNCHANGED <<stage, idle, spent, startIdle, lost, expired>>

\* Progress reaches the server, which restarts the timer of a message not yet expired
Heartbeat(j) ==
  /\ stage[j] = "processing"
  /\ beat[j] = 0
  /\ beat' = [beat EXCEPT ![j] = Interval]
  /\ idle' = [idle EXCEPT ![j] = IF j \in expired THEN @ ELSE 0]
  /\ UNCHANGED <<stage, spent, startIdle, lost, expired>>

\* sending Progress fails: a warning, and the next attempt an interval later
HeartbeatFails(j) ==
  /\ stage[j] = "processing"
  /\ beat[j] = 0
  /\ lost[j] < MaxLost
  /\ lost' = [lost EXCEPT ![j] = @ + 1]
  /\ beat' = [beat EXCEPT ![j] = Interval]
  /\ UNCHANGED <<stage, idle, spent, startIdle, expired>>

\* the provider call returns; no heartbeats are sent from here on
Return(j) ==
  /\ stage[j] = "processing"
  /\ stage' = [stage EXCEPT ![j] = "publishing"]
  /\ spent' = [spent EXCEPT ![j] = 0]
  /\ UNCHANGED <<idle, beat, startIdle, lost, expired>>

\* the result is published and the message settled
Settle(j) ==
  /\ stage[j] = "publishing"
  /\ stage' = [stage EXCEPT ![j] = "settled"]
  /\ UNCHANGED <<idle, beat, spent, startIdle, lost, expired>>

\* mutant: the provider call starves the ticker
BugMayPass(j) == stage[j] = "processing" => spent[j] < MaxWork

\* A free permit is taken, a due heartbeat goes out and a call at its timeout returns
\* before time moves on.
MayPass(j) ==
  /\ stage[j] = "queued" => Cardinality(Holders) >= MaxConcurrency
  /\ stage[j] = "processing" => beat[j] > 0 /\ spent[j] < MaxWork
  /\ stage[j] = "publishing" => spent[j] < MaxPublish

Aged(j) == stage[j] # "settled" /\ idle[j] < AckWait

\* One unit of time. A message the server has not heard of for ack_wait expires.
Tick ==
  /\ \E j \in Jobs : stage[j] # "settled"
  /\ \A j \in Jobs : MayPass(j)
  /\ idle' = [j \in Jobs |-> IF Aged(j) THEN idle[j] + 1 ELSE idle[j]]
  /\ beat' = [j \in Jobs |-> IF stage[j] = "processing" THEN beat[j] - 1 ELSE beat[j]]
  /\ spent' = [j \in Jobs |-> IF j \in Holders THEN spent[j] + 1 ELSE spent[j]]
  /\ expired' = expired \cup { j \in Jobs : Aged(j) /\ idle[j] + 1 = AckWait }
  /\ UNCHANGED <<stage, startIdle, lost>>

Next ==
  \/ \E j \in Jobs :
       Start(j) \/ Heartbeat(j) \/ HeartbeatFails(j) \/ Return(j) \/ Settle(j)
  \/ Tick

Spec == Init /\ [][Next]_vars

-----------------------------------------------------------------------------
TypeOK ==
  /\ stage \in [Jobs -> JobStages]
  /\ idle \in [Jobs -> 0..AckWait]
  /\ beat \in [Jobs -> 0..Interval]
  /\ spent \in [Jobs -> Nat]
  /\ startIdle \in [Jobs -> 0..AckWait]
  /\ lost \in [Jobs -> 0..MaxLost]
  /\ expired \subseteq Jobs

\* What the heartbeats do guarantee: a handler that started with room for one interval,
\* one more per lost heartbeat and its publish keeps the server's claim until it settles,
\* however long the provider call lasts.
HasRoom(j) == startIdle[j] + (lost[j] + 1) * Interval + MaxPublish < AckWait

HeartbeatsKeepClaim ==
  \A j \in Jobs : stage[j] # "queued" /\ HasRoom(j) => j \notin expired

\* docs/nats-ingestion-v1.md:50 "Long provider calls send AckKind::Progress heartbeats at
\* one-third of the ack-wait interval so healthy in-flight work is not redelivered."
HealthyWorkIsNotRedelivered ==
  \A j \in Jobs : stage[j] = "processing" /\ lost[j] = 0 => j \notin expired
=============================================================================
