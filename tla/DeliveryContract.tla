--------------------------- MODULE DeliveryContract --------------------------
(***************************************************************************)
(* What a durable lane promises to producers and operators, with no queue, *)
(* process, permit or timer in sight: a job leaves the queue only with     *)
(* evidence, and a user is notified twice only for a known excuse.         *)
(***************************************************************************)
EXTENDS Integers

CONSTANTS
  Jobs,       \* the jobs producers hand over
  MaxDeliver  \* the delivery budget of a job

Deliveries == Jobs \X (1..MaxDeliver)

VARIABLES
  status,    \* job -> open, closed (left the queue) or parked (budget used up)
  recorded,  \* jobs with a durable result or dead-letter event
  forgiven,  \* jobs whose result and dead-letter publishes failed for one delivery
  excused,   \* deliveries after which the job may be sent once more
  sent       \* deliveries whose notification a provider accepted

contractVars == <<status, recorded, forgiven, excused, sent>>

Init ==
  /\ status = [j \in Jobs |-> "open"]
  /\ recorded = {}
  /\ forgiven = {}
  /\ excused = {}
  /\ sent = {}

\* A notification reaches the provider: of two sends of one job the earlier is excused.
Send(d) ==
  /\ \A e \in sent : e[1] = d[1] =>
       /\ e[2] < d[2] => e \in excused
       /\ e[2] > d[2] => d \in excused
  /\ sent' = sent \cup { d }
  /\ UNCHANGED <<status, recorded, forgiven, excused>>

\* Publishing a job's events, successfully or not, and excusing deliveries.
Report ==
  /\ recorded \subseteq recorded'
  /\ forgiven \subseteq forgiven'
  /\ excused \subseteq excused'
  /\ UNCHANGED <<status, sent>>

\* A job leaves the queue, also one already parked, only with evidence.
Close(j) ==
  /\ j \in recorded \cup forgiven
  /\ status' = [status EXCEPT ![j] = "closed"]
  /\ UNCHANGED <<recorded, forgiven, excused, sent>>

\* The delivery budget of an open job is used up.
Park(j) ==
  /\ status[j] = "open"
  /\ status' = [status EXCEPT ![j] = "parked"]
  /\ UNCHANGED <<recorded, forgiven, excused, sent>>

Next ==
  \/ Report
  \/ \E d \in Deliveries : Send(d)
  \/ \E j \in Jobs : Close(j) \/ Park(j)

Spec == Init /\ [][Next]_contractVars
=============================================================================
