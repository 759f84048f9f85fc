------------------------- MODULE HttpIngestionProofs -------------------------
(***************************************************************************)
(* What the answers of the API say of the notifications is true, for every *)
(* number of clients, submissions and jobs, every environment, and every   *)
(* answer a provider may give within AnswerAssumption.                     *)
(***************************************************************************)
EXTENDS AdapterProofs

(***************************************************************************)
(* The invariant.                                                          *)
(***************************************************************************)
Answers == UNION { AnswersOf[kind] : kind \in Kinds }

RefusedReplies == UNION { AdmissionsOf[e][name] : e \in Environments, name \in Names }
JudgedReplies  == { OutcomeOf(JobOf[name], answer) : name \in Names, answer \in Answers }
Replies        == RefusedReplies \cup JudgedReplies

Requests == [stage : Stages, jobs : Seq(Names), outcomes : Seq(Replies), answer : Seq(Answers)]

\* A request knows how far it is.
RequestInv(r) ==
  /\ Distinct(r.jobs)
  /\ r.stage \in { "idle", "done" } => r.outcomes = << >>
  /\ (r.answer # << >>) <=> (r.stage = "calling")
  /\ Len(r.outcomes) <= Len(r.jobs)
  /\ r.stage = "calling" => Len(r.outcomes) < Len(r.jobs)
  /\ \A i \in DOMAIN r.outcomes : IsReply(r.outcomes[i])

TypeInv ==
  /\ server \in { "down", "refused", "exported", "serving", "stopping", "stopped" }
  /\ env \in Environments
  /\ request \in [Clients -> Requests]
  /\ \A c \in Clients : RequestInv(request[c])
  /\ tries \in [Clients -> 0..MaxTries]
  /\ \A c \in Clients : InFlight(c) => tries[c] > 0
  /\ cuts \subseteq Clients \X (1..MaxTries)

\* Every call is one of a job that keeps its contract.
CallInv ==
  \A call \in calls :
    /\ call.client \in Clients /\ call.try \in 1..tries[call.client]
    /\ call.job \in Names /\ call.answer \in AnswersOf[JobOf[call.job].provider]
    /\ Proceed \in AdmissionsOf[env][call.job]
    /\ call.request = RequestFor(env, JobOf[call.job])

Made(call, c, t, name) == call.client = c /\ call.try = t /\ call.job = name

\* An outcome is what became of the calls made for it, and accepted stands for a call.
Settled(c, t, name, outcome) ==
  /\ \A call \in calls : Made(call, c, t, name) => outcome = OutcomeOf(JobOf[name], call.answer)
  /\ outcome.class = "accepted" => \E call \in calls : Made(call, c, t, name)

\* The outcomes of a request in flight are settled, and its calls are those of the jobs it has
\* been through and of the one it is at.
Progress(c) ==
  /\ \A i \in DOMAIN request[c].outcomes :
       Settled(c, tries[c], request[c].jobs[i], request[c].outcomes[i])
  /\ \A call \in calls : (call.client = c /\ call.try = tries[c]) =>
       \/ \E k \in DOMAIN request[c].outcomes : call.job = request[c].jobs[k]
       \/ /\ request[c].stage = "calling"
          /\ call.job = Current(c) /\ call.answer = request[c].answer[1]
  /\ request[c].stage = "calling" =>
       \E call \in calls : Made(call, c, tries[c], Current(c))
                           /\ call.answer = request[c].answer[1]

ProgressInv == \A c \in Clients : InFlight(c) => Progress(c)

\* The outcomes of a report are settled, and nothing more is called for it.
ReportInv ==
  \A report \in reports :
    /\ report.client \in Clients /\ report.try \in 1..tries[report.client]
    /\ InFlight(report.client) => report.try < tries[report.client]
    /\ \A i \in DOMAIN report.jobs :
         Settled(report.client, report.try, report.jobs[i], report.outcomes[i])

\* What was seen to be accepted is not on the client's list any more.
PastInv ==
  \A call \in calls :
    call.answer.taken /\ << call.client, call.try >> \notin cuts /\ ~AcceptanceIsHidden(call) =>
      \/ InFlight(call.client) /\ call.try = tries[call.client]
      \/ \A i \in DOMAIN request[call.client].jobs : request[call.client].jobs[i] # call.job

HttpInv ==
  TypeInv /\ CallInv /\ ProgressInv /\ ReportInv /\ PastInv /\ RepeatHasCause

-----------------------------------------------------------------------------
(* The initial states, and steps that concern no request *)

LEMMA IdleFacts ==
  ASSUME NEW jobs \in Seq(Names), Distinct(jobs)
  PROVE  /\ Idle(jobs) \in Requests /\ RequestInv(Idle(jobs))
         /\ Idle(jobs).stage = "idle" /\ Idle(jobs).jobs = jobs
         /\ [Idle(jobs) EXCEPT !.stage = "done"] \in Requests
         /\ RequestInv([Idle(jobs) EXCEPT !.stage = "done"])
         /\ [Idle(jobs) EXCEPT !.stage = "done"].stage = "done"
         /\ [Idle(jobs) EXCEPT !.stage = "done"].jobs = jobs
<1>1. << >> \in Seq(Replies) /\ << >> \in Seq(Answers) /\ Len(<< >>) = 0 /\ DOMAIN << >> = {}
      /\ Len(jobs) \in Nat
  OBVIOUS
<1>2. "idle" \in Stages /\ "done" \in Stages
  BY DEF Stages
<1> DEFINE idle == Idle(jobs)
           done == [Idle(jobs) EXCEPT !.stage = "done"]
<1>3. /\ idle.stage = "idle" /\ idle.jobs = jobs /\ idle.outcomes = << >> /\ idle.answer = << >>
      /\ idle \in Requests
  BY <1>1, <1>2 DEF Idle, Requests
<1>4. /\ done.stage = "done" /\ done.jobs = jobs /\ done.outcomes = << >> /\ done.answer = << >>
      /\ done \in Requests
  BY <1>1, <1>2 DEF Idle, Requests
<1> HIDE DEF idle, done
<1>5. RequestInv(idle)
  BY <1>1, <1>3 DEF RequestInv
<1>6. RequestInv(done)
  BY <1>1, <1>4 DEF RequestInv
<1> QED BY <1>3, <1>4, <1>5, <1>6 DEF idle, done

LEMMA InitHolds == Init => HttpInv
<1> SUFFICES ASSUME Init PROVE HttpInv
  OBVIOUS
<1>1. PICK batch \in [Clients -> Batches] : request = [c \in Clients |-> Idle(batch[c])]
  BY DEF Init
<1>2. \A c \in Clients : batch[c] \in Seq(Names) /\ Distinct(batch[c])
  BY JobAssumption
<1>3. \A c \in Clients : request[c] \in Requests /\ RequestInv(request[c]) /\ ~InFlight(c)
  BY <1>1, <1>2, IdleFacts DEF InFlight
<1>4. request \in [Clients -> Requests]
  BY <1>1, <1>3
<1>5. TypeInv
  BY <1>3, <1>4, HttpAssumption DEF Init, TypeInv
<1>6. CallInv /\ ProgressInv /\ ReportInv /\ PastInv /\ RepeatHasCause
  BY <1>3 DEF Init, CallInv, ProgressInv, ReportInv, PastInv, RepeatHasCause
<1> QED BY <1>5, <1>6 DEF HttpInv

\* What is known of a client's request stays true while neither it nor its calls change.
LEMMA ProgressStays ==
  ASSUME NEW c \in Clients, Progress(c), request'[c] = request[c], tries'[c] = tries[c],
         calls \subseteq calls', \A call \in calls' : call.client = c => call \in calls
  PROVE  Progress(c)'
<1>1. Current(c)' = Current(c)
  BY DEF Current
<1>2. \A i \in DOMAIN request[c].outcomes :
        Settled(c, tries[c], request[c].jobs[i], request[c].outcomes[i])'
  BY DEF Progress, Settled, Made
<1> QED BY <1>1, <1>2 DEF Progress, Made

\* What a report says stays true when nothing more is called for it.
LEMMA ReportsStay ==
  ASSUME ReportInv, reports' = reports, calls \subseteq calls',
         \A c \in Clients : tries[c] \in Nat /\ tries'[c] \in Nat /\ tries[c] <= tries'[c],
         \A c \in Clients : InFlight(c)' => InFlight(c) \/ tries[c] < tries'[c],
         \A call \in calls' \ calls : InFlight(call.client) /\ call.try = tries[call.client]
  PROVE  ReportInv'
<1> SUFFICES ASSUME NEW report \in reports
             PROVE  /\ report.client \in Clients /\ report.try \in 1..tries'[report.client]
                    /\ InFlight(report.client)' => report.try < tries'[report.client]
                    /\ \A i \in DOMAIN report.jobs :
                         Settled(report.client, report.try, report.jobs[i], report.outcomes[i])'
  BY DEF ReportInv
<1>1. report.client \in Clients /\ report.try \in 1..tries[report.client]
      /\ (InFlight(report.client) => report.try < tries[report.client])
  BY DEF ReportInv
<1>2. report.try \in 1..tries'[report.client]
      /\ (InFlight(report.client)' => report.try < tries'[report.client])
  BY <1>1
<1>3. \A call \in calls' : (call.client = report.client /\ call.try = report.try) => call \in calls
  BY <1>1
<1>4. \A i \in DOMAIN report.jobs :
        Settled(report.client, report.try, report.jobs[i], report.outcomes[i])
  BY DEF ReportInv
<1>5. \A i \in DOMAIN report.jobs :
        Settled(report.client, report.try, report.jobs[i], report.outcomes[i])'
  BY <1>3, <1>4 DEF Settled, Made
<1> QED BY <1>1, <1>2, <1>5

\* A step that leaves the requests and what is known of them alone.
LEMMA QuietStep ==
  ASSUME HttpInv, UNCHANGED << env, request, tries, calls, reports, cuts >>,
         server' \in { "down", "refused", "exported", "serving", "stopping", "stopped" }
  PROVE  HttpInv'
<1>1. TypeInv'
  BY DEF HttpInv, TypeInv, InFlight
<1>2. CallInv' /\ PastInv' /\ RepeatHasCause'
  BY DEF HttpInv, CallInv, PastInv, RepeatHasCause, InFlight, AcceptanceIsHidden, FromExpo
<1>3. ProgressInv'
  BY ProgressStays DEF HttpInv, ProgressInv, InFlight
<1>4. ReportInv'
  BY ReportsStay DEF HttpInv, TypeInv, InFlight
<1> QED BY <1>1, <1>2, <1>3, <1>4 DEF HttpInv

-----------------------------------------------------------------------------
(* A submission *)

LEMMA TurnAwayStep ==
  ASSUME HttpInv, NEW c \in Clients, NEW credential, TurnAway(c, credential)
  PROVE  HttpInv'
<1>1. /\ request[c].stage = "idle" /\ tries[c] < MaxTries
      /\ tries' = [tries EXCEPT ![c] = @ + 1]
      /\ UNCHANGED << server, env, request, calls, reports, cuts >>
  BY DEF TurnAway, MaySubmit
<1>2. /\ tries \in [Clients -> 0..MaxTries] /\ tries' \in [Clients -> 0..MaxTries]
      /\ tries'[c] = tries[c] + 1 /\ \A d \in Clients : d # c => tries'[d] = tries[d]
      /\ \A d \in Clients : tries[d] \in Nat /\ tries[d] <= tries'[d]
  BY <1>1, HttpAssumption DEF HttpInv, TypeInv
<1>3. ~InFlight(c) /\ \A d \in Clients : InFlight(d)' <=> InFlight(d)
  BY <1>1 DEF InFlight
<1>4. TypeInv'
  BY <1>1, <1>2, <1>3 DEF HttpInv, TypeInv
<1>5. CallInv'
  BY <1>1, <1>2 DEF HttpInv, CallInv
<1>6. PastInv' /\ RepeatHasCause'
  BY <1>1, <1>2, <1>3
     DEF HttpInv, CallInv, PastInv, RepeatHasCause, AcceptanceIsHidden, FromExpo
<1>7. ProgressInv'
  BY <1>1, <1>2, <1>3, ProgressStays DEF HttpInv, ProgressInv
<1>8. ReportInv'
  BY <1>1, <1>2, <1>3, ReportsStay DEF HttpInv
<1> QED BY <1>4, <1>5, <1>6, <1>7, <1>8 DEF HttpInv

LEMMA SubmitStep ==
  ASSUME HttpInv, NEW c \in Clients, NEW credential, Submit(c, credential)
  PROVE  HttpInv'
<1>1. /\ request[c].stage = "idle" /\ tries[c] < MaxTries
      /\ tries' = [tries EXCEPT ![c] = @ + 1]
      /\ request' = [request EXCEPT ![c].stage = "running"]
      /\ UNCHANGED << server, env, calls, reports, cuts >>
  BY DEF Submit, MaySubmit
<1>2. /\ tries \in [Clients -> 0..MaxTries] /\ tries' \in [Clients -> 0..MaxTries]
      /\ tries'[c] = tries[c] + 1 /\ \A d \in Clients : d # c => tries'[d] = tries[d]
      /\ \A d \in Clients : tries[d] \in Nat /\ tries[d] <= tries'[d]
  BY <1>1, HttpAssumption DEF HttpInv, TypeInv
<1>3. /\ request \in [Clients -> Requests] /\ request' \in [Clients -> Requests]
      /\ request'[c] = [request[c] EXCEPT !.stage = "running"]
      /\ \A d \in Clients : d # c => request'[d] = request[d]
  BY <1>1 DEF HttpInv, TypeInv, Requests, Stages
<1>4. /\ request'[c].stage = "running" /\ request'[c].jobs = request[c].jobs
      /\ request'[c].outcomes = << >> /\ request'[c].answer = request[c].answer
  BY <1>1, <1>3 DEF HttpInv, TypeInv, Requests, RequestInv
<1>5. ~InFlight(c) /\ InFlight(c)' /\ \A d \in Clients : d # c => (InFlight(d)' <=> InFlight(d))
  BY <1>1, <1>3, <1>4 DEF InFlight
<1>6. TypeInv'
  <2>1. RequestInv(request[c]) /\ request[c].jobs \in Seq(Names)
    BY DEF HttpInv, TypeInv, Requests
  <2>2. RequestInv(request'[c])
    BY <1>1, <1>4, <2>1 DEF RequestInv
  <2> QED BY <1>1, <1>2, <1>3, <1>5, <2>2 DEF HttpInv, TypeInv
<1>7. CallInv'
  BY <1>1, <1>2 DEF HttpInv, CallInv
<1>8. PastInv' /\ RepeatHasCause'
  BY <1>1, <1>2, <1>3, <1>4, <1>5
     DEF HttpInv, CallInv, PastInv, RepeatHasCause, AcceptanceIsHidden, FromExpo
<1>9. ProgressInv'
  <2> SUFFICES ASSUME NEW d \in Clients, InFlight(d)' PROVE Progress(d)'
    BY DEF ProgressInv
  <2>1. CASE d = c
    <3>1. \A call \in calls' : ~(call.client = c /\ call.try = tries'[c])
      BY <1>1, <1>2 DEF HttpInv, CallInv
    <3> QED BY <1>4, <2>1, <3>1 DEF Progress
  <2>2. CASE d # c
    BY <1>1, <1>2, <1>3, <1>5, <2>2, ProgressStays DEF HttpInv, ProgressInv
  <2> QED BY <2>1, <2>2
<1>10. ReportInv'
  BY <1>1, <1>2, <1>5, ReportsStay DEF HttpInv
<1> QED BY <1>6, <1>7, <1>8, <1>9, <1>10 DEF HttpInv

-----------------------------------------------------------------------------
(* A job *)

\* What a request looks like when its handler turns to the next job.
LEMMA AtJobFacts ==
  ASSUME TypeInv, NEW c \in Clients, AtJob(c)
  PROVE  LET n == Len(request[c].outcomes) IN
         /\ InFlight(c) /\ request[c].stage = "running"
         /\ n \in Nat /\ DOMAIN request[c].outcomes = 1..n
         /\ n + 1 \in DOMAIN request[c].jobs
         /\ Current(c) = request[c].jobs[n + 1] /\ Current(c) \in Names
         /\ \A k \in 1..n : k \in DOMAIN request[c].jobs /\ request[c].jobs[k] # Current(c)
<1>1. request[c] \in Requests /\ RequestInv(request[c])
  BY DEF TypeInv
<1> DEFINE jobs     == request[c].jobs
           outcomes == request[c].outcomes
           n        == Len(outcomes)
<1>2. jobs \in Seq(Names) /\ outcomes \in Seq(Replies) /\ Distinct(jobs) /\ n < Len(jobs)
      /\ request[c].stage = "running"
  BY <1>1 DEF Requests, RequestInv, AtJob
<1>3. n \in Nat /\ DOMAIN outcomes = 1..n /\ Len(jobs) \in Nat /\ DOMAIN jobs = 1..Len(jobs)
  BY <1>2
<1>4. n + 1 \in DOMAIN jobs /\ \A k \in 1..n : k \in DOMAIN jobs /\ k # n + 1
  BY <1>2, <1>3
<1>5. jobs[n + 1] \in Names /\ \A k \in 1..n : jobs[k] # jobs[n + 1]
  BY <1>2, <1>4 DEF Distinct
<1> QED BY <1>2, <1>3, <1>4, <1>5 DEF InFlight, Current

LEMMA CallingFacts ==
  ASSUME TypeInv, NEW c \in Clients, request[c].stage = "calling"
  PROVE  LET n == Len(request[c].outcomes) IN
         /\ InFlight(c)
         /\ n \in Nat /\ DOMAIN request[c].outcomes = 1..n
         /\ n + 1 \in DOMAIN request[c].jobs
         /\ Current(c) = request[c].jobs[n + 1] /\ Current(c) \in Names
         /\ \A k \in 1..n : k \in DOMAIN request[c].jobs /\ request[c].jobs[k] # Current(c)
<1>1. request[c] \in Requests /\ RequestInv(request[c])
  BY DEF TypeInv
<1> DEFINE jobs     == request[c].jobs
           outcomes == request[c].outcomes
           n        == Len(outcomes)
<1>2. jobs \in Seq(Names) /\ outcomes \in Seq(Replies) /\ Distinct(jobs) /\ n < Len(jobs)
  BY <1>1 DEF Requests, RequestInv
<1>3. n \in Nat /\ DOMAIN outcomes = 1..n /\ Len(jobs) \in Nat /\ DOMAIN jobs = 1..Len(jobs)
  BY <1>2
<1>4. n + 1 \in DOMAIN jobs /\ \A k \in 1..n : k \in DOMAIN jobs /\ k # n + 1
  BY <1>2, <1>3
<1>5. jobs[n + 1] \in Names /\ \A k \in 1..n : jobs[k] # jobs[n + 1]
  BY <1>2, <1>4 DEF Distinct
<1> QED BY <1>3, <1>4, <1>5 DEF InFlight, Current

\* An outcome is put behind those there are, and the request goes on.
LEMMA OutcomeStep ==
  ASSUME HttpInv, NEW c \in Clients, NEW reply \in Replies, IsReply(reply),
         AtJob(c) \/ request[c].stage = "calling",
         Settled(c, tries[c], Current(c), reply),
         request' \in [Clients -> Requests],
         \A d \in Clients : d # c => request'[d] = request[d],
         request'[c].stage = "running", request'[c].answer = << >>,
         request'[c].jobs = request[c].jobs,
         request'[c].outcomes = Append(request[c].outcomes, reply),
         UNCHANGED << server, env, tries, calls, reports, cuts >>
  PROVE  HttpInv'
<1> DEFINE n == Len(request[c].outcomes)
<1>1. /\ InFlight(c) /\ n \in Nat /\ DOMAIN request[c].outcomes = 1..n
      /\ n + 1 \in DOMAIN request[c].jobs /\ Current(c) = request[c].jobs[n + 1]
      /\ \A k \in 1..n : k \in DOMAIN request[c].jobs /\ request[c].jobs[k] # Current(c)
  BY AtJobFacts, CallingFacts DEF HttpInv
<1>2. request[c] \in Requests /\ RequestInv(request[c]) /\ request \in [Clients -> Requests]
  BY DEF HttpInv, TypeInv
<1>3. request[c].outcomes \in Seq(Replies) /\ request[c].jobs \in Seq(Names)
  BY <1>2 DEF Requests
<1>4. /\ request'[c].stage = "running" /\ request'[c].answer = << >>
      /\ request'[c].jobs = request[c].jobs
      /\ request'[c].outcomes = Append(request[c].outcomes, reply)
  OBVIOUS
<1>5. request' \in [Clients -> Requests] /\ \A d \in Clients : d # c => request'[d] = request[d]
  OBVIOUS
<1>6. \A d \in Clients : InFlight(d)' <=> InFlight(d)
  BY <1>1, <1>4, <1>5 DEF InFlight
<1>7. /\ DOMAIN request'[c].outcomes = 1..(n + 1) /\ Len(request'[c].outcomes) = n + 1
      /\ request'[c].outcomes[n + 1] = reply
      /\ \A k \in 1..n : request'[c].outcomes[k] = request[c].outcomes[k]
  BY <1>1, <1>3, <1>4
<1>8. TypeInv'
  <2>1. n + 1 <= Len(request[c].jobs)
    BY <1>1, <1>3
  <2>2. \A k \in 1..(n + 1) : k = n + 1 \/ k \in 1..n
    BY <1>1
  <2>3. \A k \in DOMAIN request'[c].outcomes : IsReply(request'[c].outcomes[k])
    BY <1>1, <1>2, <1>7, <2>2 DEF RequestInv
  <2>4. RequestInv(request'[c])
    BY <1>2, <1>4, <1>7, <2>1, <2>3 DEF RequestInv
  <2> QED BY <1>5, <1>6, <2>4 DEF HttpInv, TypeInv
<1>9. CallInv' /\ PastInv' /\ RepeatHasCause'
  <2>1. \A d \in Clients : request'[d].jobs = request[d].jobs
    BY <1>4, <1>5
  <2>2. \A call \in calls : call.client \in Clients
    BY DEF HttpInv, CallInv
  <2>3. CallInv' /\ RepeatHasCause'
    BY DEF HttpInv, CallInv, RepeatHasCause, AcceptanceIsHidden, FromExpo
  <2>4. ASSUME NEW call \in calls, call.answer.taken, << call.client, call.try >> \notin cuts,
               ~AcceptanceIsHidden(call)
        PROVE  \/ InFlight(call.client)' /\ call.try = tries[call.client]
               \/ \A i \in DOMAIN request'[call.client].jobs :
                    request'[call.client].jobs[i] # call.job
    <3>1. \/ InFlight(call.client) /\ call.try = tries[call.client]
          \/ \A i \in DOMAIN request[call.client].jobs : request[call.client].jobs[i] # call.job
      BY <2>4 DEF HttpInv, PastInv
    <3>2. /\ InFlight(call.client)' <=> InFlight(call.client)
          /\ request'[call.client].jobs = request[call.client].jobs
      BY <1>6, <2>1, <2>2
    <3> QED BY <3>1, <3>2
  <2>5. PastInv'
    BY <2>4 DEF PastInv, AcceptanceIsHidden, FromExpo
  <2> QED BY <2>3, <2>5
<1>10. ProgressInv'
  <2> SUFFICES ASSUME NEW d \in Clients, InFlight(d)' PROVE Progress(d)'
    BY DEF ProgressInv
  <2>1. CASE d # c
    BY <1>5, <1>6, <2>1, ProgressStays DEF HttpInv, ProgressInv
  <2>2. CASE d = c
    <3>1. Progress(c)
      BY <1>1 DEF HttpInv, ProgressInv
    <3>2. ASSUME NEW i \in 1..(n + 1)
          PROVE  Settled(c, tries[c], request'[c].jobs[i], request'[c].outcomes[i])
      <4>1. CASE i = n + 1
        BY <1>1, <1>4, <1>7, <4>1
      <4>2. CASE i # n + 1
        <5>1. i \in 1..n
          BY <1>1, <4>2
        <5> QED BY <1>1, <1>4, <1>7, <3>1, <5>1 DEF Progress
      <4> QED BY <4>1, <4>2
    <3>3. \A i \in 1..(n + 1) : Settled(c, tries[c], request[c].jobs[i], request[c].outcomes[i])'
      BY <3>2 DEF Settled
    <3>4. ASSUME NEW call \in calls, call.client = c, call.try = tries[c]
          PROVE  \E k \in 1..(n + 1) : call.job = request'[c].jobs[k]
      <4>1. n + 1 \in 1..(n + 1) /\ \A k \in 1..n : k \in 1..(n + 1)
        BY <1>1
      <4> QED BY <1>1, <1>4, <3>1, <3>4, <4>1 DEF Progress
    <3> QED BY <1>4, <1>7, <2>2, <3>3, <3>4 DEF Progress
  <2> QED BY <2>1, <2>2
<1>11. ReportInv'
  BY <1>6, ReportsStay DEF HttpInv, TypeInv
<1> QED BY <1>8, <1>9, <1>10, <1>11 DEF HttpInv

\* Where an outcome goes, in the shape OutcomeStep needs it.
LEMMA AppendedOutcome ==
  ASSUME TypeInv, NEW c \in Clients, NEW reply \in Replies,
         \/ request' = [request EXCEPT ![c].stage = "running", ![c].answer = << >>,
                                       ![c].outcomes = Append(@, reply)]
         \/ /\ request' = [request EXCEPT ![c].outcomes = Append(@, reply)]
            /\ request[c].stage = "running"
  PROVE  /\ request' \in [Clients -> Requests]
         /\ \A d \in Clients : d # c => request'[d] = request[d]
         /\ request'[c].stage = "running" /\ request'[c].answer = << >>
         /\ request'[c].jobs = request[c].jobs
         /\ request'[c].outcomes = Append(request[c].outcomes, reply)
<1>1. request[c] \in Requests /\ RequestInv(request[c]) /\ request \in [Clients -> Requests]
  BY DEF TypeInv
<1>2. /\ request[c].outcomes \in Seq(Replies) /\ << >> \in Seq(Answers) /\ "running" \in Stages
      /\ request[c].jobs \in Seq(Names) /\ request[c].answer \in Seq(Answers)
      /\ Append(request[c].outcomes, reply) \in Seq(Replies)
  BY <1>1 DEF Requests, Stages
<1>3. request[c].stage = "running" => request[c].answer = << >>
  BY <1>1 DEF RequestInv
<1>4. CASE request' = [request EXCEPT ![c].stage = "running", ![c].answer = << >>,
                                      ![c].outcomes = Append(@, reply)]
  BY <1>1, <1>2, <1>4 DEF Requests
<1>5. CASE /\ request' = [request EXCEPT ![c].outcomes = Append(@, reply)]
           /\ request[c].stage = "running"
  BY <1>1, <1>2, <1>3, <1>5 DEF Requests
<1> QED BY <1>4, <1>5

LEMMA RefuseStep ==
  ASSUME HttpInv, NEW c \in Clients, Refuse(c)
  PROVE  HttpInv'
<1>1. PICK reply \in AdmissionsOf[env][Current(c)] \ { Proceed } :
        request' = [request EXCEPT ![c].outcomes = Append(@, reply)]
  BY DEF Refuse
<1>2. AtJob(c) /\ UNCHANGED << server, env, tries, calls, reports, cuts >>
  BY DEF Refuse
<1>3. TypeInv /\ Current(c) \in Names /\ env \in Environments
  BY <1>2, AtJobFacts DEF HttpInv, TypeInv
<1>4. reply \in Replies
  <2>1. reply \in RefusedReplies
    BY <1>1, <1>3 DEF RefusedReplies
  <2> QED BY <2>1 DEF Replies
<1>5. IsReply(reply) /\ reply.class # "accepted"
  BY <1>1, <1>3, AdmissionFacts DEF IsRefusal
<1>6. Settled(c, tries[c], Current(c), reply)
  <2>1. \A call \in calls : ~Made(call, c, tries[c], Current(c))
    BY <1>2, <1>3, AtJobFacts DEF HttpInv, ProgressInv, Progress, Made
  <2> QED BY <1>5, <2>1 DEF Settled
<1>7. request[c].stage = "running"
  BY <1>2 DEF AtJob
<1>8. /\ request' \in [Clients -> Requests]
      /\ \A d \in Clients : d # c => request'[d] = request[d]
      /\ request'[c].stage = "running" /\ request'[c].answer = << >>
      /\ request'[c].jobs = request[c].jobs
      /\ request'[c].outcomes = Append(request[c].outcomes, reply)
  BY <1>1, <1>3, <1>4, <1>7, AppendedOutcome
<1> QED BY <1>2, <1>4, <1>5, <1>6, <1>8, OutcomeStep

LEMMA ReturnStep ==
  ASSUME HttpInv, NEW c \in Clients, Return(c)
  PROVE  HttpInv'
<1> DEFINE reply == OutcomeOf(JobOf[Current(c)], request[c].answer[1])
<1>1. /\ request[c].stage = "calling"
      /\ request' = [request EXCEPT ![c].stage = "running", ![c].answer = << >>,
                                    ![c].outcomes = Append(@, reply)]
      /\ UNCHANGED << server, env, tries, calls, reports, cuts >>
  BY DEF Return
<1>2. TypeInv /\ Progress(c) /\ Current(c) \in Names /\ env \in Environments
  BY <1>1, CallingFacts DEF HttpInv, TypeInv, ProgressInv
<1>3. PICK call \in calls :
        Made(call, c, tries[c], Current(c)) /\ call.answer = request[c].answer[1]
  BY <1>1, <1>2 DEF Progress
<1>4. /\ call.job \in Names /\ call.answer \in AnswersOf[JobOf[call.job].provider]
      /\ Proceed \in AdmissionsOf[env][call.job]
  BY DEF HttpInv, CallInv
<1>5. reply = OutcomeOf(JobOf[call.job], call.answer)
  BY <1>3 DEF Made
<1>6. call.answer \in Answers
  BY <1>4, JobAssumption DEF Answers
<1>7. reply \in Replies
  <2> HIDE DEF reply
  <2>1. OutcomeOf(JobOf[call.job], call.answer) \in JudgedReplies
    BY <1>4, <1>6 DEF JudgedReplies
  <2> QED BY <1>5, <2>1 DEF Replies
<1>8. IsReply(reply)
  BY <1>2, <1>4, <1>5, CallJudges DEF Judges
<1>9. Settled(c, tries[c], Current(c), reply)
  <2>1. ASSUME NEW other \in calls, Made(other, c, tries[c], Current(c))
        PROVE  other.answer = request[c].answer[1]
    <3>1. \A k \in DOMAIN request[c].outcomes : request[c].jobs[k] # Current(c)
      BY <1>1, <1>2, CallingFacts
    <3>2. other.client = c /\ other.try = tries[c] /\ other.job = Current(c)
      BY <2>1 DEF Made
    <3>3. \/ \E k \in DOMAIN request[c].outcomes : other.job = request[c].jobs[k]
          \/ other.answer = request[c].answer[1]
      BY <1>2, <2>1, <3>2 DEF Progress
    <3> QED BY <3>1, <3>2, <3>3
  <2> QED BY <1>3, <2>1 DEF Settled
<1> HIDE DEF reply
<1>10. /\ request' \in [Clients -> Requests]
       /\ \A d \in Clients : d # c => request'[d] = request[d]
       /\ request'[c].stage = "running" /\ request'[c].answer = << >>
       /\ request'[c].jobs = request[c].jobs
       /\ request'[c].outcomes = Append(request[c].outcomes, reply)
  BY <1>1, <1>2, <1>7, AppendedOutcome
<1> QED BY <1>1, <1>7, <1>8, <1>9, <1>10, OutcomeStep

LEMMA CallStep ==
  ASSUME HttpInv, NEW c \in Clients, Call(c)
  PROVE  HttpInv'
<1> DEFINE name == Current(c)
           job  == JobOf[name]
<1>1. AtJob(c) /\ Proceed \in AdmissionsOf[env][name]
      /\ UNCHANGED << server, env, tries, reports, cuts >>
  BY DEF Call
<1>2. PICK answer \in AnswersOf[job.provider] :
        /\ request' = [request EXCEPT ![c].stage = "calling", ![c].answer = << answer >>]
        /\ calls' = calls \cup { [client |-> c, try |-> tries[c], job |-> name,
                                  request |-> RequestFor(env, job), answer |-> answer] }
  BY DEF Call
<1> DEFINE new == [client |-> c, try |-> tries[c], job |-> name,
                   request |-> RequestFor(env, job), answer |-> answer]
           n   == Len(request[c].outcomes)
<1>3. /\ InFlight(c) /\ n \in Nat /\ DOMAIN request[c].outcomes = 1..n
      /\ n + 1 \in DOMAIN request[c].jobs /\ name = request[c].jobs[n + 1] /\ name \in Names
      /\ \A k \in 1..n : k \in DOMAIN request[c].jobs /\ request[c].jobs[k] # name
      /\ request[c].stage = "running"
  BY <1>1, AtJobFacts DEF HttpInv
<1>4. request[c] \in Requests /\ RequestInv(request[c]) /\ request \in [Clients -> Requests]
      /\ env \in Environments
  BY DEF HttpInv, TypeInv
<1>5. answer \in Answers
  BY <1>2, <1>3, JobAssumption DEF Answers
<1>6. /\ request' \in [Clients -> Requests]
      /\ \A d \in Clients : d # c => request'[d] = request[d]
      /\ request'[c].stage = "calling" /\ request'[c].answer = << answer >>
      /\ request'[c].jobs = request[c].jobs /\ request'[c].outcomes = request[c].outcomes
  <2>1. << answer >> \in Seq(Answers) /\ "calling" \in Stages
    BY <1>5 DEF Stages
  <2> QED BY <1>2, <1>4, <2>1 DEF Requests
<1>7. \A d \in Clients : InFlight(d)' <=> InFlight(d)
  BY <1>3, <1>6 DEF InFlight
<1>8. /\ new.client = c /\ new.try = tries[c] /\ new.job = name /\ new.answer = answer
      /\ new.request = RequestFor(env, job)
  OBVIOUS
<1>9. calls' = calls \cup { new }
  BY <1>2
<1> HIDE DEF new
<1>10. tries[c] \in 1..MaxTries /\ \A d \in Clients : tries[d] \in Nat
  BY <1>3, HttpAssumption DEF HttpInv, TypeInv
<1>11. TypeInv'
  <2>1. << answer >> # << >> /\ n < Len(request[c].jobs)
    <3>1. request[c].jobs \in Seq(Names)
      BY <1>4 DEF Requests
    <3> QED BY <1>3, <3>1
  <2>2. RequestInv(request'[c])
    BY <1>4, <1>6, <2>1 DEF RequestInv
  <2> QED BY <1>1, <1>6, <1>7, <2>2 DEF HttpInv, TypeInv
<1>12. CallInv'
  <2>1. ASSUME NEW call \in calls'
        PROVE  /\ call.client \in Clients /\ call.try \in 1..tries[call.client]
               /\ call.job \in Names /\ call.answer \in AnswersOf[JobOf[call.job].provider]
               /\ Proceed \in AdmissionsOf[env][call.job]
               /\ call.request = RequestFor(env, JobOf[call.job])
    <3>1. CASE call \in calls
      BY <3>1 DEF HttpInv, CallInv
    <3>2. CASE call = new
      BY <1>1, <1>3, <1>8, <1>10, <3>2
    <3> QED BY <1>9, <3>1, <3>2
  <2>2. \A e : RequestFor(env, e)' = RequestFor(env, e)
    BY <1>1
  <2> QED BY <1>1, <2>1 DEF CallInv
<1>13. ProgressInv'
  <2> SUFFICES ASSUME NEW d \in Clients, InFlight(d)' PROVE Progress(d)'
    BY DEF ProgressInv
  <2>1. CASE d # c
    BY <1>1, <1>6, <1>7, <1>8, <1>9, <2>1, ProgressStays DEF HttpInv, ProgressInv
  <2>2. CASE d = c
    <3>1. Progress(c)
      BY <1>3 DEF HttpInv, ProgressInv
    <3>2. Current(c)' = name
      BY <1>6 DEF Current
    <3>3. \A i \in 1..n : Settled(c, tries[c], request[c].jobs[i], request[c].outcomes[i])
      BY <1>3, <3>1 DEF Progress
    <3>4. ASSUME NEW i \in 1..n
          PROVE  Settled(c, tries[c], request[c].jobs[i], request[c].outcomes[i])'
      <4>1. ~Made(new, c, tries[c], request[c].jobs[i])
        BY <1>3, <1>8 DEF Made
      <4>2. request'[c].jobs[i] = request[c].jobs[i]
            /\ request'[c].outcomes[i] = request[c].outcomes[i] /\ tries'[c] = tries[c]
        BY <1>1, <1>6
      <4> QED BY <1>9, <3>3, <4>1, <4>2 DEF Settled, Made
    <3>5. ASSUME NEW call \in calls', call.client = c, call.try = tries'[c]
          PROVE  \/ \E k \in 1..n : call.job = request'[c].jobs[k]
                 \/ call.job = Current(c)' /\ call.answer = request'[c].answer[1]
      <4>1. CASE call \in calls
        BY <1>1, <1>3, <1>6, <3>1, <3>5, <4>1 DEF Progress
      <4>2. CASE call = new
        BY <1>6, <1>8, <3>2, <4>2
      <4> QED BY <1>9, <4>1, <4>2
    <3>6. \E call \in calls' : Made(call, c, tries'[c], Current(c)')
                               /\ call.answer = request'[c].answer[1]
      BY <1>1, <1>6, <1>8, <1>9, <3>2 DEF Made
    <3>7. DOMAIN request'[c].outcomes = 1..n
      BY <1>3, <1>6
    <3> QED BY <1>6, <2>2, <3>4, <3>5, <3>6, <3>7 DEF Progress, Made
  <2> QED BY <2>1, <2>2
<1>14. ReportInv'
  BY <1>1, <1>3, <1>7, <1>8, <1>9, <1>10, ReportsStay DEF HttpInv
<1>15. PastInv'
  <2>1. ASSUME NEW call \in calls', call.answer.taken, << call.client, call.try >> \notin cuts,
               ~AcceptanceIsHidden(call)
        PROVE  \/ InFlight(call.client)' /\ call.try = tries[call.client]
               \/ \A i \in DOMAIN request'[call.client].jobs :
                    request'[call.client].jobs[i] # call.job
    <3>1. CASE call = new
      BY <1>3, <1>7, <1>8, <3>1
    <3>2. CASE call \in calls
      <4>1. \/ InFlight(call.client) /\ call.try = tries[call.client]
            \/ \A i \in DOMAIN request[call.client].jobs : request[call.client].jobs[i] # call.job
        BY <2>1, <3>2 DEF HttpInv, PastInv
      <4>2. /\ InFlight(call.client)' <=> InFlight(call.client)
            /\ request'[call.client].jobs = request[call.client].jobs
        BY <1>6, <1>7, <3>2 DEF HttpInv, CallInv
      <4> QED BY <4>1, <4>2
    <3> QED BY <1>9, <3>1, <3>2
  <2> QED BY <1>1, <2>1 DEF PastInv, AcceptanceIsHidden, FromExpo
<1>16. RepeatHasCause'
  <2> SUFFICES ASSUME NEW first \in calls', NEW second \in calls',
                      first.client = second.client, first.job = second.job,
                      first.try < second.try, first.answer.taken,
                      << first.client, first.try >> \notin cuts, ~AcceptanceIsHidden(first)
               PROVE  FALSE
    BY <1>1 DEF RepeatHasCause, AcceptanceIsHidden, FromExpo
  <2>1. CASE first \in calls /\ second \in calls
    BY <2>1 DEF HttpInv, RepeatHasCause
  <2>2. CASE first = new /\ second = new
    BY <1>8, <1>10, <2>2
  <2>3. CASE first = new /\ second \in calls
    <3>1. second.client = c /\ second.try \in 1..tries[c] /\ first.try = tries[c]
      BY <1>8, <2>3 DEF HttpInv, CallInv
    <3> QED BY <1>10, <3>1
  <2>4. CASE first \in calls /\ second = new
    <3>1. first.client = c /\ first.try # tries[c] /\ first.job = request[c].jobs[n + 1]
      BY <1>3, <1>8, <1>10, <2>4 DEF HttpInv, CallInv
    <3>2. \A i \in DOMAIN request[c].jobs : request[c].jobs[i] # first.job
      BY <2>4, <3>1 DEF HttpInv, PastInv
    <3> QED BY <1>3, <3>1, <3>2
  <2> QED BY <1>9, <2>1, <2>2, <2>3, <2>4
<1> QED BY <1>11, <1>12, <1>13, <1>14, <1>15, <1>16 DEF HttpInv

-----------------------------------------------------------------------------
(* The end of a request *)

\* What a client sends again is a batch: of jobs of the old one, each reported retryable.
LEMMA ResentFacts ==
  ASSUME NEW jobs \in Seq(Names), NEW outcomes, NEW left \in Resent(jobs, outcomes)
  PROVE  /\ left \in Seq(Names) /\ Distinct(left)
         /\ \A i \in DOMAIN left : \E k \in DOMAIN jobs :
              left[i] = jobs[k] /\ IsRetryable(outcomes[k].class)
<1> DEFINE again == { jobs[i] : i \in { k \in DOMAIN jobs : IsRetryable(outcomes[k].class) } }
<1>1. PICK m \in 0..Len(jobs) : left \in [1..m -> again]
  BY DEF Resent
<1>2. m \in Nat /\ DOMAIN left = 1..m /\ \A i \in 1..m : left[i] \in again
  BY <1>1
<1>3. \A name \in again : \E k \in DOMAIN jobs :
        name = jobs[k] /\ IsRetryable(outcomes[k].class)
  OBVIOUS
<1>4. again \subseteq Names
  OBVIOUS
<1> HIDE DEF again
<1>5. left \in Seq(Names)
  <2>1. left \in [1..m -> Names]
    BY <1>1, <1>4
  <2> QED BY <1>2, <2>1
<1>6. Distinct(left)
  BY DEF Resent
<1> QED BY <1>2, <1>3, <1>5, <1>6

\* A request that is over leaves the client with jobs it may send again; the caller sees to it
\* that none of them was seen to be accepted.
LEMMA EndStep ==
  ASSUME HttpInv, NEW c \in Clients, NEW jobs \in Seq(Names), Distinct(jobs),
         request'[c] \in { Idle(jobs), [Idle(jobs) EXCEPT !.stage = "done"] },
         request' \in [Clients -> Requests],
         \A d \in Clients : d # c => request'[d] = request[d],
         cuts \subseteq cuts', cuts' \subseteq Clients \X (1..MaxTries),
         UNCHANGED << server, env, tries, calls >>,
         \A call \in calls :
           ( /\ call.client = c /\ call.answer.taken /\ << c, call.try >> \notin cuts'
             /\ ~AcceptanceIsHidden(call) ) => \A i \in DOMAIN jobs : jobs[i] # call.job
  PROVE  TypeInv' /\ CallInv' /\ ProgressInv' /\ PastInv' /\ RepeatHasCause' /\ ~InFlight(c)'
         /\ \A d \in Clients : d # c => (InFlight(d)' <=> InFlight(d))
<1>1. RequestInv(request'[c]) /\ request'[c].jobs = jobs /\ request'[c].stage \in { "idle", "done" }
  <2> DEFINE idle == Idle(jobs)
             done == [Idle(jobs) EXCEPT !.stage = "done"]
  <2>1. RequestInv(idle) /\ idle.jobs = jobs /\ idle.stage = "idle"
    BY IdleFacts
  <2>2. RequestInv(done) /\ done.jobs = jobs /\ done.stage = "done"
    BY IdleFacts
  <2>3. request'[c] = idle \/ request'[c] = done
    OBVIOUS
  <2> HIDE DEF idle, done
  <2> QED BY <2>1, <2>2, <2>3
<1>2. ~InFlight(c)' /\ \A d \in Clients : d # c => (InFlight(d)' <=> InFlight(d))
  BY <1>1 DEF InFlight
<1>3. TypeInv'
  BY <1>1, <1>2 DEF HttpInv, TypeInv
<1>4. CallInv'
  BY DEF HttpInv, CallInv
<1>5. ProgressInv'
  BY <1>2, ProgressStays DEF HttpInv, ProgressInv
<1>6. PastInv'
  <2>1. ASSUME NEW call \in calls, call.answer.taken, << call.client, call.try >> \notin cuts',
               ~AcceptanceIsHidden(call)
        PROVE  \/ InFlight(call.client)' /\ call.try = tries[call.client]
               \/ \A i \in DOMAIN request'[call.client].jobs :
                    request'[call.client].jobs[i] # call.job
    <3>1. CASE call.client = c
      BY <1>1, <2>1, <3>1
    <3>2. CASE call.client # c
      <4>1. \/ InFlight(call.client) /\ call.try = tries[call.client]
            \/ \A i \in DOMAIN request[call.client].jobs : request[call.client].jobs[i] # call.job
        BY <2>1 DEF HttpInv, PastInv
      <4>2. call.client \in Clients
        BY DEF HttpInv, CallInv
      <4> QED BY <1>2, <3>2, <4>1, <4>2
    <3> QED BY <3>1, <3>2
  <2> QED BY <2>1 DEF PastInv, AcceptanceIsHidden, FromExpo
<1>7. RepeatHasCause'
  BY DEF HttpInv, RepeatHasCause, AcceptanceIsHidden, FromExpo
<1> QED BY <1>2, <1>3, <1>4, <1>5, <1>6, <1>7

LEMMA RespondStep ==
  ASSUME HttpInv, NEW c \in Clients, Respond(c)
  PROVE  HttpInv'
<1> DEFINE jobs     == request[c].jobs
           outcomes == request[c].outcomes
<1>1. /\ request[c].stage = "running" /\ Len(outcomes) = Len(jobs)
      /\ UNCHANGED << server, env, tries, calls, cuts >>
  BY DEF Respond
<1>2. PICK status : reports' = reports \cup { [client |-> c, try |-> tries[c], jobs |-> jobs,
                                               outcomes |-> outcomes, status |-> status] }
  BY DEF Respond
<1>3. PICK left \in Resent(jobs, outcomes) :
        request' = [request EXCEPT ![c] = IF left = << >> THEN [Idle(left) EXCEPT !.stage = "done"]
                                                         ELSE Idle(left)]
  BY DEF Respond
<1>4. request[c] \in Requests /\ RequestInv(request[c]) /\ request \in [Clients -> Requests]
      /\ env \in Environments /\ InFlight(c)
  BY <1>1 DEF HttpInv, TypeInv, InFlight
<1>5. jobs \in Seq(Names) /\ outcomes \in Seq(Replies) /\ Distinct(jobs)
  BY <1>4 DEF Requests, RequestInv
<1>6. DOMAIN outcomes = DOMAIN jobs
  BY <1>1, <1>5
<1>7. /\ left \in Seq(Names) /\ Distinct(left)
      /\ \A i \in DOMAIN left : \E k \in DOMAIN jobs :
           left[i] = jobs[k] /\ IsRetryable(outcomes[k].class)
  BY <1>5, ResentFacts
<1>8. Idle(left) \in Requests /\ [Idle(left) EXCEPT !.stage = "done"] \in Requests
  BY <1>7, IdleFacts
<1>9. /\ request'[c] \in { Idle(left), [Idle(left) EXCEPT !.stage = "done"] }
      /\ request' \in [Clients -> Requests]
      /\ \A d \in Clients : d # c => request'[d] = request[d]
  BY <1>3, <1>4, <1>8
<1>10. Progress(c)
  BY <1>4 DEF HttpInv, ProgressInv
<1>11. ASSUME NEW call \in calls, call.client = c, call.answer.taken,
              << c, call.try >> \notin cuts, ~AcceptanceIsHidden(call), NEW i \in DOMAIN left
       PROVE  left[i] # call.job
  <2>1. PICK k \in DOMAIN jobs : left[i] = jobs[k] /\ IsRetryable(outcomes[k].class)
    BY <1>7
  <2>2. CASE call.try # tries[c]
    <3>1. \A j \in DOMAIN jobs : jobs[j] # call.job
      BY <1>11, <2>2 DEF HttpInv, PastInv
    <3> QED BY <2>1, <3>1
  <2>3. CASE call.try = tries[c]
    <3>1. PICK j \in DOMAIN jobs : call.job = jobs[j]
      BY <1>1, <1>6, <1>10, <1>11, <2>3 DEF Progress
    <3>2. outcomes[j] = OutcomeOf(JobOf[call.job], call.answer)
      BY <1>6, <1>10, <1>11, <2>3, <3>1 DEF Progress, Settled, Made
    <3>3. Judges(OutcomeOf(JobOf[call.job], call.answer), call.answer,
                 TwilioBodyIsLost(call), AcceptanceIsHidden(call), JudgedByDocument(call))
      BY <1>4, CallJudges DEF HttpInv, CallInv
    <3>4. outcomes[j].class = "accepted"
      BY <1>11, <3>2, <3>3 DEF Judges
    <3>5. ~IsRetryable("accepted")
      BY DEF IsRetryable, RetryableClasses
    <3>6. j # k
      BY <2>1, <3>4, <3>5
    <3> QED BY <1>5, <2>1, <3>1, <3>6 DEF Distinct
  <2> QED BY <2>2, <2>3
<1>12. /\ TypeInv' /\ CallInv' /\ ProgressInv' /\ PastInv' /\ RepeatHasCause' /\ ~InFlight(c)'
       /\ \A d \in Clients : d # c => (InFlight(d)' <=> InFlight(d))
  BY <1>1, <1>7, <1>9, <1>11, EndStep DEF HttpInv, TypeInv
<1>13. ReportInv'
  <2> SUFFICES ASSUME NEW report \in reports'
               PROVE  /\ report.client \in Clients /\ report.try \in 1..tries'[report.client]
                      /\ InFlight(report.client)' => report.try < tries'[report.client]
                      /\ \A i \in DOMAIN report.jobs :
                           Settled(report.client, report.try, report.jobs[i], report.outcomes[i])'
    BY DEF ReportInv
  <2>1. CASE report \in reports
    <3>1. /\ report.client \in Clients /\ report.try \in 1..tries[report.client]
          /\ InFlight(report.client) => report.try < tries[report.client]
          /\ \A i \in DOMAIN report.jobs :
               Settled(report.client, report.try, report.jobs[i], report.outcomes[i])
      BY <2>1 DEF HttpInv, ReportInv
    <3>2. \A i \in DOMAIN report.jobs :
            Settled(report.client, report.try, report.jobs[i], report.outcomes[i])'
      BY <1>1, <3>1 DEF Settled
    <3> QED BY <1>1, <1>12, <3>1, <3>2
  <2>2. CASE report = [client |-> c, try |-> tries[c], jobs |-> jobs,
                       outcomes |-> outcomes, status |-> status]
    <3>1. /\ report.client = c /\ report.try = tries[c] /\ report.jobs = jobs
          /\ report.outcomes = outcomes
      BY <2>2
    <3>2. tries[c] \in 1..tries[c]
      BY <1>4, HttpAssumption DEF HttpInv, TypeInv
    <3>3. \A i \in DOMAIN jobs : Settled(c, tries[c], jobs[i], outcomes[i])
      BY <1>6, <1>10 DEF Progress
    <3>4. \A i \in DOMAIN jobs : Settled(report.client, report.try, report.jobs[i],
                                         report.outcomes[i])'
      BY <1>1, <3>1, <3>3 DEF Settled
    <3> QED BY <1>1, <1>12, <3>1, <3>2, <3>4
  <2> QED BY <1>2, <2>1, <2>2
<1> QED BY <1>12, <1>13 DEF HttpInv

LEMMA DisconnectStep ==
  ASSUME HttpInv, NEW c \in Clients, Disconnect(c)
  PROVE  HttpInv'
<1>1. /\ InFlight(c) /\ cuts' = cuts \cup { << c, tries[c] >> }
      /\ request' = [request EXCEPT ![c] = Idle(request[c].jobs)]
      /\ UNCHANGED << server, env, tries, calls, reports >>
  BY DEF Disconnect
<1>2. request[c] \in Requests /\ RequestInv(request[c]) /\ request \in [Clients -> Requests]
      /\ tries[c] \in 1..MaxTries /\ cuts \subseteq Clients \X (1..MaxTries)
  BY <1>1, HttpAssumption DEF HttpInv, TypeInv
<1>3. PICK jobs \in Seq(Names) : jobs = request[c].jobs /\ Distinct(jobs)
  BY <1>2 DEF Requests, RequestInv
<1>4. /\ request'[c] = Idle(jobs) /\ request' \in [Clients -> Requests]
      /\ \A d \in Clients : d # c => request'[d] = request[d]
  BY <1>1, <1>2, <1>3, IdleFacts
<1>5. cuts \subseteq cuts' /\ cuts' \subseteq Clients \X (1..MaxTries)
  BY <1>1, <1>2
<1>6. ASSUME NEW call \in calls, call.client = c, call.answer.taken,
             << c, call.try >> \notin cuts', ~AcceptanceIsHidden(call)
      PROVE  \A i \in DOMAIN jobs : jobs[i] # call.job
  BY <1>1, <1>3, <1>6 DEF HttpInv, PastInv
<1>7. /\ TypeInv' /\ CallInv' /\ ProgressInv' /\ PastInv' /\ RepeatHasCause' /\ ~InFlight(c)'
      /\ \A d \in Clients : d # c => (InFlight(d)' <=> InFlight(d))
  <2>1. request'[c] \in { Idle(jobs), [Idle(jobs) EXCEPT !.stage = "done"] }
    BY <1>4
  <2>2. \A call \in calls :
          ( /\ call.client = c /\ call.answer.taken /\ << c, call.try >> \notin cuts'
            /\ ~AcceptanceIsHidden(call) ) => \A i \in DOMAIN jobs : jobs[i] # call.job
    BY <1>6
  <2>3. UNCHANGED << server, env, tries, calls >>
    BY <1>1
  <2>4. Distinct(jobs) /\ request' \in [Clients -> Requests]
        /\ \A d \in Clients : d # c => request'[d] = request[d]
    BY <1>3, <1>4
  <2> QED BY <1>5, <2>1, <2>2, <2>3, <2>4, EndStep, Zenon
<1>8. ReportInv'
  BY <1>1, <1>7, ReportsStay DEF HttpInv, TypeInv
<1> QED BY <1>7, <1>8 DEF HttpInv

LEMMA CrashStep ==
  ASSUME HttpInv, Crash
  PROVE  HttpInv'
<1>1. /\ server' = "down"
      /\ cuts' = cuts \cup { << c, tries[c] >> : c \in { d \in Clients : InFlight(d) } }
      /\ request' = [c \in Clients |-> Idle(request[c].jobs)]
      /\ UNCHANGED << env, tries, calls, reports >>
  BY DEF Crash
<1>2. \A c \in Clients : /\ request[c].jobs \in Seq(Names) /\ Distinct(request[c].jobs)
                         /\ InFlight(c) => tries[c] \in 1..MaxTries
  BY HttpAssumption DEF HttpInv, TypeInv, Requests, RequestInv
<1>3. ASSUME NEW c \in Clients
      PROVE  /\ request'[c] \in Requests /\ RequestInv(request'[c])
             /\ request'[c].stage = "idle" /\ request'[c].jobs = request[c].jobs
  <2>1. PICK jobs \in Seq(Names) : jobs = request[c].jobs /\ Distinct(jobs)
    BY <1>2
  <2> DEFINE idle == Idle(jobs)
  <2>2. request'[c] = idle
    BY <1>1, <2>1
  <2>3. RequestInv(idle) /\ idle \in Requests /\ idle.jobs = jobs /\ idle.stage = "idle"
    BY <2>1, IdleFacts
  <2> HIDE DEF idle
  <2> QED BY <2>1, <2>2, <2>3
<1>4. \A c \in Clients : ~InFlight(c)'
  BY <1>3 DEF InFlight
<1>5. TypeInv'
  <2>1. cuts' \subseteq Clients \X (1..MaxTries)
    BY <1>1, <1>2 DEF HttpInv, TypeInv
  <2>2. request' \in [Clients -> Requests]
    BY <1>1, <1>3
  <2> QED BY <1>1, <1>3, <1>4, <2>1, <2>2 DEF HttpInv, TypeInv
<1>6. CallInv'
  BY <1>1 DEF HttpInv, CallInv
<1>7. ProgressInv'
  BY <1>4 DEF ProgressInv
<1>8. ReportInv'
  <2>1. \A c \in Clients : tries[c] \in Nat
    BY HttpAssumption DEF HttpInv, TypeInv
  <2> QED BY <1>1, <1>4, <2>1, ReportsStay DEF HttpInv
<1>9. PastInv'
  <2>1. ASSUME NEW call \in calls, call.answer.taken, << call.client, call.try >> \notin cuts',
               ~AcceptanceIsHidden(call)
        PROVE  \A i \in DOMAIN request'[call.client].jobs :
                 request'[call.client].jobs[i] # call.job
    <3>1. call.client \in Clients
      BY DEF HttpInv, CallInv
    <3>2. ~(InFlight(call.client) /\ call.try = tries[call.client])
      BY <1>1, <2>1, <3>1
    <3>3. \A i \in DOMAIN request[call.client].jobs : request[call.client].jobs[i] # call.job
      BY <1>1, <2>1, <3>2 DEF HttpInv, PastInv
    <3> QED BY <1>3, <3>1, <3>3
  <2> QED BY <1>1, <2>1 DEF PastInv, AcceptanceIsHidden, FromExpo
<1>10. RepeatHasCause'
  BY <1>1 DEF HttpInv, RepeatHasCause, AcceptanceIsHidden, FromExpo
<1> QED BY <1>5, <1>6, <1>7, <1>8, <1>9, <1>10 DEF HttpInv

LEMMA StepHolds == HttpInv /\ [Next]_vars => HttpInv'
<1> SUFFICES ASSUME HttpInv, [Next]_vars PROVE HttpInv'
  OBVIOUS
<1>1. CASE Start
  BY <1>1, QuietStep DEF Start
<1>2. CASE Terminate
  BY <1>2, QuietStep DEF Terminate
<1>3. CASE Stop
  BY <1>3, QuietStep DEF Stop
<1>4. CASE Crash
  BY <1>4, CrashStep
<1>5. ASSUME NEW c \in Clients, NEW credential \in Credentials,
             Submit(c, credential) \/ TurnAway(c, credential)
      PROVE  HttpInv'
  BY <1>5, SubmitStep, TurnAwayStep
<1>6. ASSUME NEW c \in Clients, Handle(c)
      PROVE  HttpInv'
  BY <1>6, RefuseStep, CallStep, ReturnStep, RespondStep DEF Handle
<1>7. ASSUME NEW c \in Clients, Disconnect(c)
      PROVE  HttpInv'
  BY <1>7, DisconnectStep
<1>8. CASE UNCHANGED vars
  <2>1. server' \in { "down", "refused", "exported", "serving", "stopping", "stopped" }
    BY <1>8 DEF vars, HttpInv, TypeInv
  <2> QED BY <1>8, <2>1, QuietStep DEF vars
<1> QED BY <1>1, <1>2, <1>3, <1>4, <1>5, <1>6, <1>7, <1>8 DEF Next

LEMMA HttpInvHolds == Spec => []HttpInv
<1> QED BY InitHolds, StepHolds, PTL DEF Spec

-----------------------------------------------------------------------------
(* What follows *)

\* What is known of a call that became an outcome of a report.
LEMMA ReportedCall ==
  ASSUME HttpInv, NEW report \in reports, NEW i \in DOMAIN report.jobs,
         NEW call \in CallsOf(report, i)
  PROVE  Judges(report.outcomes[i], call.answer, TwilioBodyIsLost(call),
                AcceptanceIsHidden(call), JudgedByDocument(call))
<1>1. call \in calls /\ Made(call, report.client, report.try, report.jobs[i])
  BY DEF CallsOf, Made
<1>2. report.outcomes[i] = OutcomeOf(JobOf[call.job], call.answer)
  BY <1>1 DEF HttpInv, ReportInv, Settled, Made
<1>3. Judges(OutcomeOf(JobOf[call.job], call.answer), call.answer,
             TwilioBodyIsLost(call), AcceptanceIsHidden(call), JudgedByDocument(call))
  BY <1>1, CallJudges DEF HttpInv, TypeInv, CallInv
<1> QED BY <1>2, <1>3

\* Every variable keeps its type, and no delay passes a day.
THEOREM HttpTypes == Spec => []TypeOK
<1>1. HttpInv => TypeOK
  <2> SUFFICES ASSUME HttpInv PROVE TypeOK
    OBVIOUS
  <2>1. ASSUME NEW c \in Clients
        PROVE  /\ request[c].stage \in Stages
               /\ \A i \in DOMAIN request[c].outcomes : IsOutcome(request[c].outcomes[i])
               /\ Len(request[c].outcomes) <= Len(request[c].jobs)
               /\ (request[c].answer # << >>) <=> (request[c].stage = "calling")
    <3>1. request[c] \in Requests /\ RequestInv(request[c])
      BY DEF HttpInv, TypeInv
    <3> QED BY <3>1 DEF Requests, RequestInv, IsReply, IsOutcome, Hints
  <2>2. DOMAIN request = Clients /\ \A c \in Clients : tries[c] \in 0..MaxTries
    BY DEF HttpInv, TypeInv
  <2> QED BY <2>1, <2>2 DEF TypeOK, HttpInv, TypeInv
<1> QED BY <1>1, HttpInvHolds, PTL

\* A job is reported accepted only when its provider took it in this very submission.
THEOREM AcceptedJobsWereTaken == Spec => []AcceptedWasTaken
<1>1. HttpInv => AcceptedWasTaken
  <2> SUFFICES ASSUME HttpInv, NEW report \in reports, NEW i \in DOMAIN report.jobs,
                      Accepts(report, i)
               PROVE  \E call \in CallsOf(report, i) : call.answer.taken \/ TwilioBodyIsLost(call)
    BY DEF AcceptedWasTaken
  <2>1. PICK call \in calls : Made(call, report.client, report.try, report.jobs[i])
    BY DEF HttpInv, ReportInv, Settled, Accepts
  <2>2. call \in CallsOf(report, i)
    BY <2>1 DEF CallsOf, Made
  <2>3. Judges(report.outcomes[i], call.answer, TwilioBodyIsLost(call),
               AcceptanceIsHidden(call), JudgedByDocument(call))
    BY <2>2, ReportedCall
  <2> QED BY <2>2, <2>3 DEF Judges, Accepts
<1> QED BY <1>1, HttpInvHolds, PTL

\* A job that was taken is reported as anything else only when the acceptance was hidden.
THEOREM UnreportedAcceptancesHaveCauses == Spec => []UnreportedAcceptanceHasCause
<1>1. HttpInv => UnreportedAcceptanceHasCause
  <2> SUFFICES ASSUME HttpInv, NEW report \in reports, NEW i \in DOMAIN report.jobs,
                      ~Accepts(report, i), NEW call \in CallsOf(report, i), call.answer.taken
               PROVE  AcceptanceIsHidden(call)
    BY DEF UnreportedAcceptanceHasCause
  <2>1. Judges(report.outcomes[i], call.answer, TwilioBodyIsLost(call),
               AcceptanceIsHidden(call), JudgedByDocument(call))
    BY ReportedCall
  <2> QED BY <2>1 DEF Judges, Accepts
<1> QED BY <1>1, HttpInvHolds, PTL

\* A notification is sent again after it was taken only because the client never got the
\* answer of the API, or because the acceptance was hidden from the adapter.
THEOREM RepeatsHaveCauses == Spec => []RepeatHasCause
<1>1. HttpInv => RepeatHasCause
  BY DEF HttpInv
<1> QED BY <1>1, HttpInvHolds, PTL

\* A delay a provider asks for in seconds reaches the client whenever the job may be tried again,
\* except with an answer of Expo that is judged by its document (expo.rs:276, 616).
THEOREM HintsReach == Spec => []HintReaches
<1>1. HttpInv => HintReaches
  <2> SUFFICES ASSUME HttpInv, NEW report \in reports, NEW i \in DOMAIN report.jobs,
                      NEW call \in CallsOf(report, i),
                      IsRetryable(report.outcomes[i].class), call.answer.arrived,
                      call.answer.header.form = "seconds"
               PROVE  \/ report.outcomes[i].hint
                           = Least(1000 * call.answer.header.value, MaxRetryAfter)
                      \/ JudgedByDocument(call)
    BY DEF HintReaches
  <2>1. Judges(report.outcomes[i], call.answer, TwilioBodyIsLost(call),
               AcceptanceIsHidden(call), JudgedByDocument(call))
    BY ReportedCall
  <2> QED BY <2>1 DEF Judges
<1> QED BY <1>1, HttpInvHolds, PTL

\* A job that is only to be validated never leaves as a real notification.
THEOREM DryRunsNeverDeliver == Spec => []DryRunNeverDelivers
<1>1. HttpInv => DryRunNeverDelivers
  <2> SUFFICES ASSUME HttpInv, NEW call \in calls, ~IsContact(JobOf[call.job]),
                      JobOf[call.job].dry_run
               PROVE  call.request.dry
    BY DEF DryRunNeverDelivers
  <2> DEFINE job == JobOf[call.job]
  <2>1. /\ env \in Environments /\ call.job \in Names /\ Proceed \in AdmissionsOf[env][call.job]
        /\ call.request = PushRequest(job, Config(env))
    BY DEF HttpInv, TypeInv, CallInv, RequestFor
  <2>2. job.target.kind = "fcm"
    BY <2>1, AdmissionFacts
  <2>3. call.request = FcmRequest(job)
    BY <2>1, <2>2 DEF PushRequest
  <2>4. FcmRequest(job).dry = job.dry_run
    BY DEF FcmRequest, Request
  <2> QED BY <2>3, <2>4
<1> QED BY <1>1, HttpInvHolds, PTL
-----------------------------------------------------------------------------
(* Who is served, and where outcomes come from *)

\* Only a server that was not refused and that guards its API lets anybody in.
Serves(e) == ~Refused(e) /\ AuthConfigured(e)

OpenInv ==
  /\ server \in { "serving", "stopping", "stopped" } => ~Refused(env)
  /\ \A c \in Clients : InFlight(c) => Serves(env)
  /\ calls # {} \/ reports # {} => Serves(env)

\* An outcome is one of those its job may meet before it is sent, or made of an answer.
Founded(name, outcome) ==
  /\ name \in Names
  /\ \/ outcome \in AdmissionsOf[env][name]
     \/ \E answer \in Answers : outcome = OutcomeOf(JobOf[name], answer)

FoundedInv ==
  /\ \A c \in Clients : \A i \in DOMAIN request[c].outcomes :
       Founded(request[c].jobs[i], request[c].outcomes[i])
  /\ \A report \in reports : \A i \in DOMAIN report.jobs :
       Founded(report.jobs[i], report.outcomes[i])

LEMMA OpenStep == HttpInv /\ OpenInv /\ [Next]_vars => OpenInv'
<1> SUFFICES ASSUME HttpInv, OpenInv, [Next]_vars PROVE OpenInv'
  OBVIOUS
<1>1. request \in [Clients -> Requests]
  BY DEF HttpInv, TypeInv
<1>2. ASSUME UNCHANGED << env, calls, reports >>, \A c \in Clients : InFlight(c)' => InFlight(c),
             server' \in { "serving", "stopping", "stopped" } =>
               server \in { "serving", "stopping" } \/ server' = server \/ ~Refused(env)
      PROVE  OpenInv'
  BY <1>2 DEF OpenInv
<1>3. CASE Start \/ Terminate \/ Stop \/ UNCHANGED vars
  <2>1. UNCHANGED << env, request, calls, reports >>
    BY <1>3 DEF Start, Terminate, Stop, vars
  <2>2. server' \in { "serving", "stopping", "stopped" } =>
          server \in { "serving", "stopping" } \/ server' = server \/ ~Refused(env)
    BY <1>3 DEF Start, Terminate, Stop, vars
  <2> QED BY <1>2, <2>1, <2>2 DEF InFlight
<1>4. CASE Crash
  <2>1. /\ UNCHANGED << env, calls, reports >> /\ server' = "down"
        /\ request' = [c \in Clients |-> Idle(request[c].jobs)]
    BY <1>4 DEF Crash
  <2>2. \A c \in Clients : request'[c].stage = "idle"
    BY <2>1 DEF Idle
  <2> QED BY <1>2, <2>1, <2>2 DEF InFlight
<1>5. ASSUME NEW c \in Clients, NEW credential \in Credentials,
             Submit(c, credential) \/ TurnAway(c, credential)
      PROVE  OpenInv'
  <2>1. UNCHANGED << server, env, calls, reports >> /\ server = "serving"
        /\ \A d \in Clients : d # c => request'[d] = request[d]
    BY <1>1, <1>5 DEF Submit, TurnAway, MaySubmit
  <2>2. CASE Submit(c, credential)
    <3>1. Authenticate(env, credential)
      BY <2>2 DEF Submit, Gate, Admitted
    <3>2. Serves(env)
      BY <2>1, <3>1 DEF OpenInv, Serves, Authenticate
    <3> QED BY <2>1, <3>2 DEF OpenInv, Serves
  <2>3. CASE TurnAway(c, credential)
    BY <1>2, <2>1, <2>3 DEF TurnAway, InFlight
  <2> QED BY <1>5, <2>2, <2>3
<1>6. ASSUME NEW c \in Clients, Handle(c) \/ Disconnect(c)
      PROVE  OpenInv'
  <2>1. UNCHANGED << server, env >> /\ InFlight(c)
    BY <1>6 DEF Handle, Refuse, Call, Return, Respond, Disconnect, AtJob, InFlight
  <2>2. Serves(env)
    BY <2>1 DEF OpenInv
  <2> QED BY <2>1, <2>2 DEF OpenInv, Serves
<1> QED BY <1>3, <1>4, <1>5, <1>6 DEF Next

\* What was founded stays founded: the environment is the same for good.
LEMMA StaysFounded ==
  ASSUME env' = env, NEW name, NEW outcome, Founded(name, outcome)
  PROVE  Founded(name, outcome)'
  BY DEF Founded

LEMMA FoundedStep == HttpInv /\ FoundedInv /\ [Next]_vars => FoundedInv'
<1> SUFFICES ASSUME HttpInv, FoundedInv, [Next]_vars PROVE FoundedInv'
  OBVIOUS
<1>1. TypeInv /\ request \in [Clients -> Requests]
  BY DEF HttpInv, TypeInv
<1>2. ASSUME env' = env, reports' = reports,
             \A c \in Clients : request'[c].outcomes = << >> \/
               /\ request'[c].jobs = request[c].jobs
               /\ request'[c].outcomes = request[c].outcomes
      PROVE  FoundedInv'
  <2>1. ASSUME NEW c \in Clients, NEW i \in DOMAIN request'[c].outcomes
        PROVE  Founded(request[c].jobs[i], request[c].outcomes[i])'
    <3>1. /\ request'[c].jobs = request[c].jobs
          /\ request'[c].outcomes = request[c].outcomes
      BY <1>2, <2>1
    <3>2. Founded(request[c].jobs[i], request[c].outcomes[i])
      BY <2>1, <3>1 DEF FoundedInv
    <3> QED BY <1>2, <3>1, <3>2 DEF Founded
  <2>2. \A report \in reports : \A i \in DOMAIN report.jobs :
          Founded(report.jobs[i], report.outcomes[i])'
    BY <1>2, StaysFounded DEF FoundedInv
  <2> QED BY <1>2, <2>1, <2>2 DEF FoundedInv
<1>3. ASSUME NEW c \in Clients, NEW reply \in Replies, Founded(Current(c), reply),
             AtJob(c) \/ request[c].stage = "calling",
             \A d \in Clients : d # c => request'[d] = request[d],
             request'[c].jobs = request[c].jobs,
             request'[c].outcomes = Append(request[c].outcomes, reply),
             env' = env, reports' = reports
      PROVE  FoundedInv'
  <2> DEFINE n == Len(request[c].outcomes)
  <2>1. /\ n \in Nat /\ DOMAIN request[c].outcomes = 1..n
        /\ Current(c) = request[c].jobs[n + 1] /\ request[c].outcomes \in Seq(Replies)
    BY <1>1, <1>3, AtJobFacts, CallingFacts DEF Requests
  <2>2. /\ DOMAIN request'[c].outcomes = 1..(n + 1)
        /\ request'[c].outcomes[n + 1] = reply
        /\ \A k \in 1..n : request'[c].outcomes[k] = request[c].outcomes[k]
    BY <1>3, <2>1
  <2> HIDE DEF n
  <2>3. ASSUME NEW i \in 1..(n + 1)
        PROVE  Founded(request'[c].jobs[i], request'[c].outcomes[i])
    <3>1. CASE i = n + 1
      BY <1>3, <2>1, <2>2, <3>1
    <3>2. CASE i # n + 1
      <4>1. i \in 1..n
        BY <2>1, <3>2
      <4> QED BY <1>3, <2>1, <2>2, <4>1 DEF FoundedInv
    <3> QED BY <3>1, <3>2
  <2>4. ASSUME NEW d \in Clients, NEW i \in DOMAIN request'[d].outcomes
        PROVE  Founded(request[d].jobs[i], request[d].outcomes[i])'
    <3>1. CASE d = c
      BY <1>3, <2>2, <2>3, <2>4, <3>1 DEF Founded
    <3>2. CASE d # c
      BY <1>3, <2>4, <3>2 DEF Founded, FoundedInv
    <3> QED BY <3>1, <3>2
  <2>5. \A report \in reports : \A i \in DOMAIN report.jobs :
          Founded(report.jobs[i], report.outcomes[i])'
    BY <1>3, StaysFounded DEF FoundedInv
  <2> QED BY <1>3, <2>4, <2>5 DEF FoundedInv
<1>4. CASE Start \/ Terminate \/ Stop \/ UNCHANGED vars
  BY <1>2, <1>4 DEF Start, Terminate, Stop, vars
<1>5. CASE Crash
  <2>1. /\ UNCHANGED << env, reports >>
        /\ request' = [c \in Clients |-> Idle(request[c].jobs)]
    BY <1>5 DEF Crash
  <2>2. \A c \in Clients : request'[c].outcomes = << >>
    BY <2>1 DEF Idle
  <2> QED BY <1>2, <2>1, <2>2
<1>6. ASSUME NEW c \in Clients, NEW credential \in Credentials,
             Submit(c, credential) \/ TurnAway(c, credential)
      PROVE  FoundedInv'
  <2>1. UNCHANGED << env, reports >>
    BY <1>6 DEF Submit, TurnAway
  <2>2. request' \in { request, [request EXCEPT ![c].stage = "running"] }
    BY <1>6 DEF Submit, TurnAway
  <2>3. \A d \in Clients : /\ request'[d].jobs = request[d].jobs
                           /\ request'[d].outcomes = request[d].outcomes
    <3>1. CASE request' = request
      BY <3>1
    <3>2. CASE request' = [request EXCEPT ![c].stage = "running"]
      BY <1>1, <3>2 DEF Requests
    <3> QED BY <2>2, <3>1, <3>2
  <2> QED BY <1>2, <2>1, <2>3
<1>7. ASSUME NEW c \in Clients, Refuse(c) PROVE FoundedInv'
  <2>1. PICK reply \in AdmissionsOf[env][Current(c)] \ { Proceed } :
          request' = [request EXCEPT ![c].outcomes = Append(@, reply)]
    BY <1>7 DEF Refuse
  <2>2. AtJob(c) /\ UNCHANGED << env, reports >> /\ request[c].stage = "running"
    BY <1>7 DEF Refuse, AtJob
  <2>3. Current(c) \in Names /\ env \in Environments
    BY <1>1, <2>2, AtJobFacts DEF TypeInv
  <2>4. reply \in Replies
    <3>1. reply \in RefusedReplies
      BY <2>1, <2>3 DEF RefusedReplies
    <3> QED BY <3>1 DEF Replies
  <2>5. Founded(Current(c), reply)
    BY <2>1, <2>3 DEF Founded
  <2>6. /\ \A d \in Clients : d # c => request'[d] = request[d]
        /\ request'[c].jobs = request[c].jobs
        /\ request'[c].outcomes = Append(request[c].outcomes, reply)
    BY <1>1, <2>1, <2>2, <2>4, AppendedOutcome
  <2> QED BY <1>3, <2>2, <2>4, <2>5, <2>6
<1>8. ASSUME NEW c \in Clients, Call(c) PROVE FoundedInv'
  <2>1. PICK answer \in AnswersOf[JobOf[Current(c)].provider] :
          request' = [request EXCEPT ![c].stage = "calling", ![c].answer = << answer >>]
    BY <1>8 DEF Call
  <2>2. UNCHANGED << env, reports >>
    BY <1>8 DEF Call
  <2>3. \A d \in Clients : /\ request'[d].jobs = request[d].jobs
                           /\ request'[d].outcomes = request[d].outcomes
    BY <1>1, <2>1 DEF Requests
  <2> QED BY <1>2, <2>2, <2>3
<1>9. ASSUME NEW c \in Clients, Return(c) PROVE FoundedInv'
  <2> DEFINE reply == OutcomeOf(JobOf[Current(c)], request[c].answer[1])
  <2>1. /\ request[c].stage = "calling" /\ UNCHANGED << env, reports >>
        /\ request' = [request EXCEPT ![c].stage = "running", ![c].answer = << >>,
                                      ![c].outcomes = Append(@, reply)]
    BY <1>9 DEF Return
  <2>2. Current(c) \in Names
    BY <1>1, <2>1, CallingFacts
  <2>3. request[c].answer[1] \in Answers
    <3>1. request[c].answer \in Seq(Answers) /\ request[c].answer # << >>
      BY <1>1, <2>1 DEF TypeInv, RequestInv, Requests
    <3> QED BY <3>1
  <2>4. reply \in JudgedReplies
    BY <2>2, <2>3 DEF JudgedReplies
  <2>5. Founded(Current(c), reply)
    BY <2>2, <2>3 DEF Founded
  <2> HIDE DEF reply
  <2>6. reply \in Replies
    BY <2>4 DEF Replies
  <2>7. /\ \A d \in Clients : d # c => request'[d] = request[d]
        /\ request'[c].jobs = request[c].jobs
        /\ request'[c].outcomes = Append(request[c].outcomes, reply)
    BY <1>1, <2>1, <2>6, AppendedOutcome
  <2> QED BY <1>3, <2>1, <2>5, <2>6, <2>7
<1>10. ASSUME NEW c \in Clients, Respond(c) PROVE FoundedInv'
  <2> DEFINE jobs     == request[c].jobs
             outcomes == request[c].outcomes
  <2>1. Len(outcomes) = Len(jobs) /\ env' = env
    BY <1>10 DEF Respond
  <2>2. PICK status :
          reports' = reports \cup { [client |-> c, try |-> tries[c], jobs |-> jobs,
                                     outcomes |-> outcomes, status |-> status] }
    BY <1>10 DEF Respond
  <2>3. PICK left \in Resent(jobs, outcomes) :
          request' = [request EXCEPT ![c] = IF left = << >>
                                            THEN [Idle(left) EXCEPT !.stage = "done"]
                                            ELSE Idle(left)]
    BY <1>10 DEF Respond
  <2>4. request'[c].outcomes = << >> /\ \A d \in Clients : d # c => request'[d] = request[d]
    BY <1>1, <2>3 DEF Idle
  <2>5. DOMAIN outcomes = DOMAIN jobs
    BY <1>1, <2>1 DEF Requests
  <2>6. \A i \in DOMAIN jobs : Founded(jobs[i], outcomes[i])
    BY <2>5 DEF FoundedInv
  <2>7. ASSUME NEW report \in reports', NEW i \in DOMAIN report.jobs
        PROVE  Founded(report.jobs[i], report.outcomes[i])'
    <3>1. CASE report \in reports
      BY <2>1, <3>1, StaysFounded DEF FoundedInv
    <3>2. CASE report \notin reports
      <4>1. report.jobs = jobs /\ report.outcomes = outcomes
        BY <2>2, <3>2
      <4> QED BY <2>1, <2>6, <4>1 DEF Founded
    <3> QED BY <3>1, <3>2
  <2>8. ASSUME NEW d \in Clients, NEW i \in DOMAIN request'[d].outcomes
        PROVE  Founded(request[d].jobs[i], request[d].outcomes[i])'
    <3>1. d # c
      BY <2>4, <2>8
    <3>2. Founded(request[d].jobs[i], request[d].outcomes[i])
      BY <2>4, <2>8, <3>1 DEF FoundedInv
    <3> QED BY <2>1, <2>4, <3>1, <3>2 DEF Founded
  <2> QED BY <2>7, <2>8 DEF FoundedInv
<1>11. ASSUME NEW c \in Clients, Disconnect(c) PROVE FoundedInv'
  <2>1. /\ UNCHANGED << env, reports >>
        /\ request' = [request EXCEPT ![c] = Idle(request[c].jobs)]
    BY <1>11 DEF Disconnect
  <2>2. request'[c].outcomes = << >> /\ \A d \in Clients : d # c => request'[d] = request[d]
    BY <1>1, <2>1 DEF Idle
  <2> QED BY <1>2, <2>1, <2>2
<1> QED BY <1>4, <1>5, <1>6, <1>7, <1>8, <1>9, <1>10, <1>11 DEF Next, Handle

LEMMA HonestInvHolds == Spec => [](HttpInv /\ OpenInv /\ FoundedInv)
<1>1. Init => OpenInv /\ FoundedInv
  <2> SUFFICES ASSUME Init PROVE OpenInv /\ FoundedInv
    OBVIOUS
  <2>1. PICK batch \in [Clients -> Batches] : request = [c \in Clients |-> Idle(batch[c])]
    BY DEF Init
  <2>2. \A c \in Clients : request[c].stage = "idle" /\ request[c].outcomes = << >>
    BY <2>1 DEF Idle
  <2>3. server = "down" /\ calls = {} /\ reports = {}
    BY DEF Init
  <2> QED BY <2>2, <2>3 DEF OpenInv, FoundedInv, InFlight
<1> QED BY <1>1, InitHolds, StepHolds, OpenStep, FoundedStep, PTL DEF Spec

-----------------------------------------------------------------------------
(* What leaves, and what the configuration is good for *)

\* A job goes to its own provider and, with APNs, to the environment of its token, so that the
\* adapters' own checks against a wrong target and environment never have to answer.
THEOREM RoutesAreExact == Spec => []RoutingIsExact
<1>1. HttpInv => RoutingIsExact
  <2> SUFFICES ASSUME HttpInv PROVE RoutingIsExact
    OBVIOUS
  <2>1. ASSUME NEW call \in calls PROVE RightPlace(JobOf[call.job], call.request)
    BY PushArrives, ContactArrives DEF HttpInv, TypeInv, CallInv
  <2>2. \A reply \in Replies : reply.code \notin MismatchCodes
    <3>1. \A reply \in RefusedReplies : reply.code \notin MismatchCodes
      BY AdmissionsArePlain DEF RefusedReplies
    <3>2. \A reply \in JudgedReplies : Plain(reply)
      BY OutcomesArePlain DEF JudgedReplies, Answers
    <3> QED BY <3>1, <3>2 DEF Replies, Plain, OwnCodes
  <2>3. ASSUME NEW c \in Clients, NEW i \in DOMAIN request[c].outcomes
        PROVE  request[c].outcomes[i].code \notin MismatchCodes
    <3>1. request[c].outcomes \in Seq(Replies)
      BY DEF HttpInv, TypeInv, Requests
    <3>2. request[c].outcomes[i] \in Replies
      BY <3>1
    <3> QED BY <2>2, <3>2
  <2> QED BY <2>1, <2>3 DEF RoutingIsExact, RightPlace
<1> QED BY <1>1, HttpInvHolds, PTL

\* Whatever of a job can be seen is in the message its provider gets, with its lifetime.
THEOREM ContentsArrive == Spec => []ContentArrives
<1>1. HttpInv => ContentArrives
  <2> SUFFICES ASSUME HttpInv, NEW call \in calls
               PROVE  WholeContent(JobOf[call.job], call.request)
    BY DEF ContentArrives, WholeContent
  <2> QED BY PushArrives, ContactArrives DEF HttpInv, TypeInv, CallInv
<1> QED BY <1>1, HttpInvHolds, PTL

\* Nobody is told that a provider is not configured that a setting turned on, but of APNs tokens
\* of the other environment and of a key that passed the start although it is of no use; and
\* nothing is sent while the readiness probe of its lane fails.
THEOREM ConfigurationsAreHonest == Spec => []ConfigurationIsHonest
<1>1. HttpInv /\ OpenInv /\ FoundedInv => ConfigurationIsHonest
  <2> SUFFICES ASSUME HttpInv, OpenInv, FoundedInv PROVE ConfigurationIsHonest
    OBVIOUS
  <2>1. ASSUME NEW report \in reports, NEW i \in DOMAIN report.jobs,
               report.outcomes[i] = NotConfigured
        PROVE  LET job == JobOf[report.jobs[i]] IN
               \/ ~TurnedOn(job)
               \/ job.provider = "apns" /\ job.target.environment # ApnsEnvironment(env)
               \/ KeyIsOfNoUse(job)
    <3> DEFINE name == report.jobs[i]
               job  == JobOf[name]
    <3>1. /\ name \in Names /\ env \in Environments /\ job.provider \in Kinds
          /\ Founded(name, NotConfigured) /\ ~Refused(env)
      BY <2>1, JobAssumption DEF FoundedInv, OpenInv, Serves, HttpInv, TypeInv, Founded
    <3>2. NotConfigured \in AdmissionsOf[env][name]
      <4>1. ~Plain(NotConfigured)
        BY DEF Plain, OwnCodes
      <4>2. \A answer \in Answers : Plain(OutcomeOf(job, answer))
        BY OutcomesArePlain DEF Answers
      <4> QED BY <3>1, <4>1, <4>2 DEF Founded
    <3>3. /\ IF IsContact(job) THEN MeetsContactContract(job) ELSE MeetsPushContract(job)
          /\ ~Registered(env, job) \/ UselessKey(env, job)
      BY <3>1, <3>2, AdmissionsArePlain
    <3>4. ~IsContact(job) => job.target.kind = job.provider
      BY <3>1, <3>3, PushKinds
    <3> HIDE DEF job, name
    <3>5. (TurnedOn(job) /\ ~Registered(env, job)) =>
            job.provider = "apns" /\ job.target.environment # ApnsEnvironment(env)
      BY <3>1, <3>4, TurnedOnIsServed
    <3> QED BY <3>3, <3>5 DEF job, name, UselessKey, KeyIsOfNoUse
  <2>2. ASSUME NEW call \in calls
        PROVE  IF IsContact(JobOf[call.job]) THEN ContactReady(env) ELSE PushReady(env)
    <3>1. Registered(env, JobOf[call.job])
      BY AdmissionFacts DEF HttpInv, TypeInv, CallInv
    <3>2. AuthConfigured(env)
      BY DEF OpenInv, Serves
    <3>3. PushSlots(env) # {}
      BY DEF PushSlots
    <3> QED BY <3>1, <3>2, <3>3 DEF Registered, ContactReady, PushReady
  <2> QED BY <2>1, <2>2 DEF ConfigurationIsHonest
<1> QED BY <1>1, HonestInvHolds, PTL

-----------------------------------------------------------------------------
(* The work a shutdown waits for.  What is below is safety: a request in flight has finitely *)
(* many steps left, and each takes it nearer to its end.  With HandlerFairness and that of   *)
(* Stop it is why ShutdownCompletes holds.                                                   *)

\* the steps a handler has left: two for each job and the answer
Work(r) ==
  IF r.stage \notin { "running", "calling" } THEN 0
  ELSE 2 * (Len(r.jobs) - Len(r.outcomes)) + (IF r.stage = "running" THEN 2 ELSE 1)

AdmittedInv == \A c \in Clients : InFlight(c) => Len(request[c].jobs) \in 1..MaxBatchJobs

\* A request in flight stays as it is or gets on, and ends for good while the server stops.
RequestsGetOn ==
  \A c \in Clients :
    /\ InFlight(c) => request'[c] = request[c] \/ Work(request'[c]) < Work(request[c])
    /\ server = "stopping" /\ InFlight(c)' => InFlight(c)

StoppingIsFinal == server = "stopping" => server' \in { "stopping", "stopped", "down" }

\* What is left of a request, by how far it is.
LEMMA WorkFacts ==
  ASSUME NEW r \in Requests, RequestInv(r)
  PROVE  /\ Len(r.jobs) \in Nat /\ Len(r.outcomes) \in Nat /\ Len(r.outcomes) <= Len(r.jobs)
         /\ r.stage \notin { "running", "calling" } => Work(r) = 0
         /\ r.stage = "running" => Work(r) = 2 * (Len(r.jobs) - Len(r.outcomes)) + 2
         /\ r.stage = "calling" => Work(r) = 2 * (Len(r.jobs) - Len(r.outcomes)) + 1
         /\ Work(r) \in 0..(2 * Len(r.jobs) + 2)
         /\ r.stage \in { "running", "calling" } => Work(r) > 0
<1>1. Len(r.jobs) \in Nat /\ Len(r.outcomes) \in Nat /\ Len(r.outcomes) <= Len(r.jobs)
  BY DEF Requests, RequestInv
<1> DEFINE m == Len(r.jobs)
           n == Len(r.outcomes)
<1>2. r.stage \notin { "running", "calling" } => Work(r) = 0
  BY DEF Work
<1>3. /\ r.stage = "running" => Work(r) = 2 * (m - n) + 2
      /\ r.stage = "calling" => Work(r) = 2 * (m - n) + 1
  BY DEF Work
<1>4. \A i, k \in Nat : i <= k => /\ 2 * (k - i) + 2 \in 1..(2 * k + 2)
                                 /\ 2 * (k - i) + 1 \in 1..(2 * k + 2) /\ 0 \in 0..(2 * k + 2)
  OBVIOUS
<1> HIDE DEF m, n
<1>5. /\ 2 * (m - n) + 2 \in 1..(2 * m + 2) /\ 2 * (m - n) + 1 \in 1..(2 * m + 2)
      /\ 0 \in 0..(2 * m + 2)
  BY <1>1, <1>4 DEF m, n
<1>6. /\ Work(r) \in 0..(2 * m + 2)
      /\ r.stage \in { "running", "calling" } => Work(r) > 0
  BY <1>1, <1>2, <1>3, <1>5
<1> QED BY <1>1, <1>2, <1>3, <1>6 DEF m, n

\* One more outcome is two steps less, or one if the call was made already.
LEMMA OutcomeIsWork ==
  ASSUME NEW r \in Requests, RequestInv(r), r.stage \in { "running", "calling" },
         NEW reply, NEW next, next.stage = "running", next.jobs = r.jobs,
         next.outcomes = Append(r.outcomes, reply)
  PROVE  Work(next) < Work(r)
<1> DEFINE m == Len(r.jobs)
           n == Len(r.outcomes)
<1>1. /\ m \in Nat /\ n \in Nat
      /\ Work(r) = 2 * (m - n) + 2 \/ Work(r) = 2 * (m - n) + 1
  BY WorkFacts
<1>2. Len(next.outcomes) = n + 1
  BY DEF Requests
<1>3. Work(next) = 2 * (m - (n + 1)) + 2
  BY <1>2 DEF Work
<1> HIDE DEF m, n
<1> QED BY <1>1, <1>3

LEMMA HandleGetsOn ==
  ASSUME TypeInv, NEW c \in Clients, Handle(c) \/ Disconnect(c)
  PROVE  /\ InFlight(c) /\ Work(request'[c]) < Work(request[c])
         /\ \A d \in Clients : d # c => request'[d] = request[d]
         /\ request'[c].stage \in { "running", "calling" } => request'[c].jobs = request[c].jobs
         /\ server' = server
<1>1. request \in [Clients -> Requests] /\ request[c] \in Requests /\ RequestInv(request[c])
  BY DEF TypeInv
<1> DEFINE r == request[c]
<1>2. CASE Refuse(c)
  <2>1. PICK reply : request' = [request EXCEPT ![c].outcomes = Append(@, reply)]
    BY <1>2 DEF Refuse
  <2>2. /\ request'[c].stage = "running" /\ r.stage = "running"
        /\ request'[c].jobs = r.jobs /\ request'[c].outcomes = Append(r.outcomes, reply)
    BY <1>1, <1>2, <2>1 DEF Refuse, AtJob, Requests
  <2> QED BY <1>1, <1>2, <2>1, <2>2, OutcomeIsWork DEF Refuse, InFlight
<1>3. CASE Call(c)
  <2>1. PICK answer :
          request' = [request EXCEPT ![c].stage = "calling", ![c].answer = << answer >>]
    BY <1>3 DEF Call
  <2>2. /\ request'[c].stage = "calling" /\ r.stage = "running"
        /\ request'[c].jobs = r.jobs /\ request'[c].outcomes = r.outcomes
    BY <1>1, <1>3, <2>1 DEF Call, AtJob, Requests
  <2> DEFINE m == Len(r.jobs)
             n == Len(r.outcomes)
  <2>3. Work(r) = 2 * (m - n) + 2 /\ m \in Nat /\ n \in Nat
    BY <1>1, <2>2, WorkFacts
  <2>4. Work(request'[c]) = 2 * (m - n) + 1
    BY <2>2 DEF Work
  <2> HIDE DEF m, n
  <2>5. Work(request'[c]) < Work(r)
    BY <2>3, <2>4
  <2> QED BY <1>1, <1>3, <2>1, <2>2, <2>5 DEF Call, InFlight
<1>4. CASE Return(c)
  <2>1. PICK reply : request' = [request EXCEPT ![c].stage = "running", ![c].answer = << >>,
                                                ![c].outcomes = Append(@, reply)]
    BY <1>4 DEF Return
  <2>2. /\ request'[c].stage = "running" /\ r.stage = "calling"
        /\ request'[c].jobs = r.jobs /\ request'[c].outcomes = Append(r.outcomes, reply)
    BY <1>1, <1>4, <2>1 DEF Return, Requests
  <2> QED BY <1>1, <1>4, <2>1, <2>2, OutcomeIsWork DEF Return, InFlight
<1>5. CASE Respond(c) \/ Disconnect(c)
  <2>0. \A jobs : /\ Idle(jobs).stage = "idle"
                   /\ [Idle(jobs) EXCEPT !.stage = "done"].stage = "done"
    BY DEF Idle
  <2>1. PICK next : request' = [request EXCEPT ![c] = next] /\ next.stage \in { "idle", "done" }
    <3>1. CASE Respond(c)
      <4>1. PICK left :
              request' = [request EXCEPT
                ![c] = IF left = << >> THEN [Idle(left) EXCEPT !.stage = "done"] ELSE Idle(left)]
        BY <3>1 DEF Respond
      <4> QED BY <2>0, <4>1
    <3>2. CASE Disconnect(c)
      BY <2>0, <3>2 DEF Disconnect
    <3> QED BY <1>5, <3>1, <3>2
  <2>2. r.stage \in { "running", "calling" } /\ server' = server
    BY <1>5 DEF Respond, Disconnect, InFlight
  <2>3. Work(request'[c]) = 0 /\ Work(r) > 0
    BY <1>1, <2>1, <2>2, WorkFacts DEF Work
  <2> QED BY <1>1, <2>1, <2>2, <2>3, WorkFacts DEF InFlight
<1> QED BY <1>2, <1>3, <1>4, <1>5 DEF Handle

LEMMA AdmittedStep == TypeInv /\ AdmittedInv /\ [Next]_vars => AdmittedInv'
<1> SUFFICES ASSUME TypeInv, AdmittedInv, [Next]_vars, NEW d \in Clients, InFlight(d)'
             PROVE  Len(request'[d].jobs) \in 1..MaxBatchJobs
  BY DEF AdmittedInv
<1>1. request \in [Clients -> Requests]
  BY DEF TypeInv
<1>2. CASE request' = request
  BY <1>2 DEF AdmittedInv, InFlight
<1>3. ~Crash
  BY DEF Crash, Idle, InFlight
<1>4. ASSUME NEW c \in Clients, NEW credential \in Credentials, Submit(c, credential)
      PROVE  Len(request'[d].jobs) \in 1..MaxBatchJobs
  <2>1. Len(request[c].jobs) \in 1..MaxBatchJobs
    BY <1>4 DEF Submit, Gate, Admitted
  <2>2. request'[c].jobs = request[c].jobs /\ \A e \in Clients : e # c => request'[e] = request[e]
    BY <1>1, <1>4 DEF Submit, Requests
  <2> QED BY <2>1, <2>2 DEF AdmittedInv, InFlight
<1>5. ASSUME NEW c \in Clients, Handle(c) \/ Disconnect(c)
      PROVE  Len(request'[d].jobs) \in 1..MaxBatchJobs
  <2>1. /\ InFlight(c) /\ \A e \in Clients : e # c => request'[e] = request[e]
        /\ request'[c].stage \in { "running", "calling" } => request'[c].jobs = request[c].jobs
    BY <1>5, HandleGetsOn
  <2> QED BY <2>1 DEF AdmittedInv, InFlight
<1> QED BY <1>2, <1>3, <1>4, <1>5 DEF Next, Start, Terminate, Stop, TurnAway, vars

LEMMA GetOnStep == TypeInv /\ [Next]_vars => RequestsGetOn /\ StoppingIsFinal
<1> SUFFICES ASSUME TypeInv, [Next]_vars PROVE RequestsGetOn /\ StoppingIsFinal
  OBVIOUS
<1>1. request \in [Clients -> Requests] /\ \A c \in Clients : RequestInv(request[c])
  BY DEF TypeInv
<1>2. CASE request' = request /\ (server = "stopping" => server' \in { "stopping", "stopped" })
  BY <1>2 DEF RequestsGetOn, StoppingIsFinal, InFlight
<1>3. CASE Crash
  <2>1. /\ server' = "down" /\ request' = [c \in Clients |-> Idle(request[c].jobs)]
        /\ \A c \in Clients : request'[c].stage = "idle"
    BY <1>3 DEF Crash, Idle
  <2>2. \A c \in Clients : Work(request'[c]) = 0 /\ ~InFlight(c)'
    BY <2>1 DEF Work, InFlight
  <2>3. \A c \in Clients : InFlight(c) => Work(request[c]) > 0
    BY <1>1, WorkFacts DEF InFlight
  <2> QED BY <2>1, <2>2, <2>3 DEF RequestsGetOn, StoppingIsFinal
<1>4. ASSUME NEW c \in Clients, NEW credential \in Credentials, Submit(c, credential)
      PROVE  RequestsGetOn /\ StoppingIsFinal
  <2>1. ~InFlight(c) /\ server = "serving"
        /\ \A e \in Clients : e # c => request'[e] = request[e]
    BY <1>1, <1>4 DEF Submit, MaySubmit, InFlight
  <2> QED BY <2>1 DEF RequestsGetOn, StoppingIsFinal, InFlight
<1>5. ASSUME NEW c \in Clients, Handle(c) \/ Disconnect(c)
      PROVE  RequestsGetOn /\ StoppingIsFinal
  <2>1. /\ InFlight(c) /\ Work(request'[c]) < Work(request[c]) /\ server' = server
        /\ \A e \in Clients : e # c => request'[e] = request[e]
    BY <1>5, HandleGetsOn
  <2> QED BY <2>1 DEF RequestsGetOn, StoppingIsFinal, InFlight
<1> QED BY <1>2, <1>3, <1>4, <1>5 DEF Next, Start, Terminate, Stop, TurnAway, vars

\* A shutdown waits for work that only shrinks (server.rs:110-116): once the server is stopping no
\* request begins, the requests in flight have at most two steps for each job of a full batch and
\* two more, whatever providers answer, and every step of one of them takes some of that away.
THEOREM ShutdownWorkShrinks ==
  Spec => /\ [](\A c \in Clients : Work(request[c]) \in 0..(2 * MaxBatchJobs + 2))
          /\ [][RequestsGetOn /\ StoppingIsFinal]_vars
<1>1. Init => AdmittedInv
  BY DEF Init, AdmittedInv, Idle, InFlight
<1>2. TypeInv /\ AdmittedInv => \A c \in Clients : Work(request[c]) \in 0..(2 * MaxBatchJobs + 2)
  <2> SUFFICES ASSUME TypeInv, AdmittedInv, NEW c \in Clients
               PROVE  Work(request[c]) \in 0..(2 * MaxBatchJobs + 2)
    OBVIOUS
  <2>1. request[c] \in Requests /\ RequestInv(request[c])
    BY DEF TypeInv
  <2>2. CASE InFlight(c)
    <3>1. Len(request[c].jobs) \in 1..MaxBatchJobs
      BY <2>2 DEF AdmittedInv
    <3> DEFINE m == Len(request[c].jobs)
    <3>2. Work(request[c]) \in 0..(2 * m + 2)
      BY <2>1, WorkFacts
    <3> HIDE DEF m
    <3>3. m \in 1..MaxBatchJobs
      BY <3>1 DEF m
    <3> QED BY <3>2, <3>3, HttpAssumption
  <2>3. CASE ~InFlight(c)
    <3>1. Work(request[c]) = 0
      BY <2>1, <2>3, WorkFacts DEF InFlight
    <3> QED BY <3>1, HttpAssumption
  <2> QED BY <2>2, <2>3
<1>3. HttpInv => TypeInv
  BY DEF HttpInv
<1>4. Spec => [](TypeInv /\ AdmittedInv)
  BY <1>1, <1>3, AdmittedStep, HttpInvHolds, PTL DEF Spec
<1> QED BY <1>2, <1>4, GetOnStep, PTL DEF Spec
=============================================================================
