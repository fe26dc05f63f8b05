------------------------ MODULE CommunicationProofs ------------------------
(* The outbox for every number of rows and workers, every batch size and     *)
(* every lease longer than a run; and the weekly report, which adds up for    *)
(* any number of parents, workers and pages: one campaign per parent, and a   *)
(* worker that is done has missed nobody.                                     *)
EXTENDS NotificationDelivery, WeeklyParentReport, FiniteSetTheorems,
        WellFoundedInduction, TLAPS

(***************************************************************************)
(* NotificationDelivery                                                    *)
(***************************************************************************)
\* A row that a run holds is leased to it: it is not due before the run's
\* deadline has passed.  (wait >= left + Lease - RunLimit, without subtraction.)
HeldIsLeased ==
  \A w \in Workers : \A d \in run[w].held :
    /\ row[d].status = "retrying"
    /\ row[d].wait + RunLimit >= run[w].left + Lease

\* The message in flight belongs to the batch, and its answer is not invented.
AnswerIsReal ==
  \A w \in Workers : run[w].sending # NoDelivery =>
    /\ run[w].sending \in run[w].held /\ run[w].answer # "none"
    /\ run[w].answer = "success" => accepted[run[w].sending]

\* Only a row that was given up has used up its failures, and a row with a
\* verdict waits for nothing.
RetriesFollowStatus ==
  \A d \in Deliveries :
    /\ row[d].status = "failed" <=> row[d].retries = MaxFailures
    /\ row[d].status \in Final => row[d].wait = 0

SentWasAccepted == \A d \in Deliveries : row[d].status = "sent" => accepted[d]

\* Each recorded failure has a failed send behind it, and so has the one that is
\* about to be recorded.
Counted(d, n) == failures[d] >= n \/ failures[d] = FailureCap

FailuresAreCounted ==
  /\ \A d \in Deliveries : Counted(d, row[d].retries)
  /\ \A w \in Workers, d \in Deliveries :
       run[w].sending = d /\ run[w].answer = "failure" => Counted(d, row[d].retries + 1)

DeliveryInv ==
  /\ TypeOK
  /\ HeldIsLeased
  /\ ExclusiveClaim
  /\ AnswerIsReal
  /\ RetriesFollowStatus
  /\ SentWasAccepted
  /\ FailuresAreCounted

-----------------------------------------------------------------------------
\* A backoff is a number of ticks: 2^n counts the subsets of 1..n.
LEMMA BackoffType ==
  ASSUME NEW n \in Nat \ {0}
  PROVE  Backoff(n) \in Nat
<1> DEFINE S == 1..(n - 1)
<1>1. IsFiniteSet(S) /\ Cardinality(S) = n - 1
  BY FS_Interval
<1>2. Cardinality(SUBSET S) = 2 ^ (n - 1) /\ Cardinality(SUBSET S) \in Nat
  BY <1>1, FS_SUBSET, FS_CardinalityType
<1> QED BY <1>2 DEF Backoff

\* A recorded answer leaves a row of the table.
LEMMA RecordedType ==
  ASSUME NEW r \in Rows, NEW answer, Allowed(r, answer), answer \in {"success", "failure"}
  PROVE  Recorded(r, answer) \in Rows
<1>1. CASE answer = "success"
  BY <1>1 DEF Recorded, Rows, Final
<1>2. CASE answer = "failure"
  <2>1. r.retries + 1 \in 1..MaxFailures /\ r.retries + 1 \in Nat \ {0}
    BY <1>2, DeliveryAssumption DEF Allowed, Rows
  <2>2. Backoff(r.retries + 1) \in Nat
    BY <2>1, BackoffType
  <2> QED BY <1>2, <2>1, <2>2, DeliveryAssumption DEF Recorded, Failed, Rows, Final
<1> QED BY <1>1, <1>2

\* The initial state satisfies the invariant.
LEMMA DeliveryInit ==
  Init => DeliveryInv
<1> SUFFICES ASSUME Init PROVE DeliveryInv
  OBVIOUS
<1>1. [status |-> "absent", retries |-> 0, wait |-> 0] \in Rows
  BY DeliveryAssumption DEF Rows
<1>2. Resting \in Runs
  BY DeliveryAssumption DEF Resting, Holding, Runs
<1>3. TypeOK
  BY <1>1, <1>2, DeliveryAssumption DEF Init, TypeOK
<1>4. \A w \in Workers : run[w].held = {} /\ run[w].sending = NoDelivery
  BY DEF Init, Resting, Holding
<1>5. \A d \in Deliveries : row[d].status = "absent" /\ row[d].retries = 0 /\ failures[d] = 0
  BY DEF Init
<1>6. HeldIsLeased /\ ExclusiveClaim /\ AnswerIsReal
  BY <1>4 DEF HeldIsLeased, ExclusiveClaim, AnswerIsReal
<1>7. RetriesFollowStatus /\ SentWasAccepted
  BY <1>5, DeliveryAssumption DEF RetriesFollowStatus, SentWasAccepted, Final
<1>8. FailuresAreCounted
  BY <1>4, <1>5, DeliveryAssumption DEF FailuresAreCounted, Counted, NoDelivery
<1> QED BY <1>3, <1>6, <1>7, <1>8 DEF DeliveryInv

\* A new campaign touches no row that a run holds.
LEMMA CreateStep ==
  ASSUME DeliveryInv, NEW D \in SUBSET Deliveries, CreateCampaign(D)
  PROVE  DeliveryInv'
<1> USE DEF DeliveryInv
<1>1. \A d \in Deliveries :
        /\ row[d] \in Rows
        /\ row'[d] = IF d \in D THEN [row[d] EXCEPT !.status = "pending"] ELSE row[d]
  BY DEF CreateCampaign, TypeOK
<1>2. \A d \in Deliveries : row'[d] \in Rows
  BY <1>1 DEF Rows
<1>3. \A d \in D : row[d].status = "absent"
  BY DEF CreateCampaign
<1>4. TypeOK'
  BY <1>2 DEF CreateCampaign, TypeOK
<1>5. HeldIsLeased'
  BY <1>1, <1>3 DEF CreateCampaign, HeldIsLeased, TypeOK, Runs
<1>6. RetriesFollowStatus' /\ SentWasAccepted'
  BY <1>1, <1>3 DEF CreateCampaign, RetriesFollowStatus, SentWasAccepted, Rows, Final
<1>7. FailuresAreCounted'
  BY <1>1 DEF CreateCampaign, FailuresAreCounted, Counted, Rows
<1>8. ExclusiveClaim' /\ AnswerIsReal'
  BY DEF CreateCampaign, ExclusiveClaim, AnswerIsReal
<1> QED BY <1>4, <1>5, <1>6, <1>7, <1>8

\* A claim takes due rows, and a row that a run holds is not due.
LEMMA ClaimStep ==
  ASSUME DeliveryInv, NEW w \in Workers, ClaimPending(w)
  PROVE  DeliveryInv'
<1> USE DEF DeliveryInv
<1> DEFINE r == Holding(Picked, RunLimit)
<1>1. Picked \subseteq Deliveries
      /\ \A d \in Picked : row[d].status \in {"pending", "retrying"} /\ row[d].wait = 0
  BY DEF Picked, Due
<1>2. \A d \in Deliveries :
        /\ row[d] \in Rows
        /\ row'[d] = IF d \in Picked THEN [row[d] EXCEPT !.status = "retrying", !.wait = Lease]
                                     ELSE row[d]
  BY DEF ClaimPending, TypeOK, Leased
<1>3. \A d \in Deliveries : row'[d] \in Rows
  BY <1>2, DeliveryAssumption DEF Rows
<1>4. r.held = Picked /\ r.left = RunLimit /\ r.sending = NoDelivery /\ r \in Runs
  BY <1>1, DeliveryAssumption DEF Resting, Holding, Runs
<1>5. run'[w] = r /\ \A v \in Workers : v # w => run'[v] = run[v]
  BY DEF ClaimPending, TypeOK
<1>6. TypeOK'
  <2>1. run' \in [Workers -> Runs]
    BY <1>4 DEF ClaimPending, TypeOK
  <2>2. row' \in [Deliveries -> Rows]
    BY <1>3 DEF ClaimPending
  <2> QED BY <2>1, <2>2 DEF ClaimPending, TypeOK
<1>7. \A v \in Workers : \A d \in run[v].held :
        /\ d \in Deliveries
        /\ d \notin Picked
  <2> SUFFICES ASSUME NEW v \in Workers, NEW d \in run[v].held
               PROVE  d \in Deliveries /\ d \notin Picked
    OBVIOUS
  <2>1. d \in Deliveries /\ run[v].left \in Nat
    BY DeliveryAssumption DEF TypeOK, Runs
  <2>2. row[d].wait + RunLimit >= run[v].left + Lease
    BY DEF HeldIsLeased
  <2>3. row[d].wait # 0
    BY <2>1, <2>2, DeliveryAssumption
  <2> QED BY <1>1, <2>1, <2>3
<1>8. ExclusiveClaim'
  BY <1>4, <1>5, <1>7 DEF ExclusiveClaim
<1>9. HeldIsLeased'
  <2> SUFFICES ASSUME NEW v \in Workers, NEW d \in run'[v].held
               PROVE  row'[d].status = "retrying" /\ row'[d].wait + RunLimit >= run'[v].left + Lease
    BY DEF HeldIsLeased
  <2>1. CASE v = w
    <3>1. d \in Picked /\ d \in Deliveries /\ run'[v].left = RunLimit
      BY <2>1, <1>1, <1>4, <1>5
    <3>2. row'[d].status = "retrying" /\ row'[d].wait = Lease
      BY <3>1, <1>2 DEF Rows
    <3> QED BY <3>1, <3>2, DeliveryAssumption
  <2>2. CASE v # w
    BY <2>2, <1>2, <1>5, <1>7 DEF HeldIsLeased
  <2> QED BY <2>1, <2>2
<1>10. AnswerIsReal'
  BY <1>4, <1>5 DEF ClaimPending, AnswerIsReal
<1>11. RetriesFollowStatus' /\ SentWasAccepted'
  BY <1>1, <1>2 DEF ClaimPending, RetriesFollowStatus, SentWasAccepted, Rows, Final
<1>12. FailuresAreCounted'
  <2>1. \A d \in Deliveries : row'[d].retries = row[d].retries
    BY <1>2 DEF Rows
  <2>2. \A v \in Workers, d \in Deliveries :
          run'[v].sending = d /\ run'[v].answer = "failure" =>
            run[v].sending = d /\ run[v].answer = "failure"
    BY <1>4, <1>5, DeliveryAssumption DEF NoDelivery
  <2> QED BY <2>1, <2>2 DEF ClaimPending, FailuresAreCounted, Counted
<1> QED BY <1>6, <1>8, <1>9, <1>10, <1>11, <1>12

\* A failed send is counted before anything is recorded of it.
LEMMA SendStep ==
  ASSUME DeliveryInv, NEW w \in Workers, NEW d \in Deliveries,
         NEW outcome \in Outcomes, Send(w, d, outcome)
  PROVE  DeliveryInv'
<1> USE DEF DeliveryInv
<1> DEFINE answer == IF outcome = "taken" THEN "success" ELSE "failure"
           r == [run[w] EXCEPT !.sending = d, !.answer = answer]
<1>1. run[w] \in Runs /\ failures[d] \in 0..FailureCap
  BY DEF TypeOK
<1>2. answer \in {"success", "failure"} /\ (answer = "success" <=> outcome = "taken")
  OBVIOUS
<1>3. r \in Runs /\ r.held = run[w].held /\ r.left = run[w].left
      /\ r.sending = d /\ r.answer = answer
  <2> HIDE DEF answer
  <2> QED BY ONLY <1>1, <1>2, d \in Deliveries DEF Runs
<1>4. run'[w] = r /\ \A v \in Workers : v # w => run'[v] = run[v]
  BY DEF Send, TypeOK
<1>5. d \in run[w].held /\ run[w].sending = NoDelivery
  BY DEF Send
<1>6. accepted' \in [Deliveries -> BOOLEAN]
      /\ (\A e \in Deliveries : accepted[e] => accepted'[e]) /\ (outcome = "taken" => accepted'[d])
  BY Zenon DEF Send, TypeOK
<1>7. /\ failures' \in [Deliveries -> 0..FailureCap]
      /\ \A e \in Deliveries : e # d => failures'[e] = failures[e]
      /\ failures'[d] = IF outcome # "taken" /\ failures[d] < FailureCap
                        THEN failures[d] + 1 ELSE failures[d]
  BY <1>1, DeliveryAssumption DEF Send, TypeOK
<1>8. TypeOK'
  <2>1. run' \in [Workers -> Runs]
    BY <1>3 DEF Send, TypeOK
  <2> QED BY <2>1, <1>6, <1>7 DEF Send, TypeOK
<1>9. HeldIsLeased' /\ ExclusiveClaim'
  <2> HIDE DEF r
  <2>1. \A v \in Workers : run'[v].held = run[v].held /\ run'[v].left = run[v].left
    BY <1>3, <1>4
  <2>2. row' = row
    BY DEF Send
  <2> QED BY <2>1, <2>2 DEF HeldIsLeased, ExclusiveClaim
<1>10. AnswerIsReal'
  <2> SUFFICES ASSUME NEW v \in Workers, run'[v].sending # NoDelivery
               PROVE  /\ run'[v].sending \in run'[v].held /\ run'[v].answer # "none"
                      /\ run'[v].answer = "success" => accepted'[run'[v].sending]
    BY DEF AnswerIsReal
  <2>1. CASE v = w
    BY <2>1, <1>2, <1>3, <1>4, <1>5, <1>6
  <2>2. CASE v # w
    <3>1. run'[v] = run[v] /\ run[v].sending \in Deliveries
      BY <2>2, <1>4 DEF TypeOK, Runs
    <3>2. run[v].sending \in run[v].held /\ run[v].answer # "none"
          /\ (run[v].answer = "success" => accepted[run[v].sending])
      BY <3>1 DEF AnswerIsReal
    <3> QED BY <3>1, <3>2, <1>6
  <2> QED BY <2>1, <2>2
<1>11. RetriesFollowStatus' /\ SentWasAccepted'
  BY <1>6 DEF Send, RetriesFollowStatus, SentWasAccepted
<1>12. FailuresAreCounted'
  <2>1. \A e \in Deliveries, n \in 0..MaxFailures + 1 : Counted(e, n) => Counted(e, n)'
    BY <1>1, <1>7, DeliveryAssumption DEF Counted, TypeOK
  <2>2. \A e \in Deliveries : row[e].retries \in 0..MaxFailures /\ row' = row
    BY DEF Send, TypeOK, Rows
  <2>3. answer = "failure" => Counted(d, row[d].retries + 1)'
    BY <1>1, <1>2, <1>7, <2>2, DeliveryAssumption DEF FailuresAreCounted, Counted
  <2>4. \A v \in Workers, e \in Deliveries :
          run'[v].sending = e /\ run'[v].answer = "failure" =>
            \/ run[v].sending = e /\ run[v].answer = "failure"
            \/ e = d /\ v = w /\ answer = "failure"
    BY <1>3, <1>4
  <2>5. \A e \in Deliveries : Counted(e, row[e].retries)'
    BY <1>1, <1>7, <2>2, DeliveryAssumption DEF FailuresAreCounted, Counted, TypeOK
  <2>6. ASSUME NEW v \in Workers, NEW e \in Deliveries, run'[v].sending = e,
               run'[v].answer = "failure"
        PROVE  Counted(e, row[e].retries + 1)'
    <3>1. CASE e = d /\ answer = "failure"
      BY <3>1, <2>3
    <3>2. CASE ~(e = d /\ answer = "failure")
      <4>1. run[v].sending = e /\ run[v].answer = "failure"
        <5> HIDE DEF answer, r
        <5> QED BY <3>2, <2>4, <2>6
      <4>2. row[e].retries + 1 \in 0..MaxFailures + 1
        BY <2>2, DeliveryAssumption
      <4>3. Counted(e, row[e].retries + 1)
        BY <4>1 DEF FailuresAreCounted
      <4> QED BY <4>2, <4>3, <2>1, <2>2
    <3> QED BY <3>1, <3>2
  <2> QED BY <2>5, <2>6 DEF FailuresAreCounted
<1> QED BY <1>8, <1>9, <1>10, <1>11, <1>12

\* Recording the answer uses the lease, and the message behind it.
LEMMA CompleteStep ==
  ASSUME DeliveryInv, NEW w \in Workers, NEW d \in Deliveries, CompleteAttempt(w, d)
  PROVE  DeliveryInv'
<1> USE DEF DeliveryInv
<1> DEFINE r == Recorded(row[d], run[w].answer)
<1>1. run[w].sending = d /\ d \in run[w].held /\ row[d] \in Rows /\ run[w] \in Runs
  BY DeliveryAssumption DEF CompleteAttempt, AnswerIsReal, NoDelivery, TypeOK
<1>2. row[d].status = "retrying"
  BY <1>1 DEF HeldIsLeased
<1>3. run[w].answer \in {"success", "failure"}
  BY <1>1, DeliveryAssumption DEF AnswerIsReal, NoDelivery, Runs
<1>4. r \in Rows
  BY <1>1, <1>3, RecordedType DEF CompleteAttempt
<1>5. \A e \in Deliveries : row'[e] = IF e = d THEN r ELSE row[e]
  BY DEF CompleteAttempt, TypeOK
<1>6. /\ run'[w].held = run[w].held \ {d} /\ run'[w].sending = NoDelivery /\ run'[w] \in Runs
      /\ run'[w].held # {} => run'[w].left = run[w].left
      /\ \A v \in Workers : v # w => run'[v] = run[v]
  BY <1>1, DeliveryAssumption DEF CompleteAttempt, TypeOK, Holding, Resting, Runs
<1>7. TypeOK'
  <2>1. run' \in [Workers -> Runs]
    BY <1>6 DEF CompleteAttempt, TypeOK
  <2>2. row' \in [Deliveries -> Rows]
    BY <1>4 DEF CompleteAttempt, TypeOK
  <2> QED BY <2>1, <2>2 DEF CompleteAttempt, TypeOK
<1>8. ExclusiveClaim'
  BY <1>6 DEF ExclusiveClaim
<1>9. \A v \in Workers : d \notin run'[v].held
  BY <1>1, <1>6 DEF ExclusiveClaim
<1>10. HeldIsLeased'
  <2> SUFFICES ASSUME NEW v \in Workers, NEW e \in run'[v].held
               PROVE  row'[e].status = "retrying" /\ row'[e].wait + RunLimit >= run'[v].left + Lease
    BY DEF HeldIsLeased
  <2>1. e # d /\ e \in run[v].held /\ run'[v].left = run[v].left
    BY <1>6, <1>9
  <2>2. row'[e] = row[e]
    BY <2>1, <1>5 DEF TypeOK, Runs
  <2> QED BY <2>1, <2>2 DEF HeldIsLeased
<1>11. AnswerIsReal'
  <2> SUFFICES ASSUME NEW v \in Workers, run'[v].sending # NoDelivery
               PROVE  /\ run'[v].sending \in run'[v].held /\ run'[v].answer # "none"
                      /\ run'[v].answer = "success" => accepted'[run'[v].sending]
    BY DEF AnswerIsReal
  <2>1. v # w /\ run'[v] = run[v]
    BY <1>6
  <2> QED BY <2>1 DEF CompleteAttempt, AnswerIsReal
<1>12. r.status \in {"sent", "failed", "retrying"}
       /\ (r.status = "failed" <=> r.retries = MaxFailures)
       /\ (r.status \in Final => r.wait = 0)
       /\ (r.status = "sent" => run[w].answer = "success")
       /\ r.retries \in {row[d].retries, row[d].retries + 1}
       /\ (run[w].answer = "success" => r.retries = row[d].retries)
  <2>1. row[d].retries \in 0..MaxFailures /\ row[d].retries # MaxFailures
    BY <1>1, <1>2 DEF RetriesFollowStatus, Rows, Final
  <2>2. CASE run[w].answer = "success"
    BY <2>1, <2>2, <1>1, <1>2 DEF Recorded, Rows, Final
  <2>3. CASE run[w].answer = "failure"
    BY <2>1, <2>3, <1>1, DeliveryAssumption DEF Recorded, Failed, Final
  <2> QED BY <2>2, <2>3, <1>3
<1>13. RetriesFollowStatus'
  BY <1>5, <1>12 DEF RetriesFollowStatus
<1>14. SentWasAccepted'
  <2>1. run[w].answer = "success" => accepted[d]
    BY <1>1, DeliveryAssumption DEF AnswerIsReal, NoDelivery
  <2> QED BY <2>1, <1>5, <1>12 DEF CompleteAttempt, SentWasAccepted
<1>15. FailuresAreCounted'
  <2>1. Counted(d, row[d].retries) /\ failures' = failures
        /\ (run[w].answer = "failure" => Counted(d, row[d].retries + 1))
    BY <1>1 DEF CompleteAttempt, FailuresAreCounted
  <2>2. \A e \in Deliveries : Counted(e, row[e].retries)'
    BY <2>1, <1>3, <1>5, <1>12 DEF FailuresAreCounted, Counted
  <2>3. ASSUME NEW v \in Workers, NEW e \in Deliveries, run'[v].sending = e,
               run'[v].answer = "failure"
        PROVE  Counted(e, row[e].retries + 1)'
    <3>1. v # w /\ run[v].sending = e /\ run[v].answer = "failure"
      BY <2>3, <1>6, DeliveryAssumption DEF NoDelivery
    <3>2. e \in run'[v].held
      BY <3>1, <1>6, DeliveryAssumption DEF AnswerIsReal, NoDelivery
    <3>3. row'[e] = row[e]
      BY <3>2, <1>5, <1>9
    <3> QED BY <3>1, <3>3, <2>1 DEF FailuresAreCounted, Counted
  <2> QED BY <2>2, <2>3 DEF FailuresAreCounted
<1> QED BY <1>7, <1>8, <1>10, <1>11, <1>13, <1>14, <1>15

\* A run that ends leaves its leases to run out.
LEMMA AbandonStep ==
  ASSUME DeliveryInv, NEW w \in Workers, Abandon(w)
  PROVE  DeliveryInv'
<1> USE DEF DeliveryInv
<1>1. run'[w] = Resting /\ \A v \in Workers : v # w => run'[v] = run[v]
  BY DEF Abandon, TypeOK
<1>2. Resting.held = {} /\ Resting.sending = NoDelivery /\ Resting \in Runs
  BY DeliveryAssumption DEF Resting, Holding, Runs
<1>3. TypeOK'
  BY <1>2 DEF Abandon, TypeOK
<1>4. HeldIsLeased' /\ ExclusiveClaim'
  BY <1>1, <1>2 DEF Abandon, HeldIsLeased, ExclusiveClaim
<1>5. AnswerIsReal'
  BY <1>1, <1>2 DEF Abandon, AnswerIsReal
<1>6. RetriesFollowStatus' /\ SentWasAccepted'
  BY DEF Abandon, RetriesFollowStatus, SentWasAccepted
<1>7. FailuresAreCounted'
  BY <1>1, <1>2, DeliveryAssumption DEF Abandon, FailuresAreCounted, Counted, NoDelivery
<1> QED BY <1>3, <1>4, <1>5, <1>6, <1>7

\* A tick takes one from the lease and one from the run that holds it.
LEMMA TickStep ==
  ASSUME DeliveryInv, Tick
  PROVE  DeliveryInv'
<1> USE DEF DeliveryInv
<1>1. \A d \in Deliveries :
        /\ row[d] \in Rows /\ row'[d] \in Rows
        /\ row'[d].status = row[d].status /\ row'[d].retries = row[d].retries
        /\ row'[d].wait = IF row[d].wait > 0 THEN row[d].wait - 1 ELSE 0
  <2> TAKE d \in Deliveries
  <2> DEFINE wait == IF row[d].wait > 0 THEN row[d].wait - 1 ELSE 0
  <2>1. row[d] \in Rows
    BY DEF TypeOK
  <2>2. wait \in Nat
    BY <2>1 DEF Rows
  <2>3. row'[d] = [row[d] EXCEPT !.wait = wait]
    BY DEF Tick
  <2> HIDE DEF wait
  <2>4. row'[d] \in Rows /\ row'[d].status = row[d].status
        /\ row'[d].retries = row[d].retries /\ row'[d].wait = wait
    BY <2>1, <2>2, <2>3 DEF Rows
  <2> QED BY <2>1, <2>4 DEF wait
<1>2. \A w \in Workers :
        /\ run'[w] \in Runs
        /\ run'[w].held # {} =>
             /\ run[w].left # 0 /\ run'[w].left = run[w].left - 1
             /\ run'[w].held = run[w].held
        /\ run'[w].sending # NoDelivery =>
             /\ run'[w].held = run[w].held
             /\ run'[w].sending = run[w].sending /\ run'[w].answer = run[w].answer
        /\ run'[w].held \subseteq run[w].held
  <2> TAKE w \in Workers
  <2>1. run[w] \in Runs /\ run[w].left \in 0..RunLimit
    BY DEF TypeOK, Runs
  <2>2. CASE run[w].left = 0
    <3>1. run'[w] = Resting
      BY <2>2 DEF Tick
    <3> QED BY <3>1, DeliveryAssumption DEF Resting, Holding, Runs
  <2>3. CASE run[w].left # 0
    <3>1. run'[w] = [run[w] EXCEPT !.left = run[w].left - 1]
      BY <2>3 DEF Tick
    <3>2. run[w].left - 1 \in 0..RunLimit
      BY <2>1, <2>3, DeliveryAssumption
    <3> QED BY <2>1, <2>3, <3>1, <3>2 DEF Runs
  <2> QED BY <2>2, <2>3
<1>3. TypeOK'
  BY <1>1, <1>2 DEF Tick, TypeOK
<1>4. HeldIsLeased'
  <2> SUFFICES ASSUME NEW w \in Workers, NEW d \in run'[w].held
               PROVE  row'[d].status = "retrying" /\ row'[d].wait + RunLimit >= run'[w].left + Lease
    BY DEF HeldIsLeased
  <2>1. /\ d \in run[w].held /\ d \in Deliveries
        /\ run[w].left \in 1..RunLimit /\ run'[w].left = run[w].left - 1
    BY <1>2 DEF TypeOK, Runs
  <2>2. row[d].status = "retrying" /\ row[d].wait + RunLimit >= run[w].left + Lease
        /\ row[d].wait \in Nat
    BY <2>1, <1>1 DEF HeldIsLeased, Rows
  <2> QED BY <2>1, <2>2, <1>1, DeliveryAssumption
<1>5. ExclusiveClaim'
  BY <1>2 DEF ExclusiveClaim
<1>6. AnswerIsReal'
  BY <1>2 DEF Tick, AnswerIsReal
<1>7. RetriesFollowStatus' /\ SentWasAccepted'
  BY <1>1 DEF Tick, RetriesFollowStatus, SentWasAccepted
<1>8. FailuresAreCounted'
  <2>1. \A w \in Workers, d \in Deliveries :
          run'[w].sending = d /\ run'[w].answer = "failure" =>
            run[w].sending = d /\ run[w].answer = "failure"
    BY <1>2, DeliveryAssumption DEF NoDelivery
  <2>2. failures' = failures
    BY DEF Tick
  <2> QED BY <1>1, <2>1, <2>2 DEF FailuresAreCounted, Counted
<1> QED BY <1>3, <1>4, <1>5, <1>6, <1>7, <1>8

-----------------------------------------------------------------------------
\* The invariant is inductive.
LEMMA DeliveryInvariant ==
  Spec => []DeliveryInv
<1>1. DeliveryInv /\ [Next]_vars => DeliveryInv'
  <2> SUFFICES ASSUME DeliveryInv, [Next]_vars PROVE DeliveryInv'
    OBVIOUS
  <2>1. CASE UNCHANGED vars
    BY <2>1 DEF vars, DeliveryInv, TypeOK, HeldIsLeased, ExclusiveClaim, AnswerIsReal,
                RetriesFollowStatus, SentWasAccepted, FailuresAreCounted, Counted
  <2>2. ASSUME NEW D \in SUBSET Deliveries, CreateCampaign(D) PROVE DeliveryInv'
    BY <2>2, CreateStep
  <2>3. ASSUME NEW w \in Workers, WorkerStep(w) PROVE DeliveryInv'
    BY <2>3, ClaimStep, SendStep, CompleteStep, AbandonStep DEF WorkerStep
  <2>4. CASE Tick
    BY <2>4, TickStep
  <2> QED BY <2>1, <2>2, <2>3, <2>4 DEF Next
<1> QED BY <1>1, DeliveryInit, PTL DEF Spec

\* Rows, runs and history keep their types.
THEOREM DeliveryTypeCorrect == Spec => []TypeOK
<1>1. DeliveryInv => TypeOK
  BY DEF DeliveryInv
<1> QED BY <1>1, DeliveryInvariant, PTL

\* No two runs of ProcessBatch ever work on one delivery, for every lease
\* longer than the limit of a run.
THEOREM ClaimsAreExclusive == Spec => []ExclusiveClaim
<1>1. DeliveryInv => ExclusiveClaim
  BY DEF DeliveryInv
<1> QED BY <1>1, DeliveryInvariant, PTL

\* What is recorded as sent was taken by the provider, and what is given up has
\* failed in MaxFailures calls of Send, for every order of claims, crashes,
\* deadlines and answers.
THEOREM VerdictsHaveEvidence == Spec => []VerdictHasEvidence
<1>1. DeliveryInv => VerdictHasEvidence
  BY DeliveryAssumption
  DEF DeliveryInv, TypeOK, VerdictHasEvidence, SentWasAccepted, RetriesFollowStatus,
      FailuresAreCounted, Counted
<1> QED BY <1>1, DeliveryInvariant, PTL

\* No step rewrites the row of a delivery that was sent or given up.
THEOREM VerdictsAreFinal == Spec => VerdictIsFinal
<1> DEFINE A == \A d \in Deliveries : row[d].status \in Final => row'[d] = row[d]
<1>1. DeliveryInv /\ [Next]_vars => [A]_vars
  <2> SUFFICES ASSUME DeliveryInv, Next, NEW d \in Deliveries, row[d].status \in Final
               PROVE  row'[d] = row[d]
    OBVIOUS
  <2>1. \A w \in Workers : d \notin run[w].held
    BY DEF DeliveryInv, HeldIsLeased, Final
  <2>2. ASSUME NEW D \in SUBSET Deliveries, CreateCampaign(D) PROVE row'[d] = row[d]
    BY <2>2 DEF CreateCampaign, Final
  <2>3. ASSUME NEW w \in Workers, WorkerStep(w) PROVE row'[d] = row[d]
    <3>1. CASE ClaimPending(w)
      BY <3>1 DEF ClaimPending, Picked, Due, Final
    <3>2. ASSUME NEW e \in Deliveries, CompleteAttempt(w, e) PROVE row'[d] = row[d]
      <4>1. e # d
        BY <2>1, <3>2, DeliveryAssumption
        DEF CompleteAttempt, DeliveryInv, AnswerIsReal, NoDelivery
      <4> QED BY <3>2, <4>1 DEF CompleteAttempt, DeliveryInv, TypeOK
    <3> QED BY <2>3, <3>1, <3>2 DEF WorkerStep, Send, Abandon
  <2>4. CASE Tick
    <3>1. row[d].wait = 0 /\ row[d] \in Rows
      BY DEF DeliveryInv, RetriesFollowStatus, TypeOK
    <3>2. row'[d] = [row[d] EXCEPT !.wait = 0]
      BY <2>4, <3>1 DEF Tick
    <3> QED BY <3>1, <3>2 DEF Rows
  <2> QED BY <2>2, <2>3, <2>4 DEF Next
<1> QED BY <1>1, DeliveryInvariant, PTL DEF Spec, VerdictIsFinal


(***************************************************************************)
(* WeeklyParentReport                                                      *)
(***************************************************************************)
-----------------------------------------------------------------------------
(* Smallest and largest elements, by which the pages are cut. *)

LEMMA SmallestElement ==
  ASSUME NEW S \in SUBSET Nat, S # {}
  PROVE  \E x \in S : \A y \in S : x <= y
<1> DEFINE R == OpToRel(<, Nat)
<1>1. IsWellFoundedOn(R, Nat)
  BY NatLessThanWellFounded
<1>2. \A x, y \in Nat : <<y, x>> \in R <=> y < x
  BY DEF OpToRel
<1> HIDE DEF R
<1>3. PICK x \in S : \A y \in S : ~ (<<y, x>> \in R)
  BY <1>1, WFMin
<1>4. ASSUME NEW y \in S PROVE x <= y
  <2>1. ~ (y < x)
    BY <1>2, <1>3
  <2> QED BY <2>1
<1> QED BY <1>4

\* Of a finite set of numbers, the one with the most below it is the largest.
LEMMA LargestElement ==
  ASSUME NEW S \in SUBSET Nat, IsFiniteSet(S), S # {}
  PROVE  \E x \in S : \A y \in S : y <= x
<1> DEFINE Below(x) == {q \in S : q < x}
           Above(x) == Cardinality(S) - Cardinality(Below(x))
<1>1. ASSUME NEW x \in S
      PROVE  /\ IsFiniteSet(Below(x)) /\ Cardinality(Below(x)) \in Nat
             /\ Above(x) \in Nat
  <2>1. Below(x) \in SUBSET S
    OBVIOUS
  <2>2. IsFiniteSet(Below(x)) /\ Cardinality(Below(x)) <= Cardinality(S)
    BY <2>1, FS_Subset
  <2> HIDE DEF Below
  <2>3. Cardinality(Below(x)) \in Nat /\ Cardinality(S) \in Nat
    BY <2>2, FS_CardinalityType
  <2> QED BY <2>2, <2>3
<1> HIDE DEF Above
<1>2. PICK x \in S : \A y \in S : Above(x) <= Above(y)
  <2> DEFINE T == {Above(y) : y \in S}
  <2>1. T \in SUBSET Nat /\ T # {}
    BY <1>1
  <2>2. PICK m \in T : \A n \in T : m <= n
    <3> HIDE DEF T
    <3> QED BY <2>1, SmallestElement
  <2> QED BY <2>2
<1>3. ASSUME NEW y \in S, x < y PROVE FALSE
  <2>0. x \in Nat /\ y \in Nat
    OBVIOUS
  <2>1. Below(x) \cup {x} \in SUBSET Below(y) /\ x \notin Below(x)
    <3>1. x \notin Below(x)
      BY <2>0
    <3>2. \A q \in S : q < x => q < y
      BY <1>3, <2>0
    <3> QED BY <1>3, <3>1, <3>2
  <2>2. IsFiniteSet(Below(x)) /\ IsFiniteSet(Below(y))
        /\ Cardinality(Below(x)) \in Nat /\ Cardinality(Below(y)) \in Nat
        /\ Cardinality(S) \in Nat
    BY <1>1, FS_CardinalityType
  <2>3. Above(y) = Cardinality(S) - Cardinality(Below(y))
        /\ Above(x) = Cardinality(S) - Cardinality(Below(x))
    BY DEF Above
  <2> HIDE DEF Below
  <2>4. Cardinality(Below(x) \cup {x}) = Cardinality(Below(x)) + 1
    BY <2>1, <2>2, FS_AddElement
  <2>5. Cardinality(Below(x) \cup {x}) <= Cardinality(Below(y))
    BY <2>1, <2>2, FS_Subset
  <2>6. Above(x) <= Above(y)
    BY <1>2
  <2> QED BY <2>2, <2>3, <2>4, <2>5, <2>6
<1>4. ASSUME NEW y \in S PROVE y <= x
  BY <1>3
<1> QED BY <1>4

LEMMA LastOfPage ==
  ASSUME NEW S \in SUBSET Nat, IsFiniteSet(S), S # {}
  PROVE  Last(S) \in S /\ \A q \in S : q <= Last(S)
BY LargestElement DEF Last

-----------------------------------------------------------------------------
(* The pages of ResolveNotificationAudiencePage. *)

\* The parents that are active are a finite set of numbers, and so are those
\* after an id.
LEMMA RestIsFinite ==
  ASSUME active \subseteq Parents, NEW after
  PROVE  /\ Rest(after) \in SUBSET Nat /\ Rest(after) \subseteq Parents
         /\ IsFiniteSet(active) /\ IsFiniteSet(Rest(after))
         /\ Cardinality(Rest(after)) \in Nat /\ Cardinality(active) \in Nat
<1>1. Rest(after) \in SUBSET Parents /\ Parents \subseteq Nat
  BY ReportAssumption DEF Rest
<1>2. IsFiniteSet(active) /\ IsFiniteSet(Rest(after))
  BY <1>1, ReportAssumption, FS_Subset
<1> QED BY <1>1, <1>2, FS_CardinalityType

\* A page is no longer than its limit.
LEMMA PageLength ==
  ASSUME active \subseteq Parents, NEW after, NEW limit \in Nat
  PROVE  /\ Page(after, limit) \subseteq Rest(after)
         /\ IsFiniteSet(Page(after, limit))
         /\ Cardinality(Page(after, limit)) \in Nat
         /\ Cardinality(Page(after, limit)) <= limit
<1> DEFINE page == Page(after, limit)
           rest == Rest(after)
<1>1. rest \in SUBSET Nat /\ IsFiniteSet(rest)
  BY RestIsFinite
<1>2. page \in SUBSET rest
  BY DEF Page
<1>3. IsFiniteSet(page) /\ Cardinality(page) \in Nat
  BY <1>1, <1>2, FS_Subset, FS_CardinalityType
<1>4. CASE page = {}
  BY <1>2, <1>3, <1>4, FS_EmptySet
<1>5. CASE page # {}
  <2> DEFINE m == Last(page)
             low == {q \in rest : q < m}
  <2>1. m \in page /\ \A q \in page : q <= m
    <3>1. page \in SUBSET Nat
      BY <1>1, <1>2
    <3> HIDE DEF page
    <3> QED BY <1>3, <1>5, <3>1, LastOfPage
  <2>2. Cardinality(low) < limit
    BY <2>1 DEF Page
  <2>3. low \in SUBSET rest /\ m \notin low
    <3>1. m \in Nat
      BY <1>1, <1>2, <2>1
    <3> HIDE DEF m
    <3> QED BY <3>1
  <2>4. page \in SUBSET (low \cup {m})
    BY <1>1, <1>2, <2>1
  <2> HIDE DEF low, m, page, rest
  <2>5. IsFiniteSet(low) /\ Cardinality(low) \in Nat
    BY <1>1, <2>3, FS_Subset, FS_CardinalityType
  <2>6. IsFiniteSet(low \cup {m}) /\ Cardinality(low \cup {m}) = Cardinality(low) + 1
    BY <2>3, <2>5, FS_AddElement
  <2>7. Cardinality(page) <= Cardinality(low \cup {m})
    BY <2>4, <2>6, FS_Subset
  <2>8. Cardinality(page) <= limit
    BY <1>3, <2>2, <2>5, <2>6, <2>7
  <2> QED BY <1>2, <1>3, <2>8 DEF page, rest
<1> QED BY <1>4, <1>5

\* A page leaves out nobody before its last parent.
LEMMA PageIsFirst ==
  ASSUME active \subseteq Parents, NEW after, NEW limit \in Nat,
         Page(after, limit) # {}
  PROVE  /\ Last(Page(after, limit)) \in Page(after, limit)
         /\ \A p \in Page(after, limit) : p <= Last(Page(after, limit))
         /\ \A p \in Rest(after) :
              p \in Page(after, limit) \/ p > Last(Page(after, limit))
<1> DEFINE page == Page(after, limit)
           rest == Rest(after)
           m == Last(page)
<1>1. rest \in SUBSET Nat /\ IsFiniteSet(rest)
  BY RestIsFinite
<1>2. page \in SUBSET rest /\ IsFiniteSet(page)
  BY PageLength
<1>3. m \in page /\ \A q \in page : q <= m
  <2>1. page \in SUBSET Nat /\ page # {}
    BY <1>1, <1>2
  <2> HIDE DEF page
  <2> QED BY <1>2, <2>1, LastOfPage
<1>4. ASSUME NEW p \in rest, ~ (p > m) PROVE p \in page
  <2> DEFINE low(x) == {q \in rest : q < x}
  <2>1. p <= m /\ low(p) \in SUBSET low(m) /\ low(m) \in SUBSET rest
    BY <1>1, <1>2, <1>3, <1>4
  <2>2. Cardinality(low(m)) < limit
    BY <1>3 DEF Page
  <2>3. Cardinality(low(p)) < limit
    <3> HIDE DEF low, rest
    <3>1. IsFiniteSet(low(m))
      BY <1>1, <2>1, FS_Subset
    <3>2. /\ Cardinality(low(p)) <= Cardinality(low(m))
          /\ Cardinality(low(p)) \in Nat /\ Cardinality(low(m)) \in Nat
      BY <2>1, <3>1, FS_Subset, FS_CardinalityType
    <3> QED BY <2>2, <3>2
  <2> QED BY <2>3 DEF Page
<1> QED BY <1>3, <1>4

\* An empty page means that nobody is left.
LEMMA EmptyPage ==
  ASSUME active \subseteq Parents, NEW after, NEW limit \in Nat, limit > 0,
         Page(after, limit) = {}
  PROVE  Rest(after) = {}
<1>1. SUFFICES ASSUME Rest(after) # {} PROVE FALSE
  OBVIOUS
<1>2. PICK p \in Rest(after) : \A q \in Rest(after) : p <= q
  BY <1>1, RestIsFinite, SmallestElement
<1>3. {q \in Rest(after) : q < p} = {}
  <2>1. Rest(after) \in SUBSET Nat
    BY RestIsFinite
  <2> QED BY <1>2, <2>1
<1>4. Cardinality({q \in Rest(after) : q < p}) = 0
  BY <1>3, FS_EmptySet
<1> QED BY <1>2, <1>4 DEF Page

\* What comes after a page is shorter by the page.
LEMMA RestAfterPage ==
  ASSUME active \subseteq Parents, NEW after \in Nat, NEW limit \in Nat,
         Page(after, limit) # {}
  PROVE  Cardinality(Rest(Last(Page(after, limit)))) + Cardinality(Page(after, limit))
           <= Cardinality(Rest(after))
<1> DEFINE page == Page(after, limit)
           rest == Rest(after)
           next == Rest(Last(page))
<1>1. /\ rest \in SUBSET Nat /\ IsFiniteSet(rest) /\ Cardinality(rest) \in Nat
      /\ IsFiniteSet(next) /\ Cardinality(next) \in Nat
  BY RestIsFinite
<1>2. page \in SUBSET rest /\ IsFiniteSet(page) /\ Cardinality(page) \in Nat
  BY PageLength
<1>3. Last(page) \in page /\ \A q \in page : q <= Last(page)
  BY PageIsFirst
<1>4. next \in SUBSET rest /\ next \cap page = {}
  <2> DEFINE m == Last(page)
  <2>1. m \in Nat /\ m > after
    BY <1>1, <1>2, <1>3 DEF Rest
  <2>2. rest = {p \in active : p > after} /\ next = {p \in active : p > m}
    BY DEF Rest
  <2>3. active \subseteq Nat
    BY ReportAssumption
  <2>4. \A q \in page : q \in Nat /\ q <= m
    BY <1>1, <1>2, <1>3
  <2> HIDE DEF m, page, rest, next
  <2>5. \A q \in active : q > m => q > after
    BY <2>1, <2>3
  <2>6. next \subseteq rest
    BY <2>2, <2>5
  <2>7. \A q \in page : q \notin next
    BY <2>1, <2>2, <2>4
  <2> QED BY <2>6, <2>7
<1> HIDE DEF page, rest, next
<1>5. Cardinality(next \cup page) = Cardinality(next) + Cardinality(page)
  <2>1. Cardinality(next \cap page) = 0
    BY <1>4, FS_EmptySet
  <2>2. Cardinality(next \cup page)
          = Cardinality(next) + Cardinality(page) - Cardinality(next \cap page)
    BY <1>1, <1>2, FS_Union
  <2> QED BY <1>1, <1>2, <2>1, <2>2
<1>6. Cardinality(next \cup page) <= Cardinality(rest)
  <2>1. next \cup page \in SUBSET rest
    BY <1>2, <1>4
  <2> QED BY <1>1, <2>1, FS_Subset
<1> QED BY <1>5, <1>6 DEF page, rest, next

-----------------------------------------------------------------------------
(* The inductive invariant. *)

\* A run that has stepped over no error still has before it, in its page or after
\* it, every parent who waits for a report.
StillBefore(w) ==
  call[w].stage = "running" /\ ~call[w].failed =>
    \A p \in Owed : p \in call[w].page \/ p > call[w].after

\* What a run has counted and not yet read is enough for the parents that are
\* left, unless the number of parents has grown.
CountSuffices(w) ==
  call[w].stage = "running" /\ ~grown[w] =>
    Cardinality(Rest(call[w].after)) <= Remaining(call[w])

\* Before the hour nobody runs and nobody is done.
NothingEarly == hour = "before" => \A w \in ReportWorkers : call[w] = Idle /\ ~lastKey[w]

ReportInv ==
  /\ ReportTypeOK /\ OneReportPerWeek /\ DoneReachesEveryone
  /\ steady \subseteq active /\ NothingEarly
  /\ \A w \in ReportWorkers : StillBefore(w) /\ CountSuffices(w)

LEMMA ReportStart == ReportInit => ReportInv
<1> SUFFICES ASSUME ReportInit PROVE ReportInv
  OBVIOUS
<1>1. Idle \in Calls /\ Idle.stage = "idle" /\ Idle.processed = 0 /\ Idle.total = 0
  BY DEF Idle, Calls
<1>2. ReportTypeOK
  BY <1>1, ReportAssumption DEF ReportInit, ReportTypeOK
<1>3. OneReportPerWeek /\ DoneReachesEveryone /\ NothingEarly /\ steady \subseteq active
  BY DEF ReportInit, OneReportPerWeek, DoneReachesEveryone, NothingEarly
<1>4. \A w \in ReportWorkers : StillBefore(w) /\ CountSuffices(w)
  BY <1>1 DEF ReportInit, StillBefore, CountSuffices
<1> QED BY <1>2, <1>3, <1>4 DEF ReportInv

\* A step of one worker: it leaves the accounts and the other workers alone, and
\* campaigns are never taken back.
OnlyWorker(w) ==
  /\ UNCHANGED <<hour, active, steady, activations>>
  /\ call' \in [ReportWorkers -> Calls] /\ call'[w].processed <= call'[w].total
  /\ lastKey' \in [ReportWorkers -> BOOLEAN] /\ grown' \in [ReportWorkers -> BOOLEAN]
  /\ \A v \in ReportWorkers \ {w} :
       call'[v] = call[v] /\ lastKey'[v] = lastKey[v] /\ grown'[v] = grown[v]
  /\ campaigns' \in [Parents -> Nat]
  /\ \A p \in Parents : campaigns'[p] <= 1 /\ (campaigns[p] # 0 => campaigns'[p] # 0)

\* It keeps the invariant if it keeps it for that worker.
LEMMA ReportWorkerStep ==
  ASSUME ReportInv, NEW w \in ReportWorkers, OnlyWorker(w),
         hour = "before" => call'[w] = Idle /\ ~lastKey'[w],
         lastKey'[w] /\ ~grown'[w] => Owed' = {},
         StillBefore(w)', CountSuffices(w)'
  PROVE  ReportInv'
<1>0. OneReportPerWeek'
  BY DEF OnlyWorker, OneReportPerWeek
<1>1. ReportTypeOK'
  BY DEF ReportInv, OnlyWorker, ReportTypeOK
<1>2. Owed' \subseteq Owed
  BY DEF Owed, ReportInv, OnlyWorker, ReportTypeOK
<1>3. DoneReachesEveryone'
  BY <1>2 DEF DoneReachesEveryone, OnlyWorker, ReportInv
<1>4. NothingEarly' /\ (steady \subseteq active)'
  BY DEF NothingEarly, OnlyWorker, ReportInv
<1>5. ASSUME NEW v \in ReportWorkers, v # w PROVE StillBefore(v)' /\ CountSuffices(v)'
  <2>1. call'[v] = call[v] /\ grown'[v] = grown[v]
    BY <1>5 DEF OnlyWorker
  <2>2. StillBefore(v)'
    BY <1>2, <2>1 DEF StillBefore, ReportInv
  <2>3. CountSuffices(v)'
    BY <2>1 DEF CountSuffices, Rest, OnlyWorker, ReportInv
  <2> QED BY <2>2, <2>3
<1> QED BY <1>0, <1>1, <1>3, <1>4, <1>5 DEF ReportInv

LEMMA CallFields ==
  ASSUME NEW c \in Calls
  PROVE  /\ c.total \in Nat /\ c.processed \in Nat /\ c.after \in Nat
         /\ c.page \subseteq Parents /\ c.failed \in BOOLEAN
<1>1. c.after \in Parents \cup {0} /\ c.total \in Nat /\ c.processed \in Nat
      /\ c.page \subseteq Parents /\ c.failed \in BOOLEAN
  BY DEF Calls
<1>2. c.after \in Nat
  <2>1. Parents \cup {0} \subseteq Nat
    BY ReportAssumption
  <2> QED BY <1>1, <2>1
<1> QED BY <1>1, <1>2

LEMMA StartStep ==
  ASSUME ReportInv, NEW w \in ReportWorkers, Start(w)
  PROVE  ReportInv'
<1> DEFINE n == Cardinality(active)
<1>1. /\ call[w] = Idle /\ hour = "during" /\ ~lastKey[w]
      /\ call' = [call EXCEPT ![w].stage = "running", ![w].total = n]
      /\ grown' = [grown EXCEPT ![w] = FALSE]
      /\ UNCHANGED <<hour, active, campaigns, lastKey, steady, activations>>
  BY DEF Start
<1>2. ReportTypeOK /\ active \subseteq Parents
  BY DEF ReportInv, ReportTypeOK
<1>3. n \in Nat
  BY <1>2, RestIsFinite
<1> HIDE DEF n
<1>4. /\ call'[w] = [stage |-> "running", total |-> n, processed |-> 0, after |-> 0,
                     page |-> {}, failed |-> FALSE]
      /\ \A v \in ReportWorkers \ {w} : call'[v] = call[v] /\ grown'[v] = grown[v]
      /\ call' \in [ReportWorkers -> Calls] /\ grown' \in [ReportWorkers -> BOOLEAN]
      /\ ~grown'[w] /\ call'[w].stage = "running" /\ call'[w].page = {}
      /\ call'[w].after = 0 /\ call'[w].processed = 0 /\ call'[w].total = n
  <2>1. [stage |-> "running", total |-> n, processed |-> 0, after |-> 0,
         page |-> {}, failed |-> FALSE] \in Calls
    BY <1>3 DEF Calls
  <2>2. call'[w] = [Idle EXCEPT !.stage = "running", !.total = n]
    BY <1>1, <1>2 DEF ReportTypeOK
  <2>3. call'[w] = [stage |-> "running", total |-> n, processed |-> 0, after |-> 0,
                    page |-> {}, failed |-> FALSE]
    BY <2>2 DEF Idle
  <2> QED BY <1>1, <1>2, <2>1, <2>3 DEF ReportTypeOK
<1>5. \A p \in Parents : p > 0
  BY ReportAssumption
<1>6. StillBefore(w)'
  BY <1>1, <1>2, <1>4, <1>5 DEF StillBefore, Owed, ReportTypeOK
<1>7. CountSuffices(w)'
  <2>1. Rest(0)' = active
    BY <1>1, <1>2, <1>5 DEF Rest
  <2> QED BY <1>3, <1>4, <2>1 DEF CountSuffices, Remaining, n
<1>8. OnlyWorker(w)
  BY <1>1, <1>2, <1>3, <1>4 DEF OnlyWorker, ReportTypeOK, ReportInv, OneReportPerWeek
<1> QED BY <1>1, <1>6, <1>7, <1>8, ReportWorkerStep

LEMMA NextPageStep ==
  ASSUME ReportInv, NEW w \in ReportWorkers, NextPage(w)
  PROVE  ReportInv'
<1> DEFINE c == call[w]
           limit == Limit(c)
           page == Page(c.after, limit)
           m == Last(page)
           size == Cardinality(page)
<1>1. /\ c.stage = "running" /\ c.page = {} /\ Remaining(c) > 0 /\ page # {}
      /\ call' = [call EXCEPT ![w].page = page, ![w].after = m,
                              ![w].processed = c.processed + size]
      /\ UNCHANGED <<hour, active, campaigns, lastKey, steady, grown, activations>>
  BY DEF NextPage
<1>2. ReportTypeOK /\ active \subseteq Parents /\ steady \subseteq active
  BY DEF ReportInv, ReportTypeOK
<1>3. c \in Calls /\ c.processed \in Nat /\ c.total \in Nat /\ c.after \in Nat
  BY <1>2, CallFields DEF ReportTypeOK
<1>4. /\ limit \in Nat /\ limit > 0 /\ limit <= Remaining(c)
      /\ Remaining(c) = c.total - c.processed
  BY <1>1, <1>3, ReportAssumption DEF Limit, Smaller, Remaining
<1>5. page \subseteq Rest(c.after) /\ size \in Nat /\ size <= limit
  BY <1>2, <1>4, PageLength
<1>6. /\ m \in page
      /\ \A p \in Rest(c.after) : p \in page \/ p > m
  BY <1>1, <1>2, <1>4, PageIsFirst
<1>7. Cardinality(Rest(m)) + size <= Cardinality(Rest(c.after))
  BY <1>1, <1>2, <1>3, <1>4, RestAfterPage
<1>8. page \subseteq Parents /\ m \in Parents
  BY <1>2, <1>5, <1>6 DEF Rest
<1>9. Cardinality(Rest(m)) \in Nat /\ Cardinality(Rest(c.after)) \in Nat
  BY <1>2, RestIsFinite
<1>10. call[w] = c
  OBVIOUS
<1> HIDE DEF c, limit, page, m, size
<1>11. /\ call' \in [ReportWorkers -> Calls]
       /\ \A v \in ReportWorkers \ {w} : call'[v] = call[v]
       /\ call'[w].page = page /\ call'[w].after = m
       /\ call'[w].processed = c.processed + size
       /\ call'[w].total = c.total /\ call'[w].failed = c.failed
  <2>1. call' = [call EXCEPT ![w] = [c EXCEPT !.page = page, !.after = m,
                                              !.processed = c.processed + size]]
    BY <1>1, <1>2, <1>10 DEF ReportTypeOK
  <2>2. [c EXCEPT !.page = page, !.after = m, !.processed = c.processed + size] \in Calls
    <3>1. c.processed + size \in Nat
      BY <1>3, <1>5
    <3> QED BY ONLY <1>3, <1>8, <3>1 DEF Calls
  <2>3. call'[w] = [c EXCEPT !.page = page, !.after = m, !.processed = c.processed + size]
        /\ call' \in [ReportWorkers -> Calls] /\ \A v \in ReportWorkers \ {w} : call'[v] = call[v]
    BY <1>2, <2>1, <2>2 DEF ReportTypeOK
  <2> QED BY <1>3, <2>3 DEF Calls
<1>12. StillBefore(w)'
  <2>1. SUFFICES ASSUME ~c.failed, NEW p \in Owed PROVE p \in page \/ p > m
    BY <1>1, <1>11 DEF StillBefore, Owed
  <2>2. p > c.after /\ p \in active
    BY <1>1, <1>2, <1>10, <2>1 DEF ReportInv, StillBefore, Owed
  <2> QED BY <1>6, <2>2 DEF Rest
<1>13. CountSuffices(w)'
  <2>1. SUFFICES ASSUME ~grown[w] PROVE Cardinality(Rest(m)) <= Remaining(c) - size
    BY <1>1, <1>3, <1>4, <1>5, <1>11 DEF CountSuffices, Rest, Remaining
  <2>2. Cardinality(Rest(c.after)) <= Remaining(c)
    BY <1>1, <1>10, <2>1 DEF ReportInv, CountSuffices
  <2> QED BY <1>3, <1>4, <1>5, <1>7, <1>9, <2>2
<1>14. c.processed + size <= c.total
  BY <1>3, <1>4, <1>5
<1>15. OnlyWorker(w)
  BY <1>1, <1>2, <1>11, <1>14 DEF OnlyWorker, ReportTypeOK, ReportInv, OneReportPerWeek
<1>16. hour # "before"
  BY <1>1, <1>10 DEF ReportInv, NothingEarly, Idle
<1>17. lastKey'[w] /\ ~grown'[w] => Owed' = {}
  BY <1>1 DEF ReportInv, DoneReachesEveryone, Owed
<1> QED BY <1>12, <1>13, <1>15, <1>16, <1>17, ReportWorkerStep

LEMMA ReportStep ==
  ASSUME ReportInv, NEW w \in ReportWorkers, NEW p \in Parents, NEW error \in BOOLEAN,
         Report(w, p, error)
  PROVE  ReportInv'
<1> DEFINE c == call[w]
           failed == c.failed \/ error
<1>1. /\ p \in c.page
      /\ error => p \in Reportable
      /\ call' = [call EXCEPT ![w].page = @ \ {p}, ![w].failed = @ \/ error]
      /\ UNCHANGED <<hour, active, lastKey, steady, grown, activations>>
      /\ IF p \in Reportable /\ ~error THEN NewCampaign(p) ELSE UNCHANGED campaigns
  BY DEF Report
<1>2. ReportTypeOK
  BY DEF ReportInv
<1>3. c \in Calls /\ c.failed \in BOOLEAN /\ c.page \subseteq Parents
      /\ c.processed <= c.total
  BY <1>2 DEF ReportTypeOK, Calls
<1>4. /\ campaigns' \in [Parents -> Nat]
      /\ \A q \in Parents : campaigns'[q] <= 1 /\ (campaigns[q] # 0 => campaigns'[q] # 0)
      /\ p \in Reportable /\ ~error => campaigns'[p] # 0
  <2>1. CASE p \in Reportable /\ ~error
    BY <1>1, <1>2, <2>1 DEF NewCampaign, ReportTypeOK, ReportInv, OneReportPerWeek
  <2>2. CASE ~(p \in Reportable /\ ~error)
    BY <1>1, <1>2, <2>2 DEF ReportTypeOK, ReportInv, OneReportPerWeek
  <2> QED BY <2>1, <2>2
<1>5. call[w] = c
  OBVIOUS
<1>6. failed \in BOOLEAN /\ (failed <=> c.failed \/ error)
  OBVIOUS
<1>7. call' = [call EXCEPT ![w] = [c EXCEPT !.page = @ \ {p}, !.failed = failed]]
  BY <1>1, <1>2 DEF ReportTypeOK
<1> HIDE DEF c, failed
<1>8. /\ call' \in [ReportWorkers -> Calls]
      /\ \A v \in ReportWorkers \ {w} : call'[v] = call[v]
      /\ call'[w].page = c.page \ {p} /\ call'[w].after = c.after
      /\ call'[w].processed = c.processed /\ call'[w].total = c.total
      /\ call'[w].failed = failed /\ call'[w].stage = c.stage
  <2>1. [c EXCEPT !.page = @ \ {p}, !.failed = failed] \in Calls
    BY ONLY <1>3, <1>6 DEF Calls
  <2>2. call'[w] = [c EXCEPT !.page = @ \ {p}, !.failed = failed]
        /\ call' \in [ReportWorkers -> Calls] /\ \A v \in ReportWorkers \ {w} : call'[v] = call[v]
    BY <1>2, <1>7, <2>1 DEF ReportTypeOK
  <2> QED BY <1>3, <2>2 DEF Calls
<1>9. Owed' \subseteq Owed
  BY <1>1, <1>4, <1>2 DEF Owed, ReportTypeOK
<1>10. StillBefore(w)'
  <2>1. SUFFICES ASSUME c.stage = "running", ~failed, NEW q \in Owed'
                 PROVE  q \in c.page \ {p} \/ q > c.after
    BY <1>8 DEF StillBefore
  <2>2. q \in c.page \/ q > c.after
    BY <1>5, <1>6, <1>9, <2>1 DEF ReportInv, StillBefore
  <2>3. q # p
    BY <1>4, <1>6, <2>1 DEF Owed
  <2> QED BY <2>2, <2>3
<1>11. CountSuffices(w)'
  BY <1>1, <1>5, <1>8 DEF ReportInv, CountSuffices, Rest, Remaining
<1>12. OnlyWorker(w)
  BY <1>1, <1>2, <1>3, <1>4, <1>8 DEF OnlyWorker, ReportTypeOK
<1>13. hour # "before"
  BY <1>1, <1>5 DEF ReportInv, NothingEarly, Idle
<1>14. lastKey'[w] /\ ~grown'[w] => Owed' = {}
  BY <1>1, <1>9 DEF ReportInv, DoneReachesEveryone
<1> QED BY <1>10, <1>11, <1>12, <1>13, <1>14, ReportWorkerStep

LEMMA FinishStep ==
  ASSUME ReportInv, NEW w \in ReportWorkers, Finish(w)
  PROVE  ReportInv'
<1> DEFINE c == call[w]
<1>1. /\ c.stage = "running" /\ c.page = {}
      /\ Remaining(c) <= 0 \/ Page(c.after, Limit(c)) = {}
      /\ lastKey' = [lastKey EXCEPT ![w] = Done(c)]
      /\ call' = [call EXCEPT ![w] = Idle]
      /\ UNCHANGED <<hour, active, campaigns, steady, grown, activations>>
  BY DEF Finish
<1>2. ReportTypeOK /\ active \subseteq Parents /\ steady \subseteq active
  BY DEF ReportInv, ReportTypeOK
<1>3. c \in Calls /\ c.failed \in BOOLEAN /\ c.processed \in Nat /\ c.total \in Nat
      /\ c.after \in Nat
  BY <1>2, CallFields DEF ReportTypeOK
<1>4. Idle \in Calls /\ Idle.processed = 0 /\ Idle.total = 0 /\ Idle.stage = "idle"
  BY DEF Idle, Calls
<1>5. /\ call' \in [ReportWorkers -> Calls] /\ call'[w] = Idle
      /\ lastKey' \in [ReportWorkers -> BOOLEAN] /\ lastKey'[w] = ~c.failed
      /\ \A v \in ReportWorkers \ {w} : call'[v] = call[v] /\ lastKey'[v] = lastKey[v]
  BY <1>1, <1>2, <1>3, <1>4 DEF ReportTypeOK, Done
<1>6. OnlyWorker(w)
  BY <1>1, <1>2, <1>4, <1>5 DEF OnlyWorker, ReportTypeOK, ReportInv, OneReportPerWeek
<1>7. hour # "before"
  BY <1>1 DEF ReportInv, NothingEarly, Idle
<1>8. StillBefore(w)' /\ CountSuffices(w)'
  BY <1>4, <1>5 DEF StillBefore, CountSuffices
<1>9. lastKey'[w] /\ ~grown'[w] => Owed' = {}
  <2>1. SUFFICES ASSUME ~c.failed, ~grown[w] PROVE Owed = {}
    BY <1>1, <1>5 DEF Owed
  <2>2. Cardinality(Rest(c.after)) <= Remaining(c)
    BY <1>1, <2>1 DEF ReportInv, CountSuffices
  <2>3. Rest(c.after) = {}
    <3>1. CASE Remaining(c) <= 0
      <4>1. IsFiniteSet(Rest(c.after)) /\ Cardinality(Rest(c.after)) \in Nat
        BY <1>2, RestIsFinite
      <4>2. Cardinality(Rest(c.after)) = 0
        BY <1>3, <2>2, <3>1, <4>1 DEF Remaining
      <4> QED BY <4>1, <4>2, FS_EmptySet
    <3>2. CASE ~(Remaining(c) <= 0)
      <4>1. Limit(c) \in Nat /\ Limit(c) > 0
        BY <1>3, <3>2, ReportAssumption DEF Limit, Smaller, Remaining
      <4> QED BY <1>1, <1>2, <3>2, <4>1, EmptyPage
    <3> QED BY <3>1, <3>2
  <2>4. \A p \in Owed : p > c.after
    BY <1>1, <2>1 DEF ReportInv, StillBefore
  <2> QED BY <1>2, <2>3, <2>4 DEF Rest, Owed
<1> QED BY <1>6, <1>7, <1>8, <1>9, ReportWorkerStep

\* A run that fails or dies leaves what it has sent, and its worker is not done.
LEMMA StopStep ==
  ASSUME ReportInv, NEW w \in ReportWorkers, Fail(w) \/ Restart(w)
  PROVE  ReportInv'
<1>1. /\ call' = [call EXCEPT ![w] = Idle]
      /\ lastKey' = lastKey \/ lastKey' = [lastKey EXCEPT ![w] = FALSE]
      /\ UNCHANGED <<hour, active, campaigns, steady, grown, activations>>
  BY DEF Fail, Restart
<1>2. ReportTypeOK
  BY DEF ReportInv
<1>3. Idle \in Calls /\ Idle.processed = 0 /\ Idle.total = 0 /\ Idle.stage = "idle"
  BY DEF Idle, Calls
<1>4. /\ call' \in [ReportWorkers -> Calls] /\ call'[w] = Idle
      /\ lastKey' \in [ReportWorkers -> BOOLEAN] /\ (lastKey'[w] => lastKey[w])
      /\ \A v \in ReportWorkers \ {w} : call'[v] = call[v] /\ lastKey'[v] = lastKey[v]
  BY <1>1, <1>2, <1>3 DEF ReportTypeOK
<1>5. OnlyWorker(w)
  BY <1>1, <1>2, <1>3, <1>4 DEF OnlyWorker, ReportTypeOK, ReportInv, OneReportPerWeek
<1>6. hour = "before" => call'[w] = Idle /\ ~lastKey'[w]
  BY <1>4 DEF ReportInv, NothingEarly
<1>7. StillBefore(w)' /\ CountSuffices(w)'
  BY <1>3, <1>4 DEF StillBefore, CountSuffices
<1>8. lastKey'[w] /\ ~grown'[w] => Owed' = {}
  BY <1>1, <1>4 DEF ReportInv, DoneReachesEveryone, Owed
<1> QED BY <1>5, <1>6, <1>7, <1>8, ReportWorkerStep

\* What administrators and the clock do.
LEMMA AccountStep ==
  ASSUME ReportInv, NEW p \in Parents, Activate(p) \/ Suspend(p)
  PROVE  ReportInv'
<1>1. ReportTypeOK /\ active \subseteq Parents /\ steady \subseteq active
  BY DEF ReportInv, ReportTypeOK
<1>2. /\ UNCHANGED <<hour, campaigns, lastKey, call>>
      /\ active' \subseteq Parents /\ steady' \subseteq active'
      /\ steady' \subseteq steady
      /\ activations' \in 0..Activations
      /\ grown' \in [ReportWorkers -> BOOLEAN]
      /\ \A w \in ReportWorkers : grown[w] => grown'[w]
  <2>1. CASE Activate(p)
    BY <1>1, <2>1, ReportAssumption DEF Activate, ReportTypeOK
  <2>2. CASE Suspend(p)
    BY <1>1, <2>2 DEF Suspend, ReportTypeOK
  <2> QED BY <2>1, <2>2
<1>3. \A w \in ReportWorkers : ~grown'[w] => call[w] = Idle \/ active' \subseteq active
  BY <1>1 DEF Activate, Suspend, ReportTypeOK
<1>4. Owed' \subseteq Owed
  BY <1>2 DEF Owed
<1>5. ReportTypeOK' /\ OneReportPerWeek' /\ NothingEarly'
  BY <1>1, <1>2 DEF ReportInv, ReportTypeOK, OneReportPerWeek, NothingEarly
<1>6. DoneReachesEveryone'
  BY <1>2, <1>4 DEF ReportInv, DoneReachesEveryone
<1>7. ASSUME NEW w \in ReportWorkers PROVE StillBefore(w)' /\ CountSuffices(w)'
  <2>1. StillBefore(w)'
    BY <1>2, <1>4 DEF ReportInv, StillBefore
  <2>2. SUFFICES ASSUME call[w].stage = "running", ~grown'[w]
                 PROVE  Cardinality(Rest(call[w].after)') <= Remaining(call[w])
    BY <1>2, <2>1 DEF CountSuffices, Rest
  <2>3. active' \subseteq active
    BY <1>3, <2>2 DEF Idle
  <2>4. Rest(call[w].after)' \in SUBSET Rest(call[w].after)
    BY <1>2, <2>3 DEF Rest
  <2>5. /\ IsFiniteSet(Rest(call[w].after)) /\ Cardinality(Rest(call[w].after)) \in Nat
        /\ Cardinality(Rest(call[w].after)) <= Remaining(call[w])
    BY <1>1, <1>2, <2>2, RestIsFinite DEF ReportInv, CountSuffices
  <2>6. IsFiniteSet(Rest(call[w].after)')
        /\ Cardinality(Rest(call[w].after)') <= Cardinality(Rest(call[w].after))
    BY <2>4, <2>5, FS_Subset
  <2>7. Cardinality(Rest(call[w].after)') \in Nat
    BY <2>6, FS_CardinalityType
  <2>8. Remaining(call[w]) \in Int
    BY <1>1, CallFields DEF ReportTypeOK, Remaining
  <2> QED BY <2>5, <2>6, <2>7, <2>8
<1> QED BY <1>2, <1>5, <1>6, <1>7 DEF ReportInv

LEMMA HourStep ==
  ASSUME ReportInv, NextHour
  PROVE  ReportInv'
<1>1. UNCHANGED <<active, campaigns, lastKey, call, grown, activations>>
  BY DEF NextHour
<1>2. CASE hour = "before"
  <2>1. hour' = "during" /\ steady' = active
    BY <1>2 DEF NextHour
  <2>2. \A w \in ReportWorkers : call'[w] = Idle /\ ~lastKey'[w] /\ call'[w].stage = "idle"
    BY <1>1, <1>2 DEF ReportInv, NothingEarly, Idle
  <2>3. ReportTypeOK' /\ OneReportPerWeek' /\ NothingEarly' /\ DoneReachesEveryone'
    BY <1>1, <2>1, <2>2
       DEF ReportInv, ReportTypeOK, OneReportPerWeek, NothingEarly, DoneReachesEveryone
  <2> QED BY <1>1, <2>1, <2>2, <2>3 DEF ReportInv, StillBefore, CountSuffices
<1>3. CASE hour # "before"
  <2>1. hour' = "after" /\ steady' = steady
    BY <1>3 DEF NextHour
  <2>2. ReportTypeOK' /\ OneReportPerWeek' /\ NothingEarly' /\ DoneReachesEveryone'
    BY <1>1, <2>1
       DEF ReportInv, ReportTypeOK, OneReportPerWeek, NothingEarly, DoneReachesEveryone, Owed
  <2>3. ASSUME NEW w \in ReportWorkers PROVE StillBefore(w)' /\ CountSuffices(w)'
    BY <1>1, <2>1 DEF ReportInv, StillBefore, CountSuffices, Owed, Rest
  <2> QED BY <1>1, <2>1, <2>2, <2>3 DEF ReportInv
<1> QED BY <1>2, <1>3

LEMMA ReportInvStep == ReportInv /\ [ReportNext]_reportVars => ReportInv'
<1> SUFFICES ASSUME ReportInv, [ReportNext]_reportVars PROVE ReportInv'
  OBVIOUS
<1>1. CASE ReportNext
  BY <1>1, StartStep, NextPageStep, ReportStep, FinishStep, StopStep, AccountStep, HourStep
     DEF ReportNext
<1>2. CASE UNCHANGED reportVars
  BY <1>2 DEF reportVars, ReportInv, ReportTypeOK, OneReportPerWeek, DoneReachesEveryone, NothingEarly,
              StillBefore, CountSuffices, Owed, Rest
<1> QED BY <1>1, <1>2

-----------------------------------------------------------------------------
\* However many workers report, fail, restart and report again (Run() of
\* weekly_parent_reporter.go), over however many pages, a parent gets at most one
\* campaign in the week, and a worker that calls the week done has reached every
\* parent who was there all the time and whose number did not grow while it ran.
THEOREM ReportsCorrect == ReportSpec => []ReportsAddUp
<1>1. ReportInv => ReportsAddUp
  BY DEF ReportInv, ReportsAddUp
<1> QED BY <1>1, ReportStart, ReportInvStep, PTL DEF ReportSpec
=============================================================================
