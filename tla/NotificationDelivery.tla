------------------------ MODULE NotificationDelivery ------------------------
(* The outbox of internal/communication: a campaign queues one row per       *)
(* external message, and worker processes (cmd/worker) claim due rows under  *)
(* a lease, hand them to a mail or WhatsApp provider and record the answer.  *)
(*                                                                           *)
(* Time is counted in ticks of one minute, as timers that run down: a row    *)
(* has the ticks left until next_attempt_at, a run of a worker the ticks     *)
(* left of its context deadline.  A tick may fall anywhere between two steps *)
(* of a run, so a run that starts with left = RunLimit ends before its       *)
(* (RunLimit + 1)-th tick.                                                   *)
EXTENDS Naturals, FiniteSets

CONSTANTS
  Deliveries,   \* rows of the outbox, numbered in (created_at, id) order
  Workers,      \* worker processes
  Batch,        \* rows one claim takes at most
  Lease,        \* ticks a claimed row is invisible to other claims (5 minutes)
  RunLimit,     \* ticks after which a run is cancelled (45 seconds)
  MaxFailures,  \* recorded failures after which a delivery is given up (4)
  FailureCap    \* the history variable failures counts no further

ASSUME DeliveryAssumption ==
  /\ Deliveries \subseteq Nat \ {0}
  /\ Batch \in Nat \ {0}
  /\ Lease \in Nat /\ RunLimit \in Nat /\ RunLimit < Lease
  /\ MaxFailures \in Nat \ {0}
  /\ FailureCap \in Nat /\ FailureCap >= MaxFailures

NoDelivery == 0

VARIABLES
  row,       \* notification_deliveries, the rows of the external channels
  run,       \* the ProcessBatch call each worker is in
  failures,  \* HISTORY: calls of Send that returned a failure, up to FailureCap
  accepted   \* HISTORY: the provider took a message of the delivery

vars == <<row, run, failures, accepted>>

-----------------------------------------------------------------------------
Final == {"sent", "failed"}

Rows == [status : {"absent", "pending", "retrying"} \cup Final,
         retries : 0..MaxFailures,
         wait : Nat]

\* Outside ProcessBatch nothing is held; inside, held is what remains of the
\* claimed batch, sending the row whose message is with the provider, and
\* answer what Send returned for it.
Runs == [held : SUBSET Deliveries,
         left : 0..RunLimit,
         sending : Deliveries \cup {NoDelivery},
         answer : {"none", "success", "failure"}]

Holding(D, left) == [held |-> D, left |-> left, sending |-> NoDelivery, answer |-> "none"]
Resting == Holding({}, 0)

\* next_attempt_at after the n-th recorded failure: 1, 2, 4, ... minutes.
Backoff(n) == 2 ^ (n - 1)

\* FAULTY: only rows nobody has claimed before are due.
DueOnce == {d \in Deliveries : row[d].status = "pending" /\ row[d].wait = 0}

\* FAULTY: a row that was given up is due again.
DueAgain == {d \in Deliveries :
               row[d].status \in {"pending", "retrying", "failed"} /\ row[d].wait = 0}

Due == {d \in Deliveries :
          row[d].status \in {"pending", "retrying"} /\ row[d].wait = 0}

\* The oldest Batch rows that are due.
Picked == {d \in Due : Cardinality({e \in Due : e < d}) < Batch}

-----------------------------------------------------------------------------
\* CreateCampaign commits the campaign and all its rows together.
CreateCampaign(D) ==
  /\ D # {} /\ \A d \in D : row[d].status = "absent"
  /\ row' = [d \in Deliveries |->
               IF d \in D THEN [row[d] EXCEPT !.status = "pending"] ELSE row[d]]
  /\ UNCHANGED <<run, failures, accepted>>

\* FAULTY: the lease ends with the run's own time limit.
LeasedForRun(r) == [r EXCEPT !.status = "retrying", !.wait = RunLimit]

\* What ClaimPending writes: the lease is a next_attempt_at in the future.
Leased(r) == [r EXCEPT !.status = "retrying", !.wait = Lease]

\* One statement: FOR UPDATE SKIP LOCKED, then the lease.
ClaimPending(w) ==
  /\ run[w].held = {} /\ Picked # {}
  /\ row' = [d \in Deliveries |-> IF d \in Picked THEN Leased(row[d]) ELSE row[d]]
  /\ run' = [run EXCEPT ![w] = Holding(Picked, RunLimit)]
  /\ UNCHANGED <<failures, accepted>>

\* What may become of a call of Send: it fails with nothing taken (the row has
\* no recipient, no provider is configured, the request cannot be built, or the
\* provider is out of reach or refuses), the provider takes the message but its
\* answer is lost or late, or it takes it and says so.
Outcomes == {"failed", "unanswered", "taken"}

\* RETURNING has no order, so any row of the batch may be next.
Send(w, d, outcome) ==
  /\ d \in run[w].held /\ run[w].sending = NoDelivery
  /\ failures' = IF outcome = "taken" THEN failures
                 ELSE [failures EXCEPT ![d] = IF @ < FailureCap THEN @ + 1 ELSE @]
  /\ accepted' = [accepted EXCEPT ![d] = @ \/ outcome # "failed"]
  /\ run' = [run EXCEPT ![w].sending = d,
                        ![w].answer = IF outcome = "taken" THEN "success" ELSE "failure"]
  /\ UNCHANGED row

\* FAULTY: given up one failure early.
FailedEarly(r) ==
  LET n == r.retries + 1
  IN IF n + 1 >= MaxFailures
     THEN [status |-> "failed", retries |-> n, wait |-> 0]
     ELSE [status |-> "retrying", retries |-> n, wait |-> Backoff(n)]

Failed(r) ==
  LET n == r.retries + 1
  IN IF n >= MaxFailures
     THEN [status |-> "failed", retries |-> n, wait |-> 0]
     ELSE [status |-> "retrying", retries |-> n, wait |-> Backoff(n)]

\* FAULTY: the answer is stored as the status.
RecordedAsAnswer(r, answer) ==
  IF answer = "success" THEN [r EXCEPT !.status = answer, !.wait = 0] ELSE Failed(r)

\* The row as CompleteAttempt writes it; it does not look at the status.
Recorded(r, answer) ==
  IF answer = "success" THEN [r EXCEPT !.status = "sent", !.wait = 0] ELSE Failed(r)

\* notification_delivery_state_shape and the bound on retry_count: sent_at
\* stays set, so a sent row takes no failure, and a failed one no fifth.
Allowed(r, answer) ==
  answer = "failure" => r.status # "sent" /\ r.retries < MaxFailures

\* CompleteAttempt; the loop of ProcessBatch goes on with the next row.
CompleteAttempt(w, d) ==
  /\ run[w].sending = d
  /\ Allowed(row[d], run[w].answer)
  /\ row' = [row EXCEPT ![d] = Recorded(row[d], run[w].answer)]
  /\ run' = [run EXCEPT ![w] =
               IF run[w].held = {d} THEN Resting
               ELSE Holding(run[w].held \ {d}, run[w].left)]
  /\ UNCHANGED <<failures, accepted>>

\* The run ends with rows unprocessed: the process dies or is told to stop,
\* or CompleteAttempt fails and ProcessBatch returns its error.
Abandon(w) ==
  /\ run[w].held # {}
  /\ run' = [run EXCEPT ![w] = Resting]
  /\ UNCHANGED <<row, failures, accepted>>

\* A tick of the clock; it also passes the deadline of every run that has no
\* tick left, whose next database call then fails.
Tick ==
  /\ row' = [d \in Deliveries |->
               [row[d] EXCEPT !.wait = IF @ > 0 THEN @ - 1 ELSE 0]]
  /\ run' = [w \in Workers |->
               IF run[w].left = 0 THEN Resting ELSE [run[w] EXCEPT !.left = @ - 1]]
  /\ UNCHANGED <<failures, accepted>>

-----------------------------------------------------------------------------
Init ==
  /\ row = [d \in Deliveries |-> [status |-> "absent", retries |-> 0, wait |-> 0]]
  /\ run = [w \in Workers |-> Resting]
  /\ failures = [d \in Deliveries |-> 0]
  /\ accepted = [d \in Deliveries |-> FALSE]

WorkerStep(w) ==
  \/ ClaimPending(w)
  \/ \E d \in Deliveries, outcome \in Outcomes : Send(w, d, outcome)
  \/ \E d \in Deliveries : CompleteAttempt(w, d)
  \/ Abandon(w)

Next ==
  \/ \E D \in SUBSET Deliveries : CreateCampaign(D)
  \/ \E w \in Workers : WorkerStep(w)
  \/ Tick

Spec == Init /\ [][Next]_vars

\* Time passes, the worker's ticker keeps claiming and sending, and no row has
\* every attempt cut off between Send and the commit of CompleteAttempt: a
\* send ends within 15 of the run's 45 seconds, so the first one of a run is
\* recorded unless the process or the database fails.
FairSpec ==
  /\ Spec
  /\ WF_vars(Tick)
  /\ \A w \in Workers :
       /\ WF_vars(ClaimPending(w))
       /\ WF_vars(\E d \in Deliveries, outcome \in Outcomes : Send(w, d, outcome))
  /\ \A d \in Deliveries :
       /\ SF_vars(\E w \in Workers, outcome \in Outcomes : Send(w, d, outcome))
       /\ SF_vars(\E w \in Workers : CompleteAttempt(w, d))

-----------------------------------------------------------------------------
\* Rows, runs and history have their types.
TypeOK ==
  /\ row \in [Deliveries -> Rows]
  /\ run \in [Workers -> Runs]
  /\ failures \in [Deliveries -> 0..FailureCap]
  /\ accepted \in [Deliveries -> BOOLEAN]

\* Two runs never work on one delivery, however claims, deadlines, crashes and
\* slow sends interleave: a lease outlives the run that took it.
ExclusiveClaim ==
  \A v, w \in Workers : v # w => run[v].held \cap run[w].held = {}

\* A delivery recorded as sent was taken by the provider, and one given up has
\* failed MaxFailures times: each of them was a call of Send that returned a
\* failure, whoever is to blame.  No crash between Send and CompleteAttempt is
\* recorded as a success or as a failure, and no failure is recorded twice.
VerdictHasEvidence ==
  \A d \in Deliveries :
    /\ row[d].status = "sent" => accepted[d]
    /\ row[d].status = "failed" => failures[d] >= MaxFailures

\* Whatever answers arrive late, no step rewrites the row of a delivery that
\* was sent or given up.
VerdictIsFinal ==
  [][\A d \in Deliveries : row[d].status \in Final => row'[d] = row[d]]_vars

\* Every queued message is eventually sent or given up, across crashes, lost
\* answers and leases nobody finished.
EveryMessageSettles ==
  \A d \in Deliveries :
    row[d].status = "pending" ~> row[d].status \in Final

=============================================================================
