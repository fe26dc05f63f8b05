------------------------- MODULE WeeklyParentReport -------------------------
(* The weekly report of cmd/worker: every worker process, once a week in the *)
(* hour from 08:00 on Sunday, counts the active parents, pages through them  *)
(* by id and creates one campaign per parent, under an idempotency key made  *)
(* of the week and the parent.  Each query is its own transaction, and       *)
(* accounts are activated and suspended between any two of them.             *)
(*                                                                           *)
(* One week is modelled; the next one starts again with other keys.          *)
EXTENDS Integers, FiniteSets

CONSTANTS
  Parents,        \* accounts with the parent role, numbered in id order
  Reportable,     \* those with a linked child that was active this week
  ReportWorkers,  \* worker processes
  PageSize,       \* weeklyParentBatchSize (100)
  MaxRecipients,  \* MaxCampaignRecipients (10000)
  Activations     \* BOUND: how often an account may become active

ASSUME ReportAssumption ==
  /\ Parents \subseteq Nat \ {0} /\ IsFiniteSet(Parents)
  /\ Reportable \subseteq Parents
  /\ PageSize \in Nat \ {0} /\ MaxRecipients \in Nat /\ Activations \in Nat

VARIABLES
  hour,       \* before, during or after the hour of the report
  active,     \* users.status = 'active'
  campaigns,  \* how many campaigns exist for each parent's key
  lastKey,    \* lastWeeklyKey of each worker: it is done with this week
  call,       \* the Run call each worker is in
  steady,     \* HISTORY: parents that were active since the hour began
  grown,      \* HISTORY: per worker, a parent became active during its Run
  activations \* activations so far, for the bound

reportVars == <<hour, active, campaigns, lastKey, call, steady, grown, activations>>

-----------------------------------------------------------------------------
Idle == [stage |-> "idle", total |-> 0, processed |-> 0, after |-> 0,
         page |-> {}, failed |-> FALSE]

Calls == [stage : {"idle", "running"}, total : Nat, processed : Nat,
          after : Parents \cup {0}, page : SUBSET Parents, failed : BOOLEAN]

Smaller(a, b) == IF a < b THEN a ELSE b
Last(S) == CHOOSE p \in S : \A q \in S : q <= p

Rest(after) == {p \in active : p > after}

\* ResolveNotificationAudiencePage: the first limit active parents after an id.
Page(after, limit) ==
  {p \in Rest(after) : Cardinality({q \in Rest(after) : q < p}) < limit}

-----------------------------------------------------------------------------
\* Run: the count.  Too many parents are an error, and the next tick retries.
Start(w) ==
  /\ hour = "during" /\ ~lastKey[w] /\ call[w] = Idle
  /\ Cardinality(active) <= MaxRecipients
  /\ call' = [call EXCEPT ![w].stage = "running", ![w].total = Cardinality(active)]
  /\ grown' = [grown EXCEPT ![w] = FALSE]
  /\ UNCHANGED <<hour, active, campaigns, lastKey, steady, activations>>

Remaining(c) == c.total - c.processed

Limit(c) == Smaller(PageSize, Remaining(c))

NextPage(w) ==
  LET c == call[w]
      page == Page(c.after, Limit(c))
  IN /\ c.stage = "running" /\ c.page = {} /\ Remaining(c) > 0 /\ page # {}
     /\ call' = [call EXCEPT ![w].page = page, ![w].after = Last(page),
                             ![w].processed = c.processed + Cardinality(page)]
     /\ UNCHANGED <<hour, active, campaigns, lastKey, steady, grown, activations>>

\* FAULTY: an existing campaign does not stop the insert.
NewCampaignAgain(p) == campaigns' = [campaigns EXCEPT ![p] = @ + 1]

\* CreateCampaign under a key: ON CONFLICT (idempotency_key) DO NOTHING, and
\* the existing campaign is returned as reused.
NewCampaign(p) ==
  campaigns' = [campaigns EXCEPT ![p] = IF @ = 0 THEN 1 ELSE @]

\* One parent of the page: nothing to report, a campaign, or an error, which
\* Run counts and steps over.
Report(w, p, error) ==
  /\ p \in call[w].page /\ \A q \in call[w].page : p <= q
  /\ error => p \in Reportable
  /\ call' = [call EXCEPT ![w].page = @ \ {p}, ![w].failed = @ \/ error]
  /\ IF p \in Reportable /\ ~error THEN NewCampaign(p) ELSE UNCHANGED campaigns
  /\ UNCHANGED <<hour, active, lastKey, steady, grown, activations>>

\* Run returns nil only when no report failed, and then the week is done.
Done(c) == ~c.failed

Finish(w) ==
  LET c == call[w]
  IN /\ c.stage = "running" /\ c.page = {}
     /\ Remaining(c) <= 0 \/ Page(c.after, Limit(c)) = {}
     /\ lastKey' = [lastKey EXCEPT ![w] = Done(c)]
     /\ call' = [call EXCEPT ![w] = Idle]
     /\ UNCHANGED <<hour, active, campaigns, steady, grown, activations>>

\* A query fails or the four minutes are over: Run returns the error.
Fail(w) ==
  /\ call[w] # Idle
  /\ call' = [call EXCEPT ![w] = Idle]
  /\ UNCHANGED <<hour, active, campaigns, lastKey, steady, grown, activations>>

\* The process starts again and knows nothing of the week.
Restart(w) ==
  /\ call' = [call EXCEPT ![w] = Idle]
  /\ lastKey' = [lastKey EXCEPT ![w] = FALSE]
  /\ UNCHANGED <<hour, active, campaigns, steady, grown, activations>>

-----------------------------------------------------------------------------
\* The clock of ShouldRunWeeklyParentReport.
NextHour ==
  /\ \/ hour = "before" /\ hour' = "during" /\ steady' = active
     \/ hour = "during" /\ hour' = "after" /\ steady' = steady
  /\ UNCHANGED <<active, campaigns, lastKey, call, grown, activations>>

\* An administrator activates or suspends an account.
Activate(p) ==
  /\ p \notin active /\ activations < Activations
  /\ active' = active \cup {p} /\ activations' = activations + 1
  /\ grown' = [w \in ReportWorkers |-> grown[w] \/ call[w] # Idle]
  /\ UNCHANGED <<hour, campaigns, lastKey, call, steady>>

Suspend(p) ==
  /\ p \in active
  /\ active' = active \ {p} /\ steady' = steady \ {p}
  /\ UNCHANGED <<hour, campaigns, lastKey, call, grown, activations>>

ReportInit ==
  /\ hour = "before"
  /\ active \in SUBSET Parents
  /\ campaigns = [p \in Parents |-> 0]
  /\ lastKey = [w \in ReportWorkers |-> FALSE]
  /\ call = [w \in ReportWorkers |-> Idle]
  /\ steady = {}
  /\ grown = [w \in ReportWorkers |-> FALSE]
  /\ activations = 0

ReportNext ==
  \/ \E w \in ReportWorkers :
       \/ Start(w) \/ NextPage(w) \/ Finish(w) \/ Fail(w) \/ Restart(w)
       \/ \E p \in Parents, error \in BOOLEAN : Report(w, p, error)
  \/ \E p \in Parents : Activate(p) \/ Suspend(p)
  \/ NextHour

ReportSpec == ReportInit /\ [][ReportNext]_reportVars

-----------------------------------------------------------------------------
\* Types, and a run reports to no more parents than it counted.
ReportTypeOK ==
  /\ hour \in {"before", "during", "after"}
  /\ active \subseteq Parents /\ steady \subseteq Parents
  /\ campaigns \in [Parents -> Nat]
  /\ lastKey \in [ReportWorkers -> BOOLEAN] /\ grown \in [ReportWorkers -> BOOLEAN]
  /\ call \in [ReportWorkers -> Calls]
  /\ \A w \in ReportWorkers : call[w].processed <= call[w].total
  /\ activations \in 0..Activations

\* However many workers report, fail, restart and report again, a parent gets
\* one campaign a week (COMMUNICATION_PARITY_CERTIFICATION.md:62).
OneReportPerWeek == \A p \in Parents : campaigns[p] <= 1

Owed == {p \in steady \cap Reportable : campaigns[p] = 0}

\* A worker that is done with the week has reported to every parent who was
\* there all the time, unless an account was activated while it ran: neither
\* suspensions, nor page borders, nor errors it stepped over lose a parent.
DoneReachesEveryone == \A w \in ReportWorkers : lastKey[w] /\ ~grown[w] => Owed = {}

\* A week's report is sent at most once to a parent, and exactly once when it is
\* done; a run never counts more than there was.
ReportsAddUp == ReportTypeOK /\ OneReportPerWeek /\ DoneReachesEveryone

=============================================================================
