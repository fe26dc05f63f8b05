---------------------------- MODULE MasteryGoals ----------------------------
(***************************************************************************)
(* The goals panel of apps/web/src/features/learning/pages/ReviewLibraryPage   *)
(* .tsx: a near goal and a far one for a path, or for a subject of it.  The    *)
(* server keeps every goal it is told to create: that there is one of a horizon *)
(* is up to the list this panel shows.                                       *)
(***************************************************************************)
EXTENDS BrowserTab

CONSTANTS GoalPaths, GoalSubjects, MaxGoals

\* The panel lists the first 20 goals of its scope: there are no more.
ASSUME MasteryGoalsAssumption == MaxGoals \in 1..20

Horizons == {"short", "long"}
GoalIds == 1..MaxGoals
GoalScopes == GoalPaths \X (GoalSubjects \cup {"all"})
NoGoal == [path |-> "none", subject |-> "none", horizon |-> "none", active |-> FALSE]
GoalRows == [path : GoalPaths, subject : GoalSubjects \cup {"all"}, horizon : Horizons,
             active : BOOLEAN] \cup {NoGoal}

GoalsTypeOK ==
  Mounted("goals") =>
    /\ screen \in [page : {"goals"}, path : GoalPaths \cup {"none"},
                   subject : GoalSubjects \cup {"all"}, goals : SUBSET GoalIds,
                   busy : BOOLEAN, failed : BOOLEAN, saving : BOOLEAN, blind : BOOLEAN]
    /\ server \in [GoalIds -> GoalRows]

GoalCalls(kinds) == {c \in calls : c.kind \in kinds}
GoalWrites == {"create", "status"}

\* ListMasteryGoals: without a subject, those of every subject of the path.
ActiveGoals(path, subject) ==
  {g \in GoalIds : /\ server[g].active /\ server[g].path = path
                   /\ subject \in {"all", server[g].subject}}

GoalsRequest(p) == [kind |-> "goals", path |-> p.path, subject |-> p.subject,
                    read |-> FALSE, rows |-> {}]

\* "blind" remembers that a goal may be wanted without the list that counts: it was
\* still to come or could not be read, it was read while a goal was being created, or
\* the answer to that was lost.
LoadGoals(p) ==
  IF p.path = "none"
  THEN /\ screen' = [p EXCEPT !.goals = {}, !.busy = FALSE]
       /\ calls' = calls \ GoalCalls({"goals"})
  ELSE /\ screen' = [p EXCEPT !.busy = TRUE, !.failed = FALSE,
                              !.blind = @ \/ GoalCalls({"create"}) # {}]
       /\ calls' = (calls \ GoalCalls({"goals"})) \cup {GoalsRequest(p)}

\* The address may name a path and a subject.
GoalsInit ==
  /\ \E path \in GoalPaths \cup {"none"}, subject \in GoalSubjects \cup {"all"} :
       /\ screen = [page |-> "goals", path |-> path, subject |-> subject, goals |-> {},
                    busy |-> path # "none", failed |-> FALSE, saving |-> FALSE, blind |-> FALSE]
       /\ calls = IF path = "none" THEN {} ELSE {GoalsRequest(screen)}
  /\ server = [g \in GoalIds |-> NoGoal]

ChooseGoalPath(path) ==
  /\ path # screen.path
  /\ LoadGoals([screen EXCEPT !.path = path, !.subject = "all"]) /\ UNCHANGED server

ChooseGoalSubject(subject) ==
  /\ screen.path # "none" /\ subject # screen.subject
  /\ LoadGoals([screen EXCEPT !.subject = subject]) /\ UNCHANGED server

GoalsRead(c) ==
  /\ c.kind = "goals" /\ ~c.read
  /\ calls' = (calls \ {c}) \cup {[c EXCEPT !.read = TRUE, !.rows = ActiveGoals(c.path, c.subject)]}
  /\ UNCHANGED <<screen, server>>

GoalsArrive(c) ==
  /\ c.kind = "goals" /\ c.read
  /\ screen' = [screen EXCEPT !.goals = c.rows, !.busy = FALSE]
  /\ Ended(c) /\ UNCHANGED server

GoalsFail(c) ==
  /\ c.kind = "goals"
  /\ screen' = [screen EXCEPT !.busy = FALSE, !.failed = TRUE]
  /\ Ended(c) /\ UNCHANGED server

\* FAULTY: another write may be under way.
MayCreateMore(horizon) ==
  screen.path # "none" /\ \A g \in screen.goals : server[g].horizon # horizon

\* canCreateShort, canCreateLong, and the flag of what is being saved.  The horizon of
\* a goal never changes.
MayCreate(horizon) ==
  /\ screen.path # "none" /\ ~screen.saving
  /\ \A g \in screen.goals : server[g].horizon # horizon

\* The buttons do not wait for the list; n tells two requests apart.
CreateGoal(horizon) ==
  /\ MayCreate(horizon)
  /\ screen' = [screen EXCEPT !.saving = TRUE, !.blind = @ \/ screen.busy \/ screen.failed]
  /\ calls' = calls \cup {[kind |-> "create", path |-> screen.path, subject |-> screen.subject,
                           horizon |-> horizon, goal |-> 0,
                           n |-> Cardinality(GoalCalls({"create"}))]}
  /\ UNCHANGED server

GoalCreated(c) ==
  /\ c.kind = "create" /\ c.goal = 0
  /\ \E g \in GoalIds :
       /\ server[g] = NoGoal /\ \A earlier \in 1..(g - 1) : server[earlier] # NoGoal
       /\ server' = [server EXCEPT ![g] = [path |-> c.path, subject |-> c.subject,
                                           horizon |-> c.horizon, active |-> TRUE]]
       /\ calls' = (calls \ {c}) \cup {[c EXCEPT !.goal = g]}
  /\ UNCHANGED screen

\* It is added to the list on the screen, which may be another path's by now.
GoalAdded(c) ==
  /\ c.kind = "create" /\ c.goal # 0
  /\ screen' = [screen EXCEPT !.goals = @ \cup {c.goal}, !.saving = FALSE]
  /\ Ended(c) /\ UNCHANGED server

\* achieved or archived; the buttons are there when the list is
SetGoalStatus(g) ==
  /\ g \in screen.goals /\ ~screen.busy /\ ~screen.saving
  /\ screen' = [screen EXCEPT !.saving = TRUE]
  /\ calls' = calls \cup {[kind |-> "status", goal |-> g, stage |-> "sent"]}
  /\ UNCHANGED server

\* UpdateMasteryGoal refuses a goal that is not as it was read (updated_at), and nothing
\* but a status is ever written to one.
GoalStatusStored(c) ==
  /\ c.kind = "status" /\ c.stage = "sent" /\ server[c.goal].active
  /\ server' = [server EXCEPT ![c.goal].active = FALSE]
  /\ Advances(c, "stored") /\ UNCHANGED screen

GoalLeaves(c) ==
  /\ c.kind = "status" /\ c.stage = "stored"
  /\ screen' = [screen EXCEPT !.goals = @ \ {c.goal}, !.saving = FALSE]
  /\ Ended(c) /\ UNCHANGED server

GoalWriteFails(c) ==
  /\ c.kind \in GoalWrites
  /\ screen' = [screen EXCEPT !.saving = FALSE, !.blind = @ \/ (c.kind = "create" /\ c.goal # 0)]
  /\ Ended(c) /\ UNCHANGED server

GoalsPanel ==
  \/ \E horizon \in Horizons : CreateGoal(horizon)
  \/ \E g \in GoalIds : SetGoalStatus(g)

GoalsNext ==
  \/ \E path \in GoalPaths \cup {"none"} : ChooseGoalPath(path)
  \/ \E subject \in GoalSubjects \cup {"all"} : ChooseGoalSubject(subject)
  \/ GoalsPanel
  \/ \E c \in calls : \/ GoalsRead(c) \/ GoalsArrive(c) \/ GoalsFail(c) \/ GoalCreated(c)
                      \/ GoalAdded(c) \/ GoalStatusStored(c) \/ GoalLeaves(c) \/ GoalWriteFails(c)

GoalsSpec == GoalsInit /\ [][GoalsNext]_tabVars

(***************************************************************************)
(* Properties                                                              *)
(***************************************************************************)
\* A learner has at most one active goal of a horizon in a scope, however often the
\* buttons are pressed and the scope is changed: the server does not see to it.  It
\* holds while no goal was created without the list of its scope.
OneGoalPerHorizon ==
  Mounted("goals") /\ ~screen.blind =>
    \A scope \in GoalScopes, horizon \in Horizons :
      Cardinality({g \in GoalIds : /\ server[g].active /\ server[g].horizon = horizon
                                   /\ <<server[g].path, server[g].subject>> = scope}) <= 1
=============================================================================
