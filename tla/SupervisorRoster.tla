-------------------------- MODULE SupervisorRoster --------------------------
(***************************************************************************)
(* A supervisor's students                                                  *)
(* (features/organizations/pages/SupervisorDashboardPage.tsx): the schools   *)
(* of the account, a search, and a list that grows page by page.             *)
(*                                                                         *)
(* Both effects abort the request of the run before; an aborted request      *)
(* changes nothing, and is left out.  A page of students is known by the     *)
(* scope, the school and the search it was read for.                         *)
(***************************************************************************)
EXTENDS BrowserTab

CONSTANTS
  RosterSchools,    \* the schools of the account
  Wanted,           \* what may be searched for
  MaxScopes,        \* bound: how often the scope is read again
  LastPage          \* bound: the last page of a roster

ASSUME SupervisorRosterAssumption ==
  /\ "none" \notin RosterSchools /\ Wanted # {}
  /\ MaxScopes \in Nat /\ LastPage \in Nat \ {0}

RosterPages ==
  [scope : 0..MaxScopes, school : RosterSchools, search : Wanted, page : 1..LastPage]

RosterTypeOK ==
  Mounted("roster") =>
    screen \in
      [page : {"roster"}, allowed : BOOLEAN, scope : 0..MaxScopes,
       contexts : SUBSET RosterSchools, busy : BOOLEAN, error : BOOLEAN,
       school : RosterSchools \cup {"none"}, rows : SUBSET RosterPages,
       rowsOf : RosterSchools \cup {"none"}, rowsError : BOOLEAN, loading : BOOLEAN,
       tab : {"overview", "students"}, search : Wanted, at : 1..LastPage]

CurrentSchool(p) == IF p.school \in p.contexts THEN p.school ELSE "none"

VisibleRoster ==
  IF ~screen.busy /\ ~screen.error /\ ~screen.rowsError /\ screen.rowsOf = screen.school
    THEN screen.rows ELSE {}

RosterCalls == {c \in calls : c.kind = "roster"}

(***************************************************************************)
(* The roster effect, run when the scope, the school, the tab, the search or *)
(* the page changed, or when it is asked for again.                          *)
(***************************************************************************)
LoadRoster(p, cs) ==
  LET cleared == IF p.at = 1 THEN [p EXCEPT !.rows = {}, !.rowsOf = "none"] ELSE p
      q == [cleared EXCEPT !.rowsError = FALSE]
      rest == cs \ RosterCalls
  IN IF p.busy \/ p.error \/ CurrentSchool(p) = "none" \/ ~p.allowed \/ p.tab # "students"
       THEN screen' = [q EXCEPT !.loading = FALSE] /\ calls' = rest
       ELSE /\ screen' = [q EXCEPT !.loading = TRUE]
            /\ calls' = rest \cup
                 {[kind |-> "roster",
                   rows |-> [scope |-> p.scope, school |-> p.school, search |-> p.search,
                             page |-> p.at]]}

RosterArrives(c) ==
  /\ c.kind = "roster" /\ Ended(c) /\ UNCHANGED server
  /\ screen' = [screen EXCEPT !.loading = FALSE, !.rowsOf = screen.school,
                  !.rows = IF screen.at = 1 THEN {c.rows} ELSE @ \cup {c.rows}]

RosterFails(c) ==
  /\ c.kind = "roster" /\ Ended(c) /\ UNCHANGED server
  /\ screen' = LET q == IF screen.at = 1 THEN [screen EXCEPT !.rows = {}, !.rowsOf = "none"]
                                         ELSE screen
               IN [q EXCEPT !.loading = FALSE, !.rowsError = TRUE]

(***************************************************************************)
(* The scope: the account was read again, or a failed read is repeated.      *)
(***************************************************************************)
ScopeRequest(p) == [kind |-> "scope", rows |-> "none", scope |-> p.scope]

Forgotten(p) ==
  [p EXCEPT !.contexts = {}, !.rows = {}, !.rowsOf = "none", !.rowsError = FALSE, !.error = FALSE]

ReadScope(p, allowed) ==
  LET q == [Forgotten(p) EXCEPT !.scope = @ + 1, !.allowed = allowed, !.busy = allowed,
                                !.school = IF allowed THEN @ ELSE "none"]
  IN IF allowed THEN LoadRoster(q, {ScopeRequest(q)}) ELSE LoadRoster(q, {})

AccountChecked(allowed) ==
  /\ screen.scope < MaxScopes
  /\ ReadScope(screen, allowed) /\ UNCHANGED server

RetryScope ==
  /\ screen.error /\ screen.scope < MaxScopes
  /\ ReadScope(screen, screen.allowed) /\ UNCHANGED server

ScopeArrives(c) ==
  /\ c.kind = "scope" /\ UNCHANGED server
  /\ \E contexts \in SUBSET RosterSchools :
       LoadRoster([screen EXCEPT !.contexts = contexts, !.busy = FALSE,
                     !.school = IF @ \in contexts THEN @ ELSE
                                IF contexts = {} THEN "none"
                                ELSE CHOOSE s \in contexts : TRUE], calls \ {c})

ScopeFails(c) ==
  /\ c.kind = "scope" /\ UNCHANGED server
  /\ LoadRoster([screen EXCEPT !.error = TRUE, !.busy = FALSE], calls \ {c})

RosterInit ==
  LET p == [page |-> "roster", allowed |-> TRUE, scope |-> 0, contexts |-> {}, busy |-> TRUE,
            error |-> FALSE, school |-> "none", rows |-> {}, rowsOf |-> "none",
            rowsError |-> FALSE, loading |-> FALSE, tab |-> "students",
            search |-> CHOOSE w \in Wanted : TRUE, at |-> 1]
  IN /\ screen \in {p, [p EXCEPT !.tab = "overview"]}
     /\ calls = {ScopeRequest(p)} /\ server = {}

(***************************************************************************)
(* What the supervisor does.                                               *)
(***************************************************************************)
RosterShown == screen.allowed /\ ~screen.busy /\ ~screen.error /\ screen.contexts # {}

PickSchool(s) ==
  /\ RosterShown /\ s \in screen.contexts \ {screen.school} /\ UNCHANGED server
  /\ LoadRoster([screen EXCEPT !.school = s, !.rowsOf = "none", !.rows = {}, !.at = 1], calls)

Sought(w) == [screen EXCEPT !.search = w, !.at = 1, !.rowsOf = "none"]

SearchRoster(w) ==
  /\ RosterShown /\ screen.tab = "students" /\ w # screen.search /\ UNCHANGED server
  /\ LoadRoster(Sought(w), calls)

ShowMore ==
  /\ RosterShown /\ screen.tab = "students" /\ ~screen.loading /\ ~screen.rowsError
  /\ screen.at < LastPage
  /\ LoadRoster([screen EXCEPT !.at = @ + 1], calls) /\ UNCHANGED server

ShowLess ==
  /\ RosterShown /\ screen.tab = "students" /\ screen.at > 1 /\ ~screen.rowsError
  /\ LoadRoster([screen EXCEPT !.at = 1, !.rows = {}, !.rowsOf = "none"], calls)
  /\ UNCHANGED server

RetryRoster ==
  /\ RosterShown /\ screen.rowsError
  /\ LoadRoster(screen, calls) /\ UNCHANGED server

SelectTab(t) ==
  /\ screen.allowed /\ t # screen.tab /\ UNCHANGED server
  /\ LoadRoster([screen EXCEPT !.tab = t, !.at = IF t = "students" THEN 1 ELSE @], calls)

\* The browser's back and forward buttons change the tab and not the page.
AddressedTab(t) ==
  /\ screen.allowed /\ t # screen.tab /\ UNCHANGED server
  /\ LoadRoster([screen EXCEPT !.tab = t], calls)

RosterNext ==
  \/ \E a \in BOOLEAN : AccountChecked(a)
  \/ \E s \in RosterSchools : PickSchool(s)
  \/ \E w \in Wanted : SearchRoster(w)
  \/ \E t \in {"overview", "students"} : SelectTab(t) \/ AddressedTab(t)
  \/ RetryScope \/ ShowMore \/ ShowLess \/ RetryRoster
  \/ \E c \in calls : RosterArrives(c) \/ RosterFails(c) \/ ScopeArrives(c) \/ ScopeFails(c)

RosterSpec == RosterInit /\ [][RosterNext]_tabVars

(***************************************************************************)
(* Properties                                                              *)
(***************************************************************************)
\* "A refreshed role/relationship scope invalidates every previously fetched
\* student" (SupervisorDashboardPage.tsx:54): every student on the screen was
\* fetched under the present scope, of the selected school, for the search in
\* the box, however the pages were put together.
RosterOfScope ==
  Mounted("roster") =>
    \A r \in VisibleRoster :
      r.scope = screen.scope /\ r.school = screen.school /\ r.search = screen.search
=============================================================================
