----------------------------- MODULE UsersAdmin -----------------------------
(***************************************************************************)
(* The accounts of the platform as an administrator manages them             *)
(* (features/auth/pages/UsersAdminPage.tsx), with the commands of             *)
(* internal/identity that the page and another administrator call.           *)
(*                                                                         *)
(* A command is admitted by the role its sender has when the request is       *)
(* handled and runs in a transaction that begins with lockAdminInvariant():   *)
(* the two are steps apart, the transaction is one step.  An account is its   *)
(* role and whether it is active; names, schools and scopes are left out.     *)
(***************************************************************************)
EXTENDS BrowserTab

CONSTANTS
  Me,             \* the administrator in front of the page
  Other,          \* another account, at first another administrator
  MaxOrdered,     \* bound: commands begun in the page
  MaxForeign      \* bound: commands of the other administrator

ASSUME UsersAssumption == Me # Other /\ MaxOrdered \in Nat /\ MaxForeign \in Nat

Accounts == {Me, Other}
Roles == {"admin", "student"}
UserRows == [role : Roles, active : BOOLEAN]
UserSets == UNION {[A -> UserRows] : A \in SUBSET Accounts}
Account(role, active) == [role |-> role, active |-> active]

(***************************************************************************)
(* The commands.  Every one of them ends with the role and the status that    *)
(* the account shall have, or without the account.                           *)
(***************************************************************************)
ActiveAdmins(users) == {a \in DOMAIN users : users[a] = Account("admin", TRUE)}

\* adminUpdateUser() changes what the request names, adminCreateUser() writes
\* over the account that has the email, and neither minds who did what before.
Given(c, users) ==
  LET old == IF c.target \in DOMAIN users THEN users[c.target] ELSE Account("student", TRUE)
  IN Account(IF c.role = "same" THEN old.role ELSE c.role,
             IF c.active = "same" THEN old.active ELSE c.active = "yes")

After(c, users) ==
  [a \in (DOMAIN users \cup {c.target}) \ (IF c.kind = "delete" THEN {c.target} ELSE {}) |->
     IF a = c.target THEN Given(c, users) ELSE users[a]]

\* FAULTY: only a command that disables or deletes is judged, not a demotion.
LosesAdminByStatus(c, users) ==
  /\ c.target \in ActiveAdmins(users)
  /\ c.kind = "delete" \/ ~Given(c, users).active

LosesAdmin(c, users) ==
  c.target \in ActiveAdmins(users) \ ActiveAdmins(After(c, users))

\* What the transaction accepts: ensureAnotherActiveAdmin(), ErrSelfDelete, and
\* the bulk command's cannot_deactivate_current_admin.
Accepted(c, users) ==
  /\ c.kind \in {"update", "delete", "bulk"} => c.target \in DOMAIN users
  /\ c.kind \in {"delete", "bulk"} => c.by # c.target
  /\ LosesAdmin(c, users) => ActiveAdmins(users) \ {c.target} # {}

\* n: the number of a command of the page, 0 for one of the other administrator, and
\* -n for the n-th of the page when its answer was given up before it was carried out.
Order(kind, by, target, role, active, n) ==
  [kind |-> kind, by |-> by, target |-> target, role |-> role, active |-> active,
   n |-> n, stage |-> "sent"]

(***************************************************************************)
(* The list: its effect runs again on every change of the view and after     *)
(* every command that succeeded, and an answer to an older run is dropped.    *)
(* A page of the list has one row here.  The server reads it, and the answer   *)
(* comes later: "since" remembers the commands that were carried out after     *)
(* the server read the list, as 0 those of which the page hears nothing.       *)
(***************************************************************************)
UserViews == [filter : {"all", "admins"}, number : {1, 2}]
FirstView == [filter |-> "all", number |-> 1]
Matching(filter, users) == {a \in DOMAIN users : filter = "admins" => users[a].role = "admin"}

OnPage(view, users) ==
  LET all == Matching(view.filter, users)
      first == IF Me \in all THEN {Me} ELSE all
  IN IF view.number = 1 THEN first ELSE all \ first

RowsFor(view, users) == [a \in OnPage(view, users) |-> users[a]]
PagesFor(view, users) == IF Cardinality(Matching(view.filter, users)) > 1 THEN 2 ELSE 1

Read(view) ==
  [kind |-> "users", view |-> view, stage |-> "asked", rows |-> <<>>, pages |-> 1,
   since |-> {}]

Reads == {c \in calls : c.kind = "users"}
ListsRead == {c \in Reads : c.stage = "read"}
AccountOrders == {c \in calls : c.kind # "users"}
Mine == {c \in AccountOrders : c.n > 0}

NoUserForm == Account("student", TRUE)

UsersAdminTypeOK ==
  Mounted("users") =>
    /\ screen \in
         [page : {"users"}, view : UserViews, rows : UserSets, pages : {1, 2}, busy : BOOLEAN,
          failed : BOOLEAN, since : SUBSET (0..MaxOrdered),
          dialog : {"none", "create", "edit", "delete"}, who : Accounts \cup {"nobody"},
          form : UserRows, submitting : BOOLEAN, ordered : 0..MaxOrdered]
    /\ server \in [users : UserSets, foreign : 0..MaxForeign]
    /\ Reads \subseteq [kind : {"users"}, view : UserViews, stage : {"asked", "read"},
                       rows : UserSets, pages : {1, 2}, since : SUBSET (0..MaxOrdered)]
    /\ \A c \in AccountOrders : /\ c.stage \in {"sent", "admitted", "done", "refused"}
                               /\ c.n \in (-MaxOrdered)..MaxOrdered

UsersAdminInit ==
  /\ screen = [page |-> "users", view |-> FirstView, rows |-> <<>>, pages |-> 1,
               busy |-> TRUE, failed |-> FALSE, since |-> {}, dialog |-> "none",
               who |-> "nobody", form |-> NoUserForm, submitting |-> FALSE, ordered |-> 0]
  /\ calls = {Read(FirstView)}
  /\ server = [users |-> [a \in Accounts |-> Account("admin", TRUE)], foreign |-> 0]

\* FAULTY: the effect forgets to drop the answer of its former run.
DroppedReadsNone == {}

DroppedReads == Reads

\* "over": a command whose answer was handled.
ListUsers(p, over) ==
  /\ screen' = [p EXCEPT !.busy = TRUE, !.failed = FALSE]
  /\ calls' = (calls \ (over \cup DroppedReads)) \cup {Read(p.view)}

\* The server reads the list for the answer.  Whoever asks was judged before, when the
\* request was handled; one that is refused fails.
UsersRead(c) ==
  /\ c.kind = "users" /\ c.stage = "asked"
  /\ calls' = (calls \ {c}) \cup
       {[c EXCEPT !.stage = "read", !.rows = RowsFor(c.view, server.users),
                  !.pages = PagesFor(c.view, server.users)]}
  /\ UNCHANGED <<screen, server>>

UsersArrive(c) ==
  /\ c.kind = "users" /\ c.stage = "read"
  /\ screen' = [screen EXCEPT !.busy = FALSE, !.rows = c.rows, !.pages = c.pages,
                              !.since = c.since]
  /\ Ended(c) /\ UNCHANGED server

\* The rows of the view before stay on the screen, under the error.
UsersFail(c) ==
  /\ c.kind = "users"
  /\ screen' = [screen EXCEPT !.busy = FALSE, !.failed = TRUE]
  /\ Ended(c) /\ UNCHANGED server

NoDialog == screen.dialog = "none"
TableShown == NoDialog /\ ~screen.busy

\* The search and the two selects: each goes back to the first page.
FilterUsers(filter) ==
  /\ NoDialog /\ filter # screen.view.filter
  /\ ListUsers([screen EXCEPT !.view = [filter |-> filter, number |-> 1]], {})
  /\ UNCHANGED server

\* The two buttons under the table; neither waits for the list.
TurnPage(number) ==
  /\ NoDialog /\ number # screen.view.number /\ (number = 2 => screen.pages = 2)
  /\ ListUsers([screen EXCEPT !.view.number = number], {}) /\ UNCHANGED server

PressReloadUsers == NoDialog /\ ListUsers(screen, {}) /\ UNCHANGED server

(***************************************************************************)
(* The dialogs.                                                              *)
(***************************************************************************)
Sends(p, kind, target, role, active) ==
  /\ screen.ordered < MaxOrdered
  /\ screen' = [p EXCEPT !.ordered = @ + 1]
  /\ calls' = calls \cup {Order(kind, Me, target, role, active, screen.ordered + 1)}
  /\ UNCHANGED server

YesNo(active) == IF active THEN "yes" ELSE "no"

\* The status button of a row: nothing disables it, and it sends the opposite of
\* what the row shows.
ToggleStatus(u) ==
  /\ TableShown /\ u \in DOMAIN screen.rows
  /\ Sends(screen, "update", u, "same", YesNo(~screen.rows[u].active))

OpenCreate ==
  /\ NoDialog
  /\ screen' = [screen EXCEPT !.dialog = "create", !.form = NoUserForm]
  /\ UNCHANGED <<calls, server>>

OpenEdit(u) ==
  /\ TableShown /\ u \in DOMAIN screen.rows
  /\ screen' = [screen EXCEPT !.dialog = "edit", !.who = u, !.form = screen.rows[u]]
  /\ UNCHANGED <<calls, server>>

OpenDelete(u) ==
  /\ TableShown /\ u \in DOMAIN screen.rows /\ screen.rows[u].role # "admin"
  /\ screen' = [screen EXCEPT !.dialog = "delete", !.who = u]
  /\ UNCHANGED <<calls, server>>

CloseUserDialog ==
  /\ ~NoDialog
  /\ screen' = [screen EXCEPT !.dialog = "none", !.who = "nobody"]
  /\ UNCHANGED <<calls, server>>

EditUserForm(role, active) ==
  /\ screen.dialog = "edit" \/ (screen.dialog = "create" /\ active)
  /\ Account(role, active) # screen.form
  /\ screen' = [screen EXCEPT !.form = Account(role, active)]
  /\ UNCHANGED <<calls, server>>

\* handleCreate: the email may be that of an account the server has already.
HandleCreate(a) ==
  /\ screen.dialog = "create" /\ ~screen.submitting
  /\ Sends([screen EXCEPT !.submitting = TRUE], "create", a, screen.form.role, "yes")

\* handleUpdate sends the whole form, also what was not touched.
HandleUpdate ==
  /\ screen.dialog = "edit" /\ ~screen.submitting
  /\ Sends([screen EXCEPT !.submitting = TRUE], "update", screen.who, screen.form.role,
           YesNo(screen.form.active))

HandleDelete ==
  /\ screen.dialog = "delete" /\ ~screen.submitting
  /\ Sends([screen EXCEPT !.submitting = TRUE], "delete", screen.who, "same", "same")

\* A toggle leaves the dialogs alone; the others close the dialog of their kind,
\* whomever it is open for by now.
FromDialog(c) == c.kind # "update" \/ c.role # "same"
DialogOf(c) == IF c.kind = "update" THEN "edit" ELSE c.kind

AfterOrder(c, succeeded) ==
  LET free == IF FromDialog(c) THEN [screen EXCEPT !.submitting = FALSE] ELSE screen
  IN IF succeeded /\ FromDialog(c) /\ screen.dialog = DialogOf(c)
     THEN [free EXCEPT !.dialog = "none", !.who = "nobody"] ELSE free

OrderDone(c) ==
  /\ c \in Mine /\ c.stage = "done"
  /\ ListUsers(AfterOrder(c, TRUE), {c}) /\ UNCHANGED server

\* A list misses the command n that is carried out, and is not told of it.
Misses(list, n) == [list EXCEPT !.since = @ \cup {n}]
NotTold(list, n) == [list EXCEPT !.since = IF n \in @ THEN (@ \ {n}) \cup {0} ELSE @]

\* Refused, or the request failed: nothing is read again.  A command that has not been
\* carried out by then may be carried out still.
OrderFails(c) ==
  /\ c \in Mine
  /\ screen' = NotTold(AfterOrder(c, FALSE), c.n)
  /\ calls' = (calls \ (ListsRead \cup {c})) \cup {NotTold(d, c.n) : d \in ListsRead} \cup
       (IF c.stage \in {"sent", "admitted"} THEN {[c EXCEPT !.n = -c.n]} ELSE {})
  /\ UNCHANGED server

(***************************************************************************)
(* The server, and the other administrator.                                  *)
(***************************************************************************)
Refuses(c) == IF c \in Mine THEN Advances(c, "refused") ELSE Ended(c)

\* Authentication, and HasRole(RoleAdmin) in the service.
OrderAdmitted(c) ==
  /\ c \in AccountOrders /\ c.stage = "sent"
  /\ IF c.by \in ActiveAdmins(server.users) THEN Advances(c, "admitted") ELSE Refuses(c)
  /\ UNCHANGED <<screen, server>>

OrderCarriedOut(c) ==
  LET n == IF c \in Mine THEN c.n ELSE 0
  IN /\ server' = [server EXCEPT !.users = After(c, server.users)]
     /\ screen' = Misses(screen, n)
     /\ calls' = (calls \ (ListsRead \cup {c})) \cup {Misses(d, n) : d \in ListsRead} \cup
          (IF c \in Mine THEN {[c EXCEPT !.stage = "done"]} ELSE {})

OrderRuns(c) ==
  /\ c \in AccountOrders /\ c.stage = "admitted"
  /\ IF Accepted(c, server.users) THEN OrderCarriedOut(c)
     ELSE Refuses(c) /\ UNCHANGED <<screen, server>>

ForeignOrder(kind, role, active) ==
  /\ server.foreign < MaxForeign /\ Other \in ActiveAdmins(server.users)
  /\ \/ kind = "update" /\ (role # "same" \/ active # "same")
     \/ kind = "delete" /\ role = "same" /\ active = "same"
     \/ kind = "bulk" /\ role = "same" /\ active # "same"
  /\ calls' = calls \cup {Order(kind, Other, Me, role, active, 0)}
  /\ server' = [server EXCEPT !.foreign = @ + 1] /\ UNCHANGED screen

\* A row of the table, and the three dialogs.
UserRow(u) == ToggleStatus(u) \/ OpenEdit(u) \/ OpenDelete(u)
UserForm == \E role \in Roles, active \in BOOLEAN : EditUserForm(role, active)
CreateForm == UserForm \/ CloseUserDialog \/ \E a \in Accounts : HandleCreate(a)
EditForm == UserForm \/ CloseUserDialog \/ HandleUpdate
DeleteForm == CloseUserDialog \/ HandleDelete

UsersAdminNext ==
  \/ \E c \in Reads : UsersRead(c) \/ UsersArrive(c) \/ UsersFail(c)
  \/ \E c \in AccountOrders : OrderAdmitted(c) \/ OrderRuns(c) \/ OrderDone(c) \/ OrderFails(c)
  \/ \E filter \in {"all", "admins"} : FilterUsers(filter)
  \/ \E number \in {1, 2} : TurnPage(number)
  \/ PressReloadUsers \/ OpenCreate \/ CreateForm \/ EditForm \/ DeleteForm
  \/ \E u \in Accounts : UserRow(u)
  \/ \E kind \in {"update", "delete", "bulk"}, role \in {"same", "student"},
        active \in {"same", "no"} : ForeignOrder(kind, role, active)

UsersAdminSpec == UsersAdminInit /\ [][UsersAdminNext]_tabVars

-----------------------------------------------------------------------------
(* Properties                                                               *)

\* The platform is never left without an active administrator, although two of
\* them may disable, demote or delete each other, or themselves, with requests
\* that were all admitted before the first of them was carried out: every
\* transaction that could take the last one away takes lockAdminInvariant() and
\* reads the active administrators under it.
AnAdminRemains == Mounted("users") => ActiveAdmins(server.users) # {}

\* The page awaits no answer, and every command that was carried out since the
\* server read the list is one whose answer arrived: then a table that is not loading
\* and did not fail shows the accounts of the filter and the page on the screen, as
\* they are.  The list is read anew after every such answer, and no list of an older
\* view, or read before the command, can arrive late.  A command whose answer was
\* lost, or of somebody else, leaves the table as it was read.
TableIsTrue ==
  Mounted("users") /\ ~screen.busy /\ ~screen.failed /\ Mine = {} /\ 0 \notin screen.since =>
    screen.rows = RowsFor(screen.view, server.users)
=============================================================================
