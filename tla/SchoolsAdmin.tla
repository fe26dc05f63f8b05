---------------------------- MODULE SchoolsAdmin ----------------------------
(***************************************************************************)
(* The administrator's schools                                              *)
(* (features/organizations/pages/SchoolsAdminPage.tsx): a portfolio of the   *)
(* schools, and the workspace of the one that was opened.                    *)
(*                                                                         *)
(* Of what the workspace shows the model keeps the school it was read for.   *)
(* No answer is dropped: whatever arrives is shown.                          *)
(***************************************************************************)
EXTENDS BrowserTab

CONSTANTS
  AdminSchools,    \* the schools there may be
  MaxHandled       \* bound: how many operations are begun

ASSUME SchoolsAdminAssumption == "none" \notin AdminSchools /\ MaxHandled \in Nat

SchoolDialogs == {"none", "wizard", "rename", "archive", "class", "student"}
SchoolOrNone == AdminSchools \cup {"none"}
WorkspaceRows == [classes : SchoolOrNone, students : SchoolOrNone, teachers : SchoolOrNone]

SchoolsTypeOK ==
  Mounted("schools") =>
    /\ screen \in
         [page : {"schools"}, list : SUBSET AdminSchools, selected : SchoolOrNone,
          loading : BOOLEAN, rows : WorkspaceRows, chosen : SchoolOrNone, dialog : SchoolDialogs,
          creating : BOOLEAN, archiving : BOOLEAN, made : 0..MaxHandled, overlapped : BOOLEAN]
    /\ server \subseteq AdminSchools

\* "overlapped" remembers that a workspace was left, or another one opened, while
\* an operation was under way.
EmptyRows == [classes |-> "none", students |-> "none", teachers |-> "none"]

SchoolsInit ==
  /\ server \in SUBSET AdminSchools
  /\ screen = [page |-> "schools", list |-> {}, selected |-> "none", loading |-> FALSE,
               rows |-> EmptyRows, chosen |-> "none", dialog |-> "none", creating |-> FALSE,
               archiving |-> FALSE, made |-> 0, overlapped |-> FALSE]
  /\ calls = {[kind |-> "list", school |-> "none", stage |-> "sent", n |-> 0]}

Operation(kind, s, stage) == [kind |-> kind, school |-> s, stage |-> stage, n |-> screen.made]

Busy(p, over) == p.overlapped \/ calls \ over # {}

(***************************************************************************)
(* The portfolio: loadSchools and loadSchoolWorkspace.                      *)
(***************************************************************************)
LoadSchools ==
  /\ screen.selected = "none" /\ screen.made < MaxHandled
  /\ screen' = [screen EXCEPT !.made = @ + 1]
  /\ calls' = calls \cup {Operation("list", "none", "sent")}
  /\ UNCHANGED server

SchoolsArrive(c) ==
  /\ c.kind = "list" /\ Ended(c) /\ UNCHANGED server
  /\ screen' \in {screen, [screen EXCEPT !.list = server]}

Opens(p, s, over, origin) ==
  /\ screen' = [p EXCEPT !.selected = s, !.loading = TRUE, !.overlapped = Busy(p, over)]
  /\ calls' = (calls \ over) \cup {Operation("workspace", s, origin)}

OpenSchool(s) ==
  /\ screen.selected = "none" /\ screen.dialog = "none"
  /\ s \in screen.list /\ screen.made < MaxHandled
  /\ Opens([screen EXCEPT !.made = @ + 1], s, {}, "card")
  /\ UNCHANGED server

\* Promise.allSettled: each of the lists was read or is cleared.
WorkspaceRead(c) ==
  {[classes |-> a, students |-> b, teachers |-> d] :
     a \in {c.school, "none"}, b \in {c.school, "none"}, d \in {c.school, "none"}}

\* A class is chosen only when the school has one.  The wizard is busy until the
\* workspace of the school it created was read.
WorkspaceArrives(c) ==
  /\ c.kind = "workspace" /\ Ended(c) /\ UNCHANGED server
  /\ \E rows \in WorkspaceRead(c), hasClass \in BOOLEAN :
       screen' = [screen EXCEPT !.rows = rows, !.loading = FALSE,
                    !.creating = @ /\ c.stage # "wizard",
                    !.chosen = IF hasClass /\ rows.classes = c.school THEN c.school ELSE @]

BackToPortfolio ==
  /\ screen.selected # "none" /\ screen.dialog = "none"
  /\ screen' = [screen EXCEPT !.selected = "none", !.overlapped = Busy(screen, {})]
  /\ UNCHANGED <<calls, server>>

ChooseClass ==
  /\ screen.selected # "none" /\ screen.dialog = "none"
  /\ screen' = [screen EXCEPT !.chosen = screen.rows.classes]
  /\ UNCHANGED <<calls, server>>

(***************************************************************************)
(* Dialogs: one is open at a time and covers the page.                      *)
(***************************************************************************)
OpenSchoolDialog(d) ==
  /\ screen.dialog = "none" /\ d # "none"
  /\ IF d = "wizard" THEN screen.selected = "none" ELSE screen.selected # "none"
  /\ screen' = [screen EXCEPT !.dialog = d]
  /\ UNCHANGED <<calls, server>>

CancelDialog(d) ==
  /\ screen.dialog = d
  /\ screen' = [screen EXCEPT !.dialog = "none"]
  /\ UNCHANGED <<calls, server>>

Handles(d) == screen.dialog = d /\ screen.made < MaxHandled

HandleCreateSchool ==
  /\ Handles("wizard") /\ ~screen.creating
  /\ screen' = [screen EXCEPT !.creating = TRUE, !.made = @ + 1]
  /\ \E s \in AdminSchools \ server : calls' = calls \cup {Operation("create", s, "sent")}
  /\ UNCHANGED server

HandleRenameSchool ==
  /\ Handles("rename") /\ screen' = [screen EXCEPT !.made = @ + 1]
  /\ calls' = calls \cup {Operation("rename", screen.selected, "sent")}
  /\ UNCHANGED server

HandleDeleteSchool ==
  /\ Handles("archive") /\ ~screen.archiving
  /\ screen' = [screen EXCEPT !.archiving = TRUE, !.made = @ + 1]
  /\ calls' = calls \cup {Operation("archive", screen.selected, "sent")}
  /\ UNCHANGED server

HandleCreateClass ==
  /\ Handles("class") /\ screen' = [screen EXCEPT !.made = @ + 1]
  /\ calls' = calls \cup {Operation("class", screen.selected, "sent")}
  /\ UNCHANGED server

HandleAddStudent ==
  /\ Handles("student") /\ screen' = [screen EXCEPT !.made = @ + 1]
  /\ calls' = calls \cup {Operation("student", screen.selected, "sent")}
  /\ UNCHANGED server

Portfolio == LoadSchools \/ OpenSchoolDialog("wizard")
WorkspaceBar == BackToPortfolio \/ OpenSchoolDialog("rename") \/ OpenSchoolDialog("archive")
ClassesTab == ChooseClass \/ OpenSchoolDialog("class") \/ OpenSchoolDialog("student")
WizardDialog == HandleCreateSchool \/ CancelDialog("wizard")
RenameDialog == HandleRenameSchool \/ CancelDialog("rename")
ArchiveDialog == HandleDeleteSchool \/ CancelDialog("archive")
ClassDialog == HandleCreateClass \/ CancelDialog("class")
StudentDialog == HandleAddStudent \/ CancelDialog("student")

Closing(d) == [screen EXCEPT !.dialog = IF @ = d THEN "none" ELSE @]

\* A school was created: the portfolio is read again, then its workspace is opened.
SchoolCreated(c) ==
  /\ c.kind = "create" /\ c.stage = "sent"
  /\ server' = server \cup {c.school}
  /\ screen' = Closing("wizard") /\ Advances(c, "listing")

CreatedOpens(c) ==
  /\ c.kind = "create" /\ c.stage = "listing"
  /\ Opens([screen EXCEPT !.list = server], c.school, {c}, "wizard")
  /\ UNCHANGED server

\* Whatever is on the screen, the school that was renamed is the selected one now.
SchoolRenamed(c) ==
  /\ c.kind = "rename" /\ UNCHANGED server
  /\ calls' = (calls \ {c}) \cup {[c EXCEPT !.kind = "list", !.school = "none"]}
  /\ screen' = [Closing("rename") EXCEPT !.selected = c.school]

\* The button is released when the portfolio was read again.
SchoolArchived(c) ==
  /\ c.kind = "archive" /\ c.stage = "sent" /\ Advances(c, "listing")
  /\ server' = server \ {c.school}
  /\ screen' = [Closing("archive") EXCEPT !.selected = "none"]

ArchivedListed(c) ==
  /\ c.kind = "archive" /\ c.stage = "listing" /\ Ended(c) /\ UNCHANGED server
  /\ \E list \in {screen.list, server} :
       screen' = [screen EXCEPT !.archiving = FALSE, !.list = list]

\* After a class or a student was added, that list of the school is read again.
RowAdded(c) ==
  /\ c.kind \in {"class", "student"} /\ c.stage = "sent" /\ UNCHANGED server
  /\ screen' = Closing(c.kind) /\ Advances(c, "reading")

AddedRowsArrive(c) ==
  /\ c.kind \in {"class", "student"} /\ c.stage = "reading" /\ Ended(c) /\ UNCHANGED server
  /\ screen' = IF c.kind = "class" THEN [screen EXCEPT !.rows.classes = c.school]
                                   ELSE [screen EXCEPT !.rows.students = c.school]

SchoolCallFails(c) ==
  /\ c.kind \notin {"list", "workspace"} /\ c.stage # "listing"
  /\ screen' = [screen EXCEPT !.creating = @ /\ c.kind # "create",
                              !.archiving = @ /\ c.kind # "archive"]
  /\ Ended(c) /\ UNCHANGED server

SchoolsNext ==
  \/ Portfolio \/ WorkspaceBar \/ ClassesTab
  \/ WizardDialog \/ RenameDialog \/ ArchiveDialog \/ ClassDialog \/ StudentDialog
  \/ \E s \in AdminSchools : OpenSchool(s)
  \/ \E c \in calls :
       \/ SchoolsArrive(c) \/ WorkspaceArrives(c) \/ SchoolCreated(c) \/ CreatedOpens(c)
       \/ SchoolRenamed(c) \/ SchoolArchived(c) \/ ArchivedListed(c) \/ RowAdded(c)
       \/ AddedRowsArrive(c)
       \/ SchoolCallFails(c)

SchoolsSpec == SchoolsInit /\ [][SchoolsNext]_tabVars

(***************************************************************************)
(* Properties                                                              *)
(***************************************************************************)
RowsOf(s) == {screen.rows.classes, screen.rows.students, screen.rows.teachers} \subseteq {s, "none"}

\* As long as nobody leaves a school or opens another one before an operation is
\* over, a loaded workspace shows the rows of its school and no other, also when
\* some of its four requests failed.
UnhurriedRows ==
  Mounted("schools") /\ screen.selected # "none" /\ ~screen.loading /\ ~screen.overlapped =>
    RowsOf(screen.selected)

\* "Workspace Data for Selected School" (SchoolsAdminPage.tsx:84): a loaded
\* workspace shows the rows of its school, and the class chosen is one of its own.
WorkspaceOfSelected ==
  Mounted("schools") /\ screen.selected # "none" /\ ~screen.loading =>
    RowsOf(screen.selected) /\ screen.chosen \in {screen.selected, "none"}
=============================================================================
