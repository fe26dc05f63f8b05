--------------------------- MODULE SchoolDirector ---------------------------
(***************************************************************************)
(* The dashboard of a school's director                                     *)
(* (features/organizations/pages/SchoolDirectorDashboardPage.tsx) and the    *)
(* form that creates a school assessment on it (DirectorAssessmentCreator).   *)
(*                                                                         *)
(* Every answer is dropped unless it belongs to the present visit of the     *)
(* school (schoolVisitEpoch, activeSchoolId), and unless no newer request of  *)
(* its kind has begun (loadEpoch, teacherReadVersion): a call is "live" and    *)
(* "newest" while it passes those tests.  The director has every permission   *)
(* and module; missing ones only take requests away.                         *)
(***************************************************************************)
EXTENDS BrowserTab

CONSTANTS
  DirectedSchools,   \* the schools this account directs
  MaxSchoolVisits,         \* bound: how often a school is opened, or the roles change
  MaxOrders,         \* bound: how many writes are begun
  MaxSubmits,        \* bound: how often a write is begun or a form submitted
  MaxForms           \* bound: how many assessment forms are mounted

ASSUME SchoolDirectorAssumption ==
  /\ DirectedSchools # {} /\ {"none"} \cap DirectedSchools = {}
  /\ MaxSchoolVisits \in Nat \ {0} /\ MaxOrders \in Nat /\ MaxSubmits \in Nat /\ MaxForms \in Nat

Queries == {"all", "found"}
WriteKinds == {"row", "class", "assignment"}  \* on a student; of a class or a new student; of a teacher
Sections == {"people", "assessments"}     \* the overview, students, classes and teachers are one
Visits == -1..MaxSchoolVisits                   \* -1: nothing is shown
NoStaff == [visit |-> -1, age |-> 0]
Selected(p) == IF p.school \in p.known THEN p.school ELSE "none"

DirectorTypeOK ==
  Mounted("director") =>
    /\ screen \in
         [page : {"director"}, known : SUBSET DirectedSchools,
          school : DirectedSchools \cup {"none"}, visit : 0..MaxSchoolVisits,
          section : Sections,
          students : [visit : Visits, query : Queries], asked : Queries,
          staff : [visit : Visits, age : 0..MaxOrders], seen : 0..MaxOrders,
          overview : Visits, papers : Visits, pending : WriteKinds \cup {""},
          show : BOOLEAN, form : 0..MaxForms, forms : 0..MaxForms, key : Nat, saving : BOOLEAN,
          made : 0..MaxOrders, submits : 0..MaxSubmits, confirmed : 0..MaxOrders]
    /\ server.written \in 0..MaxOrders
    /\ server.papers \subseteq [form : 1..MaxForms, key : Nat]

(***************************************************************************)
(* The form lives as long as its panel is shown: it is mounted again, with   *)
(* a key of its own, each time the panel returns.                            *)
(***************************************************************************)
Rendered(p) ==
  LET up == p.show /\ p.section = "assessments" /\ p.papers # -1
  IN IF up /\ p.form = 0
       THEN [p EXCEPT !.form = p.forms + 1, !.forms = @ + 1, !.key = @ + 1, !.saving = FALSE]
       ELSE IF up THEN p ELSE [p EXCEPT !.form = 0, !.saving = FALSE]

(***************************************************************************)
(* Requests.  A call that nothing can come of any more is left out.          *)
(***************************************************************************)
Request(kind, p, run, query) ==
  [kind |-> kind, run |-> run, query |-> query, visit |-> p.visit, stage |-> "sent",
   live |-> TRUE, newest |-> TRUE, base |-> p.confirmed, age |-> -1, n |-> 0, key |-> 0]

Without(kind, cs) == {c \in cs : c.kind # kind}

\* ++loadEpoch: an older refresh adopts nothing; a write that awaits it goes on.
Outdated(cs) ==
  {IF c.kind = "refresh" THEN [c EXCEPT !.live = FALSE] ELSE c :
     c \in {d \in cs : d.kind # "refresh" \/ d.run # ""}}

\* ++teacherReadVersion: teachers and assignments of earlier reads are not adopted.
Reread(cs) ==
  {IF c.kind \in {"refresh", "staff"} THEN [c EXCEPT !.newest = FALSE] ELSE c : c \in cs}

AskOverview(p, cs) ==
  /\ screen' = Rendered([p EXCEPT !.overview = -1])
  /\ calls' = Without("overview", cs) \cup {Request("overview", p, "", "all")}

Asked(p, query) == [p EXCEPT !.students = [visit |-> -1, query |-> "all"], !.asked = query]
Refreshing(p, cs, run, query) == Outdated(cs) \cup {Request("refresh", p, run, query)}

\* What a school's effects do when it becomes the selected one: its rows and its
\* overview are asked for.
Cleared(p) ==
  [p EXCEPT !.students = [visit |-> -1, query |-> "all"], !.staff = NoStaff, !.overview = -1,
            !.papers = -1, !.pending = "", !.show = FALSE]

Opened(p, cs) ==
  LET q == Asked(Cleared(p), "all")
      dropped == Without("papers", Reread(cs))
  IN /\ screen' = Rendered(q)
     /\ calls' = Without("overview", Refreshing(q, dropped, "", "all"))
                   \cup {Request("overview", q, "", "all")}
                   \cup (IF q.section = "assessments" THEN {Request("papers", q, "", "all")} ELSE {})

(***************************************************************************)
(* The roles: the server's context is authoritative.  When the account is    *)
(* read again everything is forgotten and the schools are asked for.         *)
(***************************************************************************)
EmptyDirector ==
  [page |-> "director", known |-> {}, school |-> "none", visit |-> 0, section |-> "people",
   students |-> [visit |-> -1, query |-> "all"], asked |-> "all", staff |-> NoStaff, seen |-> 0,
   overview |-> -1, papers |-> -1, pending |-> "", show |-> FALSE, form |-> 0, forms |-> 0,
   key |-> 0, saving |-> FALSE, made |-> 0, submits |-> 0, confirmed |-> 0]

DirectorInit ==
  /\ screen = EmptyDirector
  /\ calls = {Request("contexts", EmptyDirector, "", "all")}
  /\ server = [written |-> 0, papers |-> {}]

AccountRead(director) ==
  LET q == [Cleared(screen) EXCEPT !.known = {}, !.visit = @ + 1,
                                   !.school = IF director THEN @ ELSE "none"]
      rest == Outdated(Reread(Without("overview", Without("papers", Without("contexts", calls)))))
  IN /\ screen.visit < MaxSchoolVisits
     /\ screen' = Rendered(q)
     /\ calls' = IF director THEN rest \cup {Request("contexts", q, "", "all")} ELSE rest
     /\ UNCHANGED server

ContextsArrive(c) ==
  /\ c.kind = "contexts"
  /\ \E known \in SUBSET DirectedSchools :
       LET kept == screen.school \in known
           p == [screen EXCEPT !.known = known,
                   !.school = IF kept THEN @ ELSE IF known = {} THEN "none"
                              ELSE CHOOSE s \in known : TRUE]
       IN IF known = {} THEN screen' = p /\ Ended(c) ELSE Opened(p, calls \ {c})
  /\ UNCHANGED server

ContextsFail(c) == c.kind = "contexts" /\ Ended(c) /\ UNCHANGED <<screen, server>>

ChangeSchool(s) ==
  /\ Selected(screen) # "none" /\ s \in screen.known \ {screen.school}
  /\ screen.visit < MaxSchoolVisits
  /\ Opened([screen EXCEPT !.school = s, !.visit = @ + 1, !.section = "people"], calls)
  /\ UNCHANGED server

(***************************************************************************)
(* Reading.                                                                *)
(***************************************************************************)
SelectSection(s) ==
  LET p == [screen EXCEPT !.section = s, !.papers = -1]
      rest == Without("papers", calls)
  IN /\ Selected(screen) # "none" /\ s # screen.section
     /\ ~screen.show \/ screen.forms < MaxForms
     /\ screen' = Rendered(p)
     /\ calls' = IF s = "assessments" THEN rest \cup {Request("papers", p, "", "all")} ELSE rest
     /\ UNCHANGED server

SearchStudents(query) ==
  /\ Selected(screen) # "none" /\ screen.section = "people"
  /\ screen' = Asked(screen, query)
  /\ calls' = Refreshing(Asked(screen, query), calls, "", query)
  /\ UNCHANGED server

RefreshReads(c) ==
  /\ c.kind \in {"refresh", "staff"} /\ c.age = -1
  /\ calls' = (calls \ {c}) \cup {[c EXCEPT !.age = server.written]}
  /\ UNCHANGED <<screen, server>>

\* Whether a continuation still concerns the school on the screen.
Here(c) == c.visit = screen.visit /\ Selected(screen) # "none"

\* The end of run(): its button is released, the overview is asked for again.
RunEnds(p, c) ==
  IF c.run # "" /\ Here(c) THEN AskOverview([p EXCEPT !.pending = ""], calls \ {c})
                           ELSE screen' = p /\ Ended(c)

AdoptsStaff(p, c) ==
  IF ~c.newest THEN p
  ELSE [p EXCEPT !.staff = [visit |-> c.visit, age |-> c.age],
                 !.seen = IF c.kind = "staff" /\ c.base > @ THEN c.base ELSE @]

RefreshArrives(c) ==
  /\ c.kind = "refresh" /\ c.age # -1
  /\ RunEnds(IF c.live /\ Here(c)
               THEN AdoptsStaff([screen EXCEPT !.students = [visit |-> c.visit, query |-> c.query]], c)
               ELSE screen, c)
  /\ UNCHANGED server

StaffArrives(c) ==
  /\ c.kind = "staff" /\ c.age # -1
  /\ RunEnds(IF Here(c) THEN AdoptsStaff(screen, c) ELSE screen, c)
  /\ UNCHANGED server

\* A failed refresh is caught inside refresh(); a failed read of the teachers
\* ends run() with an error.
ReadFails(c) ==
  /\ c.kind \in {"refresh", "staff"}
  /\ IF c.kind = "refresh" THEN RunEnds(screen, c)
     ELSE /\ screen' = IF Here(c) THEN [screen EXCEPT !.pending = ""] ELSE screen
          /\ Ended(c)
  /\ UNCHANGED server

OverviewArrives(c) ==
  /\ c.kind = "overview" /\ Ended(c) /\ UNCHANGED server
  /\ screen' \in {screen, IF Here(c) THEN [screen EXCEPT !.overview = c.visit] ELSE screen}

PapersArrive(c) ==
  /\ c.kind = "papers" /\ Ended(c) /\ UNCHANGED server
  /\ screen' \in {screen, IF Here(c) THEN Rendered([screen EXCEPT !.papers = c.visit]) ELSE screen}

(***************************************************************************)
(* Writing: run() and what each operation awaits.                           *)
(***************************************************************************)
MaySend == screen.made + screen.submits < MaxSubmits

RunWrite(what) ==
  /\ Selected(screen) # "none" /\ screen.section = "people"
  /\ screen.made < MaxOrders /\ MaySend
  /\ what = "row" => screen.students.visit # -1
  /\ what = "assignment" => screen.pending = "" /\ screen.staff.visit # -1
  /\ screen' = [screen EXCEPT !.pending = what, !.made = @ + 1]
  /\ calls' = calls \cup {[Request("write", screen, what, screen.asked) EXCEPT !.n = screen.made]}
  /\ UNCHANGED server

AddStudent == RunWrite("class")
MoveStudent == RunWrite("row")
SaveStudent == RunWrite("row")
ToggleStudent == RunWrite("row")
CreateClass == RunWrite("class")
RenameClass == RunWrite("class")
SaveAssignment == RunWrite("assignment")
StopAssignment == RunWrite("assignment")

StudentsSection ==
  \/ AddStudent \/ MoveStudent \/ SaveStudent \/ ToggleStudent
  \/ \E query \in Queries : SearchStudents(query)

ClassesSection == CreateClass \/ RenameClass \/ SaveAssignment \/ StopAssignment

WriteStored(c) ==
  /\ c.kind = "write" /\ c.stage = "sent" /\ Advances(c, "stored")
  /\ server' = IF c.run = "assignment" THEN [server EXCEPT !.written = @ + 1] ELSE server
  /\ UNCHANGED screen

RowWritten(c) ==
  /\ c.kind = "write" /\ c.stage = "stored" /\ (c.run = "row" \/ ~Here(c))
  /\ RunEnds(screen, c)
  /\ UNCHANGED server

\* addStudent, createClass, renameClass: the rows are asked for again, with the
\* search of the moment the button was pressed.
RowsReloaded(c) ==
  /\ c.kind = "write" /\ c.stage = "stored" /\ c.run = "class" /\ Here(c)
  /\ screen' = Asked(screen, c.query)
  /\ calls' = Refreshing(Asked(screen, c.query), calls \ {c}, c.run, c.query)
  /\ UNCHANGED server

\* reloadTeachersForSchool
TeachersReloaded(c) ==
  LET p == [screen EXCEPT !.confirmed = @ + 1]
  IN /\ c.kind = "write" /\ c.stage = "stored" /\ c.run = "assignment" /\ Here(c)
     /\ screen' = p
     /\ calls' = Reread(calls \ {c})
                   \cup {[Request("staff", p, c.run, "all") EXCEPT !.visit = c.visit]}
     /\ UNCHANGED server

RunFails(c) ==
  /\ c.kind = "write" /\ Ended(c) /\ UNCHANGED server
  /\ screen' = IF Here(c) THEN [screen EXCEPT !.pending = ""] ELSE screen

(***************************************************************************)
(* The assessment form.                                                    *)
(***************************************************************************)
ToggleCreator ==
  /\ screen.section = "assessments" /\ Selected(screen) # "none"
  /\ screen.show \/ (screen.papers # -1 /\ screen.forms < MaxForms)
  /\ screen' = Rendered([screen EXCEPT !.show = ~@])
  /\ UNCHANGED <<calls, server>>

\* FAULTY: every submission has a key of its own.
SubmissionWithNewKey(p) == [p EXCEPT !.saving = TRUE, !.key = @ + 1]
Submission(p) == [p EXCEPT !.saving = TRUE]

SubmitForm ==
  LET p == Submission(screen)
  IN /\ screen.form # 0 /\ ~screen.saving /\ MaySend
     /\ screen' = [p EXCEPT !.submits = @ + 1]
     /\ calls' = calls \cup {[Request("create", screen, "", "all") EXCEPT
                                !.n = screen.form, !.key = p.key]}
     /\ UNCHANGED server

\* The server's request table: a key it knows creates nothing.
CreateStored(c) ==
  /\ c.kind = "create" /\ c.stage = "sent" /\ Advances(c, "stored")
  /\ server' = IF \E a \in server.papers : a.key = c.key THEN server
               ELSE [server EXCEPT !.papers = @ \cup {[form |-> c.n, key |-> c.key]}]
  /\ UNCHANGED screen

\* onCreated: the panel is closed, the assessments and the overview are reloaded.
CreateDone(c) ==
  LET p == [screen EXCEPT !.show = FALSE, !.papers = -1]
  IN /\ c.kind = "create" /\ c.stage = "stored" /\ UNCHANGED server
     /\ IF c.n = screen.form
          THEN AskOverview(p, Without("papers", calls \ {c}) \cup {Request("papers", p, "", "all")})
          ELSE Ended(c) /\ UNCHANGED screen

CreateFails(c) ==
  /\ c.kind = "create" /\ Ended(c) /\ UNCHANGED server
  /\ screen' = IF c.n = screen.form THEN [screen EXCEPT !.saving = FALSE] ELSE screen

DirectorNext ==
  \/ \E d \in BOOLEAN : AccountRead(d)
  \/ \E s \in DirectedSchools : ChangeSchool(s)
  \/ \E s \in Sections : SelectSection(s)
  \/ StudentsSection \/ ClassesSection
  \/ ToggleCreator \/ SubmitForm
  \/ \E c \in calls :
       \/ ContextsArrive(c) \/ ContextsFail(c) \/ RefreshReads(c) \/ RefreshArrives(c)
       \/ StaffArrives(c) \/ ReadFails(c) \/ OverviewArrives(c) \/ PapersArrive(c)
       \/ WriteStored(c) \/ RowWritten(c) \/ RowsReloaded(c) \/ TeachersReloaded(c)
       \/ RunFails(c) \/ CreateStored(c) \/ CreateDone(c) \/ CreateFails(c)

DirectorSpec == DirectorInit /\ [][DirectorNext]_tabVars

(***************************************************************************)
(* Properties                                                              *)
(***************************************************************************)
\* Whatever the page shows of a school was asked for in the present visit: after
\* a change to another school, or a change there and back, and after the roles
\* were read again, no late answer of the earlier visit appears.
RowsOfThisVisit ==
  Mounted("director") =>
    /\ {screen.students.visit, screen.staff.visit, screen.overview, screen.papers}
         \subseteq {-1, screen.visit}
    /\ screen.students.visit # -1 => screen.students.query = screen.asked

\* Once a reload of the teachers has shown what an assignment changed, no older
\* answer brings the former assignments back: a teacher whose assignment was
\* stopped does not reappear as active.
AssignmentsStayRead ==
  Mounted("director") /\ screen.staff.visit # -1 => screen.staff.age >= screen.seen

\* However often one form is submitted, also after answers that were lost, the
\* school gets one assessment from it.
OneAssessmentPerForm ==
  Mounted("director") =>
    \A a, b \in server.papers : a.form = b.form => a = b
=============================================================================
