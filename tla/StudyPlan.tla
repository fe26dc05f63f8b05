------------------------------ MODULE StudyPlan ------------------------------
(***************************************************************************)
(* apps/web/src/features/learning/pages/StudyPlanPage.tsx: a learner's study  *)
(* plans.  The page shows the newest plan of a path and a status, and a form   *)
(* whose draft creates or changes it.  Everything but the selectors is hidden  *)
(* while the plan is read.                                                   *)
(*                                                                         *)
(* One course stands for the courses of a subject and has its name.          *)
(***************************************************************************)
EXTENDS BrowserTab

CONSTANTS
  PlanPaths, FirstPlanPath,
  PlanSubjects,     \* the subjects of each path
  MaxPlanWrites, MaxPlanClock

ASSUME StudyPlanAssumption ==
  /\ FirstPlanPath \in PlanPaths /\ DOMAIN PlanSubjects = PlanPaths
  /\ MaxPlanWrites \in Nat /\ MaxPlanClock \in Nat

PlanStatuses == {"active", "archived"}
AllPlanSubjects == UNION {PlanSubjects[p] : p \in PlanPaths}
PlanDrafts == [subjects : SUBSET AllPlanSubjects, courses : SUBSET AllPlanSubjects]

\* A plan is named by the time it was created at and carries its updated_at.
PlanRows == [id : 1..MaxPlanClock, stamp : 1..MaxPlanClock, path : PlanPaths,
             status : PlanStatuses, draft : PlanDrafts]
NoPlan == [id |-> 0]

StudyPlanTypeOK ==
  Mounted("plan") =>
    /\ screen \in
         [page : {"plan"}, path : PlanPaths \cup {"none"}, view : PlanStatuses,
          current : PlanRows \cup {NoPlan}, draft : PlanDrafts, subject : AllPlanSubjects \cup {"none"},
          options : SUBSET AllPlanSubjects, busy : BOOLEAN, saving : BOOLEAN,
          loadError : BOOLEAN, writes : 0..MaxPlanWrites]
    /\ server \in [plans : SUBSET PlanRows, clock : 0..MaxPlanClock]

EmptyDraft == [subjects |-> {}, courses |-> {}]

(***************************************************************************)
(* Reading: the list of the path and status first, then its first plan.  A   *)
(* new selection aborts the reads of the one before.                         *)
(***************************************************************************)
PlanReads(cs) == {c \in cs : c.kind \in {"list", "detail"}}
CourseReads(cs) == {c \in cs : c.kind = "courses"}
PlanIdle == screen.path # "none" /\ ~screen.busy

\* The effect of a path, a status or a reload.
ReadPlans(p, over) ==
  /\ screen' = [p EXCEPT !.busy = TRUE, !.current = NoPlan, !.loadError = FALSE]
  /\ calls' = (calls \ (over \cup PlanReads(calls))) \cup
                {[kind |-> "list", path |-> p.path, view |-> p.view, read |-> FALSE, id |-> 0]}

StudyPlanInit ==
  /\ screen = [page |-> "plan", path |-> "none", view |-> "active", current |-> NoPlan,
               draft |-> EmptyDraft, subject |-> "none", options |-> {}, busy |-> FALSE,
               saving |-> FALSE, loadError |-> FALSE, writes |-> 0]
  /\ calls = {[kind |-> "taxonomy"]}
  /\ server = [plans |-> {}, clock |-> 0]

PlanPathsArrive(c) ==
  /\ c.kind = "taxonomy"
  /\ ReadPlans([screen EXCEPT !.path = FirstPlanPath, !.draft = EmptyDraft], {c})
  /\ UNCHANGED server

NewestOf(rows) == {r \in rows : \A other \in rows : other.stamp <= r.stamp}

PlansListed(c) ==
  /\ c.kind = "list" /\ ~c.read
  /\ LET rows == {r \in server.plans : r.path = c.path /\ r.status = c.view}
     IN \E id \in IF rows = {} THEN {0} ELSE {r.id : r \in NewestOf(rows)} :
          calls' = (calls \ {c}) \cup {[c EXCEPT !.read = TRUE, !.id = id]}
  /\ UNCHANGED <<screen, server>>

PlansArrive(c) ==
  /\ c.kind = "list" /\ c.read
  /\ IF c.id = 0
     THEN Ended(c) /\ screen' = [screen EXCEPT !.current = NoPlan, !.busy = FALSE]
     ELSE /\ calls' = (calls \ {c}) \cup
                        {[kind |-> "detail", path |-> c.path, view |-> c.view, id |-> c.id,
                          read |-> FALSE, row |-> NoPlan]}
          /\ UNCHANGED screen
  /\ UNCHANGED server

PlanRead(c) ==
  /\ c.kind = "detail" /\ ~c.read
  /\ \E r \in server.plans :
       r.id = c.id /\ calls' = (calls \ {c}) \cup {[c EXCEPT !.read = TRUE, !.row = r]}
  /\ UNCHANGED <<screen, server>>

\* FAULTY: the plan that was listed is shown whatever became of it.
StillOfView(c) == c.row # NoPlan

OfView(c) == c.row.path = c.path /\ c.row.status = c.view

PlanArrives(c) ==
  /\ c.kind = "detail" /\ c.read
  /\ screen' = IF OfView(c)
               THEN [screen EXCEPT !.current = c.row, !.draft = c.row.draft, !.busy = FALSE]
               ELSE [screen EXCEPT !.current = NoPlan, !.loadError = TRUE, !.busy = FALSE]
  /\ Ended(c) /\ UNCHANGED server

\* The draft is kept: an empty or a failed answer must not cost what was typed.
PlanReadFails(c) ==
  /\ c \in PlanReads(calls)
  /\ screen' = [screen EXCEPT !.current = NoPlan, !.loadError = TRUE, !.busy = FALSE]
  /\ Ended(c) /\ UNCHANGED server

RetryPlans == PlanIdle /\ screen.loadError /\ ReadPlans(screen, {}) /\ UNCHANGED server

(***************************************************************************)
(* Selecting.                                                              *)
(***************************************************************************)
MaySwitch == PlanIdle /\ ~screen.saving

ChangePath(path) ==
  /\ MaySwitch
  /\ LET moved == [screen EXCEPT !.path = path, !.current = NoPlan, !.subject = "none",
                                 !.options = {}, !.draft = EmptyDraft, !.loadError = FALSE]
     IN IF path = screen.path
        THEN screen' = moved /\ calls' = calls \ CourseReads(calls)
        ELSE ReadPlans(moved, CourseReads(calls))
  /\ UNCHANGED server

\* The course options stay.  Neither selection reads again what it selects already:
\* the plan is gone until the page is reloaded.
ChangeStatus(view) ==
  /\ MaySwitch
  /\ LET moved == [screen EXCEPT !.view = view, !.current = NoPlan, !.draft = EmptyDraft,
                                 !.loadError = FALSE]
     IN IF view = screen.view THEN screen' = moved /\ UNCHANGED calls
        ELSE ReadPlans(moved, {})
  /\ UNCHANGED server

(***************************************************************************)
(* The form of the active plans.                                           *)
(***************************************************************************)
FormOfPlan == PlanIdle /\ screen.view = "active"
Flipped(set, x) == IF x \in set THEN set \ {x} ELSE set \cup {x}

ToggleSubject(s) ==
  /\ FormOfPlan /\ s \in PlanSubjects[screen.path]
  /\ screen' = [screen EXCEPT !.subject = "none", !.options = {},
                   !.draft = [subjects |-> Flipped(@.subjects, s), courses |-> {}]]
  /\ calls' = calls \ CourseReads(calls) /\ UNCHANGED server

\* Until the answer comes the options of the former subject stay in place.
ChooseCourseSubject(s) ==
  /\ FormOfPlan /\ s \in PlanSubjects[screen.path] /\ s # screen.subject
  /\ screen.draft.subjects = {} \/ s \in screen.draft.subjects
  /\ screen' = [screen EXCEPT !.subject = s]
  /\ calls' = (calls \ CourseReads(calls)) \cup {[kind |-> "courses", subject |-> s]}
  /\ UNCHANGED server

CourseOptionsArrive(c) ==
  /\ c.kind = "courses"
  /\ \E options \in {{c.subject}, {}} : screen' = [screen EXCEPT !.options = options]
  /\ Ended(c) /\ UNCHANGED server

ToggleCourse(course) ==
  /\ FormOfPlan /\ course \in screen.options
  /\ screen' = [screen EXCEPT !.draft.courses = Flipped(@, course)]
  /\ UNCHANGED <<calls, server>>

\* The options stay, of whichever subject they are.
ResetDraft ==
  /\ FormOfPlan
  /\ screen' = [screen EXCEPT
        !.draft = IF screen.current = NoPlan THEN EmptyDraft ELSE screen.current.draft]
  /\ UNCHANGED <<calls, server>>

(***************************************************************************)
(* Writing.                                                                *)
(***************************************************************************)
WritePlan(what, draft) ==
  /\ FormOfPlan /\ ~screen.saving /\ screen.writes < MaxPlanWrites
  /\ screen' = [screen EXCEPT !.saving = TRUE, !.writes = @ + 1]
  /\ calls' = calls \cup
       {[kind |-> "write", what |-> what, plan |-> screen.current, path |-> screen.path,
         draft |-> draft, stage |-> "sent", row |-> NoPlan]}
  /\ UNCHANGED server

SavePlan == WritePlan(IF screen.current = NoPlan THEN "create" ELSE "update", screen.draft)
ArchivePlan == screen.current # NoPlan /\ WritePlan("archive", screen.draft)
RemovePlan == screen.current # NoPlan /\ WritePlan("remove", screen.draft)

\* The courses must be of the subjects, when there are any.
ValidPlan(c) ==
  /\ c.draft.subjects \subseteq PlanSubjects[c.path]
  /\ c.draft.courses \subseteq
       (IF c.draft.subjects = {} THEN PlanSubjects[c.path] ELSE c.draft.subjects)

WrittenRow(c) ==
  [id |-> IF c.what = "create" THEN server.clock + 1 ELSE c.plan.id,
   stamp |-> server.clock + 1, path |-> c.path, draft |-> c.draft,
   status |-> IF c.what = "archive" THEN "archived" ELSE "active"]

\* FAULTY: the plan is changed whatever was changed in it before.
SamePlan(row, plan) == row.id = plan.id

\* WHERE id = ... AND updated_at = ...
Unchanged(row, plan) == row.id = plan.id /\ row.stamp = plan.stamp

PlanStored(c) ==
  /\ c.kind = "write" /\ c.stage = "sent" /\ c.what # "remove" /\ ValidPlan(c)
  /\ c.what # "create" => \E r \in server.plans : Unchanged(r, c.plan)
  /\ server.clock < MaxPlanClock
  /\ LET row == WrittenRow(c)
     IN /\ server' = [plans |-> {r \in server.plans : r.id # row.id} \cup {row},
                      clock |-> server.clock + 1]
        /\ calls' = (calls \ {c}) \cup {[c EXCEPT !.stage = "stored", !.row = row]}
  /\ UNCHANGED screen

PlanDeleted(c) ==
  /\ c.kind = "write" /\ c.stage = "sent" /\ c.what = "remove"
  /\ \E r \in server.plans : r.id = c.plan.id
  /\ server' = [server EXCEPT !.plans = {r \in @ : r.id # c.plan.id}]
  /\ Advances(c, "stored") /\ UNCHANGED screen

PlanSaved(c) ==
  /\ c.kind = "write" /\ c.stage = "stored" /\ c.what \in {"create", "update"}
  /\ ReadPlans([screen EXCEPT !.saving = FALSE], {c}) /\ UNCHANGED server

\* Archived or deleted: an empty draft, and the list once more.
PlanGone(c) ==
  /\ c.kind = "write" /\ c.stage = "stored" /\ c.what \in {"archive", "remove"}
  /\ ReadPlans([screen EXCEPT !.saving = FALSE, !.draft = EmptyDraft], {c})
  /\ UNCHANGED server

PlanWriteFails(c) ==
  /\ c.kind = "write"
  /\ screen' = [screen EXCEPT !.saving = FALSE]
  /\ Ended(c) /\ UNCHANGED server

\* The learner archives a plan in another tab.
AnotherTabArchives ==
  /\ server.clock < MaxPlanClock
  /\ \E r \in server.plans :
       /\ r.status = "active"
       /\ server' = [plans |-> (server.plans \ {r}) \cup
                       {[r EXCEPT !.status = "archived", !.stamp = server.clock + 1]},
                     clock |-> server.clock + 1]
  /\ UNCHANGED <<screen, calls>>

(***************************************************************************)
(* The parts of the page.                                                    *)
(***************************************************************************)
PlanSelectors ==
  \/ \E path \in PlanPaths : ChangePath(path)
  \/ \E view \in PlanStatuses : ChangeStatus(view)

PlanFormFields ==
  \E s \in AllPlanSubjects : ToggleSubject(s) \/ ChooseCourseSubject(s) \/ ToggleCourse(s)

PlanButtons == SavePlan \/ ResetDraft \/ ArchivePlan \/ RemovePlan

StudyPlanNext ==
  \/ PlanSelectors \/ RetryPlans \/ PlanFormFields \/ PlanButtons \/ AnotherTabArchives
  \/ \E c \in calls :
       \/ PlanPathsArrive(c) \/ PlansListed(c) \/ PlansArrive(c) \/ PlanRead(c)
       \/ PlanArrives(c) \/ PlanReadFails(c) \/ CourseOptionsArrive(c) \/ PlanStored(c)
       \/ PlanDeleted(c) \/ PlanSaved(c) \/ PlanGone(c) \/ PlanWriteFails(c)

StudyPlanSpec == StudyPlanInit /\ [][StudyPlanNext]_tabVars

(***************************************************************************)
(* Properties                                                              *)
(***************************************************************************)
\* The plan on the screen is of the path and the status that are selected, and the
\* page is done with reading it: neither a late answer of another selection nor
\* the answer of a write shows another plan
\* (docs/migration/35_STUDY_PLAN_SCOPE_RETRY_AR.md:14-19).
PlanOfView ==
  Mounted("plan") /\ screen.current # NoPlan =>
    screen.current.path = screen.path /\ screen.current.status = screen.view

\* A plan that was archived, here or in another tab, does not become active again by
\* what this tab still has of it: what is saved was read since.
ArchivedStays ==
  [][Mounted("plan") =>
       \A r \in server.plans, q \in server'.plans :
         r.id = q.id /\ r.status = "archived" => q.status = "archived"]_tabVars
=============================================================================
