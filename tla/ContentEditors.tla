--------------------------- MODULE ContentEditors ---------------------------
(***************************************************************************)
(* The editors of one content row: a foundation topic, a lesson, a library  *)
(* item or a course, and the panel that creates a course                    *)
(* (features/content/components/*EditorPanel.tsx, CourseCreatePanel.tsx).    *)
(* An editor loads its row and, beside it, the full taxonomy; effects clear  *)
(* a subject and skills that the taxonomy does not offer; a save sends the   *)
(* whole form with the revision the editor holds.  The links of a topic and  *)
(* the modules of a course are written apart, with the same revision, and    *)
(* the editor goes on with the revision the answer carries.                  *)
(*                                                                         *)
(* Of the form the model keeps the subject and the skills, and as "base" the *)
(* version of the row that the other fields were filled from.                *)
(***************************************************************************)
EXTENDS BrowserTab

CONSTANTS
  Skills,     \* the skills of the subject of the row
  Kinds,      \* which of the editors are opened
  MaxRev      \* bound: the revision of the row

ASSUME ContentEditorsAssumption ==
  /\ Kinds \subseteq {"topic", "lesson", "library", "course", "newcourse"}
  /\ MaxRev \in Nat \ {0} /\ Skills # {}

Revisions == 0..MaxRev                 \* 0: the editor has no row
EditorSubjects == {"own", "other"}     \* the subject of the row; one without skills

EditorCall ==
  [kind : {"create", "update", "relate"}, expected : Revisions, base : Revisions,
   skills : SUBSET Skills, owed : SUBSET Skills, answer : Revisions,
   stage : {"sent", "ok", "refused", "refresh"}]

EditorTypeOK ==
  Mounted("editor") =>
    /\ screen \in
         [page : {"editor"}, kind : Kinds, editing : BOOLEAN, open : BOOLEAN,
          core : SUBSET EditorSubjects, required : SUBSET Skills,
          catalog : {"loading", "here", "failed"}, loading : BOOLEAN,
          row : Revisions, base : Revisions, locked : BOOLEAN, mismatch : BOOLEAN,
          subject : EditorSubjects \cup {"none"}, skills : SUBSET Skills,
          owed : SUBSET Skills, saving : BOOLEAN, related : BOOLEAN]
    /\ calls \subseteq EditorCall
    /\ server \in [rev : 1..MaxRev, body : 1..MaxRev, skills : SUBSET Skills,
                   catalog : SUBSET Skills, locked : BOOLEAN]

(***************************************************************************)
(* Opening.  core: the subjects of the taxonomy the parent had loaded;      *)
(* required: the skill a lesson is opened for.  The first effect of a lesson  *)
(* clears a subject that core does not have.  owed is what the row linked    *)
(* when it was loaded, with what the administrator ticked since.             *)
(***************************************************************************)
EditorInit ==
  /\ \E kind \in Kinds, editing \in BOOLEAN, core \in {EditorSubjects, {"other"}},
        required \in {{}} \cup {{k} : k \in Skills}, subject \in {"own", "other", "none"} :
       /\ kind = "course" => editing
       /\ kind = "newcourse" => ~editing
       /\ required # {} => kind = "lesson" /\ subject = IF "own" \in core THEN "own" ELSE "none"
       /\ kind = "course" => subject = "none"
       /\ kind = "lesson" => subject \in core \cup {"none"}
       /\ screen = [page |-> "editor", kind |-> kind, editing |-> editing, open |-> TRUE,
                    core |-> core, required |-> required, catalog |-> "loading",
                    loading |-> editing, row |-> 0, base |-> 0, locked |-> FALSE,
                    mismatch |-> FALSE, subject |-> subject,
                    skills |-> IF subject = "none" THEN {} ELSE required,
                    owed |-> required, saving |-> FALSE, related |-> TRUE]
  /\ calls = {}
  /\ \E skills, catalog \in SUBSET Skills, locked \in BOOLEAN :
       server = [rev |-> 1, body |-> 1, skills |-> skills, catalog |-> catalog,
                 locked |-> locked]

(***************************************************************************)
(* The effects that follow a change of the subject, the taxonomy or the row. *)
(***************************************************************************)
Offers(p) == IF p.catalog = "here" /\ p.subject = "own" THEN server.catalog ELSE {}
SubjectsShown(p) == IF p.catalog = "here" THEN EditorSubjects ELSE p.core
Knows(p) == p.subject = "none" \/ p.subject \in SubjectsShown(p)

\* A lesson's subject is compared with the taxonomy whatever has arrived, its
\* skills once the taxonomy is here or has failed; the other editors wait for
\* the taxonomy and, when they edit, for the row; a course has both at once.
LessonSettled(p) == p.catalog # "loading"
FormSettled(p) == p.catalog = "here" /\ (p.editing => p.row # 0)

Settled(p) ==
  \/ p.kind = "lesson" /\ LessonSettled(p)
  \/ p.kind \in {"topic", "library", "newcourse"} /\ FormSettled(p)
  \/ p.kind = "course"

\* Every effect depends on the subject and on the taxonomy, those of a topic and of
\* a library item on the row as well: a lesson whose row has the subject that the
\* form had is not looked at again.
Look(p) ==
  <<p.subject, p.catalog, IF p.kind \in {"topic", "library"} THEN p.row ELSE 0>>

Cleaned(p) ==
  IF Look(p) = Look(screen) THEN p
  ELSE IF ~Knows(p) /\ (p.kind = "lesson" \/ Settled(p))
    THEN [p EXCEPT !.subject = "none", !.skills = {}]
  ELSE [p EXCEPT !.skills = IF Settled(p) THEN p.skills \cap Offers(p) ELSE p.skills]

Editing == screen.open /\ ~screen.loading
CourseShown == screen.kind = "course" => screen.row # 0

(***************************************************************************)
(* Loading.  A course comes together with its modules and the taxonomy.      *)
(***************************************************************************)
FilledForm(p) ==
  [p EXCEPT !.row = server.rev, !.base = server.body, !.locked = server.locked,
            !.mismatch = ~(p.required \subseteq server.skills), !.subject = "own",
            !.skills = server.skills, !.owed = server.skills, !.loading = FALSE]

TaxonomyHere ==
  /\ screen.open /\ screen.kind # "course" /\ screen.catalog = "loading"
  /\ \E outcome \in {"here", "failed"} :
       screen' = Cleaned([screen EXCEPT !.catalog = outcome])
  /\ UNCHANGED <<calls, server>>

RowHere ==
  /\ screen.open /\ screen.loading
  /\ screen' = Cleaned(FilledForm(IF screen.kind = "course"
                                THEN [screen EXCEPT !.catalog = "here"] ELSE screen))
  /\ UNCHANGED <<calls, server>>

\* The message is shown, and an empty form with it; but not for a course.
RowReadFails ==
  /\ screen.open /\ screen.loading
  /\ screen' = [screen EXCEPT !.loading = FALSE]
  /\ UNCHANGED <<calls, server>>

(***************************************************************************)
(* The form.                                                               *)
(***************************************************************************)
MayMutate == screen.kind = "topic" \/ (~screen.locked /\ ~screen.mismatch)

FormInput == Editing /\ CourseShown /\ MayMutate

\* A lesson that is opened for a skill is opened with its scope locked.
PickSubject(s) ==
  /\ FormInput /\ screen.required = {} /\ s \in SubjectsShown(screen) /\ s # screen.subject
  /\ screen' = Cleaned([screen EXCEPT !.subject = s, !.skills = {}, !.owed = {}])
  /\ UNCHANGED <<calls, server>>

TickSkill(k) ==
  /\ FormInput /\ k \in Offers(screen) \ screen.required
  /\ screen' = IF k \in screen.skills
                 THEN [screen EXCEPT !.skills = screen.skills \ {k}, !.owed = screen.owed \ {k}]
                 ELSE [screen EXCEPT !.skills = screen.skills \cup {k},
                                     !.owed = screen.owed \cup {k}]
  /\ UNCHANGED <<calls, server>>

CancelEditor ==
  Editing /\ screen' = [screen EXCEPT !.open = FALSE] /\ UNCHANGED <<calls, server>>

FillForm ==
  \/ \E s \in EditorSubjects : PickSubject(s)
  \/ \E k \in Skills : TickSkill(k)

(***************************************************************************)
(* Saving.  With a row the handler updates it; an editor that could not load  *)
(* the row it was opened on creates another one.                             *)
(***************************************************************************)
Complete == FormInput /\ ~screen.saving /\ screen.subject # "none" /\ screen.skills # {}

SaveForm ==
  /\ screen' = [screen EXCEPT !.saving = TRUE]
  /\ calls' = calls \cup
       {[kind |-> IF screen.row # 0 THEN "update" ELSE "create", expected |-> screen.row,
         base |-> screen.base, skills |-> screen.skills, owed |-> screen.owed,
         answer |-> 0, stage |-> "sent"]}
  /\ UNCHANGED server

\* The code of a topic cannot be typed while it is edited: without its row there
\* is none.
TopicSubmit ==
  Complete /\ screen.catalog = "here" /\ (screen.editing => screen.row # 0) /\ SaveForm

\* A taxonomy that failed leaves no skill to compare the required one with.
LessonSubmit ==
  /\ Complete /\ screen.catalog # "loading"
  /\ screen.required \subseteq screen.skills \cap Offers(screen)
  /\ SaveForm

LibrarySubmit == Complete /\ screen.catalog = "here" /\ SaveForm
CreateCourse == Complete /\ screen.catalog = "here" /\ SaveForm
SaveSettings == Complete /\ SaveForm

\* The links of a topic, and the modules of a course and their lessons.
Relate ==
  /\ FormInput /\ ~screen.saving /\ screen.row # 0
  /\ screen' = [screen EXCEPT !.saving = TRUE]
  /\ calls' = calls \cup
       {[kind |-> "relate", expected |-> screen.row, base |-> screen.base, skills |-> {},
         owed |-> {}, answer |-> 0, stage |-> "sent"]}
  /\ UNCHANGED server

LinkTopic == Relate          \* linkLesson, unlinkLesson, linkLibrary, unlinkLibrary
WriteModules == Relate       \* addModule, saveModule, attachLesson, removeLesson

(***************************************************************************)
(* What each editor offers.  The tabs of a course share one form, and the     *)
(* lists of its files and assessments are saved with it.                     *)
(***************************************************************************)
TopicEditor == screen.kind = "topic" /\ (FillForm \/ TopicSubmit \/ LinkTopic)
LessonEditor == screen.kind = "lesson" /\ (FillForm \/ LessonSubmit)
LibraryEditor == screen.kind = "library" /\ (FillForm \/ LibrarySubmit)
CoursePanel == screen.kind = "newcourse" /\ (FillForm \/ CreateCourse)
CourseSettings == screen.kind = "course" /\ (FillForm \/ SaveSettings)
CourseAttachments == screen.kind = "course" /\ SaveSettings
CourseCurriculum == screen.kind = "course" /\ WriteModules

(***************************************************************************)
(* The server compares the revision; others write the same row.             *)
(***************************************************************************)
EditorStored(c) ==
  /\ c.stage = "sent" /\ (c.kind = "create" \/ server.rev < MaxRev)
  /\ IF c.kind = "create"
       THEN server' = server /\ Advances(c, "ok")
     ELSE IF c.expected # server.rev
       THEN server' = server /\ Advances(c, "refused")
     ELSE /\ server' = [server EXCEPT !.rev = @ + 1,
                          !.body = IF c.kind = "update" THEN server.rev + 1 ELSE @,
                          !.skills = IF c.kind = "update" THEN c.skills ELSE @]
          /\ calls' = (calls \ {c}) \cup
               {[c EXCEPT !.stage = "ok", !.answer = server.rev + 1]}
  /\ UNCHANGED screen

AnotherWrites ==
  /\ server.rev < MaxRev
  /\ \E skills \in SUBSET Skills :
       server' = [server EXCEPT !.rev = @ + 1, !.body = server.rev + 1, !.skills = skills]
  /\ UNCHANGED <<screen, calls>>

(***************************************************************************)
(* The answers.  A closed editor ignores them.                              *)
(***************************************************************************)
\* A course is filled from the answer, what was typed meanwhile included; the
\* other editors close.
EditorSaveDone(c) ==
  /\ c.kind # "relate" /\ c.stage = "ok"
  /\ screen' = IF ~screen.open THEN screen
               ELSE IF screen.kind = "course"
                 THEN Cleaned([screen EXCEPT !.row = c.answer, !.base = c.answer,
                        !.subject = "own", !.skills = c.skills, !.owed = c.skills,
                        !.saving = FALSE])
               ELSE [screen EXCEPT !.open = FALSE, !.saving = FALSE]
  /\ Ended(c) /\ UNCHANGED server

Adopts(p, c) == [p EXCEPT !.row = c.answer]

\* The revision of the answer, then the links or modules are read again.
RelateDone(c) ==
  /\ c.kind = "relate" /\ c.stage = "ok"
  /\ screen' = [Adopts(screen, c) EXCEPT !.related = FALSE]
  /\ Advances(c, "refresh") /\ UNCHANGED server

RelateRefreshed(c) ==
  /\ c.stage = "refresh"
  /\ \E here \in BOOLEAN :
       screen' = [screen EXCEPT !.saving = FALSE, !.related = screen.related \/ here]
  /\ Ended(c) /\ UNCHANGED server

\* Refused, or the request or its answer was lost.
EditorCallFails(c) ==
  /\ c.stage # "refresh"
  /\ screen' = [screen EXCEPT !.saving = FALSE]
  /\ Ended(c) /\ UNCHANGED server

EditorNext ==
  \/ TaxonomyHere \/ RowHere \/ RowReadFails \/ CancelEditor \/ AnotherWrites
  \/ TopicEditor \/ LessonEditor \/ LibraryEditor \/ CoursePanel
  \/ CourseSettings \/ CourseAttachments \/ CourseCurriculum
  \/ \E c \in calls :
       \/ EditorStored(c) \/ EditorSaveDone(c) \/ RelateDone(c) \/ RelateRefreshed(c)
       \/ EditorCallFails(c)

EditorSpec == EditorInit /\ [][EditorNext]_tabVars

(***************************************************************************)
(* Properties                                                              *)
(***************************************************************************)
\* A save sends the skills the row was loaded with, as the administrator ticked
\* them since: in whatever order the row and the taxonomy arrived, none that the
\* catalog knows was erased against a catalog or a subject that was not there yet,
\* and none came from elsewhere.  Skills the catalog does not know are sent by a
\* lesson only, whose taxonomy was settled before its row came.
LinksKept ==
  Mounted("editor") =>
    \A c \in calls : c.kind # "relate" /\ c.stage = "sent" =>
      /\ c.owed \cap server.catalog \subseteq c.skills
      /\ c.skills \subseteq c.owed
      /\ screen.kind # "lesson" => c.skills \subseteq server.catalog

\* A save that the server would accept was typed over the row as it is: the
\* revision it sends is never newer than what the form was filled from, though
\* the editor takes over the revision of every link and module it wrote since.
NoBlindOverwrite ==
  Mounted("editor") =>
    \A c \in calls : c.kind = "update" /\ c.stage = "sent" /\ c.expected = server.rev =>
      c.base = server.body
=============================================================================
