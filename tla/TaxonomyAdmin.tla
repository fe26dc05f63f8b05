--------------------------- MODULE TaxonomyAdmin ---------------------------
(***************************************************************************)
(* The administration of paths, levels, subjects and skills                *)
(* (features/taxonomy/pages/TaxonomyAdminPage.tsx).  The page loads the      *)
(* taxonomy and, beside it, lists of courses, packages, assessments and      *)
(* library items; every write is followed by a reload of all of them.  In    *)
(* the workspace of a subject it also loads the subject's foundation topics. *)
(*                                                                         *)
(* Of the rows only their age is kept: how many writes the server had taken *)
(* when they were read.  Which tab of a path is open hides buttons and       *)
(* nothing else, so the tabs of a path are not told apart.                   *)
(***************************************************************************)
EXTENDS BrowserTab

CONSTANTS
  Paths, Subjects,   \* the rows of the taxonomy
  PathOf,            \* [Subjects -> Paths]
  MaxWrites          \* bound: how many writes the administrator begins

None == "none"
Parts == {"taxonomy", "lists"}

ASSUME TaxonomyAssumption ==
  /\ PathOf \in [Subjects -> Paths] /\ MaxWrites \in Nat \ {0} /\ Paths # {}
  /\ Subjects \cap (Parts \cup {None}) = {}

Emptied == -1                       \* a list whose request failed is shown empty
Dialogs == {"path", "level", "subject", "skill", "package", "mock", "library", "delete"}
Age == Emptied..MaxWrites
NoTopics == [of |-> None, at |-> 0]

TaxonomyTypeOK ==
  Mounted("taxonomy") =>
    /\ screen \in
         [page : {"taxonomy"}, data : [Parts -> Age], busy : BOOLEAN,
          pending : Dialogs \cup {None, "toggle"}, error : BOOLEAN,
          path : Paths \cup {None}, subject : Subjects \cup {None},
          tab : {"foundation", "skills", "other"}, dialog : Dialogs \cup {None},
          topics : [of : Subjects \cup {None}, at : Age], editor : BOOLEAN,
          made : 0..MaxWrites, confirmed : [Parts \cup Subjects -> 0..MaxWrites]]
    /\ server \in [Parts \cup Subjects -> 0..MaxWrites]

\* A request for the topics of a subject; its answer, once the server has read.
TopicsCall(subject) == [kind |-> "topics", subject |-> subject, at |-> Emptied]
FreshLoad == [kind |-> "load", taxonomy |-> Emptied, lists |-> Emptied, here |-> FALSE]

\* The address of the page names the path, the subject and the tab.
TaxonomyInit ==
  \E path \in Paths \cup {None}, tab \in {"foundation", "skills", "other"} :
    \E subject \in {None} \cup {s \in Subjects : PathOf[s] = path} :
      /\ screen = [page |-> "taxonomy", data |-> [part \in Parts |-> Emptied], busy |-> TRUE,
                   pending |-> None, error |-> FALSE, path |-> path, subject |-> subject,
                   tab |-> tab, dialog |-> None, topics |-> NoTopics, editor |-> FALSE,
                   made |-> 0, confirmed |-> [x \in Parts \cup Subjects |-> 0]]
      /\ calls = {FreshLoad} \cup
                   {TopicsCall(s) : s \in {subject} \ (IF tab = "other" THEN {subject} ELSE {None})}
      /\ server = [x \in Parts \cup Subjects |-> 0]

(***************************************************************************)
(* Loading.  A load is one request for the taxonomy and four for the lists  *)
(* ("here": the taxonomy's answer has arrived).  A new load aborts the one   *)
(* under way; if the taxonomy of that one had arrived, the aborted lists are *)
(* caught as empty ones and its then() still runs.                          *)
(***************************************************************************)
Loads == {c \in calls : c.kind = "load"}

Restart(p, over) ==
  LET left == {c \in Loads : c.here}
      data == IF left = {} THEN p.data
              ELSE [taxonomy |-> (CHOOSE c \in left : TRUE).taxonomy, lists |-> Emptied]
  IN /\ screen' = [p EXCEPT !.busy = TRUE, !.error = FALSE, !.data = data]
     /\ calls' = (calls \ (over \cup Loads)) \cup {FreshLoad}

PressReload ==
  /\ screen.subject = None /\ screen.dialog = None
  /\ Restart(screen, {}) /\ UNCHANGED server

\* The requests are read together: any later write of this tab aborts them all.
ServerReads(c) ==
  /\ c.kind = "load" /\ c.taxonomy = Emptied
  /\ calls' = (calls \ {c}) \cup
       {[c EXCEPT !.taxonomy = server["taxonomy"], !.lists = server["lists"]]}
  /\ UNCHANGED <<screen, server>>

TaxonomyArrives(c) ==
  /\ c.kind = "load" /\ c.taxonomy # Emptied /\ ~c.here
  /\ calls' = (calls \ {c}) \cup {[c EXCEPT !.here = TRUE]}
  /\ UNCHANGED <<screen, server>>

\* All five are settled.  A path that is not in the answer gives way to the
\* first one; every path of this model is.
LoadArrives(c) ==
  /\ c.kind = "load" /\ c.here
  /\ \E lists \in {c.lists, Emptied} : \E first \in Paths :
       screen' = [screen EXCEPT !.busy = FALSE,
                    !.data = [taxonomy |-> c.taxonomy, lists |-> lists],
                    !.path = IF screen.path = None THEN first ELSE screen.path]
  /\ Ended(c) /\ UNCHANGED server

LoadFails(c) ==
  /\ c.kind = "load" /\ ~c.here
  /\ screen' = [screen EXCEPT !.busy = FALSE, !.error = TRUE]
  /\ Ended(c) /\ UNCHANGED server

(***************************************************************************)
(* The foundation topics of the subject on the screen.  They are loaded on   *)
(* its foundation and skills tabs; leaving the subject or the tab aborts.    *)
(***************************************************************************)
Topics == {c \in calls : c.kind = "topics"}

\* isCurrent(): the scope is the one on the screen (an aborted call is gone).
TopicsCurrent(c) == screen.subject = c.subject

\* The taxonomy is here, and with it the selected path; and the subject.
Filled == screen.data["taxonomy"] # Emptied
Working == Filled /\ screen.subject # None /\ screen.path = PathOf[screen.subject]

\* loadSubjectFoundation of the scope subject.
TopicsLoad(p, subject, rest) ==
  IF p.subject # subject THEN screen' = p /\ calls' = rest
  ELSE /\ screen' = [p EXCEPT !.topics = NoTopics]
       /\ calls' = (rest \ Topics) \cup {TopicsCall(subject)}

\* Another path, subject or tab: the reset and the abort, and the load the
\* new tab asks for.
Rescope(path, subject, tab) ==
  LET moved == <<path, subject>> # <<screen.path, screen.subject>>
      p == [screen EXCEPT !.path = path, !.subject = subject, !.tab = tab,
              !.topics = IF moved THEN NoTopics ELSE screen.topics,
              !.editor = screen.editor /\ ~moved]
  IN /\ IF subject # None /\ tab # "other"
          THEN TopicsLoad(p, subject, calls)
          ELSE screen' = p /\ calls' = calls \ Topics
     /\ UNCHANGED server

ServerReadsTopics(c) ==
  /\ c.kind = "topics" /\ c.at = Emptied
  /\ calls' = (calls \ {c}) \cup {[c EXCEPT !.at = server[c.subject]]}
  /\ UNCHANGED <<screen, server>>

\* A list that could not be read is shown as an empty one.
TopicsArrive(c) ==
  /\ c.kind = "topics"
  /\ \E topics \in {NoTopics} \cup
                   {[of |-> c.subject, at |-> c.at] : x \in {c.at} \ {Emptied}} :
       screen' = IF TopicsCurrent(c) THEN [screen EXCEPT !.topics = topics] ELSE screen
  /\ Ended(c) /\ UNCHANGED server

(***************************************************************************)
(* Writes.  run() shows its key as pending and reloads when it succeeded;    *)
(* the handlers that are written out in the buttons use busy instead.        *)
(***************************************************************************)
Write(part, style, dialog) ==
  [kind |-> "write", part |-> part, style |-> style, dialog |-> dialog,
   n |-> screen.made + 1]

Begin(p, c) ==
  /\ screen.made < MaxWrites
  /\ screen' = [p EXCEPT !.made = screen.made + 1]
  /\ calls' = calls \cup {c}
  /\ UNCHANGED server

\* run(key, ...): close says which dialog the caller closes, and when.
Run(p, key, part, style, dialog) ==
  Begin([p EXCEPT !.pending = key, !.error = FALSE], Write(part, style, dialog))

\* The handlers in the mock exam, library and subject settings buttons.
RunInline(part, dialog) ==
  Begin([screen EXCEPT !.busy = TRUE], Write(part, "inline", dialog))

\* The server takes the write, and the page hears of it.
Stored(c) == server' = [server EXCEPT ![c.part] = server[c.part] + 1]
Confirm(p, c) == [p EXCEPT !.confirmed[c.part] = server[c.part] + 1]

\* The dialog that closes is the one that is open by now.
Closed(p, c) == IF p.dialog = c.dialog THEN [p EXCEPT !.dialog = None] ELSE p
Unpended(p, c) == IF c.style = "inline" THEN p ELSE [p EXCEPT !.pending = None]

WriteConfirmed(c) ==
  /\ c.kind = "write"
  /\ Restart(Unpended(Closed(Confirm(screen, c), c), c), {c})
  /\ Stored(c)

\* Refused, or the request or its answer was lost.
WriteFails(c) ==
  LET failed == [Unpended(screen, c) EXCEPT !.error = TRUE]
  IN /\ c.kind = "write"
     /\ screen' = CASE c.style = "inline" -> [failed EXCEPT !.busy = FALSE]
                    [] c.style = "always" -> Closed(failed, c)
                    [] OTHER              -> failed
     /\ Ended(c) /\ (Stored(c) \/ UNCHANGED server)

(***************************************************************************)
(* Dialogs: each opens filled from a row or empty, and covers the page.      *)
(***************************************************************************)
AtPath == Filled /\ screen.path # None /\ ~Working /\ screen.dialog = None
AtSubject == Working /\ screen.dialog = None

OpenDialog(d) == screen' = [screen EXCEPT !.dialog = d] /\ UNCHANGED <<calls, server>>
CloseDialog(d) ==
  screen.dialog = d /\ screen' = [screen EXCEPT !.dialog = None] /\ UNCHANGED <<calls, server>>

SavePath == Run(screen, "path", "taxonomy", "ifsaved", "path")
PathDialog ==
  CloseDialog("path") \/ (screen.dialog = "path" /\ screen.pending # "path" /\ SavePath)

SaveLevel == screen.path # None /\ Run(screen, "level", "taxonomy", "ifsaved", "level")
LevelDialog ==
  CloseDialog("level") \/ (screen.dialog = "level" /\ screen.pending # "level" /\ SaveLevel)

SaveSubject == screen.path # None /\ Run(screen, "subject", "taxonomy", "ifsaved", "subject")
SubjectDialog ==
  \/ CloseDialog("subject")
  \/ screen.dialog = "subject" /\ screen.pending # "subject" /\ SaveSubject

\* Closes when the write has failed as well.
SaveSkill == screen.subject # None /\ Run(screen, "skill", "taxonomy", "always", "skill")
SkillDialog ==
  CloseDialog("skill") \/ (screen.dialog = "skill" /\ ~screen.busy /\ SaveSkill)

CreatePathPackage == screen.path # None /\ Run(screen, "package", "lists", "always", "package")
PackageDialog ==
  \/ CloseDialog("package")
  \/ screen.dialog = "package" /\ screen.pending # "package" /\ CreatePathPackage

MockDialog ==
  CloseDialog("mock") \/ (screen.dialog = "mock" /\ ~screen.busy /\ RunInline("lists", "mock"))

LibraryDialog ==
  \/ CloseDialog("library")
  \/ screen.dialog = "library" /\ ~screen.busy /\ RunInline("lists", "library")

\* The status of a row, from its selector or as the archiving of the dialog.
PatchStatus(p, row) == Run(p, row, "taxonomy", "ifsaved", None)

DeleteDialog ==
  \/ CloseDialog("delete")
  \/ /\ screen.dialog = "delete" /\ ~screen.busy
     /\ \E row \in {"path", "level", "subject", "skill"} :
          PatchStatus([screen EXCEPT !.dialog = None], row)

(***************************************************************************)
(* The workspace of a path, and of a subject.                               *)
(***************************************************************************)
PageHeader == screen.dialog = None /\ ~Working /\ OpenDialog("path")

SelectPath(p) == AtPath /\ Rescope(p, None, screen.tab)

PathCard ==
  AtPath /\ (OpenDialog("path") \/ OpenDialog("delete") \/ PatchStatus(screen, "path"))

OpenSubject(s) == AtPath /\ screen.path = PathOf[s] /\ Rescope(screen.path, s, "other")

SubjectsTab ==
  AtPath /\ (OpenDialog("subject") \/ OpenDialog("delete") \/ PatchStatus(screen, "subject"))

LevelsTab ==
  AtPath /\ (OpenDialog("level") \/ OpenDialog("delete") \/ PatchStatus(screen, "level"))

\* Publishing sends the revision the list showed.
MockExamsTab == AtPath /\ (OpenDialog("mock") \/ RunInline("lists", None))

PackagesTab == AtPath /\ OpenDialog("package")

TogglePathSetting == Run(screen, "toggle", "taxonomy", "ifsaved", None)
PathSettingsTab == AtPath /\ TogglePathSetting

LeaveSubject == AtSubject /\ Rescope(screen.path, None, screen.tab)

SubjectTabs(tab) == AtSubject /\ tab # screen.tab /\ Rescope(screen.path, screen.subject, tab)

SkillsTab ==
  /\ AtSubject /\ screen.tab = "skills"
  /\ OpenDialog("skill") \/ OpenDialog("delete") \/ PatchStatus(screen, "skill")

LibraryTab == AtSubject /\ screen.tab = "other" /\ OpenDialog("library")

SettingsTab ==
  AtSubject /\ screen.tab = "other" /\ (RunInline("taxonomy", None) \/ OpenDialog("delete"))

\* The editor of a topic opens, is cancelled, or saves: its onSaved belongs to
\* the subject it was opened for, whatever is on the screen by then.
FoundationTab ==
  /\ AtSubject /\ screen.tab = "foundation"
  /\ \/ /\ screen' = [screen EXCEPT !.editor = ~screen.editor]
        /\ UNCHANGED <<calls, server>>
     \/ /\ screen.editor
        /\ Begin(screen, [kind |-> "topic", part |-> screen.subject,
                          n |-> screen.made + 1])

TopicSaved(c) ==
  /\ c.kind = "topic"
  /\ TopicsLoad([Confirm(screen, c) EXCEPT !.editor = FALSE], c.part, calls \ {c})
  /\ Stored(c)

TopicFails(c) ==
  c.kind = "topic" /\ Ended(c) /\ (Stored(c) \/ UNCHANGED server) /\ UNCHANGED screen

TaxonomyNext ==
  \/ PressReload \/ PageHeader \/ PathCard \/ SubjectsTab \/ LevelsTab \/ MockExamsTab
  \/ PackagesTab \/ PathSettingsTab \/ LeaveSubject \/ SkillsTab \/ LibraryTab
  \/ SettingsTab \/ FoundationTab
  \/ \E p \in Paths : SelectPath(p)
  \/ \E s \in Subjects : OpenSubject(s)
  \/ \E tab \in {"foundation", "skills", "other"} : SubjectTabs(tab)
  \/ PathDialog \/ LevelDialog \/ SubjectDialog \/ SkillDialog \/ PackageDialog
  \/ MockDialog \/ LibraryDialog \/ DeleteDialog
  \/ \E c \in calls :
       \/ ServerReads(c) \/ TaxonomyArrives(c) \/ LoadArrives(c) \/ LoadFails(c)
       \/ ServerReadsTopics(c) \/ TopicsArrive(c)
       \/ WriteConfirmed(c) \/ WriteFails(c)
       \/ TopicSaved(c) \/ TopicFails(c)

TaxonomySpec == TaxonomyInit /\ [][TaxonomyNext]_tabVars

(***************************************************************************)
(* Properties                                                              *)
(***************************************************************************)
\* When nothing is under way and no error is shown, the page shows every write
\* whose success it has announced: the taxonomy is at least as new as the last
\* of them.  A list may be empty instead, since a failed request for it is not
\* reported.
SettledShowsWrites ==
  Mounted("taxonomy") /\ ~screen.error /\ {c \in calls : c.kind \in {"load", "write"}} = {} =>
    /\ screen.data["taxonomy"] >= screen.confirmed["taxonomy"]
    /\ screen.data["lists"] \in {Emptied} \cup screen.confirmed["lists"]..MaxWrites

\* The topics on the screen are those of the subject on the screen, and not
\* older than the last save of one of them that was announced, however the
\* administrator moved between subjects and tabs while lists and saves were
\* under way.
TopicsAreTheSubjects ==
  Mounted("taxonomy") /\ screen.topics # NoTopics =>
    /\ screen.topics.of = screen.subject
    /\ screen.topics.at >= screen.confirmed[screen.subject]
=============================================================================
