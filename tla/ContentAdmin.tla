---------------------------- MODULE ContentAdmin ----------------------------
(***************************************************************************)
(* The lists of courses, lessons, foundation topics and library items       *)
(* (features/content/pages/ContentAdminPage.tsx): filters, a search that is  *)
(* applied after a pause, pages, the actions of a row, and the editors that   *)
(* replace the list while they are open (ContentEditors).                    *)
(*                                                                         *)
(* Of the rows the model keeps which view they were asked for and how many   *)
(* writes the server had taken when it read them.                           *)
(***************************************************************************)
EXTENDS BrowserTab

CONSTANTS
  Tabs,          \* the tabs, of courses, lessons, foundation and library, each with its editor
  ContentRows,   \* the rows of a page
  Searches,      \* what may be typed
  MaxPage,       \* bound: the last page
  MaxChanges     \* bound: how many writes are begun

ASSUME ContentAdminAssumption ==
  "courses" \in Tabs /\ Searches # {} /\ MaxPage \in Nat \ {0} /\ MaxChanges \in Nat \ {0}

Filters == {"all", "exact"}              \* no path or no subject chosen; both
ContentViews == [tab : Tabs, page : 1..MaxPage, filter : Filters, search : Searches]
Nowhere == [tab |-> "none", page |-> 0, filter |-> "none", search |-> "none"]
NoRows == [view |-> Nowhere, age |-> 0, more |-> FALSE]
StoredWrites == 0..(2 * MaxChanges)
ContentEditor == Tabs \cup {"newcourse", "none"}

ContentTypeOK ==
  Mounted("content") =>
    /\ screen \in
         [page : {"content"}, teacher : BOOLEAN, view : ContentViews, typed : Searches,
          pause : BOOLEAN, loaded : ContentViews \cup {Nowhere}, loading : BOOLEAN,
          rows : [view : ContentViews \cup {Nowhere}, age : StoredWrites, more : BOOLEAN],
          editor : ContentEditor, mutating : [Tabs -> ContentRows \cup {"none"}],
          made : 0..MaxChanges, confirmed : StoredWrites]
    /\ server \in StoredWrites

\* The topics are the administrator's.
TabsFor(teacher) == IF teacher THEN Tabs \ {"foundation"} ELSE Tabs

(***************************************************************************)
(* The list.  Its effect runs when the view or the reload key changed: it    *)
(* aborts the request under way, clears the rows and asks again.  A teacher   *)
(* sees nothing until a path and a subject are chosen.                       *)
(***************************************************************************)
ListReads == {c \in calls : c.kind = "list"}
Waiting(p) == p.teacher /\ p.view.filter = "all"
FreshList(v) == [kind |-> "list", view |-> v, age |-> -1]

\* The loaded scope is compared with the view alone, and until the answer comes
\* the list is loading and empty whether the two agree or not: it is dropped here.
Refetch(p, over) ==
  /\ screen' = [p EXCEPT !.rows = NoRows, !.loaded = Nowhere, !.loading = ~Waiting(p)]
  /\ calls' = (calls \ (over \cup ListReads))
                \cup (IF Waiting(p) THEN {} ELSE {FreshList(p.view)})

ShowView(p, v) ==
  /\ IF v = screen.view THEN screen' = p /\ UNCHANGED calls
                        ELSE Refetch([p EXCEPT !.view = v], {})
  /\ UNCHANGED server

ContentInit ==
  /\ \E teacher \in BOOLEAN, search \in Searches : \E tab \in TabsFor(teacher) :
       LET v == [tab |-> tab, page |-> 1, filter |-> "all", search |-> search]
       IN /\ screen = [page |-> "content", teacher |-> teacher, view |-> v, typed |-> search,
                       pause |-> FALSE, loaded |-> Nowhere, loading |-> ~teacher,
                       rows |-> NoRows, editor |-> "none",
                       mutating |-> [t \in Tabs |-> "none"], made |-> 0, confirmed |-> 0]
          /\ calls = IF teacher THEN {} ELSE {FreshList(v)}
  /\ server = 0

ListRead(c) ==
  /\ c.kind = "list" /\ c.age = -1
  /\ calls' = (calls \ {c}) \cup {[c EXCEPT !.age = server]}
  /\ UNCHANGED <<screen, server>>

ListArrives(c) ==
  /\ c.kind = "list" /\ c.age # -1
  /\ \E more \in BOOLEAN :
       screen' = [screen EXCEPT !.loading = FALSE, !.loaded = c.view,
                    !.rows = [view |-> c.view, age |-> c.age, more |-> more]]
  /\ Ended(c) /\ UNCHANGED server

ListFails(c) ==
  /\ c.kind = "list"
  /\ screen' = [screen EXCEPT !.loading = FALSE, !.loaded = c.view, !.rows = NoRows]
  /\ Ended(c) /\ UNCHANGED server

\* FAULTY: rows stay on the screen while a new search is being typed.
ShownWhileTyping == IF screen.loaded = screen.view THEN screen.rows ELSE NoRows

\* scopedRows: nothing while the search is ahead of the list, or the list is of
\* another view.
ShownRows ==
  IF screen.typed = screen.view.search /\ screen.loaded = screen.view
    THEN screen.rows ELSE NoRows

ListLoading ==
  screen.typed # screen.view.search \/ screen.loading \/ screen.loaded # screen.view

(***************************************************************************)
(* Moving between views.                                                   *)
(***************************************************************************)
ListOpen == screen.editor = "none"

ChooseTab(t) ==
  ListOpen /\ t \in TabsFor(screen.teacher) /\ ShowView(screen, [screen.view EXCEPT !.tab = t, !.page = 1])

\* The address changed, by the browser's back button: the page is kept.
AddressTab(t) ==
  /\ t # screen.view.tab /\ t \in TabsFor(screen.teacher)
  /\ ShowView(screen, [screen.view EXCEPT !.tab = t])

ChooseFilter(f) ==
  ListOpen /\ ShowView(screen, [screen.view EXCEPT !.filter = f, !.page = 1])

TypeSearch(s) ==
  /\ ListOpen /\ s # screen.typed
  /\ screen' = [screen EXCEPT !.typed = s, !.pause = TRUE]
  /\ UNCHANGED <<calls, server>>

PauseOver ==
  /\ screen.pause
  /\ ShowView([screen EXCEPT !.pause = FALSE],
              [screen.view EXCEPT !.search = screen.typed, !.page = 1])

Paging ==
  /\ ListOpen /\ ~Waiting(screen) /\ ~ListLoading
  /\ \/ /\ screen.view.page > 1
        /\ ShowView(screen, [screen.view EXCEPT !.page = @ - 1])
     \/ /\ ShownRows.more /\ screen.view.page < MaxPage
        /\ ShowView(screen, [screen.view EXCEPT !.page = @ + 1])

PressRefresh == ListOpen /\ Refetch(screen, {}) /\ UNCHANGED server

(***************************************************************************)
(* The actions of a row: workflow and publication, with the row's revision.  *)
(* "steps": how many requests are left; preparing a course sends two.  What    *)
(* the buttons of a row may do is not decided by its status here: any status   *)
(* may be the row's.                                                        *)
(***************************************************************************)
MayAct(r, t) ==
  /\ ListOpen /\ ShownRows # NoRows /\ screen.view.tab = t
  /\ screen.mutating[t] # r

RowAction(r, t, steps) ==
  /\ MayAct(r, t) /\ screen.made < MaxChanges
  /\ screen' = [screen EXCEPT !.made = @ + 1, !.mutating[t] = r]
  /\ calls' = calls \cup {[kind |-> "row", n |-> screen.made, tab |-> t, steps |-> steps]}
  /\ UNCHANGED server

EditRow(r, t) ==
  /\ MayAct(r, t)
  /\ screen' = [screen EXCEPT !.editor = t]
  /\ UNCHANGED <<calls, server>>

SetCourseWorkflow(r) == RowAction(r, "courses", 1)
TogglePublication(r) == RowAction(r, "courses", 1)
PrepareCourse(r) == \E n \in 1..2 : RowAction(r, "courses", n)
SetLessonWorkflow(r) == RowAction(r, "lessons", 1)
SetLibraryWorkflow(r) == RowAction(r, "library", 1)

CourseActions(r) ==
  EditRow(r, "courses") \/ SetCourseWorkflow(r) \/ TogglePublication(r) \/ PrepareCourse(r)
LessonActions(r) == EditRow(r, "lessons") \/ SetLessonWorkflow(r)
LibraryActions(r) == EditRow(r, "library") \/ SetLibraryWorkflow(r)
TopicActions(r) == EditRow(r, "foundation")

FirstStepDone(c) ==
  /\ c.kind = "row" /\ c.steps = 2
  /\ calls' = (calls \ {c}) \cup {[c EXCEPT !.steps = 1]}
  /\ server' = server + 1 /\ UNCHANGED screen

Took(p) == [p EXCEPT !.confirmed = server + 1]

SettledReload(p, over) == Refetch(p, over)

RowDone(c) ==
  /\ c.kind = "row" /\ c.steps = 1
  /\ SettledReload(Took([screen EXCEPT !.mutating[c.tab] = "none"]), {c})
  /\ server' = server + 1

\* Refused or lost, in the second step of two as well: nothing is read again.
RowWriteFails(c) ==
  /\ c.kind = "row"
  /\ screen' = [screen EXCEPT !.mutating[c.tab] = "none"]
  /\ Ended(c) /\ server' \in {server, server + 1}

(***************************************************************************)
(* Editors: one replaces the list.                                          *)
(***************************************************************************)
Creating == IF screen.view.tab = "courses" THEN "newcourse" ELSE screen.view.tab

OpenEditor ==
  /\ ListOpen
  /\ ~Waiting(screen)
  /\ screen' = [screen EXCEPT !.editor = Creating]
  /\ UNCHANGED <<calls, server>>

LeaveEditor ==
  /\ screen.editor # "none"
  /\ screen' = [screen EXCEPT !.editor = "none"]
  /\ UNCHANGED <<calls, server>>

EditorSaves ==
  /\ screen.editor # "none" /\ screen.made < MaxChanges
  /\ screen' = [screen EXCEPT !.made = @ + 1]
  /\ calls' = calls \cup {[kind |-> "editor", n |-> screen.made, editor |-> screen.editor]}
  /\ UNCHANGED server

\* onSaved closes the editor of its kind that is open by now, and shows the
\* first page of its tab; onChanged of a course only reloads the list.
EditorSaved(c) ==
  LET tab == IF c.editor = "newcourse" THEN "courses" ELSE c.editor
      closed == [screen EXCEPT !.editor = IF @ = c.editor THEN "none" ELSE @,
                               !.view.tab = tab, !.view.page = 1]
  IN /\ c.kind = "editor"
     /\ SettledReload(Took(IF c.editor = "courses" THEN screen ELSE closed), {c})
     /\ server' = server + 1

EditorSaveFails(c) ==
  /\ c.kind = "editor" /\ Ended(c) /\ UNCHANGED screen
  /\ server' \in {server, server + 1}

ContentNext ==
  \/ \E t \in Tabs : ChooseTab(t) \/ AddressTab(t)
  \/ \E f \in Filters : ChooseFilter(f)
  \/ \E s \in Searches : TypeSearch(s)
  \/ PauseOver \/ Paging \/ PressRefresh \/ OpenEditor \/ LeaveEditor \/ EditorSaves
  \/ \E r \in ContentRows :
       CourseActions(r) \/ LessonActions(r) \/ LibraryActions(r) \/ TopicActions(r)
  \/ \E c \in calls :
       \/ ListRead(c) \/ ListArrives(c) \/ ListFails(c)
       \/ FirstStepDone(c) \/ RowDone(c) \/ RowWriteFails(c)
       \/ EditorSaved(c) \/ EditorSaveFails(c)

ContentSpec == ContentInit /\ [][ContentNext]_tabVars

(***************************************************************************)
(* Properties                                                              *)
(***************************************************************************)
\* The rows that offer their actions are those of the view on the screen, of
\* the search as it is typed, and not older than the last write whose success
\* the page has heard of: no action is taken on a row of an earlier query, nor
\* with a revision the page knows to be outdated.  A course whose preparation
\* failed after its first request is excepted: it stays as it was.
RowsMatchView ==
  Mounted("content") /\ ShownRows # NoRows =>
    /\ ShownRows.view = [screen.view EXCEPT !.search = screen.typed]
    /\ ShownRows.age >= screen.confirmed
=============================================================================
