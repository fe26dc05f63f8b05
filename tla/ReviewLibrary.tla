---------------------------- MODULE ReviewLibrary ----------------------------
(***************************************************************************)
(* apps/web/src/features/learning/pages/ReviewLibraryPage.tsx: the questions   *)
(* a learner saved, and those answered wrongly, by path, subject and page,     *)
(* one at a time.  A star saves the question for review or takes it back.      *)
(*                                                                         *)
(* The mastery of the skills, the next action and the readiness are read       *)
(* together with the list and come or fail with it.  Whether the answer of a   *)
(* question is unfolded is left out.  The goals are in MasteryGoals.           *)
(***************************************************************************)
EXTENDS BrowserTab

CONSTANTS
  ReviewPaths, ReviewSubjects,   \* the paths, and the subjects of each
  CardSubject,                   \* the subject of each question
  Mistakes,                      \* has_mistake, or of the type error_recovery
  SavedOnly,                     \* of the type saved_review, and no mistake
  ReviewPageSize,                \* 20
  MaxToggles

Cards == DOMAIN CardSubject
ReviewTabs == {"saved", "mistakes"}
SubjectsOfPaths == UNION {ReviewSubjects[p] : p \in ReviewPaths}

ASSUME ReviewLibraryAssumption ==
  /\ Mistakes \subseteq Cards /\ SavedOnly \subseteq Cards \ Mistakes
  /\ MaxToggles \in Nat /\ ReviewPageSize \in Nat \ {0}
  /\ CardSubject \in Seq(SubjectsOfPaths)

ReviewPages == 1..Cardinality(Cards)
SelectedView == [path : ReviewPaths \cup {"none"}, subject : SubjectsOfPaths \cup {"all"},
                 tab : ReviewTabs, pageNo : ReviewPages]
ReviewRow == [card : Cards, saved : BOOLEAN]
ReviewRows == UNION {[1..n -> ReviewRow] : n \in 0..Cardinality(Cards)}

\* server is the table review_cards of the learner, latest updated_at first.
ReviewTypeOK ==
  Mounted("review") =>
    /\ screen \in
         [page : {"review"}, view : SelectedView, known : BOOLEAN, rows : ReviewRows,
          index : Cards, more : BOOLEAN, busy : BOOLEAN, failed : BOOLEAN,
          saving : Cards \cup {0}, lost : BOOLEAN, toggles : 0..MaxToggles]
    /\ server \in ReviewRows
    /\ \A i, j \in DOMAIN server : server[i].card = server[j].card => i = j

(***************************************************************************)
(* What the server lists and writes.                                         *)
(***************************************************************************)
SubjectsIn(path) == IF path = "none" THEN SubjectsOfPaths ELSE ReviewSubjects[path]

OfSelected(row, v) == /\ CardSubject[row.card] \in ReviewSubjects[v.path]
                      /\ v.subject \in {"all", CardSubject[row.card]}
                      /\ IF v.tab = "saved" THEN row.saved ELSE row.card \in Mistakes

\* What the list of a view has of the table, by place; and the place that so many of
\* them are before.
ReviewPlaces(v, table) == {i \in DOMAIN table : OfSelected(table[i], v)}
PlaceAfter(n, places) == CHOOSE i \in places : Cardinality({j \in places : j < i}) = n

ReviewRowsOf(v, table) ==
  LET places == ReviewPlaces(v, table)
      before == (v.pageNo - 1) * ReviewPageSize
      left   == Cardinality(places) - before
  IN [k \in 1..(IF left < ReviewPageSize THEN left ELSE ReviewPageSize) |->
        table[PlaceAfter(before + k - 1, places)]]

MoreThan(v, table) == Cardinality(ReviewPlaces(v, table)) > v.pageNo * ReviewPageSize

\* The card has one row.
Without(card, table) ==
  LET at == CHOOSE i \in DOMAIN table : table[i].card = card
  IN [i \in 1..(Len(table) - 1) |-> table[IF i < at THEN i ELSE i + 1]]
Has(row, table) == \E i \in DOMAIN table : table[i] = row

\* A card that exists only because it was saved goes with the star; another one loses
\* the mark.  What is repeated does not touch updated_at.
Unsaved(card, table) ==
  IF ~Has([card |-> card, saved |-> TRUE], table) THEN table
  ELSE IF card \in SavedOnly THEN Without(card, table)
  ELSE <<[card |-> card, saved |-> FALSE]>> \o Without(card, table)

Saved(card, table) ==
  IF Has([card |-> card, saved |-> FALSE], table)
  THEN <<[card |-> card, saved |-> TRUE]>> \o Without(card, table) ELSE table

(***************************************************************************)
(* Loading.  "failed" remembers that the list of the view could not be read:  *)
(* the page then goes on showing the one of before.                          *)
(***************************************************************************)
ReviewReads == {c \in calls : c.kind = "review"}
Toggles == {c \in calls : c.kind = "toggle"}

AbortedReview == ReviewReads

ReviewRequest(view) ==
  [kind |-> "review", view |-> view, read |-> FALSE, rows |-> <<>>, more |-> FALSE]

\* The effect, for another view or for a reload.  Another path, subject or tab is first
\* asked for with the page of before, and that request is aborted in the same breath, by
\* the effect that sets the page to 1.  Without a path "busy" stays as it was.
LoadReview(p, over) ==
  IF p.view.path = "none"
  THEN /\ screen' = [p EXCEPT !.rows = <<>>, !.more = FALSE]
       /\ calls' = calls \ (over \cup AbortedReview)
  ELSE /\ screen' = [p EXCEPT !.busy = TRUE, !.failed = FALSE]
       /\ calls' = (calls \ (over \cup AbortedReview)) \cup {ReviewRequest(p.view)}

\* A path, a subject and a tab may stand in the address.
ReviewInit ==
  /\ \E view \in SelectedView :
       /\ view.pageNo = 1
       /\ screen = [page |-> "review", view |-> view, known |-> FALSE, rows |-> <<>>,
                    index |-> 1, more |-> FALSE, busy |-> view.path # "none",
                    failed |-> FALSE, saving |-> 0, lost |-> FALSE, toggles |-> 0]
       /\ calls = IF view.path = "none" THEN {} ELSE {ReviewRequest(view)}
  /\ server \in {table \in [Cards -> ReviewRow] :
                   /\ \A i, j \in Cards : table[i].card = table[j].card => i = j
                   /\ \A i \in Cards : table[i].card \in SavedOnly => table[i].saved}

ReviewRead(c) ==
  /\ c.kind = "review" /\ ~c.read
  /\ calls' = (calls \ {c}) \cup
       {[c EXCEPT !.read = TRUE, !.rows = ReviewRowsOf(c.view, server), !.more = MoreThan(c.view, server)]}
  /\ UNCHANGED <<screen, server>>

ReviewArrives(c) ==
  /\ c.kind = "review" /\ c.read
  /\ screen' = [screen EXCEPT !.rows = c.rows, !.index = 1, !.more = c.more, !.busy = FALSE]
  /\ Ended(c) /\ UNCHANGED server

ReviewFails(c) ==
  /\ c.kind = "review"
  /\ screen' = [screen EXCEPT !.busy = FALSE, !.failed = TRUE]
  /\ Ended(c) /\ UNCHANGED server

(***************************************************************************)
(* Choosing what to see.                                                     *)
(***************************************************************************)
Shows(p) == LoadReview(p, {}) /\ UNCHANGED server

Selected(view) ==
  view # screen.view /\ Shows([screen EXCEPT !.view = [view EXCEPT !.pageNo = 1]])

\* The taxonomy comes once, if it comes; a subject of another path is then dropped.
ReviewPathsArrive ==
  /\ ~screen.known
  /\ LET known == [screen EXCEPT !.known = TRUE]
     IN IF screen.view.subject \in SubjectsIn(screen.view.path) \cup {"all"}
        THEN screen' = known /\ UNCHANGED <<calls, server>>
        ELSE Shows([known EXCEPT !.view.subject = "all", !.view.pageNo = 1])

ChooseReviewPath(path) ==
  /\ path # screen.view.path /\ (screen.known \/ path = "none")
  /\ Selected([screen.view EXCEPT !.path = path, !.subject = "all"])

ChooseReviewSubject(subject) ==
  /\ screen.view.path # "none" /\ subject # screen.view.subject
  /\ subject = "all" \/ (screen.known /\ subject \in SubjectsIn(screen.view.path))
  /\ Selected([screen.view EXCEPT !.subject = subject])

ChooseReviewTab(tab) ==
  tab # screen.view.tab /\ Selected([screen.view EXCEPT !.tab = tab])

\* ReviewPages bounds the pages: while a page is loading, "more" is that of the last one.
TurnReviewPage(by) ==
  /\ IF by = 1 THEN screen.more ELSE screen.view.pageNo > 1
  /\ screen.view.pageNo + by \in ReviewPages
  /\ Shows([screen EXCEPT !.view.pageNo = @ + by])

(***************************************************************************)
(* The question on show, and its star.  Only the last star that was pressed   *)
(* is disabled.                                                              *)
(***************************************************************************)
CardOnShow == ~screen.busy /\ screen.view.path # "none" /\ screen.index \in DOMAIN screen.rows

TurnQuestion(by) ==
  /\ CardOnShow /\ screen.index + by \in DOMAIN screen.rows
  /\ screen' = [screen EXCEPT !.index = @ + by]
  /\ UNCHANGED <<calls, server>>

ToggleSaved ==
  /\ CardOnShow /\ screen.toggles < MaxToggles
  /\ LET row == screen.rows[screen.index]
     IN /\ screen.saving # row.card
        /\ screen' = [screen EXCEPT !.saving = row.card, !.toggles = @ + 1]
        /\ calls' = calls \cup {[kind |-> "toggle", card |-> row.card, saves |-> ~row.saved,
                                 n |-> screen.toggles, stage |-> "sent"]}
  /\ UNCHANGED server

\* To save a card that is gone is refused: 404.
SavedStored(c) ==
  /\ c.kind = "toggle" /\ c.stage = "sent"
  /\ c.saves => \E i \in DOMAIN server : server[i].card = c.card
  /\ server' = IF c.saves THEN Saved(c.card, server) ELSE Unsaved(c.card, server)
  /\ Advances(c, "stored") /\ UNCHANGED screen

ToggleDone(c) ==
  /\ c.kind = "toggle" /\ c.stage = "stored"
  /\ LoadReview([screen EXCEPT !.saving = 0], {c}) /\ UNCHANGED server

ToggleFails(c) ==
  /\ c.kind = "toggle"
  /\ screen' = [screen EXCEPT !.saving = 0, !.lost = @ \/ c.stage = "stored"]
  /\ Ended(c) /\ UNCHANGED server

ReviewSelects ==
  \/ \E path \in ReviewPaths \cup {"none"} : ChooseReviewPath(path)
  \/ \E subject \in SubjectsOfPaths \cup {"all"} : ChooseReviewSubject(subject)

QuestionCards == ToggleSaved \/ \E by \in {-1, 1} : TurnQuestion(by)

ReviewNext ==
  \/ ReviewPathsArrive \/ ReviewSelects \/ QuestionCards
  \/ \E tab \in ReviewTabs : ChooseReviewTab(tab)
  \/ \E by \in {-1, 1} : TurnReviewPage(by)
  \/ \E c \in calls : \/ ReviewRead(c) \/ ReviewArrives(c) \/ ReviewFails(c)
                      \/ SavedStored(c) \/ ToggleDone(c) \/ ToggleFails(c)

ReviewSpec == ReviewInit /\ [][ReviewNext]_tabVars

(***************************************************************************)
(* Properties                                                              *)
(***************************************************************************)
\* Once nothing is under way, the questions on the page, their order and their stars are
\* those of the selected list on the server, whatever was selected and starred while
\* answers were still to come.  It holds but for two cases the code leaves open: a list
\* that could not be read, and a star whose answer was lost.
ReviewIsTrue ==
  /\ Mounted("review") /\ screen.view.path # "none"
  /\ ~screen.busy /\ ~screen.failed /\ ~screen.lost /\ Toggles = {}
  => /\ screen.rows = ReviewRowsOf(screen.view, server)
     /\ screen.more = MoreThan(screen.view, server)
=============================================================================
