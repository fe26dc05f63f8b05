-------------------------- MODULE QuestionBankAdmin --------------------------
(***************************************************************************)
(* The question bank as authors see it                                       *)
(* (features/questionbank/pages/QuestionBankAdminPage.tsx): the list with its *)
(* filters and the question that is open for review, with the commands of    *)
(* internal/questionbank that they call, next to those of another author.     *)
(* The form for a new question is QuestionForm, the import QuestionImport.    *)
(*                                                                         *)
(* A command on a question reads the question and its workflow status, and    *)
(* then compares and changes the row in a transaction of its own: these are   *)
(* two steps here.                                                           *)
(***************************************************************************)
EXTENDS BrowserTab

CONSTANTS
  BankFilters,    \* what the list may be filtered by
  MaxVersion,     \* bound: versions of the question
  MaxCommands,    \* bound: workflow commands and new versions begun in the page
  MaxOthers       \* bound: commands of another author

ASSUME QuestionBankAssumption ==
  /\ BankFilters # {} /\ MaxVersion \in Nat \ {0} /\ MaxCommands \in Nat /\ MaxOthers \in Nat

WorkflowStatus == {"draft", "pending_review", "approved", "rejected", "archived"}
QuestionRows == [version : 1..MaxVersion, status : WorkflowStatus]
NoDetail == [version |-> 0, status |-> "draft"]

QuestionBankTypeOK ==
  Mounted("questions") =>
    /\ screen \in
         [page : {"questions"}, admin : BOOLEAN, filter : BankFilters, busy : BOOLEAN,
          failed : BOOLEAN, rows : BankFilters \cup {"none"},
          detail : QuestionRows \cup {NoDetail}, saving : 0..MaxCommands,
          commands : 0..MaxCommands]
    /\ server \in [question : QuestionRows, others : 0..MaxOthers]

(***************************************************************************)
(* The list.  Its effect aborts what is under way whenever a filter changed   *)
(* or a command asks for it again; a failed read leaves the rows as they were. *)
(***************************************************************************)
BankLists == {c \in calls : c.kind = "bank"}
BankList(filter) == [kind |-> "bank", filter |-> filter]

Aborted == BankLists

ReadBank(p, over, begun) ==
  /\ screen' = [p EXCEPT !.busy = TRUE, !.failed = FALSE]
  /\ calls' = (calls \ (over \cup Aborted)) \cup {BankList(p.filter)} \cup begun

QuestionBankInit ==
  \E admin \in BOOLEAN, filter \in BankFilters :
    /\ screen = [page |-> "questions", admin |-> admin, filter |-> filter, busy |-> TRUE,
                 failed |-> FALSE, rows |-> "none", detail |-> NoDetail, saving |-> 0,
                 commands |-> 0]
    /\ calls = {BankList(filter)}
    /\ server = [question |-> [version |-> 1, status |-> "draft"],
                 others |-> 0]

BankArrives(c) ==
  /\ c.kind = "bank"
  /\ screen' = [screen EXCEPT !.busy = BankLists # {c}, !.rows = c.filter]
  /\ Ended(c) /\ UNCHANGED server

BankFails(c) ==
  /\ c.kind = "bank"
  /\ screen' = [screen EXCEPT !.busy = FALSE, !.failed = TRUE]
  /\ Ended(c) /\ UNCHANGED server

ChooseBankFilter(filter) ==
  /\ filter # screen.filter
  /\ ReadBank([screen EXCEPT !.filter = filter], {}, {}) /\ UNCHANGED server

PressReloadBank == ReadBank(screen, {}, {}) /\ UNCHANGED server

(***************************************************************************)
(* The open question.  run() and openQuestion() disable nothing.             *)
(***************************************************************************)
Command(by, do) == [kind |-> "command", by |-> by, do |-> do, expected |-> 0, n |-> 0,
                    stage |-> "sent", row |-> NoDetail]

Begins(p, c) ==
  /\ screen' = p /\ calls' = calls \cup {c} /\ UNCHANGED server

\* BOUND: the question is opened again only when it was answered.
OpenQuestion ==
  /\ screen.rows # "none"
  /\ \A c \in calls : c.kind = "command" => c.do # "open"
  /\ Begins(screen, Command("page", "open"))

\* The buttons that the status of the question on the screen offers.
Offered(p) ==
  LET status == p.detail.status
  IN (IF status \in {"draft", "rejected"} THEN {"pending_review"} ELSE {}) \cup
     (IF p.admin /\ status = "pending_review" THEN {"approved", "rejected"} ELSE {}) \cup
     (IF p.admin /\ status # "archived" THEN {"archived"} ELSE {})

Numbered(do) ==
  [Command("page", do) EXCEPT !.expected = screen.detail.version, !.n = screen.commands + 1]

PressWorkflow(to) ==
  /\ screen.detail # NoDetail /\ to \in Offered(screen) /\ screen.commands < MaxCommands
  /\ Begins([screen EXCEPT !.commands = @ + 1], Numbered(to))

\* QuestionPresentationEditor: a new version, whatever the status on the screen.
\* "saving": the save of the editor that is on the screen.
SavePresentation ==
  /\ screen.detail # NoDetail /\ screen.saving = 0 /\ screen.commands < MaxCommands
  /\ Begins([screen EXCEPT !.commands = @ + 1, !.saving = screen.commands + 1],
            Numbered("append"))

\* validAdminTransition, and the two ways of a teacher's own question.
Transition(from, to) ==
  \/ from \in {"draft", "rejected"} /\ to \in {"pending_review", "archived"}
  \/ from = "pending_review" /\ to \in {"approved", "rejected", "draft", "archived"}
  \/ from = "approved" /\ to = "archived"

MayDo(do, status) ==
  IF do = "append" THEN status \notin {"approved", "archived"} ELSE Transition(status, do)

\* Another author acts on the question as it is.
AnotherBegins(do) ==
  /\ server.others < MaxOthers /\ MayDo(do, server.question.status)
  /\ server' = [server EXCEPT !.others = @ + 1]
  /\ calls' = calls \cup {[Command("other", do) EXCEPT
                            !.expected = server.question.version, !.stage = "checked"]}
  /\ UNCHANGED screen

(***************************************************************************)
(* The commands of the server.                                              *)
(***************************************************************************)
\* The service reads the question and judges the command by what it read.
CommandChecked(c) ==
  /\ c.kind = "command" /\ c.stage = "sent" /\ c.do # "open"
  /\ MayDo(c.do, server.question.status)
  /\ Advances(c, "checked") /\ UNCHANGED <<screen, server>>

Written(do, row) ==
  IF do = "append" THEN [row EXCEPT !.version = @ + 1] ELSE [row EXCEPT !.status = do]

\* The transaction locks the row and compares the version, not the status.
CommandStored(c) ==
  /\ c.kind = "command" /\ c.stage = "checked"
  /\ c.expected = server.question.version
  /\ c.do = "append" => server.question.version < MaxVersion
  /\ server' = [server EXCEPT !.question = Written(c.do, @)]
  /\ Advances(c, "stored") /\ UNCHANGED screen

\* The question is read once more for the answer.
CommandAnswered(c) ==
  /\ c.kind = "command" /\ \/ c.stage = "stored" /\ c.do # "open"
                           \/ c.stage = "sent" /\ c.do = "open"
  /\ calls' = (calls \ {c}) \cup
                (IF c.by = "other" THEN {}
                 ELSE {[c EXCEPT !.stage = "answered", !.row = server.question]})
  /\ UNCHANGED <<screen, server>>

\* The answer becomes the open question; a command has the list read again.  The
\* editor of the presentation is keyed by the version: one that is no longer on
\* the screen drops its answer.
CommandArrives(c) ==
  LET shown == [screen EXCEPT
        !.detail = c.row,
        !.saving = IF c.row.version = screen.detail.version /\ c.n # @ THEN @ ELSE 0]
  IN /\ c.kind = "command" /\ c.stage = "answered"
     /\ IF c.do = "append" /\ screen.saving # c.n
          THEN Ended(c) /\ UNCHANGED screen
        ELSE IF c.do = "open" THEN screen' = shown /\ Ended(c)
        ELSE ReadBank(shown, {c}, {})
     /\ UNCHANGED server

\* Refused at one of its steps, or lost on either way.
CommandFails(c) ==
  /\ c.kind = "command"
  /\ screen' = [screen EXCEPT !.saving = IF c.do = "append" /\ @ = c.n THEN 0 ELSE @]
  /\ Ended(c) /\ UNCHANGED server

QuestionBankNext ==
  \/ \E filter \in BankFilters : ChooseBankFilter(filter)
  \/ PressReloadBank \/ OpenQuestion \/ SavePresentation
  \/ \E to \in WorkflowStatus : PressWorkflow(to)
  \/ \E do \in WorkflowStatus \cup {"append"} : AnotherBegins(do)
  \/ \E c \in calls :
       \/ BankArrives(c) \/ BankFails(c)
       \/ CommandChecked(c) \/ CommandStored(c) \/ CommandAnswered(c)
       \/ CommandArrives(c) \/ CommandFails(c)

QuestionBankSpec == QuestionBankInit /\ [][QuestionBankNext]_tabVars

(***************************************************************************)
(* Properties                                                              *)
(***************************************************************************)
\* The rows on the screen are those of the filters on the screen, unless the list
\* is being read or could not be.
RowsOfFilter ==
  Mounted("questions") /\ ~screen.busy /\ ~screen.failed => screen.rows = screen.filter

\* "Draft cannot silently jump directly to approved" (docs/CURRENT_STATE.md:342): a
\* question becomes approved only while it is waiting for a review.
DraftNeverJumps ==
  [][server'.question.status = "approved" =>
       server.question.status \in {"pending_review", "approved"}]_tabVars
=============================================================================
