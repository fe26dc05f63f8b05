---------------------------- MODULE AttemptPage ----------------------------
(***************************************************************************)
(* The page on which a learner answers an assessment                       *)
(* (features/assessment/pages/AssessmentAttemptPage.tsx).  The start key of *)
(* an assessment is kept in the tab's session storage and never removed, so *)
(* that every start of one assessment in this tab opens the same attempt:   *)
(* an attempt is named by its assessment.                                  *)
(*                                                                         *)
(* A save or a submission goes through three stages: the handler awaits the *)
(* CSRF token ("token"), the request travels ("sent"), the server has dealt *)
(* with it and the answer travels ("ok" or "refused"); it can fail at each. *)
(***************************************************************************)
EXTENDS BrowserTab

CONSTANTS
  Assessments,   \* the assessments whose start pages the learner visits
  Timed,         \* those whose attempts have an expiresAt
  AnswerFirst,   \* those with requireAnswerBeforeNext
  NQuestions,    \* [Assessments -> number of questions]
  MaxVisits      \* bound: how often the learner moves between the pages

ASSUME AttemptPageAssumption ==
  /\ NQuestions \in [Assessments -> Nat \ {0}] /\ MaxVisits \in Nat \ {0}
  /\ Timed \subseteq Assessments /\ AnswerFirst \subseteq Assessments

QuestionIndex(a) == 1..NQuestions[a]
Answers(a) == SUBSET QuestionIndex(a)    \* which questions have a stored option
AttemptStatus == {"none", "in_progress", "submitted", "expired"}

AttemptCall ==
  [kind : {"save", "submit"}, scope : Assessments, n : 1..MaxVisits,
   question : Nat, seen : SUBSET (Nat \ {0}),
   stage : {"token", "sent", "ok", "refused"}]

AttemptPageTypeOK ==
  Mounted("attempt") =>
    /\ screen \in
         [page : {"attempt"}, scope : Assessments, visit : 1..MaxVisits,
          loading : BOOLEAN, shown : BOOLEAN, answers : Answers(screen.scope), result : BOOLEAN,
          busy : BOOLEAN, index : 1..(NQuestions[screen.scope] + 1), saving : BOOLEAN,
          draft : BOOLEAN, action : BOOLEAN, confirm : BOOLEAN,
          timer : {"none", "set", "clear"}, timerDraft : BOOLEAN, torn : BOOLEAN]
    /\ calls \subseteq AttemptCall
    /\ DOMAIN server = Assessments
    /\ \A a \in Assessments :
         server[a] \in [status : AttemptStatus, answers : Answers(a),
                        clock : {"running", "last", "over"}]

(***************************************************************************)
(* Mounting, and moving to another assessment in the same component.  The  *)
(* effect resets the state and loads; only the load of the last visit is    *)
(* still active.  actionRef is cleared, the calls under way are not ended.   *)
(* torn records that a visit ended while a call was under way.              *)
(***************************************************************************)
FreshAttempt(a, v, t) ==
  [page |-> "attempt", scope |-> a, visit |-> v, loading |-> TRUE, shown |-> FALSE,
   answers |-> {}, result |-> FALSE, busy |-> TRUE, index |-> 1, saving |-> FALSE,
   draft |-> FALSE, action |-> FALSE, confirm |-> FALSE,
   timer |-> "none", timerDraft |-> FALSE, torn |-> t]

AttemptPageInit ==
  /\ screen \in {FreshAttempt(a, 1, FALSE) : a \in Assessments}
  /\ calls = {}
  /\ server = [a \in Assessments |->
                 [status |-> "none", answers |-> {}, clock |-> "running"]]

OpenAssessment(a) ==
  /\ screen.visit < MaxVisits /\ a # screen.scope
  /\ screen' = FreshAttempt(a, screen.visit + 1, screen.torn \/ calls # {})
  /\ UNCHANGED <<calls, server>>

\* The interval is set anew whenever the attempt, the result or busy changed,
\* and its callback keeps the draft of that moment (a stale closure).
TimerEffect(p) ==
  [p EXCEPT !.timer = IF p.shown /\ ~p.result /\ p.scope \in Timed THEN "set" ELSE "none",
            !.timerDraft = p.draft]

\* POST /assessments/:id/attempts: the attempt of the key, or a new one.
Started(row) == IF row.status = "none" THEN [row EXCEPT !.status = "in_progress"] ELSE row

AttemptLoaded ==
  LET a == screen.scope
      row == Started(server[a])
  IN /\ screen.loading
     /\ server' = [server EXCEPT ![a] = row]
     /\ screen' = TimerEffect([screen EXCEPT
          !.loading = FALSE, !.busy = FALSE, !.shown = TRUE, !.answers = row.answers])
     /\ UNCHANGED calls

\* The request or its answer is lost: the page shows the error and nothing else.
AttemptLoadFails ==
  /\ screen.loading
  /\ \E row \in {server[screen.scope], Started(server[screen.scope])} :
       server' = [server EXCEPT ![screen.scope] = row]
  /\ screen' = TimerEffect([screen EXCEPT !.loading = FALSE, !.busy = FALSE])
  /\ UNCHANGED calls

(***************************************************************************)
(* The handlers up to their first await.  actionRef admits one at a time.   *)
(***************************************************************************)
\* A question is on the screen; beyond the last index there is none.
Answering == screen.shown /\ ~screen.result /\ screen.index \in QuestionIndex(screen.scope)

NewCall(kind, q) ==
  [kind |-> kind, scope |-> screen.scope, question |-> q, seen |-> {}, stage |-> "token",
   n |-> CHOOSE n \in 1..MaxVisits : \A c \in calls : c.n # n]

Idle == ~screen.busy /\ ~screen.action

SaveStarted(p, q) ==
  /\ screen' = [p EXCEPT !.action = TRUE, !.saving = TRUE]
  /\ calls' = calls \cup {NewCall("save", q)}
  /\ UNCHANGED server

\* Which of the options is chosen plays no part in what follows.
ChooseOption ==
  /\ Answering /\ Idle /\ ~screen.saving
  /\ SaveStarted([screen EXCEPT !.draft = TRUE], screen.index)

\* Saves the stored option again, with the other mark.
ToggleReview ==
  /\ Answering /\ Idle /\ ~screen.saving /\ ~screen.draft
  /\ screen.index \in screen.answers
  /\ SaveStarted(screen, 0)

\* FAULTY: submit() does not ask whether a save is under way.
MaySubmitDuringSave(drafted) == ~screen.busy /\ ~drafted

\* submit() is refused while it or a save runs, and while a choice is unsaved.
MaySubmit(drafted) == Idle /\ ~drafted

SubmitStarted ==
  /\ screen' = TimerEffect([screen EXCEPT !.action = TRUE, !.busy = TRUE, !.confirm = FALSE])
  /\ calls' = calls \cup {NewCall("submit", 0)}
  /\ UNCHANGED server

\* The header's button opens the dialog, the dialog submits or closes.
AskSubmit ==
  /\ Answering /\ ~screen.confirm
  /\ screen' = [screen EXCEPT !.confirm = TRUE]
  /\ UNCHANGED <<calls, server>>

ConfirmSubmit ==
  /\ Answering /\ screen.confirm
  /\ \/ MaySubmit(screen.draft) /\ SubmitStarted
     \/ screen' = [screen EXCEPT !.confirm = FALSE] /\ UNCHANGED <<calls, server>>

\* The interval's callback when no second is left: it clears itself and calls
\* the submit() of the render that set it.
TimerTick ==
  /\ screen.timer = "set" /\ server[screen.scope].clock # "running" /\ Idle
  /\ IF MaySubmit(screen.timerDraft)
       THEN SubmitStarted
       ELSE screen' = [screen EXCEPT !.timer = "clear"] /\ UNCHANGED <<calls, server>>

(***************************************************************************)
(* Moving between questions.                                               *)
(***************************************************************************)
MoveTo(i) == screen' = [screen EXCEPT !.index = i] /\ UNCHANGED <<calls, server>>

Unhindered == Answering /\ ~screen.saving /\ ~screen.busy /\ ~screen.draft

PreviousQuestion == Unhindered /\ screen.index > 1 /\ MoveTo(screen.index - 1)

NextQuestion ==
  /\ Unhindered /\ screen.index < NQuestions[screen.scope]
  /\ screen.scope \in AnswerFirst => screen.index \in screen.answers
  /\ MoveTo(screen.index + 1)

\* The ribbon of question numbers asks neither for a save nor for an answer.
JumpToQuestion(i) == Answering /\ i # screen.index /\ MoveTo(i)

(***************************************************************************)
(* What follows each await.  scopeRef holds the scope that is on the        *)
(* screen, and a scope the learner came back to is the same scope again.    *)
(***************************************************************************)
InScope(c) == screen.scope = c.scope

\* The finally branch: the action ends if it is the one of this scope, and the
\* page is released.
Release(p, c) ==
  IF c.kind = "save" THEN [p EXCEPT !.action = FALSE, !.saving = FALSE]
                     ELSE TimerEffect([p EXCEPT !.action = FALSE, !.busy = FALSE])

\* The token arrived: the request is sent if the page still shows the scope;
\* else the handler returns through its finally branch, which finds nothing.
TokenArrives(c) ==
  /\ c.stage = "token"
  /\ IF InScope(c) THEN Advances(c, "sent") ELSE Ended(c)
  /\ UNCHANGED <<screen, server>>

\* PUT .../answers/:question: only while the attempt is in progress and in
\* time.  The answer carries all answers as they are stored.
ServerSaves(c) ==
  LET row == server[c.scope]
      open == row.status = "in_progress" /\ row.clock # "over"
      stored == row.answers \cup ({c.question} \ {0})
  IN /\ c.kind = "save" /\ c.stage = "sent"
     /\ IF open
          THEN /\ server' = [server EXCEPT ![c.scope].answers = stored]
               /\ calls' = (calls \ {c}) \cup {[c EXCEPT !.stage = "ok", !.seen = stored]}
          ELSE Advances(c, "refused") /\ UNCHANGED server
     /\ UNCHANGED screen

\* POST .../submit: repeats its answer to the same key, ends an attempt whose
\* time is over without a result, and scores an attempt in progress.
ServerSubmits(c) ==
  LET row == server[c.scope]
      decided == CASE row.status # "in_progress" -> row.status
                   [] row.clock = "over"         -> "expired"
                   [] OTHER                      -> "submitted"
  IN /\ c.kind = "submit" /\ c.stage = "sent"
     /\ server' = [server EXCEPT ![c.scope].status = decided]
     /\ Advances(c, IF decided = "submitted" THEN "ok" ELSE "refused")
     /\ UNCHANGED screen

\* The index moves on from where the learner is by now, and whether there is
\* a next question was asked where the choice was made.
SaveAnswered(c) ==
  LET onward == c.question \in 1..(NQuestions[c.scope] - 1) /\ c.scope \in AnswerFirst
      kept == [screen EXCEPT !.answers = c.seen,
                 !.draft = screen.draft /\ c.question = 0,
                 !.index = IF onward /\ screen.index <= NQuestions[c.scope]
                             THEN screen.index + 1 ELSE screen.index]
  IN /\ c.kind = "save" /\ c.stage = "ok"
     /\ screen' = IF ~InScope(c) THEN screen
                  ELSE Release(IF screen.shown THEN kept
                               ELSE TimerEffect([kept EXCEPT !.shown = TRUE]), c)
     /\ Ended(c) /\ UNCHANGED server

SubmitAnswered(c) ==
  /\ c.kind = "submit" /\ c.stage = "ok"
  /\ screen' = IF InScope(c) THEN Release([screen EXCEPT !.result = TRUE], c) ELSE screen
  /\ Ended(c) /\ UNCHANGED server

\* A refusal, or the request or its answer is lost: the message is shown and a
\* choice stays marked as unsaved.
AttemptCallFails(c) ==
  /\ screen' = IF InScope(c) THEN Release(screen, c) ELSE screen
  /\ Ended(c) /\ UNCHANGED server

\* The last whole second of the attempt begins, and ends.
ClockRuns(a) ==
  /\ a \in Timed /\ server[a].status = "in_progress" /\ server[a].clock # "over"
  /\ server' = [server EXCEPT ![a].clock =
                  IF server[a].clock = "running" THEN "last" ELSE "over"]
  /\ UNCHANGED <<screen, calls>>

AttemptPageNext ==
  \/ \E a \in Assessments : OpenAssessment(a) \/ ClockRuns(a)
  \/ AttemptLoaded \/ AttemptLoadFails
  \/ ChooseOption \/ ToggleReview \/ AskSubmit \/ ConfirmSubmit \/ TimerTick
  \/ PreviousQuestion \/ NextQuestion
  \/ \E i \in QuestionIndex(screen.scope) : JumpToQuestion(i)
  \/ \E c \in calls :
       \/ TokenArrives(c) \/ ServerSaves(c) \/ ServerSubmits(c)
       \/ SaveAnswered(c) \/ SubmitAnswered(c) \/ AttemptCallFails(c)

AttemptPageSpec == AttemptPageInit /\ [][AttemptPageNext]_tabVars

(***************************************************************************)
(* Properties                                                              *)
(***************************************************************************)
\* What the server will score is what the learner sees: while a submission has
\* not reached the server no save is under way, and unless a choice is marked
\* as unsaved the answers on the screen are the stored ones.  A page that was
\* left while a call was under way is excepted: actionRef and scopeRef compare
\* the scope only, and an answer of an earlier visit ends the action of this one.
ScoredIsShown ==
  Mounted("attempt") /\ ~screen.torn =>
    \A c \in calls :
      c.kind = "submit" /\ c.stage \in {"token", "sent"} =>
        /\ \A d \in calls : d.kind # "save"
        /\ ~screen.draft => screen.answers = server[c.scope].answers

\* While a timed attempt is in progress, on the screen, without an unsaved choice
\* and with nothing under way, the interval that will submit it is running: no
\* sequence of saves, failed submissions, reloads and moves leaves the page idle
\* with a dead timer.  It gives up only when a choice could not be saved: while
\* that is marked, and also later if a submission of the timer failed meanwhile,
\* because the interval then keeps the old draft, clears itself and is not set
\* again.
TimerStaysSet ==
  Mounted("attempt") =>
    LET a == screen.scope
    IN screen.shown /\ ~screen.result /\ a \in Timed /\ Idle /\ calls = {}
       /\ ~screen.draft /\ ~screen.timerDraft /\ server[a].status = "in_progress"
       => screen.timer = "set"
=============================================================================
