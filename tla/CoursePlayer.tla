---------------------------- MODULE CoursePlayer ----------------------------
(***************************************************************************)
(* apps/web/src/features/learning/pages/CourseLearningPage.tsx: a learner at  *)
(* the lessons of a course.  A lesson is shown with the learner's progress in *)
(* it, a video saves its position as it plays and stops for the questions it  *)
(* carries, and the lesson is completed by a button.                         *)
(*                                                                         *)
(* A lesson may be part of several courses, with a progress in each: a pair of*)
(* a course and a lesson is a scope (selectedScope).  Lessons that are locked  *)
(* for the learner are not in CourseLessons.                                 *)
(***************************************************************************)
EXTENDS BrowserTab, FiniteSets, Naturals

CONSTANTS
  Courses, CourseLessons,  \* the lessons of each course that are open to the learner
  VideoQuestions,          \* the questions in each video; a lesson without is a text
  AskedAt,                 \* the position at which each question is due
  MustPass, Rewatch,       \* the questions with mustPass, and with actionOnFail = rewatch
  VideoEnd, MaxProgressWrites

CourseLessonSet == UNION {CourseLessons[c] : c \in Courses}
QuestionIds == DOMAIN AskedAt

ASSUME CoursePlayerAssumption ==
  /\ \A c \in Courses : CourseLessons[c] # {}
  /\ "none" \notin Courses \cup CourseLessonSet \cup QuestionIds
  /\ DOMAIN VideoQuestions \subseteq CourseLessonSet
  /\ \A l \in DOMAIN VideoQuestions : VideoQuestions[l] \subseteq QuestionIds
  /\ \A q \in QuestionIds : AskedAt[q] \in 0..VideoEnd
  /\ MustPass \subseteq QuestionIds /\ Rewatch \subseteq QuestionIds
  /\ VideoEnd \in Nat /\ MaxProgressWrites \in Nat

LessonScopes == UNION {{<<c, l>> : l \in CourseLessons[c]} : c \in Courses}
LessonProgress == [done : BOOLEAN, at : 0..VideoEnd]
NotStarted == [done |-> FALSE, at |-> 0]
NoScope == <<"none", "none">>

PlayerTypeOK ==
  Mounted("player") =>
    /\ screen \in
         [page : {"player"}, course : Courses, lesson : CourseLessonSet \cup {"none"},
          loaded : BOOLEAN, scope : LessonScopes \cup {NoScope}, reading : BOOLEAN,
          error : BOOLEAN, progress : LessonProgress, saved : 0..VideoEnd, at : 0..VideoEnd,
          ready : BOOLEAN, saving : BOOLEAN, answered : SUBSET QuestionIds,
          passed : SUBSET QuestionIds, question : QuestionIds \cup {"none"}, right : BOOLEAN,
          timers : SUBSET [question : QuestionIds, right : BOOLEAN],
          hurried : BOOLEAN, lost : BOOLEAN, writes : 0..MaxProgressWrites]
    /\ server \in [LessonScopes -> LessonProgress]

(***************************************************************************)
(* What is selected, and what of it is on the screen.                        *)
(***************************************************************************)
SelectedScope(p) == <<p.course, p.lesson>>

\* activeDetail, activeProgress.
LessonShown == screen.loaded /\ screen.scope = SelectedScope(screen)
VideoShown == LessonShown /\ screen.lesson \in DOMAIN VideoQuestions
QuestionsShown == IF VideoShown THEN VideoQuestions[screen.lesson] ELSE {}

LessonReads == {c \in calls : c.kind \in {"course", "lesson"}}
ProgressWrites(cs) == {c \in cs : c.kind \in {"save", "complete"}}

CourseRead(course, wanted) == [kind |-> "course", course |-> course, wanted |-> wanted]

(***************************************************************************)
(* Loading the course, and then the lesson with its progress.  "hurried"     *)
(* remembers that a write to this lesson was still under way when its progress*)
(* was asked for, "lost" that one was stored and its answer did not come.     *)
(***************************************************************************)
PlayerInit ==
  /\ \E course \in Courses, wanted \in CourseLessonSet \cup {"none"},
        stored \in SUBSET QuestionIds :
       /\ wanted = "none" => stored = {}
       /\ screen =
            [page |-> "player", course |-> course, lesson |-> wanted, loaded |-> FALSE,
             scope |-> NoScope, reading |-> FALSE, error |-> FALSE, progress |-> NotStarted,
             saved |-> 0, at |-> 0, ready |-> FALSE, saving |-> FALSE, answered |-> stored,
             passed |-> stored, question |-> "none", right |-> FALSE, timers |-> {},
             hurried |-> FALSE, lost |-> FALSE, writes |-> 0]
       /\ calls = {CourseRead(course, wanted)}
  /\ server = [s \in LessonScopes |-> NotStarted]

\* The address now names another course.  The question that is open, the answers
\* and what is being saved stay as they are.
OpenCourse(course, wanted) ==
  /\ course # screen.course
  /\ screen' = [screen EXCEPT !.course = course, !.lesson = wanted, !.loaded = FALSE,
                  !.scope = NoScope, !.error = FALSE, !.progress = NotStarted,
                  !.ready = FALSE, !.at = 0]
  /\ calls' = (calls \ LessonReads) \cup {CourseRead(course, wanted)}
  /\ UNCHANGED server

\* The effect of a selected lesson: one more request, and the former is aborted.
ReadLesson(p, over) ==
  LET scope == SelectedScope(p)
  IN /\ screen' = [p EXCEPT !.scope = NoScope, !.progress = NotStarted, !.error = FALSE,
                            !.reading = TRUE, !.ready = FALSE, !.at = 0, !.lost = FALSE,
                            !.hurried = \E c \in ProgressWrites(calls) : c.scope = scope]
     /\ calls' = (calls \ (over \cup LessonReads)) \cup
                   {[kind |-> "lesson", scope |-> scope, read |-> FALSE, row |-> NotStarted]}
     /\ UNCHANGED server

\* The lesson that the address asks for when the course has it, and else the first.
CourseArrives(c) ==
  /\ c.kind = "course"
  /\ \E lesson \in IF c.wanted \in CourseLessons[c.course] THEN {c.wanted}
                   ELSE CourseLessons[c.course] :
       ReadLesson([screen EXCEPT !.loaded = TRUE, !.lesson = lesson], {c})

\* No course is shown: its only button leaves the page.
CourseFails(c) ==
  /\ c.kind = "course"
  /\ Ended(c) /\ UNCHANGED <<screen, server>>

LessonRead(c) ==
  /\ c.kind = "lesson" /\ ~c.read
  /\ calls' = (calls \ {c}) \cup {[c EXCEPT !.read = TRUE, !.row = server[c.scope]]}
  /\ UNCHANGED <<screen, server>>

LessonArrives(c) ==
  /\ c.kind = "lesson" /\ c.read
  /\ screen' = [screen EXCEPT !.scope = c.scope, !.progress = c.row, !.saved = c.row.at,
                              !.reading = FALSE]
  /\ Ended(c) /\ UNCHANGED server

LessonReadFails(c) ==
  /\ c.kind = "lesson"
  /\ screen' = [screen EXCEPT !.error = TRUE, !.reading = FALSE]
  /\ Ended(c) /\ UNCHANGED server

\* selectLesson(), from the index of the course and from the two buttons below the
\* lesson.  The selected one may be selected again: it disappears, and no effect
\* runs that would bring it back.
SelectLesson(lesson) ==
  /\ screen.loaded /\ lesson \in CourseLessons[screen.course]
  /\ IF lesson = screen.lesson
     THEN /\ screen' = [screen EXCEPT !.scope = NoScope, !.ready = FALSE, !.at = 0]
          /\ UNCHANGED <<calls, server>>
     ELSE ReadLesson([screen EXCEPT !.lesson = lesson], {})

RetryLesson ==
  /\ screen.loaded /\ ~LessonShown /\ screen.error /\ ~screen.reading
  /\ ReadLesson(screen, {})

(***************************************************************************)
(* The video: its position, the saves of it, and the questions that stop it. *)
(***************************************************************************)
InSelectedLesson(c) == screen.lesson = c.scope[2]

\* selectedScopeRef.current === writeScope
SameScope(c) == c.scope = SelectedScope(screen)

\* One write at a time; less than a unit of change is not saved.
MaySavePosition == ~screen.saving /\ screen.at # screen.saved

Writes(p, c) ==
  /\ screen.writes < MaxProgressWrites
  /\ screen' = [p EXCEPT !.saving = TRUE, !.writes = @ + 1]
  /\ calls' = calls \cup {c}
  /\ UNCHANGED server

\* persistVideoPosition: "quiet" shows no error, "completes" is awaited by complete().
PositionSave(quiet, completes, at) ==
  [kind |-> "save", scope |-> SelectedScope(screen), n |-> screen.writes, quiet |-> quiet,
   completes |-> completes, at |-> at, stage |-> "sent", row |-> NotStarted]

\* The position the learner left is restored when the player is ready, not before.
PlayerReady ==
  /\ VideoShown /\ ~screen.ready
  /\ screen' = [screen EXCEPT !.ready = TRUE, !.at = screen.progress.at]
  /\ UNCHANGED <<calls, server>>

DueAt(t) == {q \in QuestionsShown \ screen.answered : AskedAt[q] = t}

\* onTimeUpdate, as the video plays on or the learner moves in it: it saves after
\* every so many seconds (a unit of position here), and a question that is due is
\* opened over the video, which pauses.
TimeUpdate(t) ==
  /\ VideoShown /\ screen.ready /\ screen.question = "none" /\ t # screen.at
  /\ \E q \in IF DueAt(t) = {} THEN {"none"} ELSE DueAt(t) :
       LET moved == [screen EXCEPT !.at = t, !.question = q, !.right = FALSE]
       IN IF ~screen.saving /\ t > screen.saved
          THEN Writes(moved, PositionSave(TRUE, FALSE, t))
          ELSE screen' = moved /\ UNCHANGED <<calls, server>>

PauseEvent ==
  /\ VideoShown /\ screen.ready /\ MaySavePosition
  /\ Writes(screen, PositionSave(FALSE, FALSE, screen.at))

(***************************************************************************)
(* A question over the video.  Feedback is shown for a while before the       *)
(* question closes: the timers outlive the question and the lesson.          *)
(***************************************************************************)
QuestionShown == LessonShown /\ screen.question # "none"

\* handleSelect(): a wrong answer can be followed by others at once.
AnswerQuestion(right) ==
  /\ QuestionShown /\ ~screen.right
  /\ right \/ screen.question \in Rewatch
  /\ screen' = [screen EXCEPT
        !.right = right,
        !.passed = IF right THEN @ \cup {screen.question} ELSE @,
        !.timers = @ \cup {[question |-> screen.question, right |-> right]}]
  /\ UNCHANGED <<calls, server>>

NowAnswered(question, right) ==
  IF right \/ question \notin MustPass THEN screen.answered \cup {question}
                                       ELSE screen.answered

\* handleInteractiveAnswer(), with the question of the moment of the click: it
\* closes the question that is open by now and moves in the video that is.
FeedbackOver(timer) ==
  /\ timer \in screen.timers
  /\ screen' = [screen EXCEPT
        !.timers = @ \ {timer}, !.answered = NowAnswered(timer.question, timer.right),
        !.question = "none", !.right = FALSE,
        !.at = IF VideoShown /\ screen.ready /\ ~timer.right THEN 0 ELSE @]
  /\ UNCHANGED <<calls, server>>

SkipQuestion ==
  /\ QuestionShown /\ ~screen.right /\ screen.question \notin MustPass
  /\ screen' = [screen EXCEPT !.answered = @ \cup {screen.question}, !.question = "none"]
  /\ UNCHANGED <<calls, server>>

(***************************************************************************)
(* Completing the lesson: the position is saved first, and both the token    *)
(* and the write are for the lesson that is still selected then.             *)
(***************************************************************************)
RequiredAnswered == QuestionsShown \cap MustPass \subseteq screen.answered

CompleteCall(scope, stage) ==
  [kind |-> "complete", scope |-> scope, stage |-> stage, row |-> NotStarted]

CompleteLesson ==
  /\ LessonShown /\ ~screen.saving /\ ~screen.progress.done /\ RequiredAnswered
  /\ LET cleared == [screen EXCEPT !.error = FALSE]
     IN IF VideoShown /\ MaySavePosition
        THEN Writes(cleared, PositionSave(TRUE, TRUE, screen.at))
        ELSE Writes(cleared, CompleteCall(SelectedScope(screen), "token"))

\* The save is over, one way or the other: persistVideoPosition never fails.
AfterSave(p, c) ==
  IF c.completes /\ SameScope(c)
  THEN /\ screen' = p
       /\ calls' = (calls \ {c}) \cup {CompleteCall(c.scope, "token")}
  ELSE screen' = [p EXCEPT !.saving = FALSE] /\ Ended(c)

PositionStored(c) ==
  /\ c.kind = "save" /\ c.stage = "sent"
  /\ server' = [server EXCEPT ![c.scope].at = c.at]
  /\ calls' = (calls \ {c}) \cup {[c EXCEPT !.stage = "stored", !.row = server'[c.scope]]}
  /\ UNCHANGED screen

PositionSaved(c) ==
  /\ c.kind = "save" /\ c.stage = "stored"
  /\ AfterSave(IF SameScope(c) THEN [screen EXCEPT !.progress = c.row, !.saved = c.row.at]
                               ELSE screen, c)
  /\ UNCHANGED server

PositionSaveFails(c) ==
  /\ c.kind = "save"
  /\ AfterSave([screen EXCEPT !.error = @ \/ (SameScope(c) /\ ~c.quiet),
                              !.lost = @ \/ c.stage = "stored"], c)
  /\ UNCHANGED server

CompleteSends(c) ==
  /\ c.kind = "complete" /\ c.stage = "token"
  /\ IF SameScope(c) THEN Advances(c, "sent") /\ UNCHANGED screen
     ELSE Ended(c) /\ screen' = [screen EXCEPT !.saving = FALSE]
  /\ UNCHANGED server

CompleteStored(c) ==
  /\ c.kind = "complete" /\ c.stage = "sent"
  /\ server' = [server EXCEPT ![c.scope].done = TRUE]
  /\ calls' = (calls \ {c}) \cup {[c EXCEPT !.stage = "stored", !.row = server'[c.scope]]}
  /\ UNCHANGED screen

Completed(c) ==
  /\ c.kind = "complete" /\ c.stage = "stored"
  /\ screen' = [screen EXCEPT !.saving = FALSE,
                              !.progress = IF SameScope(c) THEN c.row ELSE @]
  /\ Ended(c) /\ UNCHANGED server

CompleteFails(c) ==
  /\ c.kind = "complete"
  /\ screen' = [screen EXCEPT !.saving = FALSE, !.error = @ \/ SameScope(c),
                              !.lost = @ \/ c.stage = "stored"]
  /\ Ended(c) /\ UNCHANGED server

(***************************************************************************)
(* The parts of the page.                                                    *)
(***************************************************************************)
CourseIndex == \E lesson \in CourseLessonSet : SelectLesson(lesson)

QuestionOverlay == SkipQuestion \/ \E right \in BOOLEAN : AnswerQuestion(right)

LessonArticle ==
  PlayerReady \/ PauseEvent \/ QuestionOverlay \/ CompleteLesson \/ \E t \in 0..VideoEnd : TimeUpdate(t)

PlayerNext ==
  \/ \E course \in Courses, wanted \in CourseLessonSet : OpenCourse(course, wanted)
  \/ CourseIndex \/ LessonArticle \/ RetryLesson
  \/ \E timer \in screen.timers : FeedbackOver(timer)
  \/ \E c \in calls :
       \/ CourseArrives(c) \/ CourseFails(c) \/ LessonRead(c) \/ LessonArrives(c)
       \/ LessonReadFails(c) \/ PositionStored(c) \/ PositionSaved(c)
       \/ PositionSaveFails(c) \/ CompleteSends(c) \/ CompleteStored(c) \/ Completed(c)
       \/ CompleteFails(c)

PlayerSpec == PlayerInit /\ [][PlayerNext]_tabVars

(***************************************************************************)
(* Properties                                                              *)
(***************************************************************************)
\* A lesson is completed only by a learner who answered every question of its
\* video that must be passed, rightly, here or earlier in this browser: although
\* the server does not check it, questions close by timers that a lesson change
\* does not stop, and the answers of all lessons are kept together.
DoneMeansPassed ==
  Mounted("player") =>
    \A s \in LessonScopes :
      server[s].done /\ s[2] \in DOMAIN VideoQuestions =>
        VideoQuestions[s[2]] \cap MustPass \subseteq screen.passed

\* The progress on the screen is the one the server holds for this lesson in this
\* course, whatever writes of other lessons end meanwhile, when none of its own is
\* under way.  It holds but for two cases the code leaves open: a lesson left and
\* selected again before a write to it ended, and a write whose answer was lost.
ProgressIsTrue ==
  /\ Mounted("player") /\ LessonShown /\ ~screen.hurried /\ ~screen.lost
  /\ \A c \in ProgressWrites(calls) : c.scope # screen.scope
  => screen.progress = server[screen.scope]
=============================================================================
