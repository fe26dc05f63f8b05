--------------------------- MODULE MCLearnerPages ---------------------------
(* The pages of a learner, instantiated together: the tab shows one of them. *)
EXTENDS AttemptPage, CoursePlayer, StudyPlan, SignIn, LearningSpace, ReviewLibrary,
        MasteryGoals, ReviewPractice, TLC

\* AttemptPage: one timed paper of two questions, one without a time limit.
QuestionsOf == ("a1" :> 2) @@ ("a2" :> 1)

\* CoursePlayer: a video with two questions due at the same position, and a text.
LessonsOf == [c1 |-> {"l", "m"}, c2 |-> {"l"}]
QuestionsIn == [l |-> {"q", "r"}]
QuestionsDueAt == [q |-> 1, r |-> 1]

\* StudyPlan
SubjectsOfPath == [p1 |-> {"s1"}, p2 |-> {}]

\* LearningSpace: two subjects with different tabs; "d" is a topic that the space
\* does not list, and a link to it is one of the addresses.
SubjectsOfSpace == [p1 |-> {"s1", "s2"}, p2 |-> {}]
TabsOfSubject == [s1 |-> {"foundation", "questions"}, s2 |-> {"questions"}]
OpensOn == [s1 |-> "foundation", s2 |-> "questions"]
TopicsOf == [s1 |-> {"t", "d"}, s2 |-> {}]
Listing == [s1 |-> {"t"}, s2 |-> {}]
Startable == {<<"s1", "questions">>}
Link(path, subject, tab, topic) ==
  [path |-> path, subject |-> subject, tab |-> tab, topic |-> topic]
Links == {Link("none", "none", "courses", "none"), Link("p1", "s1", "foundation", "d")}

\* ReviewLibrary: two cards of one subject, each on a page of its own; the second is a
\* mistake, the first one only saved.
CardsOfPath == [p1 |-> {"s1"}, p2 |-> {"s2"}]
SubjectOfCard == <<"s1", "s1">>

Init ==
  \/ AttemptPageInit \/ PlayerInit \/ StudyPlanInit \/ SignInInit
  \/ SpaceInit \/ ReviewInit \/ GoalsInit \/ PracticeInit

Next ==
  \/ Mounted("attempt") /\ AttemptPageNext
  \/ Mounted("player") /\ PlayerNext
  \/ Mounted("plan") /\ StudyPlanNext
  \/ Mounted("signin") /\ SignInNext
  \/ Mounted("space") /\ SpaceNext
  \/ Mounted("review") /\ ReviewNext
  \/ Mounted("goals") /\ GoalsNext
  \/ Mounted("practice") /\ PracticeNext

Spec == Init /\ [][Next]_tabVars

-----------------------------------------------------------------------------
\* Every page keeps its types.
LearnerPagesTypeOK ==
  /\ AttemptPageTypeOK /\ PlayerTypeOK /\ StudyPlanTypeOK /\ SignInTypeOK
  /\ SpaceTypeOK /\ ReviewTypeOK /\ GoalsTypeOK /\ PracticeTypeOK

\* An attempt comes to no harm through the pages: what is scored is what the
\* learner saw as answered, a running attempt keeps its timer
\* (AssessmentAttemptPage.tsx), and a start that is repeated does not use up
\* another attempt (LearningSpacePage.tsx).
AttemptsAreSafe == ScoredIsShown /\ TimerStaysSet /\ NoAttemptIsWasted

\* A lesson is shown as done only when it was, with the questions that must be
\* passed, and the progress shown is the lesson's own (CourseLearningPage.tsx); a
\* review card is answered once, and the progress of a skill counts exactly the
\* evidence there is (ReviewPracticePage.tsx and internal/learning).
ProgressIsEarned ==
  /\ DoneMeansPassed /\ ProgressIsTrue
  /\ AnsweredOnce /\ ProgressIsOfEvidence /\ ResultIsRecorded

\* Late, lost and reordered answers notwithstanding, what is shown belongs to
\* what is selected: the path and status of the study plan (StudyPlanPage.tsx),
\* the subject, tab and topic of the learning space (LearningSpacePage.tsx), the
\* tab, subject and search of the review library (ReviewLibraryPage.tsx).
SelectionIsShown == PlanOfView /\ SpaceOfSelection /\ ReviewIsTrue
=============================================================================
