SPECIFICATION Spec
CONSTANTS
  Assessments = {"a1", "a2"}
  Timed = {"a1"}
  AnswerFirst = {"a1"}
  NQuestions <- QuestionsOf
  MaxVisits = 2
  Courses = {"c1", "c2"}
  CourseLessons <- LessonsOf
  VideoQuestions <- QuestionsIn
  AskedAt <- QuestionsDueAt
  MustPass = {"q"}
  Rewatch = {"q"}
  VideoEnd = 1
  MaxProgressWrites = 2
  PlanPaths = {"p1", "p2"}
  FirstPlanPath = "p1"
  PlanSubjects <- SubjectsOfPath
  MaxPlanWrites = 2
  MaxPlanClock = 3
  SignInAccounts = {"a", "b"}
  PhoneAccounts = {"a"}
  MaxSessions = 2
  MaxTokens = 1
  MaxSignIns = 2
  MaxAsks = 2
  PathSubjects <- SubjectsOfSpace
  AllowedTabs <- TabsOfSubject
  FirstTab <- OpensOn
  SpaceTopics <- TopicsOf
  ListedTopics <- Listing
  OpenPlacements <- Startable
  PlacementAttempts = 2
  MaxStartKeys = 2
  SpaceAddresses <- Links
  ReviewPaths = {"p1", "p2"}
  ReviewSubjects <- CardsOfPath
  CardSubject <- SubjectOfCard
  Mistakes = {2}
  SavedOnly = {1}
  ReviewPageSize = 1
  MaxToggles = 2
  GoalPaths = {"p1", "p2"}
  GoalSubjects = {"s1"}
  MaxGoals = 2
  NCards = 2
  NHandovers = 1
  MaxElsewhere = 1
INVARIANTS
  LearnerPagesTypeOK
  AttemptsAreSafe
  ProgressIsEarned
  SelectionIsShown
  SessionIsOne
  OneGoalPerHorizon
PROPERTIES
  ArchivedStays
CHECK_DEADLOCK FALSE
