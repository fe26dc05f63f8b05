SPECIFICATION Spec
CONSTANTS
  Paths = {"p1"}
  Subjects = {"s1", "s2"}
  PathOf <- PathOfSubject
  MaxWrites = 1
  Skills = {"k1", "k2"}
  Kinds = {"topic", "lesson", "library", "course", "newcourse"}
  MaxRev = 3
  Tabs = {"courses", "lessons", "foundation", "library"}
  Searches = {"a", "b"}
  ContentRows = {"first"}
  MaxPage = 2
  MaxChanges = 1
  DirectedSchools = {"s1", "s2"}
  MaxSchoolVisits = 1
  MaxOrders = 1
  MaxSubmits = 2
  MaxForms = 1
  AdminSchools = {"s1", "s2"}
  MaxHandled = 2
  RosterSchools = {"s1", "s2"}
  Wanted = {"a", "b"}
  MaxScopes = 2
  LastPage = 2
  MaxEdits = 2
  MaxVersions = 2
  Ads = {1, 2}
  DefaultAds = {1}
  MaxAdChanges = 2
  MaxFontChanges = 2
  MaxFontVersions = 2
  BankFilters = {"a", "b"}
  MaxVersion = 2
  MaxCommands = 1
  MaxOthers = 1
  BatchIds = {"m", "n"}
  BatchTexts = {1, 2}
  MaxImports = 3
  MaxOtherRuns = 1
  Places = 3
  MainSkills = {"m1", "m2", "m3"}
  SubSkills = {"b1"}
  ScopeOf <- ScopeOfSkill
  MaxUploads = 1
  Me = "me"
  Other = "u"
  MaxOrdered = 1
  MaxForeign = 1
  MaxSessionRows = 2
  MaxSessionWrites = 3
INVARIANTS
  StaffPagesTypeOK
  RowsAreOfTheView
  EditsAreKept
  SentAsMeant
  TablesAreTrue
  AnAdminRemains
CHECK_DEADLOCK FALSE
