SPECIFICATION QuestionBankSpec
CONSTANTS
  BankFilters = {"a"}
  MaxVersion = 2
  MaxCommands = 2
  MaxOthers = 1
PROPERTIES
  DraftNeverJumps
CHECK_DEADLOCK FALSE
