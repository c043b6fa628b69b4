SPECIFICATION FairSpec
CONSTANTS
  None = None
  MaxHop = 1
  MaxSwitch = 1
INVARIANTS
  TypeOK
  LoadsAreReported
  AnswersAreOwn
PROPERTIES
  ReportsInOrder
  LoadsEnd
CHECK_DEADLOCK FALSE
