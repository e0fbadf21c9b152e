SPECIFICATION FairSpec
CONSTANTS
  Handlers = {h1, h2}
  ListIds = {l1, l2}
  TaskIds = {t1, t2, t3}
  t1 = t1
  t2 = t2
  t3 = t3
  Dates = {1, 2, 9}
  Unparsable = {9}
  Rules = {daily, hourly}
  daily = daily
  hourly = hourly
  LastDay = 2
  NextDate <- Occurrences
  Bodies <- Requests
  MaxTasks = 2
  MaxSubtasks = 1
  NoRule = NoRule
  Blank = Blank
  None = None
INVARIANTS
  TypeOK
  RowsBelong
PROPERTIES
  AnswerIsStored
  OtherListsUntouched
  RetryIsNoOp
  RecurringStaysOpenIfFresh
  EveryRequestAnswered
