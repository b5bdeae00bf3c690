\* Two consumers, six cells in three words, six rows with two head counters.
SPECIFICATION Spec
CONSTANTS
  c1 = c1  c2 = c2
  Consumers <- TwoConsumers
  NumConsumers = 2
  W = 2
  Cols = 6
  MaxRow = 6
  MaxItems = 7
  MaxHead = 9
INVARIANTS TypeOK RowShared ValuesOnce UntilOverwritten SearchesRight
PROPERTIES RowChange
CHECK_DEADLOCK FALSE
