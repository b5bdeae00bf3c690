\* Rows that are left because the consumers overtook, never at their end.
SPECIFICATION Spec
CONSTANTS
  c1 = c1  c2 = c2
  Consumers <- TwoConsumers
  Rows = 3
  Cols = 7
  MaxItems = 5
  MaxHead = 4
SYMMETRY ConsumerSymmetry
INVARIANTS TypeOK AnswersTrue FifoUpToPending
PROPERTIES ImplementsBag
CHECK_DEADLOCK FALSE
