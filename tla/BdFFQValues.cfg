\* A batch that meets an occupied cell.
SPECIFICATION Spec
CONSTANTS
  c1 = c1  c2 = c2
  Consumers <- TwoConsumers
  N = 2
  EnqK = 2
  DeqK = 2
  MaxRetries = 2
  MaxBatches = 3
  MaxTail = 6
  MaxHead = 6
INVARIANTS ValuesOnce
CHECK_DEADLOCK FALSE
