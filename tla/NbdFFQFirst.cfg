\* One consumer ahead of the producer: the first ticket is skipped, then published.
SPECIFICATION Spec
CONSTANTS
  c1 = c1  c2 = c2
  Consumers <- TwoConsumers
  N = 2
  MaxRetries = 3
  MaxWait = 2
  MaxBatches = 2
  MaxTail = 3
  MaxHead = 3
INVARIANT SkipIsFinal
CHECK_DEADLOCK FALSE
