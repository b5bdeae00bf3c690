\* Batches of two on both sides around a ring of two.
SPECIFICATION FairSpec
CONSTANTS
  c1 = c1  c2 = c2
  Consumers <- TwoConsumers
  N = 2
  EnqK = 2
  DeqK = 2
  MaxRetries = 2
  MaxBatches = 3
  MaxTail = 6
  MaxHead = 4
INVARIANTS TypeOK NoRace Accounted
PROPERTIES ImplementsBatch DequeueReturns
CHECK_DEADLOCK FALSE
