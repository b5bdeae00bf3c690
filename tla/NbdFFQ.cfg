\* Two consumers, a ring of two batch slots.
SPECIFICATION FairSpec
CONSTANTS
  c1 = c1  c2 = c2
  Consumers <- TwoConsumers
  N = 2
  MaxRetries = 3
  MaxWait = 2
  MaxBatches = 4
  MaxTail = 6
  MaxHead = 4
INVARIANTS TypeOK NoRace Accounted
PROPERTIES ImplementsBag DequeueReturns
CHECK_DEADLOCK FALSE
