\* Two consumers that draw two tickets at a time in a ring of two.
SPECIFICATION FairSpec
CONSTANTS
  c1 = c1  c2 = c2
  Consumers <- TwoConsumers
  N = 2
  K = 2
  MaxRetries = 2
  MaxWait = 1
  MaxItems = 4
  MaxHead = 6
INVARIANTS TypeOK NoRace Accounted SkippedAreLost
PROPERTIES ImplementsBatch DequeueReturns
CHECK_DEADLOCK FALSE
