\* Two consumers, a ring of two, a call that gives up after two waits or at
\* its third ticket.
SPECIFICATION FairSpec
CONSTANTS
  c1 = c1  c2 = c2
  Consumers <- TwoConsumers
  N = 2
  MaxRetries = 3
  MaxWait = 2
  MaxItems = 4
  MaxHead = 4
INVARIANTS NoRace Accounted
PROPERTIES ImplementsBag DequeueReturns
CHECK_DEADLOCK FALSE
