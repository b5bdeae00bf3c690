\* Two consumers that poll: an enqueue call may spin for ever.
SPECIFICATION FairSpec
CONSTANTS
  c1 = c1  c2 = c2
  Consumers <- TwoConsumers
  N = 2
  MaxRetries = 3
  MaxWait = 2
  MaxItems = 3
  MaxHead = 4
PROPERTIES EnqueueReturns
CHECK_DEADLOCK FALSE
