\* Two consumers; a queue too small for a warmup of four items, one that such
\* a warmup fills, one that is full at times, and one that never is.
SPECIFICATION FairSpec
CONSTANTS
  NumConsumers = 2
  NumWindows = 2
  Capacities = {3, 4, 6, 12}
  Programs <- AllPrograms
  DemoItems = 4
  MaxAttempts = 2
  Ops = 2
  EnqBatch = 3
  DeqBatch = 2
  Warm = 1
  Items = 2
  MaxEmpty = 2
INVARIANTS TypeOK CollectivesMatch MemoryOutlivesEpochs PhasesHold CountsAgree
PROPERTIES Terminates
CHECK_DEADLOCK FALSE
