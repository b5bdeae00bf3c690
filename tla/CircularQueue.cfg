\* Two consumers whose batches of one or two wrap around a ring of three.
SPECIFICATION FairSpec
CONSTANTS
  c1 = c1  c2 = c2
  Consumers <- TwoConsumers
  Counts <- OneOrTwo
  Size = 3
  MaxItems = 4
INVARIANTS NoRace
PROPERTIES ImplementsFifo WedgeIsForever AllHandedOnceAlone
CHECK_DEADLOCK FALSE
