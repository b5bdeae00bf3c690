\* Two polling consumers: a granted dequeue may spin for ever.
SPECIFICATION PollSpec
CONSTANTS
  c1 = c1  c2 = c2
  Consumers <- TwoConsumers
  Counts <- Ones
  Size = 2
  MaxItems = 2
PROPERTIES PopCommits
CHECK_DEADLOCK FALSE
