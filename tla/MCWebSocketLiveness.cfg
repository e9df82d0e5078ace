SPECIFICATION FairSpec
CONSTANTS
  deadQueueSize = 2
  Nil = Nil
  sendQueueSize = 1
  MaxConns = 4
  MaxEvents = 2
  MaxFaults = 1
  FaultKinds <- AllFaults
PROPERTIES
  EventuallySeen
CHECK_DEADLOCK FALSE
