SPECIFICATION Spec
CONSTANTS
  deadQueueSize = 2
  Nil = Nil
  sendQueueSize = 2
  MaxConns = 3
  MaxEvents = 4
  MaxFaults = 1
  FaultKinds <- AllFaults
INVARIANTS
  TypeOK
  SingleOwner
  NoSendOnClosed
  NeverAhead
PROPERTIES
  InOrderOnce
  NoSilentLoss
  ImplementsEventStream
CHECK_DEADLOCK FALSE
