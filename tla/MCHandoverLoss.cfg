SPECIFICATION Spec
CONSTANTS
  deadQueueSize = 2
  Nil = Nil
  sendQueueSize = 3
  MaxConns = 2
  MaxEvents = 2
  MaxFaults = 1
  FaultKinds = {"break"}
INVARIANT NoMessageLoss
CHECK_DEADLOCK FALSE
