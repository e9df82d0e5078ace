SPECIFICATION FairSpec
CONSTANTS
  Nodes = {n1, n2}
  Callers = {c1}
  Jobs = {j1, j2}
  NoProcess = NoProcess
  MaxCalls = 2
  runAt <- OtherTime
  maxNumFails = 1
  MaxFaults = 0
  FaultKinds = {}
CHECK_DEADLOCK FALSE
PROPERTY CancelReturns
