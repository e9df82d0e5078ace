SPECIFICATION FairSpec
CONSTANTS
  Nodes = {n1, n2}
  Callers = {c1}
  Jobs = {j1, j2, j3}
  NoProcess = NoProcess
  MaxCalls = 1
  runAt <- OtherTime
  maxNumFails = 1
  MaxFaults = 1
  FaultKinds = {"read", "delete", "crash", "lag", "refresh"}
CHECK_DEADLOCK FALSE
PROPERTIES
  EventuallyRuns
