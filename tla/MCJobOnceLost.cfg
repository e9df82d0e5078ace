SPECIFICATION Spec
CONSTANTS
  Nodes = {n1, n2}
  Callers = {c1}
  Jobs = {j1, j2, j3}
  NoProcess = NoProcess
  MaxCalls = 3
  runAt <- OtherTime
  maxNumFails = 1
  MaxFaults = 0
  FaultKinds = {}
SYMMETRY Symmetry
CHECK_DEADLOCK FALSE
INVARIANT NotLost
