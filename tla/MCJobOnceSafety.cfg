SPECIFICATION Spec
CONSTANTS
  Nodes = {n1, n2}
  Callers = {c1}
  Jobs = {j1, j2}
  NoProcess = NoProcess
  MaxCalls = 3
  runAt <- OtherTime
  maxNumFails = 1
  MaxFaults = 1
  FaultKinds = {"read","delete","crash","lag","refresh"}
SYMMETRY Symmetry
CHECK_DEADLOCK FALSE
INVARIANTS
  TypeOK
  AtMostOnce
  CancelHolds
