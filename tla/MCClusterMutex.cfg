SPECIFICATION FairSpec
CONSTANTS
  Lockers = {p1, p2, p3}
  NoLocker = NoLocker
  ttl = 6
  refreshInterval = 2
  MaxDelay = 1
  MaxFaults = 2
  FaultKinds = {"lock", "refresh", "unlock", "crash"}
INVARIANTS
  TypeOK
  OneHolder
PROPERTIES
  ImplementsLock
  NobodyBarred
