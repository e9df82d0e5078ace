SPECIFICATION Spec
CONSTANTS
  deadQueueSize = 4
  MaxSequence = 14
  Nil = Nil
INVARIANTS
  TypeOK
  RingInv
  ResumeClassified
  DrainExact
CHECK_DEADLOCK FALSE
