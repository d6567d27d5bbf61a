SPECIFICATION Spec
CONSTANTS
  c1 = c1
  c2 = c2
  Call <- MCCall
  Kinds <- MCKinds
  Nil = Nil
  Reply = Reply
  MaxSeq = 3
  MaxSocks = 2
  MaxReverse = 1
  MaxCalls = 2
  MaxEnds = 1
INVARIANTS
  AsleepForCause
  SettledOnce
CHECK_DEADLOCK FALSE
