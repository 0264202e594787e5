SPECIFICATION Spec
CONSTANTS
  Writers = {w1}
  r1 = r1
  r2 = r2
  Readers = {r1}
  NoThread = NoThread
  Kinds <- LocklessOnly
  CountMod = 8
  MaxTry = 1
  MaxWrites = 2
  MaxReads = 1
INVARIANTS
  AcceptedReadsConsistent
CHECK_DEADLOCK FALSE
