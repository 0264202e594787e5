SPECIFICATION FairSpec
CONSTANTS
  Writers = {w1, w2}
  r1 = r1
  r2 = r2
  Readers = {r1, r2}
  NoThread = NoThread
  Kinds <- MixedKinds
  CountMod = 4
  MaxTry = 1
  MaxWrites = 2
  MaxReads = 2
INVARIANTS
  TypeOK
  OddWhileWriting
  LockedReadsConsistent
  AcceptedWithinOneWrite
PROPERTIES
  WritersFinish
\* A reader waits for ever for an odd count, or for the lock done_seqretry()
\* has kept.
CHECK_DEADLOCK FALSE
