CONSTANTS
  t1 = t1  t2 = t2
  Threads = {t1, t2}
  NoThread = NoThread
  Leaves = {a, b, c, d, e, f}
  HeadNode = HeadNode
  NoNode = NoNode
  Cap = 2
  MaxLevel = 2
  FillThread = t1
  Programs <- MCPrograms
  Limit = 14
  Align = 2
SPECIFICATION FairSpec
INVARIANTS
  TypeOK
  LiveLeavesSound
  LinkedAtRest
  LinkBehindLiveLocked
PROPERTIES
  OopsOnlyWhileLinking
  ImplementsRangeSet
  CallsReturn
