SPECIFICATION FairSpec
CONSTANTS
  Readers = {r1, r2}
  Updaters = {u1}
  Objs = {o1, o2}
  NoObj = NoObj
  NoThread = NoThread
  Tids <- UniqueOrColliding
  MaxSections = 2
  MaxUpdates = 1
  MaxRounds = 2
  StoreBufferSize = 0
INVARIANTS
  TypeOK
  ReadersSafe
  NoLeak
  NoNullNode
PROPERTIES
  ImplementsGracePeriod
  Termination
