SPECIFICATION FairSpec
CONSTANTS
  Readers = {r1, r2}
  Updaters = {u1, u2}
  Nodes = {n1, n2, n3}
  Objs = {o1, o2, o3}
  NoObj = NoObj
  NoNode = NoNode
  NoThread = NoThread
  CountMod = 4
  MaxSections = 1
  MaxUpdates = 1
  NewvalSources = {"fresh", "retired"}
INVARIANTS
  TypeOK
  RetiredIntact
  CountExact
  GuardedReadersSafe
  AllFreed
PROPERTIES
  Termination
CHECK_DEADLOCK FALSE
