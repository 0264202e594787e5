SPECIFICATION Spec
CONSTANTS
  Readers = {r1, r2}
  Updaters = {u1, u2}
  Objs = {o1, o2, o3}
  NoObj = NoObj
  NoThread = NoThread
  Tids <- AllUnique
  MaxSections = 1
  MaxUpdates = 1
  MaxRounds = 1
  StoreBufferSize = 1
SYMMETRY ObjSymmetry
INVARIANTS
  VisibleReadersWaited
  OwnershipUnique
