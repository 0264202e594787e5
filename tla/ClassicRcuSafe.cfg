SPECIFICATION Spec
CONSTANTS
  NrCpu = 2
  Readers = {r1, r2}
  Updaters = {u1, u2}
  Callers = {c1}
  NoThread = NoThread
  Objs = {o1, o2, o3}
  NoObj = NoObj
  Junk = Junk
  NrProtected = 2
INVARIANTS
  TypeOK
  ReadersSafe
  FreedOnce
PROPERTIES
  ImplementsGracePeriod
SYMMETRY ObjSymmetry
