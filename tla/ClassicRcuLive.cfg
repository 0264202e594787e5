SPECIFICATION FairSpec
CONSTANTS
  NrCpu = 2
  Readers = {r1}
  Updaters = {u1}
  Callers = {c1}
  NoThread = NoThread
  Objs = {o1, o2}
  NoObj = NoObj
  Junk = Junk
  NrProtected = 2
PROPERTIES
  Termination
