SPECIFICATION FairBarrierSpec
CONSTANTS
  first = first
  second = second
  Parties = {t1, t2, t3, t4}
  Barriers = {first}
  Schedule <- SameBarrier
INVARIANTS
  Separation
  NoLostWakeup
PROPERTIES
  EverybodyPasses
