CONSTANTS
  Readers = {r1}
  Null = Null
  Junk = Junk
  Top = 100
  Cap = 3
  Fresh <- MCFresh
  Changes <- MCChanges
  Args <- MCArgs
  MaxOps = 2
SPECIFICATION FairSpec
INVARIANTS
  WithinMinMax
  UnmovedLookupsRight
PROPERTIES
  ChangesLeaf
  LookupsEnd
