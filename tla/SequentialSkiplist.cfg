CONSTANTS
  Nodes = {n1, n2, n3, n4}
  HeadNode = HeadNode
  Null = Null
  MaxLevel = 3
  Keys <- MCKeys
  Vals = {v1, v2}
SPECIFICATION Spec
INVARIANTS
  SearchIsRight
PROPERTIES
  DanglesOnlyOnRefusal
