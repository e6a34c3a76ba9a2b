CONSTANTS
  a = a
  b = b
  Tag = Tag
  Leaf <- MCLeaf
  MergeTag <- Tag
  W = 5
  MaxLeaves = 12
SPECIFICATION NodesSpec
SYMMETRY MCSymmetry
INVARIANTS
  NodesTypeOK
  IterYieldsInnerNodes
  IterDebugAssertions
