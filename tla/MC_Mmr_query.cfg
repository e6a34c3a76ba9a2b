CONSTANTS
  a = a
  b = b
  Tag = Tag
  Leaf <- MCLeaf
  MergeTag <- Tag
  W = 5
  MaxLeaves = 7
SPECIFICATION Spec
SYMMETRY MCSymmetry
INVARIANTS
  GetReturnsLeaf OpenIsValidProof
CHECK_DEADLOCK FALSE
