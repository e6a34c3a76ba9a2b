CONSTANTS
  a = a
  b = b
  Tag = Tag
  Leaf <- MCLeaf
  MergeTag <- Tag
  W = 5
  MaxLeaves = 8
SPECIFICATION Spec
SYMMETRY MCSymmetry
INVARIANTS
  OpenIsValidProof
CHECK_DEADLOCK FALSE
