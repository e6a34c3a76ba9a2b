CONSTANTS
  a = a
  b = b
  Tag = Tag
  Leaf <- MCLeaf
  MergeTag <- Tag
  W = 5
  MaxLeaves = 15
SPECIFICATION Spec
SYMMETRY MCSymmetry
INVARIANTS
  TypeOK
  BufferIsPostorder
  AccumulatorIsPeaks
CHECK_DEADLOCK FALSE
