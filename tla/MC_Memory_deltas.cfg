CONSTANTS
  zero = zero
  w1 = w1
  w2 = w2
  Addr = {0, 1, 3}
  Word <- MCWord
  InitMemValue = zero
  MaxStep = 2
  MaxRows = 4
SPECIFICATION Spec
INVARIANTS
  RangeCheckDeltasInRange
CHECK_DEADLOCK FALSE
