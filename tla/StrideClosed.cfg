SPECIFICATION ClosedSpec
CONSTANTS
  p1 = p1
  p2 = p2
  p3 = p3
  idle = idle
  Proc = {p1, p2, p3}
  BIG_STRIDE = 3
  Priority = {0, 1, 2}
  MAX_TIME_SLICE = 1
  MaxTotal = 11
SYMMETRY Symmetry
INVARIANTS
  SpreadBounded
PROPERTIES
  PicksLeast
