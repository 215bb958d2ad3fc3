SPECIFICATION Spec
CONSTANTS
  p1 = p1
  p2 = p2
  p3 = p3
  idle = idle
  Proc = {p1, p2}
  BIG_STRIDE = 3
  Priority = {0, 1}
  MAX_TIME_SLICE = 2
  MaxTotal = 12
PROPERTIES
  PicksLeast
