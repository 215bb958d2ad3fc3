SPECIFICATION Spec
CONSTANTS
  p1 = p1
  p2 = p2
  p3 = p3
  idle = idle
  NULL = NULL
  Proc = {p1, p2, p3}
  BIG_STRIDE = 1
  Priority = {0, 1}
  MAX_TIME_SLICE = 1
  MaxTotal = 5
SYMMETRY Symmetry
INVARIANTS
  HeapInv
PROPERTIES
  ImplementsStrideSched
