SPECIFICATION BothSpec
CONSTANTS
  p1 = p1
  p2 = p2
  p3 = p3
  idle = idle
  init = init
  AnyChild = AnyChild
  Proc = {idle, init, p1, p2, p3}
  MAX_PROCESS = 5
  MAX_PID = 7
  MaxListed = 5
\* A kernel that panicked or whose init_main returned has halted.
CHECK_DEADLOCK FALSE
SYMMETRY Symmetry
INVARIANTS
  TableInv
  NoLostExit
  InitMainAssertions
  PidInv
  WalkEnds
PROPERTIES
  OnlyParentReaps
