SPECIFICATION FairSpec
CONSTANTS
  p1 = p1
  p2 = p2
  p3 = p3
  idle = idle
  init = init
  AnyChild = AnyChild
  Proc = {idle, init, p1, p2}
  MAX_PROCESS = 4
\* A kernel that panicked or whose init_main returned has halted.
CHECK_DEADLOCK FALSE
PROPERTIES
  OrphansReaped
  KilledExits
