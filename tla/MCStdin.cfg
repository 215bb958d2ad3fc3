SPECIFICATION FairSpec
CONSTANTS
  p1 = p1
  p2 = p2
  p3 = p3
  idle = idle
  Proc = {idle, p1, p2}
  STDIN_BUFSIZE = 2
  MaxLen = 2
  MaxTyped = 3
INVARIANTS
  StdinInv
  InputExact
PROPERTIES
  InputReachesReader
  KilledReaderExits
