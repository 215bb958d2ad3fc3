SPECIFICATION TimedSpec
CONSTANTS
  p1 = p1
  p2 = p2
  p3 = p3
  s1 = s1
  idle = idle
  Proc = {idle, p1, p2, p3}
  Sem = {s1}
  InitValue <- MutexInit
  MaxPermits = 2
  MaxSleep = 2
SYMMETRY Symmetry
INVARIANTS
  IInv
  SleepersSafe
PROPERTIES
  OnlyUpEndsAWait
  ImplementsSemaphores
  ImplementsTimers
