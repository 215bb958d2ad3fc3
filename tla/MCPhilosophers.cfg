SPECIFICATION DinnerSpec
CONSTANTS
  N = 4
  TIMES = 2
  Proc = {0, 1, 2, 3}
  CV = {0, 1, 2, 3}
  mutex = mutex
  next = next
  nobody = nobody
  tableMutex = tableMutex
\* The dinner ends.
CHECK_DEADLOCK FALSE
INVARIANTS
  PhilInv
  MonitorInv
  OneOwner
PROPERTIES
  ImplementsTable
  SemaImplementsTable
  AllMealsEaten
