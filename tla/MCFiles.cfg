SPECIFICATION Spec
CONSTANTS
  p1 = p1
  p2 = p2
  p3 = p3
  t1 = t1
  t2 = t2
  t3 = t3
  tty = tty
  dir = dir
  root = root
  Proc = {p1, p2, p3}
  Table = {t1, t2, t3}
  Node = {root, dir, tty}
  Dir = {root, dir}
  Device = {tty}
  NoTable = NoTable
  NoNode = NoNode
  NoFd = NoFd
  NENTRY = 2
  NSTD = 1
  MaxLost = 1
CHECK_DEADLOCK FALSE
SYMMETRY Interchangeable
INVARIANTS
  RefsExact
  FilesInv
PROPERTIES
  ReaderKeepsFile
