SPECIFICATION SfsSpec
CONSTANTS
  f1 = f1
  f2 = f2
  File = {f1, f2}
  Block = {1, 2, 3, 4}
  SFS_NDIRECT = 1
  SFS_BLK_NENTRY = 1
  SFS_BLKSIZE = 2
  SFS_MAX_FILE_SIZE = 6
  MaxLen = 2
SYMMETRY FileSymmetry
VIEW View
CHECK_DEADLOCK FALSE
INVARIANTS
  BlocksExact
  CleanShutdown
PROPERTIES
  DataStaysPut
