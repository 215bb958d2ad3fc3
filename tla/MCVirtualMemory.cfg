SPECIFICATION Spec
CONSTANTS
  check = check
  mm1 = mm1
  mm2 = mm2
  x = x
  y = y
  Mm = {check, mm1, mm2}
  NPAGE = 3
  PTPAGES = 2
  Frame <- Frames
  CheckFrame <- CheckFrames
  Value = {x, y}
  Segment <- Segments
  Fresh = Fresh
  NoMm = NoMm
  NoVma = NoVma
  NoFrame = NoFrame
SYMMETRY Interchangeable
INVARIANTS
  FramesExact
  VmasExact
  SwapExact
  UserMemCheckExact
PROPERTIES
  ImplementsPrivateMemory
