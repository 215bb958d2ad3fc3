SPECIFICATION HeapSpec
CONSTANTS
  Regions <- TwoRegions
  NoPage = NoPage
  MaxRun = 3
  UNITS = 6
  Sizes = {1, 2, 6, 12}
  MaxHeld = 3
  NULL = NULL
VIEW Meaningful
INVARIANTS
  HeapExact
PROPERTIES
  ImplementsPageAllocator
