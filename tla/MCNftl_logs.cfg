\* Two logical blocks competing for the logs, blocks moved, restarts.
CONSTANTS
  NBlocks = 6
  PagesPerBlock = 2
  MINI_FREE_BLOCK = 2
  GARBAGE_LIMIT = 4
  FactoryBad = {}
  NLba = 2
  d1 = d1
  d2 = d2
  other = other
  Data <- MCData
  HostWrites <- ThreePages
  Erased = Erased
  Junk = Junk
  DL_MAX_BLOCKS = 4
  DL_BLOCKS_HIGH = 2
  DL_BLOCKS_LOW = 1
  DL_PAGES_HIGH = 2
  DL_PAGES_LOW = 1
  TailRewrites = FALSE
  MaxMoves = 1
SPECIFICATION RestartsSpec
SYMMETRY DataSymmetry
INVARIANTS ReadBack Accounted LogHasRoom NeverStarved
PROPERTIES ProgramOnce UsesPool
