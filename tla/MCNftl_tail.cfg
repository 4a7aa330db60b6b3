\* The host rewrites a page of a log that lacks only its last page.
CONSTANTS
  NBlocks = 6
  PagesPerBlock = 3
  MINI_FREE_BLOCK = 1
  GARBAGE_LIMIT = 4
  FactoryBad = {}
  NLba = 1
  d1 = d1
  d2 = d2
  other = other
  Data <- MCData
  HostWrites <- FollowFirst
  Erased = Erased
  Junk = Junk
  DL_MAX_BLOCKS = 4
  DL_BLOCKS_HIGH = 2
  DL_BLOCKS_LOW = 1
  DL_PAGES_HIGH = 4
  DL_PAGES_LOW = 1
  TailRewrites = TRUE
  MaxMoves = 0
SPECIFICATION Spec
SYMMETRY DataSymmetry
INVARIANTS ReadBack
