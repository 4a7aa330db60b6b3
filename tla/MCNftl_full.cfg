\* More logical blocks than the device can hold.
CONSTANTS
  NBlocks = 4
  PagesPerBlock = 2
  MINI_FREE_BLOCK = 1
  GARBAGE_LIMIT = 4
  FactoryBad = {}
  NLba = 3
  d1 = d1
  d2 = d2
  other = other
  Data <- MCData
  HostWrites <- Sparse
  Erased = Erased
  Junk = Junk
  DL_MAX_BLOCKS = 4
  DL_BLOCKS_HIGH = 3
  DL_BLOCKS_LOW = 1
  DL_PAGES_HIGH = 3
  DL_PAGES_LOW = 1
  TailRewrites = FALSE
  MaxMoves = 0
SPECIFICATION FairProceed
PROPERTIES UsesPoolToOverrun CallReturns
CHECK_DEADLOCK FALSE
