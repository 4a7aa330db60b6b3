\* Failing programs and erases, no power cut.  Four blocks: two users' blocks
\* retired in one or two pages, the GarbageTab and a backup block.
CONSTANTS
  NBlocks = 4
  PagesPerBlock = 4
  MINI_FREE_BLOCK = 0
  GARBAGE_LIMIT = 3
  FactoryBad = {}
SPECIFICATION FairSpec
INVARIANTS TypeOK OneRole FreeCountDrift
PROPERTIES AddToGtReturns
CHECK_DEADLOCK FALSE
