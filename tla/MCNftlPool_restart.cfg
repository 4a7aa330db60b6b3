\* A sound device restarted while no block is being retired.
CONSTANTS
  NBlocks = 7
  PagesPerBlock = 4
  MINI_FREE_BLOCK = 0
  GARBAGE_LIMIT = 5
  FactoryBad = {2}
SPECIFICATION RestartSpec
INVARIANTS OneRole GtRoom
PROPERTIES EraseSpares MountRebuilds
CHECK_DEADLOCK FALSE
