\* Every command is answered, well or not; the card comes and goes.
CONSTANTS
  PageLists <- MCPageLists
  MaxRetries = 1
SPECIFICATION FairSpec
INVARIANTS TypeOK PlacedIfAccepted OneSlot NoStray
PROPERTIES RequestEnds
