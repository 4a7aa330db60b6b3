\* Commands may stay unanswered; the core waits one second and the driver two.
CONSTANTS
  PageLists <- MCPageLists
  MaxRetries = 1
SPECIFICATION Spec
INVARIANTS NoStray
CHECK_DEADLOCK FALSE
