SPECIFICATION MCSpec
CONSTANTS
  Call = {1, 2, 3, 4}
  Resource = {r1}
  History = 2
  Publishes = TRUE
INVARIANTS
  EveryChangeHeard
  FeedAgrees
PROPERTIES
  CallsReturn
CHECK_DEADLOCK FALSE
