SPECIFICATION FairSpec
CONSTANTS
  Token = {j1}
  Request = {p1, p2}
  TokenTTL = 4
  ClaimTTL = 2
  MaxTime = 5
  Faults = {"lost_reply", "crash"}
  Prompt = TRUE
INVARIANTS
  ExclusiveOwnership
  OneSuccess
PROPERTIES
  WrittenHolderCloses
CHECK_DEADLOCK FALSE
