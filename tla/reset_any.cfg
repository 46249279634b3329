SPECIFICATION Spec
CONSTANTS
  Token = {j1}
  Request = {p1, p2, p3}
  TokenTTL = 3
  ClaimTTL = 1
  MaxTime = 5
  Faults = {"error", "lost_reply", "crash"}
  Prompt = FALSE
SYMMETRY Perms
INVARIANTS
  SpentMeansWritten
  OneFinalizer
  FenceNamesOwner
PROPERTIES
  PromiseKept
CHECK_DEADLOCK FALSE
