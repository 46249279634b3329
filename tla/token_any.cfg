SPECIFICATION Spec
CONSTANTS
  Token = {j1}
  Request = {p1, p2, p3}
  TokenTTL = 2
  MaxTime = 4
  Faults = {"error", "lost_reply", "crash"}
SYMMETRY Perms
INVARIANTS
  OneConsumer
  SettledInTime
PROPERTIES
  TokenPromiseKept
CHECK_DEADLOCK FALSE
