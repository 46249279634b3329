SPECIFICATION SafeSpec
CONSTANTS
  Run = {p1, p2}
  NRecord = 2
  NTenant = 1
  BatchSize = 1
  Display = {"actor"}
  Cutoffs = {0}
  MaxClock = 2
  Dialects = {"pg", "other"}
  Failures = {"crash"}
SYMMETRY Perms
PROPERTIES
  RecordsOnlyGain
CHECK_DEADLOCK FALSE
