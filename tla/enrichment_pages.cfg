SPECIFICATION EnrichmentSpec
CONSTANTS
  Run = {p1}
  NRecord = 4
  NTenant = 2
  BatchSize = 2
  Display = {"actor"}
  Cutoffs = {0}
  MaxClock = 1
  Dialects = {"pg", "other"}
  Failures = {"error"}
INVARIANTS
  RunCompletes
PROPERTIES
  RunEnds
CHECK_DEADLOCK FALSE
