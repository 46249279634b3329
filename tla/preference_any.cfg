SPECIFICATION MCSpec
CONSTANTS
  Call = {o1, o2, o3}
  NLevel = 2
  Key = {1, 2}
  Part = {x, y}
  Defaults <- MCDefaults
  Old = {old1, old2}
  Failures = {"error", "lost_reply", "crash"}
  MaxWork = 4
SYMMETRY Perms
INVARIANTS
  ResolvedWasEffective
  VersionsTellWritesApart
  BulkTellsEachKey
  ChangesAreAnnounced
CHECK_DEADLOCK FALSE
