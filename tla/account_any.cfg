SPECIFICATION Spec
CONSTANTS
  Op = {o1, o2, o3}
  Kinds = {"create", "transition", "update", "change", "bootstrap"}
  Targets = {"active", "archived"}
  Faults = {"error", "lost_reply", "crash"}
SYMMETRY Perms
INVARIANTS
  TemporaryIsMarked
  PermanentIsUnmarked
  PasswordIsLastWritten
  LogNamesRealChange
PROPERTIES
  StatusFollowsPolicy
CHECK_DEADLOCK FALSE
