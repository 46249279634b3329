SPECIFICATION Spec
CONSTANTS
  Op = {o1, o2, o3}
  Tenant = {t1, t2}
  Org = {g1}
  Field = {f1}
  Faults = {"error", "lost_reply", "crash"}
SYMMETRY Perms
INVARIANTS
  PatchLostOnlyToOverlap
PROPERTIES
  RefusedMeansTaken
CHECK_DEADLOCK FALSE
