SPECIFICATION Spec
CONSTANTS
  Op = {o1, o2, o3}
  Role = {r1, r2}
  Member = {m1}
  Scope = {s1, s2}
  Name = {n1}
  Faults = {"error", "lost_reply", "crash"}
SYMMETRY Perms
INVARIANTS
  AssignmentsHaveRoles
  MirrorAgrees
PROPERTIES
  SystemRolesStay
  RolePromiseKept
CHECK_DEADLOCK FALSE
