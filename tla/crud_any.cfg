SPECIFICATION MCSpec
CONSTANTS
    Req = {p1, p2}
    Beside = p2
    User = {u1, u2}
    Support = {u1}
    Role = {r1}
    Tenant = {t1, t2}
    FirstTenant = t1
    MaxItems = 2
    Faults = {"error", "lost_reply", "crash"}
INVARIANTS
  TenantsApart
  SupportKeepsToItself
  OutcomesTellTheTruth
  BatchesSeeToEveryUser
PROPERTIES
  ChangesAuthorised
CHECK_DEADLOCK FALSE
