SPECIFICATION MCSpec
CONSTANTS
    Req = {p1}
    Me = u1
    Other = u2
    T1 = t1
    T2 = t2
    C1 = c1
    C2 = c2
    K1 = k1
    K2 = k2
    Actor = {u1, u2}
    Tenant = {t1, t2}
    Channel = {c1, c2}
    Kind = {k1, k2}
    DefaultLimit = 2
    MaxLimit = 2
    Elsewhere <- MCElsewhere
    MaxLog = 3
    MaxTime = 3
    Faults = {"error", "lost_reply"}
INVARIANTS
  ShownIsAllowed
  SecretsMasked
  PagesMissNothing
  StatsAreExact
CHECK_DEADLOCK FALSE
