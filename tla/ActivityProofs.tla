---------------------------- MODULE ActivityProofs ----------------------------
(* Proofs about ActivityFeed, for every set of requests, actors, tenants,       *)
(* channels and kinds, every policy, filter and limit, and logs of any bound;   *)
(* and about ActivityEnrichment, for any number of runs, records and tenants,   *)
(* every batch size, cutoff and clock.                                           *)
EXTENDS ActivityFeed, ActivityEnrichment, FiniteSetTheorems, TLAPS

-----------------------------------------------------------------------------
(* Types *)

Places == {"idle", "create", "ask", "list", "count", "done", "refused", "failed"}
Views == {"index", "feed"}

\* What the host configured and what was asked for; no step changes it.
EnvType ==
    /\ policy \in Policy /\ dialect \in {"pg", "other"}
    /\ job \in [Req -> Job]
    /\ \A p \in Req : job[p].op = "index" => job[p].ask.tenant = {} /\ job[p].ask.machines

LogType == log \in Seq(Record) /\ Len(log) <= MaxLog

LocalType ==
    /\ pc \in [Req -> Places]
    /\ filter \in [Req -> Filter]
    /\ offset \in [Req -> Nat]
    /\ page \in [Req -> SUBSET SUBSET Nat]
    /\ total \in [Req -> SUBSET Nat]
    /\ shown \in [Req -> SUBSET Seen]
    /\ counted \in [Req -> SUBSET Nat]
    /\ again \in [Req -> SUBSET Nat]
    /\ known \in [Req -> Nat]

BaseType == EnvType /\ LogType /\ LocalType /\ now \in 1 .. MaxTime

\* Where a request stands fits what it asks for, and what it holds fits where it
\* stands and what was logged.
PlaceFits(p) ==
    /\ pc[p] = "create" => job[p].op = "create"
    /\ pc[p] = "ask" => job[p].op # "create"
    /\ pc[p] = "list" => job[p].op \in Views
    /\ pc[p] = "count" => job[p].op = "stats"
    /\ pc[p] \in {"idle", "create", "ask", "count"} => page[p] = {} /\ total[p] = {}
    /\ pc[p] \in {"idle", "create"} => shown[p] = {} /\ offset[p] = 0

InLog(p) ==
    /\ known[p] <= Len(log) /\ offset[p] <= Len(log)
    /\ \A n \in total[p] : n <= Len(log)
    /\ \A rows \in page[p] : rows \subseteq DOMAIN log /\ Cardinality(rows) <= MaxLimit
    /\ counted[p] \subseteq DOMAIN log /\ again[p] \subseteq DOMAIN log

TypeInv == BaseType /\ \A p \in Req : PlaceFits(p) /\ InLog(p)

\* One step of one request.
Step(p) ==
    \/ Start(p) \/ Create(p) \/ Refuse(p) \/ Ask(p) \/ SelectRows(p) \/ CountRows(p)
    \/ ShowPage(p) \/ ActivityStats(p) \/ Fail(p)

LEMMA NextIsStep == Next <=> Tick \/ LogElsewhere \/ \E p \in Req : Step(p)
  BY DEF Next, Step

\* A request has credentials, and unless it logs a record a filter and a limit.
LEMMA JobType ==
    ASSUME EnvType, NEW p \in Req
    PROVE  /\ job[p] \in Job /\ job[p].as \in Credentials
           /\ job[p].op \in {"index", "feed", "stats", "create"}
           /\ job[p].op # "create" => job[p].ask \in Filter /\ job[p].limit \in Nat
           /\ job[p].op = "create" => job[p].record \in Record
  <1>1. job[p] \in Job
    BY DEF EnvType
  <1>2. CASE job[p] \in [op : {"index", "feed", "stats"}, as : Credentials, ask : Filter,
                         limit : Nat]
    BY <1>2, <1>1
  <1>3. CASE job[p] \in [op : {"create"}, as : Credentials, record : Record]
    BY <1>3, <1>1
  <1> QED
    BY <1>1, <1>2, <1>3 DEF Job

LEMMA MinOfTwo ==
    ASSUME NEW a \in Nat, NEW b \in Nat
    PROVE  Min({a, b}) = IF a <= b THEN a ELSE b
  BY DEF Min

\* A page is never longer than the longest there may be.
LEMMA LimitType ==
    ASSUME EnvType, NEW p \in Req, job[p].op # "create"
    PROVE  Limit(p) \in Nat /\ Limit(p) <= MaxLimit
  <1>1. job[p].limit \in Nat
    BY JobType
  <1> QED
    BY <1>1, FeedAssumption, MinOfTwo DEF Limit, NormalizeLimit

-----------------------------------------------------------------------------
(* What a step does to the log *)

Same == UNCHANGED <<env, log, outrun>>
Logs == UNCHANGED env /\ \E r \in Record : Insert(r)

LEMMA SameLemma == ASSUME Same PROVE UNCHANGED <<policy, dialect, job, log, outrun>>
  BY DEF Same, env

LEMMA LogsLemma == ASSUME Logs PROVE UNCHANGED <<policy, dialect, job>>
  BY DEF Logs, env

LEMMA StampedType ==
    ASSUME NEW r \in Record, NEW c \in Credentials, NEW t \in Id(Tenant)
    PROVE  Stamped(r, c, t) \in Record
  BY DEF Stamped, Record, Credentials, Id

LEMMA CreateLogs ==
    ASSUME BaseType, NEW p \in Req, job[p].op = "create", Create(p)
    PROVE  Logs
  <1> DEFINE c == job[p].as
             r == job[p].record
             t == ResolveScope(c, IF r.tenant = {} THEN c.tenant ELSE r.tenant)
  <1>1. c \in Credentials /\ r \in Record
    BY JobType DEF BaseType
  <1>2. t \in Id(Tenant)
    BY <1>1 DEF ResolveScope, Credentials, Record
  <1>3. Stamped(r, c, t) \in Record
    BY <1>1, <1>2, StampedType
  <1> QED
    BY <1>3 DEF Create, Logs, env

LEMMA ElsewhereLogs ==
    ASSUME BaseType, LogElsewhere
    PROVE  Logs
  <1>1. PICK r \in Elsewhere, t \in 1 .. now : Insert([r EXCEPT !.at = t])
    BY DEF LogElsewhere
  <1>2. r \in Record /\ t \in 1 .. MaxTime
    BY ElsewhereAssumption, FeedAssumption DEF BaseType
  <1>3. [r EXCEPT !.at = t] \in Record
    BY <1>2 DEF Record
  <1> QED
    BY <1>1, <1>3 DEF LogElsewhere, Logs, env

\* A step of a request logs at most one record, and leaves the clock alone.
LEMMA StepLog ==
    ASSUME TypeInv, NEW p \in Req, Step(p)
    PROVE  (Same \/ Logs) /\ now' = now
  <1>1. CASE Create(p)
    <2>1. job[p].op = "create"
      BY <1>1 DEF Create, TypeInv, PlaceFits
    <2> QED
      BY <1>1, <2>1, CreateLogs DEF TypeInv, Create
  <1>2. CASE ~Create(p)
    BY <1>2 DEF Step, Start, Refuse, Ask, SelectRows, CountRows, ShowPage, ActivityStats, Fail,
                Same, env
  <1> QED
    BY <1>1, <1>2

\* Records are logged one at a time and never change.
LEMMA LogType1 ==
    ASSUME LogType, NEW r \in Record, Insert(r)
    PROVE  /\ LogType' /\ Len(log') = Len(log) + 1
           /\ DOMAIN log = 1 .. Len(log) /\ DOMAIN log' = 1 .. (Len(log) + 1)
           /\ \A i \in DOMAIN log : log'[i] = log[i]
           /\ log'[Len(log) + 1] = r
  <1>1. log' = Append(log, r) /\ Len(log) < MaxLog /\ MaxLog \in Nat
    BY FeedAssumption DEF Insert
  <1> QED
    BY <1>1 DEF LogType

LEMMA LogOnlyGrows ==
    ASSUME LogType, Same \/ Logs
    PROVE  /\ LogType' /\ Len(log) <= Len(log') /\ DOMAIN log \subseteq DOMAIN log'
           /\ \A i \in DOMAIN log : log'[i] = log[i]
  <1>1. CASE Same
    BY <1>1 DEF Same, LogType
  <1>2. CASE Logs
    <2>1. PICK r \in Record : Insert(r)
      BY <1>2 DEF Logs
    <2>2. Len(log) \in Nat
      BY DEF LogType
    <2> QED
      BY <2>1, <2>2, LogType1
  <1> QED
    BY <1>1, <1>2

\* The records of the log and their places.
LEMMA LogRecords ==
    ASSUME LogType
    PROVE  /\ Len(log) \in Nat /\ DOMAIN log = 1 .. Len(log)
           /\ \A i \in DOMAIN log : /\ i \in Nat /\ i \in 1 .. MaxLog
                                    /\ log[i] \in Record /\ log[i].at \in Nat
  <1>1. \A i \in DOMAIN log : log[i] \in Record
    BY DEF LogType
  <1>2. \A r \in Record : r.at \in Nat
    BY DEF Record
  <1> QED
    BY <1>1, <1>2, FeedAssumption DEF LogType

-----------------------------------------------------------------------------
(* What a step does to a request *)

Stays(p) ==
    UNCHANGED <<pc[p], filter[p], offset[p], page[p], total[p], shown[p], counted[p], again[p],
                known[p]>>

LEMMA Others ==
    ASSUME LocalType, NEW p \in Req, NEW q \in Req, q # p, Step(p)
    PROVE  Stays(q)
  <1>1. CASE Start(p) \/ Create(p) \/ Refuse(p) \/ Fail(p)
    BY <1>1 DEF Start, Create, Refuse, Fail, Goto, reading, LocalType, Stays
  <1>2. CASE Ask(p) \/ SelectRows(p) \/ CountRows(p) \/ ActivityStats(p)
    BY <1>2 DEF Ask, SelectRows, CountRows, ActivityStats, Goto, reading, LocalType, Stays
  <1>3. CASE ShowPage(p)
    BY <1>3 DEF ShowPage, Goto, reading, LocalType, Stays
  <1> QED
    BY <1>1, <1>2, <1>3 DEF Step

LEMMA Everyone ==
    ASSUME LocalType, Tick \/ LogElsewhere \/ UNCHANGED vars
    PROVE  \A q \in Req : Stays(q)
  BY DEF Tick, LogElsewhere, vars, env, reading, Stays

-----------------------------------------------------------------------------
(* The access policy, field by field *)

LEMMA PolicyType ==
    ASSUME EnvType
    PROVE  /\ policy \in Policy /\ policy.allow \subseteq Channel /\ policy.deny \subseteq Channel
           /\ policy.machines \in BOOLEAN
  BY DEF EnvType, Policy

LEMMA BlankType == Blank \in Filter
  BY DEF Blank, Filter, Id

\* A scope is the actor's own, but where superadmins may name another.
LEMMA Scopes ==
    ASSUME NEW c \in Credentials, NEW f \in Filter, NEW t \in ScopesFor(c, f)
    PROVE  /\ t \in Id(Tenant) /\ ScopesFor(c, f) = {t}
           /\ Superadmin(c) /\ policy.widen => t = f.tenant
           /\ c.tenant = {} => t = f.tenant
           /\ f.tenant = {} /\ ~(Superadmin(c) /\ policy.widen) => t = c.tenant
           /\ c.tenant # {} /\ ~(Superadmin(c) /\ policy.widen) => t = c.tenant
  <1>1. c.tenant \in Id(Tenant) /\ f.tenant \in Id(Tenant)
    BY DEF Credentials, Filter
  <1> QED
    BY <1>1 DEF ScopesFor, IntersectScopes

LEMMA Channels ==
    ASSUME EnvType, NEW f \in Filter, NEW s \in ApplyChannelOptions(f)
    PROVE  /\ s \in SUBSET Channel /\ ApplyChannelOptions(f) = {s}
           /\ policy.allow # {} => s \subseteq policy.allow
           /\ policy.allow # {} \/ f.channels # {} => s # {}
           /\ policy.allow = {} /\ f.channels = {} => s = {}
           /\ f.channels # {} => s \subseteq f.channels
           /\ \A x \in Channel :
                  /\ policy.allow = {} \/ x \in policy.allow
                  /\ f.channels = {} \/ x \in f.channels
                  /\ x \notin policy.deny \cup f.deny
                  => s = {} \/ x \in s
  <1>1. f.channels \subseteq Channel /\ policy.allow \subseteq Channel
    BY PolicyType DEF Filter
  <1> QED
    BY <1>1 DEF ApplyChannelOptions

LEMMA NarrowedFields ==
    ASSUME EnvType, NEW c \in Credentials, NEW f \in Filter,
           NEW t \in Id(Tenant), NEW s \in SUBSET Channel
    PROVE  LET g == Narrowed(c, f, t, s) IN
           /\ g \in Filter /\ g.tenant = t /\ g.channels = s
           /\ g.user = Own(c, f.user) /\ g.actor = Own(c, f.actor)
           /\ g.deny = policy.deny \cup f.deny /\ g.kinds = f.kinds
           /\ g.machines <=> f.machines /\ (policy.machines \/ Superadmin(c))
  <1>1. {c.id} \in Id(Actor)
    BY DEF Credentials, Id
  <1>2. Own(c, f.user) \in Id(Actor) /\ Own(c, f.actor) \in Id(Actor)
    BY <1>1 DEF Own, Filter
  <1>3. policy.deny \cup f.deny \in SUBSET Channel
    BY PolicyType DEF Filter
  <1> DEFINE m == IF policy.machines \/ Superadmin(c) THEN f.machines ELSE FALSE
             u == Own(c, f.user)
             a == Own(c, f.actor)
             d == policy.deny \cup f.deny
  <1>4. m \in BOOLEAN
    BY DEF Filter
  <1>5. Narrowed(c, f, t, s) = [f EXCEPT !.tenant = t, !.user = u, !.actor = a, !.channels = s,
                                         !.deny = d, !.machines = m]
    BY DEF Narrowed
  <1> HIDE DEF m, u, a, d
  <1>6. LET g == [f EXCEPT !.tenant = t, !.user = u, !.actor = a, !.channels = s,
                           !.deny = d, !.machines = m]
        IN /\ g \in Filter /\ g.tenant = t /\ g.channels = s /\ g.user = u /\ g.actor = a
           /\ g.deny = d /\ g.kinds = f.kinds /\ g.machines = m
    BY <1>2, <1>3, <1>4 DEF Filter, u, a, d
  <1>7. m <=> f.machines /\ (policy.machines \/ Superadmin(c))
    BY DEF m
  <1> QED
    BY <1>5, <1>6, <1>7 DEF u, a, d

\* What the policy makes of a filter.
LEMMA BuildFields ==
    ASSUME EnvType, NEW c \in Credentials, NEW f \in Filter, NEW g \in BuildFilterFromActor(c, f)
    PROVE  /\ g \in Filter
           /\ g.tenant \in ScopesFor(c, f) /\ g.channels \in ApplyChannelOptions(f)
           /\ g.user = Own(c, f.user) /\ g.actor = Own(c, f.actor)
           /\ g.deny = policy.deny \cup f.deny /\ g.kinds = f.kinds
           /\ g.machines <=> f.machines /\ (policy.machines \/ Superadmin(c))
           /\ BuildFilterFromActor(c, f) = {g}
  <1>1. PICK t \in ScopesFor(c, f), s \in ApplyChannelOptions(f) : g = Narrowed(c, f, t, s)
    BY DEF BuildFilterFromActor
  <1>2. t \in Id(Tenant) /\ ScopesFor(c, f) = {t}
    BY Scopes
  <1>3. s \in SUBSET Channel /\ ApplyChannelOptions(f) = {s}
    BY Channels
  <1>4. /\ g \in Filter /\ g.tenant = t /\ g.channels = s
        /\ g.user = Own(c, f.user) /\ g.actor = Own(c, f.actor)
        /\ g.deny = policy.deny \cup f.deny /\ g.kinds = f.kinds
        /\ g.machines <=> f.machines /\ (policy.machines \/ Superadmin(c))
    BY <1>1, <1>2, <1>3, NarrowedFields
  <1>5. BuildFilterFromActor(c, f) = {g}
    BY <1>1, <1>2, <1>3 DEF BuildFilterFromActor
  <1> QED
    BY <1>1, <1>4, <1>5

\* What statistics are asked with.
LEMMA StatsFields ==
    ASSUME EnvType, NEW c \in Credentials, NEW f \in Filter, NEW h \in ApplyStats(c, f)
    PROVE  /\ h \in Filter /\ h.kinds = f.kinds /\ h.tenant \in ScopesFor(c, f)
           /\ IF policy.selfStats THEN h.user = Own(c, {}) /\ h.actor = Own(c, {})
              ELSE h.user = f.user /\ h.actor = f.actor
           /\ h.machines <=> policy.machines \/ Superadmin(c)
           /\ ApplyStats(c, f) = {h}
  <1> DEFINE b == [Blank EXCEPT !.tenant = f.tenant]
  <1>1. b \in Filter /\ b.tenant = f.tenant /\ b.user = {} /\ b.actor = {} /\ b.machines = TRUE
    BY DEF Blank, Filter, Id
  <1>2. ApplyStats(c, f) = {StatsOf(f, x) : x \in BuildFilterFromActor(c, b)}
    BY DEF ApplyStats
  <1> HIDE DEF b
  <1>3. PICK g \in BuildFilterFromActor(c, b) : h = StatsOf(f, g)
    BY <1>2
  <1>4. /\ g \in Filter /\ g.user = Own(c, {}) /\ g.actor = Own(c, {})
        /\ g.tenant \in ScopesFor(c, b)
        /\ g.machines <=> policy.machines \/ Superadmin(c)
        /\ BuildFilterFromActor(c, b) = {g}
    BY <1>1, BuildFields
  <1>5. ScopesFor(c, b) = ScopesFor(c, f)
    BY <1>1 DEF ScopesFor
  <1> DEFINE u == IF policy.selfStats THEN g.user ELSE f.user
             a == IF policy.selfStats THEN g.actor ELSE f.actor
  <1>6. h = [f EXCEPT !.tenant = g.tenant, !.machines = g.machines, !.user = u, !.actor = a]
    BY <1>3 DEF StatsOf
  <1>7. u \in Id(Actor) /\ a \in Id(Actor) /\ g.tenant \in Id(Tenant) /\ g.machines \in BOOLEAN
    BY <1>4 DEF Filter
  <1> HIDE DEF u, a
  <1>8. /\ h \in Filter /\ h.tenant = g.tenant /\ h.user = u /\ h.actor = a
        /\ h.kinds = f.kinds /\ h.machines = g.machines
    BY <1>6, <1>7 DEF Filter
  <1>9. h.machines <=> policy.machines \/ Superadmin(c)
    BY <1>4, <1>8
  <1>10. IF policy.selfStats THEN h.user = Own(c, {}) /\ h.actor = Own(c, {})
         ELSE h.user = f.user /\ h.actor = f.actor
    BY <1>4, <1>8 DEF u, a
  <1>11. ApplyStats(c, f) = {h}
    BY <1>2, <1>3, <1>4
  <1> QED
    BY <1>4, <1>5, <1>8, <1>9, <1>10, <1>11

-----------------------------------------------------------------------------
(* The filter a request asks the table with *)

\* The filter the query is given, and what the policy of the queries makes of it.
Asked(p) == IF job[p].op = "index" THEN Served(job[p].as, job[p].ask) ELSE {job[p].ask}
Applied(p, a) ==
    IF ~policy.attached THEN {a}
    ELSE IF job[p].op = "stats" THEN ApplyStats(job[p].as, a)
    ELSE BuildFilterFromActor(job[p].as, a)
InScope(c, g) == [g EXCEPT !.tenant = ResolveScope(c, @)]

LEMMA InScopeFields ==
    ASSUME NEW c \in Credentials, NEW g \in Filter
    PROVE  LET f == InScope(c, g) IN
           /\ f \in Filter /\ f.user = g.user /\ f.actor = g.actor /\ f.channels = g.channels
           /\ f.deny = g.deny /\ f.kinds = g.kinds /\ f.machines = g.machines
           /\ f.tenant = ResolveScope(c, g.tenant)
  <1>1. ResolveScope(c, g.tenant) \in Id(Tenant)
    BY DEF ResolveScope, Credentials, Filter
  <1> QED
    BY <1>1 DEF InScope, Filter

LEMMA FiltersAre ==
    ASSUME NEW p \in Req, NEW f \in Filters(p)
    PROVE  \E a \in Asked(p) : \E g \in Applied(p, a) : f = InScope(job[p].as, g)
  <1> DEFINE c == job[p].as
             left == IF ~policy.attached THEN Asked(p)
                     ELSE UNION {IF job[p].op = "stats" THEN ApplyStats(c, a)
                                 ELSE BuildFilterFromActor(c, a) : a \in Asked(p)}
  <1>1. Filters(p) = {InScope(c, g) : g \in left}
    BY DEF Filters, Guarded, Asked, InScope
  <1>2. PICK g \in left : f = InScope(c, g)
    BY <1>1
  <1>3. CASE ~policy.attached
    BY <1>2, <1>3 DEF Applied
  <1>4. CASE policy.attached
    <2>1. PICK a \in Asked(p) : g \in IF job[p].op = "stats" THEN ApplyStats(c, a)
                                      ELSE BuildFilterFromActor(c, a)
      BY <1>2, <1>4
    <2> QED
      BY <1>2, <1>4, <2>1 DEF Applied
  <1> QED
    BY <1>3, <1>4

\* What the service asks in the name of an actor is in the actor's scope.
LEMMA ServedFields ==
    ASSUME EnvType, NEW c \in Credentials, NEW ask \in Filter, NEW a \in Served(c, ask)
    PROVE  \E i \in Filter :
               /\ a \in BuildFilterFromActor(c, i) /\ Served(c, ask) = {a}
               /\ i.tenant = c.tenant /\ i.user = ask.user /\ i.actor = ask.actor
               /\ i.channels = ask.channels /\ i.deny = ask.deny /\ i.kinds = ask.kinds
               /\ i.machines = ask.machines
  <1> DEFINE i == [ask EXCEPT !.tenant = ResolveScope(c, c.tenant)]
  <1>1. c.tenant \in Id(Tenant) /\ ResolveScope(c, c.tenant) = c.tenant
    BY DEF ResolveScope, Credentials
  <1>2. /\ i \in Filter /\ i.tenant = c.tenant /\ i.user = ask.user /\ i.actor = ask.actor
        /\ i.channels = ask.channels /\ i.deny = ask.deny /\ i.kinds = ask.kinds
        /\ i.machines = ask.machines
    BY <1>1 DEF Filter
  <1>3. Served(c, ask) = BuildFilterFromActor(c, i)
    BY DEF Served
  <1> HIDE DEF i
  <1>4. BuildFilterFromActor(c, i) = {a}
    BY <1>2, <1>3, BuildFields
  <1> QED
    BY <1>2, <1>3, <1>4

LEMMA AskedType ==
    ASSUME EnvType, NEW p \in Req, job[p].op # "create", NEW a \in Asked(p)
    PROVE  /\ a \in Filter /\ Asked(p) = {a}
           /\ job[p].as \in Credentials /\ job[p].ask \in Filter
  <1>1. job[p].as \in Credentials /\ job[p].ask \in Filter
    BY JobType
  <1>2. CASE job[p].op = "index"
    <2>1. a \in Served(job[p].as, job[p].ask)
      BY <1>2 DEF Asked
    <2>2. PICK i \in Filter : /\ a \in BuildFilterFromActor(job[p].as, i)
                              /\ Served(job[p].as, job[p].ask) = {a}
      BY <1>1, <2>1, ServedFields
    <2>3. a \in Filter
      BY <1>1, <2>2, BuildFields
    <2> QED
      BY <1>1, <1>2, <2>2, <2>3 DEF Asked
  <1>3. CASE job[p].op # "index"
    BY <1>1, <1>3 DEF Asked
  <1> QED
    BY <1>2, <1>3

LEMMA AppliedType ==
    ASSUME EnvType, NEW p \in Req, job[p].op # "create", NEW a \in Filter, NEW g \in Applied(p, a)
    PROVE  g \in Filter /\ Applied(p, a) = {g}
  <1>1. job[p].as \in Credentials
    BY JobType
  <1>2. CASE ~policy.attached
    BY <1>2 DEF Applied
  <1>3. CASE policy.attached /\ job[p].op = "stats"
    BY <1>1, <1>3, StatsFields DEF Applied
  <1>4. CASE policy.attached /\ job[p].op # "stats"
    BY <1>1, <1>4, BuildFields DEF Applied
  <1> QED
    BY <1>2, <1>3, <1>4

\* However often the policy is applied, there is at most one filter in the end: page after
\* page asks for the same records.
LEMMA FiltersType ==
    ASSUME EnvType, NEW p \in Req, job[p].op # "create", NEW f \in Filters(p)
    PROVE  /\ f \in Filter
           /\ \A h \in Filters(p) : h = f
  <1>1. PICK a \in Asked(p) : \E g \in Applied(p, a) : f = InScope(job[p].as, g)
    BY FiltersAre
  <1>2. PICK g \in Applied(p, a) : f = InScope(job[p].as, g)
    BY <1>1
  <1>3. /\ a \in Filter /\ Asked(p) = {a} /\ job[p].as \in Credentials
        /\ g \in Filter /\ Applied(p, a) = {g}
    BY AskedType, AppliedType
  <1>4. f \in Filter
    BY <1>2, <1>3, InScopeFields
  <1>5. ASSUME NEW h \in Filters(p) PROVE h = f
    <2>1. PICK b \in Asked(p) : \E k \in Applied(p, b) : h = InScope(job[p].as, k)
      BY FiltersAre
    <2> QED
      BY <1>2, <1>3, <2>1
  <1> QED
    BY <1>4, <1>5

\* The filters depend on the policy and the request, which never change.
LEMMA FiltersStay ==
    ASSUME UNCHANGED <<policy, dialect, job>>, NEW p \in Req
    PROVE  Filters(p)' = Filters(p)
  BY DEF Filters, Guarded, Served, ApplyStats, StatsOf, BuildFilterFromActor, Narrowed, ScopesFor,
         ApplyChannelOptions, ResolveScope, Own, Superadmin, Admin

LEMMA MatchesStay ==
    ASSUME UNCHANGED <<policy, dialect, job>>, NEW f, NEW r
    PROVE  (Matches(f, r)' <=> Matches(f, r)) /\ (StatsMatches(f, r)' <=> StatsMatches(f, r))
  BY DEF Matches, StatsMatches, ActorMatches, LooksLikeMachine

-----------------------------------------------------------------------------
(* Every variable keeps its shape *)

\* What the client is shown of a record is of it, and nothing but the data and the
\* address differ.
LEMMA ShownType ==
    ASSUME NEW p \in Req, NEW i \in 1 .. MaxLog
    PROVE  AsShown(p, i) \in Seen /\ AsShown(p, i).place = i
  <1>1. ASSUME NEW c, NEW s \in Seen
        PROVE  Sanitize(c, s) \in Seen /\ Sanitize(c, s).place = s.place
    <2> DEFINE d == Exposed(c, s.data)
               b == s.ip /\ (Superadmin(c) \/ ~policy.redactIP)
    <2>1. d \in {"raw", "masked", "twice", "dropped"} /\ b \in BOOLEAN
      BY DEF Exposed, SanitizeRecord, Seen
    <2>2. Sanitize(c, s) = [s EXCEPT !.data = d, !.ip = b]
      BY DEF Sanitize
    <2> HIDE DEF d, b
    <2> QED
      BY <2>1, <2>2 DEF Seen
  <1> DEFINE raw == [place |-> i, data |-> "raw", ip |-> TRUE]
             c == job[p].as
             queried == IF policy.attached THEN Sanitize(c, raw) ELSE raw
  <1>2. raw \in Seen /\ raw.place = i
    BY DEF Seen
  <1>3. AsShown(p, i) = IF job[p].op = "index" THEN Sanitize(c, queried) ELSE queried
    BY DEF AsShown
  <1> HIDE DEF raw, c
  <1>4. queried \in Seen /\ queried.place = i
    BY <1>1, <1>2
  <1> QED
    BY <1>1, <1>3, <1>4

LEMMA FoundType ==
    ASSUME LogType, NEW p \in Req
    PROVE  /\ Found(p) \subseteq DOMAIN log /\ Found(p) \subseteq Nat
           /\ IsFiniteSet(Found(p)) /\ Cardinality(Found(p)) \in Nat
           /\ Cardinality(Found(p)) <= Len(log)
  <1>1. Len(log) \in Nat /\ DOMAIN log = 1 .. Len(log)
    BY LogRecords
  <1>2. IsFiniteSet(1 .. Len(log)) /\ Cardinality(1 .. Len(log)) = Len(log)
    <2> DEFINE n == Len(log)
    <2>1. n \in Nat
      BY <1>1
    <2> HIDE DEF n
    <2>2. /\ IsFiniteSet(1 .. n)
          /\ Cardinality(1 .. n) = IF 1 > n THEN 0 ELSE n - 1 + 1
      BY <2>1, FS_Interval
    <2>3. Cardinality(1 .. n) = n
      BY <2>1, <2>2
    <2> QED
      BY <2>2, <2>3 DEF n
  <1>3. Found(p) \in SUBSET (1 .. Len(log))
    BY <1>1 DEF Found
  <1> QED
    BY <1>1, <1>2, <1>3, FS_Subset, FS_CardinalityType

\* The size of a page.
LEMMA PageSize ==
    ASSUME TypeInv, NEW p \in Req, pc[p] = "list",
           NEW skipped \in SUBSET Found(p), NEW rows \in SUBSET (Found(p) \ skipped),
           Cardinality(rows) = Min({Limit(p), Cardinality(Found(p) \ skipped)})
    PROVE  Cardinality(rows) <= MaxLimit /\ rows \subseteq DOMAIN log
  <1>1. Limit(p) \in Nat /\ Limit(p) <= MaxLimit
    BY LimitType DEF TypeInv, BaseType, PlaceFits, Views
  <1>2. IsFiniteSet(Found(p)) /\ Found(p) \subseteq DOMAIN log
    BY FoundType DEF TypeInv, BaseType
  <1>3. Cardinality(Found(p) \ skipped) \in Nat
    BY <1>2, FS_Subset, FS_CardinalityType
  <1>4. Min({Limit(p), Cardinality(Found(p) \ skipped)}) <= Limit(p)
    <2> DEFINE k == Cardinality(Found(p) \ skipped)
               l == Limit(p)
    <2>1. k \in Nat /\ l \in Nat
      BY <1>1, <1>3
    <2> HIDE DEF k, l
    <2>2. Min({l, k}) = IF l <= k THEN l ELSE k
      BY <2>1, MinOfTwo
    <2>3. Min({l, k}) <= l
      BY <2>1, <2>2
    <2> QED
      BY <2>3 DEF k, l
  <1>5. Min({Limit(p), Cardinality(Found(p) \ skipped)}) \in Nat
    BY <1>1, <1>3, MinOfTwo
  <1>6. MaxLimit \in Nat
    BY FeedAssumption
  <1> QED
    BY <1>1, <1>2, <1>4, <1>5, <1>6

\* The next page begins inside the log.
LEMMA NextInLog ==
    ASSUME TypeInv, NEW p \in Req, pc[p] = "list"
    PROVE  /\ Limit(p) \in Nat /\ NextOffset(p) \in Nat /\ NextOffset(p) = offset[p] + Limit(p)
           /\ \A n \in total[p] : NextOffset(p) < n => NextOffset(p) <= Len(log)
  <1>1. Limit(p) \in Nat
    BY LimitType DEF TypeInv, BaseType, PlaceFits, Views
  <1>2. offset[p] \in Nat /\ total[p] \subseteq Nat /\ \A n \in total[p] : n <= Len(log)
    BY DEF TypeInv, BaseType, LocalType, InLog
  <1>3. Len(log) \in Nat
    BY DEF TypeInv, BaseType, LogType
  <1> QED
    BY <1>1, <1>2, <1>3 DEF NextOffset

LEMMA LocalTypeStep ==
    ASSUME TypeInv, NEW p \in Req, Step(p)
    PROVE  LocalType'
  <1> USE DEF LocalType, Places
  <1>1. LocalType
    BY DEF TypeInv, BaseType
  <1>2. CASE Start(p)
    <2>1. Len(log) \in Nat
      BY DEF TypeInv, BaseType, LogType
    <2> QED
      BY <1>1, <1>2, <2>1 DEF Start, Goto
  <1>3. CASE Create(p) \/ Refuse(p) \/ Fail(p)
    BY <1>1, <1>3 DEF Create, Refuse, Fail, Goto, reading
  <1>4. CASE Ask(p)
    <2>1. PICK f \in Filters(p) : filter' = [filter EXCEPT ![p] = f]
      BY <1>4 DEF Ask
    <2>2. f \in Filter
      BY <1>4, FiltersType DEF Ask, TypeInv, BaseType, PlaceFits
    <2> QED
      BY <1>1, <1>4, <2>1, <2>2 DEF Ask, Goto
  <1>5. CASE SelectRows(p)
    <2>1. PICK rows \in SUBSET Found(p) : page' = [page EXCEPT ![p] = {rows}]
      BY <1>5 DEF SelectRows
    <2>2. {rows} \in SUBSET SUBSET Nat
      BY FoundType DEF TypeInv, BaseType
    <2>3. page' \in [Req -> SUBSET SUBSET Nat]
      BY <1>1, <2>1, <2>2
    <2> QED
      BY <1>1, <1>5, <2>3 DEF SelectRows
  <1>6. CASE CountRows(p)
    <2>1. Cardinality(Found(p)) \in Nat
      BY FoundType DEF TypeInv, BaseType
    <2> QED
      BY <1>1, <1>6, <2>1 DEF CountRows
  <1>7. CASE ShowPage(p)
    <2>1. PICK rows \in page[p], n \in total[p] :
              /\ shown' = [shown EXCEPT ![p] = @ \cup {AsShown(p, i) : i \in rows}]
              /\ again' = [again EXCEPT ![p] =
                                @ \cup {i \in rows : \E s \in shown[p] : s.place = i}]
              /\ IF NextOffset(p) < n
                 THEN Goto(p, "ask") /\ offset' = [offset EXCEPT ![p] = NextOffset(p)]
                 ELSE Goto(p, "done") /\ UNCHANGED offset
      BY <1>7 DEF ShowPage
    <2>2. rows \subseteq DOMAIN log /\ rows \subseteq Nat
      BY DEF TypeInv, BaseType, InLog
    <2>3. \A i \in rows : i \in 1 .. MaxLog
      BY <2>2, LogRecords DEF TypeInv, BaseType
    <2>4. {AsShown(p, i) : i \in rows} \subseteq Seen
      BY <2>3, ShownType
    <2>5. NextOffset(p) \in Nat
      BY <1>7, NextInLog DEF ShowPage
    <2>6. shown' \in [Req -> SUBSET Seen] /\ again' \in [Req -> SUBSET Nat]
      BY <1>1, <2>1, <2>2, <2>4
    <2>7. pc' \in [Req -> Places] /\ offset' \in [Req -> Nat]
      BY <1>1, <2>1, <2>5 DEF Goto
    <2>8. page' \in [Req -> SUBSET SUBSET Nat] /\ total' \in [Req -> SUBSET Nat]
      BY <1>1, <1>7 DEF ShowPage
    <2>9. UNCHANGED <<filter, counted, known>>
      BY <1>7 DEF ShowPage
    <2> QED
      BY <1>1, <2>6, <2>7, <2>8, <2>9
  <1>8. CASE ActivityStats(p)
    <2>1. DOMAIN log \subseteq Nat
      BY LogRecords DEF TypeInv, BaseType
    <2>2. {i \in DOMAIN log : StatsMatches(filter[p], log[i])} \subseteq Nat
      BY <2>1
    <2> QED
      BY <1>1, <1>8, <2>2 DEF ActivityStats, Goto
  <1> QED
    BY <1>2, <1>3, <1>4, <1>5, <1>6, <1>7, <1>8 DEF Step

LEMMA PlaceFitsStep ==
    ASSUME TypeInv, NEW p \in Req, Step(p)
    PROVE  PlaceFits(p)'
  <1> USE DEF PlaceFits, Views
  <1>1. PlaceFits(p) /\ LocalType
    BY DEF TypeInv, BaseType
  <1>2. job' = job /\ job[p].op \in {"index", "feed", "stats", "create"}
    BY StepLog, SameLemma, LogsLemma, JobType DEF TypeInv, BaseType
  <1>3. CASE Start(p)
    BY <1>1, <1>2, <1>3 DEF Start, Goto, LocalType
  <1>4. CASE Create(p) \/ Refuse(p) \/ Fail(p)
    BY <1>1, <1>2, <1>4 DEF Create, Refuse, Fail, Goto, reading, LocalType
  <1>5. CASE Ask(p)
    BY <1>1, <1>2, <1>5 DEF Ask, Goto, LocalType
  <1>6. CASE SelectRows(p) \/ CountRows(p)
    BY <1>1, <1>2, <1>6 DEF SelectRows, CountRows, LocalType
  <1>7. CASE ShowPage(p)
    <2>1. page'[p] = {} /\ total'[p] = {} /\ pc[p] = "list"
      BY <1>1, <1>7 DEF ShowPage, LocalType
    <2>2. pc'[p] \in {"ask", "done"}
      BY <1>1, <1>7 DEF ShowPage, Goto, LocalType
    <2> QED
      BY <1>1, <1>2, <2>1, <2>2
  <1>8. CASE ActivityStats(p)
    BY <1>1, <1>2, <1>8 DEF ActivityStats, Goto, LocalType
  <1> QED
    BY <1>3, <1>4, <1>5, <1>6, <1>7, <1>8 DEF Step

LEMMA InLogStep ==
    ASSUME TypeInv, NEW p \in Req, Step(p)
    PROVE  InLog(p)'
  <1> USE DEF InLog
  <1>1. InLog(p) /\ LocalType /\ LogType /\ Len(log) \in Nat
    BY DEF TypeInv, BaseType, LogType
  <1>2. /\ Len(log) <= Len(log') /\ DOMAIN log \subseteq DOMAIN log' /\ Len(log') \in Nat
    BY <1>1, StepLog, LogOnlyGrows DEF LogType
  <1>3. /\ offset[p] \in Nat /\ known[p] \in Nat /\ total[p] \subseteq Nat
    BY <1>1 DEF LocalType
  <1>4. CASE Start(p)
    BY <1>1, <1>3, <1>4 DEF Start, LocalType
  <1>5. CASE Create(p) \/ Refuse(p) \/ Fail(p) \/ Ask(p)
    <2>1. UNCHANGED <<offset, page, total, counted, again, known>>
      BY <1>5 DEF Create, Refuse, Fail, Ask, reading
    <2> QED
      BY <1>1, <1>2, <1>3, <2>1
  <1>6. CASE SelectRows(p)
    <2>0. PICK skipped \in SUBSET Found(p) : \E rows \in SUBSET (Found(p) \ skipped) :
              /\ Cardinality(rows) = Min({Limit(p), Cardinality(Found(p) \ skipped)})
              /\ page' = [page EXCEPT ![p] = {rows}]
      BY <1>6 DEF SelectRows
    <2>1. PICK rows \in SUBSET (Found(p) \ skipped) :
              /\ Cardinality(rows) = Min({Limit(p), Cardinality(Found(p) \ skipped)})
              /\ page' = [page EXCEPT ![p] = {rows}]
      BY <2>0
    <2>2. Cardinality(rows) <= MaxLimit /\ rows \subseteq DOMAIN log
      BY <1>6, <2>1, PageSize DEF SelectRows
    <2>3. page'[p] = {rows}
      BY <1>1, <2>1 DEF LocalType
    <2> QED
      BY <1>1, <1>6, <2>2, <2>3 DEF SelectRows
  <1>7. CASE CountRows(p)
    <2>1. total'[p] = {Cardinality(Found(p))} /\ Cardinality(Found(p)) <= Len(log)
      BY <1>1, <1>7, FoundType DEF CountRows, LocalType
    <2> QED
      BY <1>1, <1>7, <2>1 DEF CountRows
  <1>8. CASE ShowPage(p)
    <2>1. PICK rows \in page[p], n \in total[p] :
              /\ again' = [again EXCEPT ![p] =
                                @ \cup {i \in rows : \E s \in shown[p] : s.place = i}]
              /\ IF NextOffset(p) < n
                 THEN Goto(p, "ask") /\ offset' = [offset EXCEPT ![p] = NextOffset(p)]
                 ELSE Goto(p, "done") /\ UNCHANGED offset
      BY <1>8 DEF ShowPage
    <2>2. offset'[p] = offset[p] \/ (NextOffset(p) < n /\ offset'[p] = NextOffset(p))
      BY <1>1, <2>1 DEF LocalType
    <2>3. offset'[p] <= Len(log)
      BY <1>1, <1>8, <2>2, NextInLog DEF ShowPage
    <2>4. again'[p] \subseteq again[p] \cup rows
      BY <1>1, <2>1 DEF LocalType
    <2>5. again'[p] \subseteq DOMAIN log
      BY <1>1, <2>1, <2>4
    <2>6. page'[p] = {} /\ total'[p] = {} /\ UNCHANGED <<log, counted, known>>
      BY <1>1, <1>8 DEF ShowPage, LocalType
    <2> QED
      BY <1>1, <2>3, <2>5, <2>6
  <1>9. CASE ActivityStats(p)
    <2>1. counted'[p] \subseteq DOMAIN log
      BY <1>1, <1>9 DEF ActivityStats, LocalType
    <2> QED
      BY <1>1, <1>9, <2>1 DEF ActivityStats
  <1> QED
    BY <1>4, <1>5, <1>6, <1>7, <1>8, <1>9 DEF Step

LEMMA StaysFits ==
    ASSUME TypeInv, Same \/ Logs, NEW p \in Req, Stays(p)
    PROVE  PlaceFits(p)' /\ InLog(p)'
  <1>1. PlaceFits(p)'
    <2>1. job' = job /\ PlaceFits(p)
      BY SameLemma, LogsLemma DEF TypeInv
    <2> QED
      BY <2>1 DEF PlaceFits, Stays
  <1>2. InLog(p)'
    <2>1. /\ Len(log) <= Len(log') /\ DOMAIN log \subseteq DOMAIN log'
          /\ Len(log) \in Nat /\ Len(log') \in Nat
      BY LogOnlyGrows DEF TypeInv, BaseType, LogType
    <2>2. InLog(p) /\ offset[p] \in Nat /\ known[p] \in Nat /\ total[p] \subseteq Nat
      BY DEF TypeInv, BaseType, LocalType
    <2> QED
      BY <2>1, <2>2 DEF InLog, Stays
  <1> QED
    BY <1>1, <1>2

\* A step of the system: of one request, of a part that logs, of the clock, or none.
LEMMA StepCases ==
    ASSUME TypeInv, [Next]_vars
    PROVE  \/ \E p \in Req : /\ Step(p) /\ (Same \/ Logs)
                             /\ \A q \in Req \ {p} : Stays(q)
           \/ /\ Same \/ Logs
              /\ \A q \in Req : Stays(q)
  <1>1. CASE \E p \in Req : Step(p)
    <2>1. PICK p \in Req : Step(p)
      BY <1>1
    <2>2. Same \/ Logs
      BY <2>1, StepLog
    <2>3. \A q \in Req \ {p} : Stays(q)
      BY <2>1, Others DEF TypeInv, BaseType
    <2> QED
      BY <2>1, <2>2, <2>3
  <1>2. CASE LogElsewhere
    BY <1>2, ElsewhereLogs, Everyone DEF TypeInv, BaseType
  <1>3. CASE Tick \/ UNCHANGED vars
    <2>1. Same
      BY <1>3 DEF Tick, vars, Same, env
    <2> QED
      BY <1>3, <2>1, Everyone DEF TypeInv, BaseType
  <1> QED
    BY <1>1, <1>2, <1>3, NextIsStep

LEMMA TypeStep ==
    ASSUME TypeInv, [Next]_vars
    PROVE  TypeInv'
  <1>1. EnvType' /\ LogType'
    <2>1. Same \/ Logs
      BY StepCases
    <2>2. UNCHANGED <<policy, dialect, job>>
      BY <2>1, SameLemma, LogsLemma
    <2>3. EnvType'
      BY <2>2 DEF TypeInv, BaseType, EnvType, Policy, Job, Record, Filter, Credentials
    <2> QED
      BY <2>1, <2>3, LogOnlyGrows DEF TypeInv, BaseType
  <1>2. LocalType' /\ now' \in 1 .. MaxTime
    <2>1. CASE \E p \in Req : Step(p)
      BY <2>1, LocalTypeStep, StepLog DEF TypeInv, BaseType
    <2>2. CASE Tick \/ LogElsewhere \/ UNCHANGED vars
      <3>1. UNCHANGED <<pc, reading>>
        BY <2>2 DEF Tick, LogElsewhere, vars, reading
      <3>2. LocalType'
        BY <3>1 DEF TypeInv, BaseType, LocalType, reading
      <3>3. now' \in 1 .. MaxTime
        BY <2>2, FeedAssumption DEF Tick, LogElsewhere, vars, TypeInv, BaseType
      <3> QED
        BY <3>2, <3>3
    <2> QED
      BY <2>1, <2>2, NextIsStep
  <1>3. \A q \in Req : PlaceFits(q)' /\ InLog(q)'
    BY StepCases, PlaceFitsStep, InLogStep, StaysFits
  <1> QED
    BY <1>1, <1>2, <1>3 DEF TypeInv, BaseType

LEMMA TypeInit == Init => TypeInv
  <1> SUFFICES ASSUME Init PROVE TypeInv
    OBVIOUS
  <1>1. EnvType /\ LogType
    BY DEF Init, EnvType, LogType
  <1>2. LocalType /\ now \in 1 .. MaxTime
    BY BlankType, FeedAssumption DEF Init, LocalType, Places
  <1>3. \A p \in Req : PlaceFits(p) /\ InLog(p)
    BY <1>1 DEF Init, PlaceFits, InLog, LogType
  <1> QED
    BY <1>1, <1>2, <1>3 DEF TypeInv, BaseType

LEMMA TypeImplied == TypeInv => TypeOK
  <1> SUFFICES ASSUME TypeInv PROVE TypeOK
    OBVIOUS
  <1>1. Len(log) \in Nat /\ Len(log) <= MaxLog /\ MaxLog \in Nat
    BY FeedAssumption DEF TypeInv, BaseType, LogType
  <1>2. \A p \in Req : offset[p] \in 0 .. MaxLog
    BY <1>1 DEF TypeInv, BaseType, LocalType, InLog
  <1>3. \A i \in DOMAIN log : log[i] \in Record
    BY LogRecords DEF TypeInv, BaseType
  <1> QED
    BY <1>1, <1>2, <1>3 DEF TypeOK, TypeInv, BaseType, LocalType, Places, InLog

\* The log, the requests and what their clients have seen keep their shape: no page is
\* longer than the limit, and none begins beyond the log (ListActivity and Query).
THEOREM TypeCorrect == Spec => []TypeOK
  <1>1. TypeInv /\ [Next]_vars => TypeInv'
    BY TypeStep
  <1> QED
    BY TypeInit, <1>1, TypeImplied, PTL DEF Spec

-----------------------------------------------------------------------------
(* Nobody is shown more than the policy allows *)

\* What a filter the policy had its say on holds an actor to: the scope and the machines,
\* its own records, the open channels.
ScopeHeld(c, g) ==
    /\ c.tenant # {} /\ ~(Superadmin(c) /\ policy.widen) => g.tenant = c.tenant
    /\ g.machines => policy.machines \/ Superadmin(c)
OwnHeld(c, g) == ~Admin(c) => g.user = {c.id} /\ g.actor = {c.id}
ChannelsHeld(g) ==
    /\ policy.allow # {} => g.channels # {} /\ g.channels \subseteq policy.allow
    /\ policy.deny \subseteq g.deny

LEMMA BuildHolds ==
    ASSUME EnvType, NEW c \in Credentials, NEW f \in Filter, NEW g \in BuildFilterFromActor(c, f)
    PROVE  ScopeHeld(c, g) /\ OwnHeld(c, g) /\ ChannelsHeld(g)
  <1>1. ScopeHeld(c, g)
    <2>1. g.tenant \in ScopesFor(c, f)
      BY BuildFields
    <2>2. c.tenant # {} /\ ~(Superadmin(c) /\ policy.widen) => g.tenant = c.tenant
      BY <2>1, Scopes
    <2>3. g.machines <=> f.machines /\ (policy.machines \/ Superadmin(c))
      BY BuildFields
    <2> QED
      BY <2>2, <2>3 DEF ScopeHeld
  <1>2. OwnHeld(c, g)
    <2>1. g.user = Own(c, f.user) /\ g.actor = Own(c, f.actor)
      BY BuildFields
    <2> QED
      BY <2>1 DEF OwnHeld, Own
  <1>3. ChannelsHeld(g)
    <2>1. g.channels \in ApplyChannelOptions(f) /\ g.deny = policy.deny \cup f.deny
      BY BuildFields
    <2>2. policy.allow # {} => g.channels # {} /\ g.channels \subseteq policy.allow
      BY <2>1, Channels
    <2> QED
      BY <2>1, <2>2 DEF ChannelsHeld
  <1> QED
    BY <1>1, <1>2, <1>3

LEMMA StatsHold ==
    ASSUME EnvType, NEW c \in Credentials, NEW f \in Filter, NEW h \in ApplyStats(c, f)
    PROVE  ScopeHeld(c, h) /\ (policy.selfStats => OwnHeld(c, h))
  <1>1. ScopeHeld(c, h)
    BY StatsFields, Scopes DEF ScopeHeld
  <1>2. policy.selfStats => OwnHeld(c, h)
    BY StatsFields DEF OwnHeld, Own
  <1> QED
    BY <1>1, <1>2

\* What such a filter, put in scope by the guard, lets through.
LEMMA HeldWithin ==
    ASSUME EnvType, NEW c \in Credentials, NEW g \in Filter, ScopeHeld(c, g),
           NEW r \in Record, StatsMatches(InScope(c, g), r)
    PROVE  Within(c, r)
  <1> DEFINE f == InScope(c, g)
  <1>1. /\ f \in Filter /\ f.machines = g.machines
        /\ f.tenant = IF policy.pins THEN c.tenant ELSE g.tenant
    BY InScopeFields DEF ResolveScope
  <1>2. /\ f.tenant \in {{}, r.tenant}
        /\ f.machines \/ ~LooksLikeMachine(r)
    BY DEF StatsMatches
  <1> HIDE DEF f
  <1>3. c.tenant \in {{}, r.tenant} \/ (Superadmin(c) /\ policy.widen /\ ~policy.pins)
    BY <1>1, <1>2 DEF ScopeHeld
  <1>4. g.machines => policy.machines \/ Superadmin(c)
    BY DEF ScopeHeld
  <1>5. ~LooksLikeMachine(r) => r.mark \notin Machine \/ (dialect = "other" /\ r.mark = "deep")
    BY DEF LooksLikeMachine, Machine, EnvType, Record, Mark
  <1>6. policy.machines \/ Superadmin(c) \/ r.mark \notin Machine
            \/ (dialect = "other" /\ r.mark = "deep")
    BY <1>1, <1>2, <1>4, <1>5
  <1> QED
    BY <1>3, <1>6 DEF Within

LEMMA HeldOwn ==
    ASSUME NEW c \in Credentials, NEW g \in Filter, OwnHeld(c, g),
           NEW r \in Record, StatsMatches(InScope(c, g), r)
    PROVE  Admin(c) \/ IsOwn(c, r)
  <1>1. InScope(c, g).user = g.user /\ InScope(c, g).actor = g.actor
    BY InScopeFields
  <1>2. ActorMatches(InScope(c, g), r)
    BY DEF StatsMatches
  <1> QED
    BY <1>1, <1>2 DEF OwnHeld, ActorMatches, IsOwn

LEMMA HeldOpen ==
    ASSUME NEW c \in Credentials, NEW g \in Filter, ChannelsHeld(g),
           NEW r \in Record, Matches(InScope(c, g), r)
    PROVE  OpenChannel(r)
  <1>1. InScope(c, g).channels = g.channels /\ InScope(c, g).deny = g.deny
    BY InScopeFields
  <1> QED
    BY <1>1 DEF Matches, ChannelsHeld, OpenChannel

\* A listing that the policy watches finds what the policy allows, whether the service,
\* the query or both applied it.
LEMMA FilterAllows ==
    ASSUME EnvType, NEW p \in Req, job[p].op \in Views, Watched(p),
           NEW f \in Filters(p), NEW r \in Record, Matches(f, r)
    PROVE  /\ Within(job[p].as, r) /\ OpenChannel(r)
           /\ Admin(job[p].as) \/ IsOwn(job[p].as, r)
  <1> DEFINE c == job[p].as
  <1>1. PICK a \in Asked(p) : \E g \in Applied(p, a) : f = InScope(c, g)
    BY FiltersAre
  <1>2. PICK g \in Applied(p, a) : f = InScope(c, g)
    BY <1>1
  <1>3. job[p].op # "create" /\ job[p].op # "stats"
    BY DEF Views
  <1>4. a \in Filter /\ g \in Filter /\ c \in Credentials /\ job[p].ask \in Filter
    BY <1>3, AskedType, AppliedType
  <1>5. ScopeHeld(c, g) /\ OwnHeld(c, g) /\ ChannelsHeld(g)
    <2>1. CASE policy.attached
      <3>1. g \in BuildFilterFromActor(c, a)
        BY <1>2, <1>3, <2>1 DEF Applied
      <3> QED
        BY <1>4, <3>1, BuildHolds
    <2>2. CASE ~policy.attached
      <3>1. job[p].op = "index" /\ g = a
        BY <1>2, <2>2 DEF Watched, Applied
      <3>2. a \in Served(c, job[p].ask)
        BY <1>1, <3>1 DEF Asked
      <3>3. PICK i \in Filter : a \in BuildFilterFromActor(c, i)
        BY <1>4, <3>2, ServedFields
      <3> QED
        BY <1>4, <3>1, <3>3, BuildHolds
    <2> QED
      BY <2>1, <2>2
  <1>6. Matches(InScope(c, g), r) /\ StatsMatches(InScope(c, g), r)
    BY <1>2 DEF Matches
  <1> QED
    BY <1>4, <1>5, <1>6, HeldWithin, HeldOwn, HeldOpen

\* Statistics that the policy watches find only what they are about.
LEMMA StatsAllow ==
    ASSUME EnvType, NEW p \in Req, job[p].op = "stats", policy.attached,
           NEW f \in Filters(p), NEW r \in Record, StatsMatches(f, r)
    PROVE  Countable(p, r)
  <1> DEFINE c == job[p].as
             ask == job[p].ask
  <1>1. PICK a \in Asked(p) : \E g \in Applied(p, a) : f = InScope(c, g)
    BY FiltersAre
  <1>2. PICK g \in Applied(p, a) : f = InScope(c, g)
    BY <1>1
  <1>3. a \in Filter /\ g \in Filter /\ c \in Credentials
    BY AskedType, AppliedType
  <1>4. a = ask /\ g \in ApplyStats(c, a)
    BY <1>1, <1>2 DEF Asked, Applied
  <1>5. ScopeHeld(c, g) /\ (policy.selfStats => OwnHeld(c, g))
    BY <1>3, <1>4, StatsHold
  <1>6. Within(c, r) /\ (policy.selfStats => Admin(c) \/ IsOwn(c, r))
    BY <1>2, <1>3, <1>5, HeldWithin, HeldOwn
  <1>7. /\ f.user = g.user /\ f.actor = g.actor /\ f.kinds = g.kinds
        /\ f.machines = g.machines /\ f.tenant = ResolveScope(c, g.tenant)
    BY <1>2, <1>3, InScopeFields
  <1>8. /\ g.kinds = ask.kinds /\ g.tenant \in ScopesFor(c, ask)
        /\ IF policy.selfStats THEN g.user = Own(c, {}) /\ g.actor = Own(c, {})
           ELSE g.user = ask.user /\ g.actor = ask.actor
        /\ g.machines <=> policy.machines \/ Superadmin(c)
    BY <1>3, <1>4, StatsFields
  <1>9. (IF policy.pins THEN c.tenant ELSE ask.tenant) \in {{}, r.tenant}
    <2>1. ResolveScope(c, g.tenant) \in {{}, r.tenant}
      BY <1>7 DEF StatsMatches
    <2>2. CASE policy.pins
      BY <2>1, <2>2 DEF ResolveScope
    <2>3. CASE ~policy.pins
      <3>1. g.tenant \in {{}, r.tenant}
        BY <2>1, <2>3 DEF ResolveScope
      <3>2. ask.tenant \in {{}, g.tenant}
        BY <1>8 DEF ScopesFor, IntersectScopes
      <3> QED
        BY <2>3, <3>1, <3>2
    <2> QED
      BY <2>2, <2>3
  <1>10. ask.kinds = {} \/ r.kind \in ask.kinds
    BY <1>7, <1>8 DEF StatsMatches
  <1>11. ~policy.selfStats => ActorMatches(ask, r)
    BY <1>7, <1>8 DEF StatsMatches, ActorMatches
  <1>12. policy.machines \/ Superadmin(c) \/ ~LooksLikeMachine(r)
    BY <1>7, <1>8 DEF StatsMatches
  <1> QED
    BY <1>6, <1>9, <1>10, <1>11, <1>12 DEF Countable

-----------------------------------------------------------------------------
(* Nobody is denied what the policy allows *)

\* What a record has to be for the policy to let an actor see it, or count it.
Allowed(c, r) ==
    /\ Within(c, r)
    /\ dialect = "other" \/ policy.machines \/ Superadmin(c) \/ r.mark = "person"
Fits(c, a, r) ==
    /\ a.kinds = {} \/ r.kind \in a.kinds
    /\ a.machines \/ ~LooksLikeMachine(r)
    /\ Admin(c) => ActorMatches(a, r)
InChannel(a, r) == (a.channels = {} \/ r.channel \in a.channels) /\ r.channel \notin a.deny

LEMMA AllowedLooks ==
    ASSUME EnvType, NEW c \in Credentials, NEW r \in Record, Allowed(c, r)
    PROVE  policy.machines \/ Superadmin(c) \/ ~LooksLikeMachine(r)
  BY DEF Allowed, Within, LooksLikeMachine, Machine, EnvType, Record, Mark

\* The policy narrows a filter to what is allowed and no further.
LEMMA BuildKeeps ==
    ASSUME EnvType, NEW c \in Credentials, NEW f \in Filter, NEW g \in BuildFilterFromActor(c, f),
           NEW r \in Record, Allowed(c, r), OpenChannel(r), Admin(c) \/ IsOwn(c, r),
           Fits(c, f, r), InChannel(f, r)
    PROVE  Fits(c, g, r) /\ InChannel(g, r) /\ ActorMatches(g, r)
  <1>1. ActorMatches(g, r)
    <2>1. g.user = Own(c, f.user) /\ g.actor = Own(c, f.actor)
      BY BuildFields
    <2>2. CASE Admin(c)
      BY <2>1, <2>2 DEF Own, Fits, ActorMatches
    <2>3. CASE ~Admin(c)
      BY <2>1, <2>3 DEF Own, IsOwn, ActorMatches
    <2> QED
      BY <2>2, <2>3
  <1>2. g.machines \/ ~LooksLikeMachine(r)
    BY BuildFields, AllowedLooks DEF Fits
  <1>3. g.kinds = {} \/ r.kind \in g.kinds
    BY BuildFields DEF Fits
  <1>4. InChannel(g, r)
    <2>1. r.channel \in Channel
      BY DEF Record
    <2>2. g.deny = policy.deny \cup f.deny /\ g.channels \in ApplyChannelOptions(f)
      BY BuildFields
    <2>3. g.channels = {} \/ r.channel \in g.channels
      BY <2>1, <2>2, Channels DEF OpenChannel, InChannel
    <2> QED
      BY <2>2, <2>3 DEF InChannel, OpenChannel
  <1> QED
    BY <1>1, <1>2, <1>3, <1>4 DEF Fits

LEMMA InScopeMatches ==
    ASSUME NEW c \in Credentials, NEW g \in Filter, NEW r \in Record,
           ResolveScope(c, g.tenant) \in {{}, r.tenant}, ActorMatches(g, r),
           g.kinds = {} \/ r.kind \in g.kinds, g.machines \/ ~LooksLikeMachine(r)
    PROVE  /\ StatsMatches(InScope(c, g), r)
           /\ InChannel(g, r) => Matches(InScope(c, g), r)
  <1> DEFINE f == InScope(c, g)
  <1>1. /\ f.user = g.user /\ f.actor = g.actor /\ f.channels = g.channels
        /\ f.deny = g.deny /\ f.kinds = g.kinds /\ f.machines = g.machines
        /\ f.tenant = ResolveScope(c, g.tenant)
    BY InScopeFields
  <1> HIDE DEF f
  <1>2. ActorMatches(f, r)
    BY <1>1 DEF ActorMatches
  <1>3. f.machines \/ ~LooksLikeMachine(r)
    BY <1>1
  <1>4. StatsMatches(f, r)
    BY <1>1, <1>2, <1>3 DEF StatsMatches
  <1>5. InChannel(g, r) => Matches(f, r)
    BY <1>1, <1>4 DEF InChannel, Matches
  <1> QED
    BY <1>4, <1>5 DEF f

\* What is asked of the query fits the record if what the client asked does, and names a
\* tenant the record can have.
LEMMA AskedKeeps ==
    ASSUME EnvType, NEW p \in Req, job[p].op \in Views, Watched(p), NEW r \in Record,
           Wanted(p, r), NEW a \in Asked(p)
    PROVE  LET c == job[p].as IN
           /\ Fits(c, a, r) /\ InChannel(a, r)
           /\ job[p].op = "index" => a.tenant = c.tenant /\ ActorMatches(a, r)
           /\ job[p].op = "feed" => a = job[p].ask
  <1> DEFINE c == job[p].as
             ask == job[p].ask
  <1>1. c \in Credentials /\ ask \in Filter
    BY AskedType DEF Views
  <1>2. /\ Allowed(c, r) /\ OpenChannel(r) /\ (Admin(c) \/ IsOwn(c, r))
        /\ Fits(c, ask, r) /\ InChannel(ask, r)
    BY DEF Wanted, Allowed, Fits, InChannel
  <1>3. CASE job[p].op = "index"
    <2>1. a \in Served(c, ask)
      BY <1>3 DEF Asked
    <2>2. PICK i \in Filter :
              /\ a \in BuildFilterFromActor(c, i)
              /\ i.tenant = c.tenant /\ i.user = ask.user /\ i.actor = ask.actor
              /\ i.channels = ask.channels /\ i.deny = ask.deny /\ i.kinds = ask.kinds
              /\ i.machines = ask.machines
      BY <1>1, <2>1, ServedFields
    <2>3. Fits(c, i, r) /\ InChannel(i, r)
      <3>1. ActorMatches(ask, r) => ActorMatches(i, r)
        BY <2>2 DEF ActorMatches
      <3>2. i.machines \/ ~LooksLikeMachine(r)
        BY <1>2, <2>2 DEF Fits
      <3> QED
        BY <1>2, <2>2, <3>1, <3>2 DEF Fits, InChannel
    <2>4. Fits(c, a, r) /\ InChannel(a, r) /\ ActorMatches(a, r)
      BY <1>1, <1>2, <2>2, <2>3, BuildKeeps
    <2>5. a.tenant \in ScopesFor(c, i)
      BY <1>1, <2>2, BuildFields
    <2>6. a.tenant = c.tenant
      BY <1>1, <2>2, <2>5, Scopes
    <2> QED
      BY <1>3, <2>4, <2>6
  <1>4. CASE job[p].op = "feed"
    BY <1>2, <1>4 DEF Asked
  <1> QED
    BY <1>3, <1>4 DEF Views

\* Every listing finds what its client wants.
LEMMA FilterFinds ==
    ASSUME EnvType, NEW p \in Req, job[p].op \in Views, NEW r \in Record, Wanted(p, r),
           NEW f \in Filters(p)
    PROVE  Matches(f, r)
  <1> DEFINE c == job[p].as
             ask == job[p].ask
  <1>1. PICK a \in Asked(p) : \E g \in Applied(p, a) : f = InScope(c, g)
    BY FiltersAre
  <1>2. PICK g \in Applied(p, a) : f = InScope(c, g)
    BY <1>1
  <1>3. a \in Filter /\ g \in Filter /\ c \in Credentials /\ ask \in Filter
    BY AskedType, AppliedType DEF Views
  <1>4. /\ (IF policy.pins \/ job[p].op = "index" THEN c.tenant ELSE ask.tenant) \in {{}, r.tenant}
        /\ Watched(p) => /\ Allowed(c, r) /\ OpenChannel(r) /\ (Admin(c) \/ IsOwn(c, r))
                         /\ Within(c, r)
        /\ Fits(c, ask, r) /\ InChannel(ask, r)
        /\ ~Watched(p) => ActorMatches(ask, r)
    BY DEF Wanted, Allowed, Fits, InChannel
  <1>5. CASE ~Watched(p)
    <2>1. g = ask /\ job[p].op # "index"
      BY <1>1, <1>2, <1>5 DEF Watched, Asked, Applied
    <2>2. ResolveScope(c, g.tenant) \in {{}, r.tenant}
      BY <1>4, <2>1 DEF ResolveScope
    <2>3. /\ ActorMatches(g, r) /\ InChannel(g, r)
          /\ g.kinds = {} \/ r.kind \in g.kinds
      BY <1>4, <1>5, <2>1 DEF Fits
    <2>4. g.machines \/ ~LooksLikeMachine(r)
      BY <1>4, <2>1 DEF Fits
    <2> QED
      BY <1>2, <1>3, <2>2, <2>3, <2>4, InScopeMatches
  <1>6. CASE Watched(p)
    <2>1. /\ Fits(c, a, r) /\ InChannel(a, r)
          /\ job[p].op = "index" => a.tenant = c.tenant /\ ActorMatches(a, r)
          /\ job[p].op = "feed" => a = ask
      BY <1>6, AskedKeeps
    <2>2. /\ Fits(c, g, r) /\ InChannel(g, r) /\ ActorMatches(g, r)
          /\ ResolveScope(c, g.tenant) \in {{}, r.tenant}
      <3>1. CASE ~policy.attached
        <4>1. g = a /\ job[p].op = "index"
          BY <1>2, <1>6, <3>1 DEF Applied, Watched
        <4> QED
          BY <1>4, <2>1, <4>1 DEF ResolveScope
      <3>2. CASE policy.attached
        <4>1. g \in BuildFilterFromActor(c, a)
          BY <1>2, <3>2 DEF Applied, Views
        <4>2. Fits(c, g, r) /\ InChannel(g, r) /\ ActorMatches(g, r)
          BY <1>3, <1>4, <1>6, <2>1, <4>1, BuildKeeps
        <4>3. g.tenant \in ScopesFor(c, a)
          BY <1>3, <4>1, BuildFields
        <4>4. CASE job[p].op = "index"
          <5>1. g.tenant = c.tenant
            BY <1>3, <2>1, <4>3, <4>4, Scopes
          <5> QED
            BY <1>4, <4>2, <4>4, <5>1 DEF ResolveScope
        <4>5. CASE job[p].op = "feed"
          <5>1. /\ Superadmin(c) /\ policy.widen => g.tenant = ask.tenant
                /\ c.tenant = {} => g.tenant = ask.tenant
                /\ c.tenant # {} /\ ~(Superadmin(c) /\ policy.widen) => g.tenant = c.tenant
            BY <1>3, <2>1, <4>3, <4>5, Scopes
          <5>2. c.tenant \in {{}, r.tenant} \/ (Superadmin(c) /\ policy.widen /\ ~policy.pins)
            BY <1>4, <1>6 DEF Within
          <5>3. ResolveScope(c, g.tenant) \in {{}, r.tenant}
            BY <1>4, <4>5, <5>1, <5>2 DEF ResolveScope
          <5> QED
            BY <4>2, <5>3
        <4> QED
          BY <4>4, <4>5 DEF Views
      <3> QED
        BY <3>1, <3>2
    <2>3. g.kinds = {} \/ r.kind \in g.kinds
      BY <2>2 DEF Fits
    <2>4. g.machines \/ ~LooksLikeMachine(r)
      BY <2>2 DEF Fits
    <2> QED
      BY <1>2, <1>3, <2>2, <2>3, <2>4, InScopeMatches
  <1> QED
    BY <1>5, <1>6

\* Statistics find all they are about.
LEMMA StatsFind ==
    ASSUME EnvType, NEW p \in Req, job[p].op = "stats", policy.attached, NEW r \in Record,
           Countable(p, r), NEW f \in Filters(p)
    PROVE  StatsMatches(f, r)
  <1> DEFINE c == job[p].as
             ask == job[p].ask
  <1>1. PICK a \in Asked(p) : \E g \in Applied(p, a) : f = InScope(c, g)
    BY FiltersAre
  <1>2. PICK g \in Applied(p, a) : f = InScope(c, g)
    BY <1>1
  <1>3. a = ask /\ g \in ApplyStats(c, a)
    BY <1>1, <1>2 DEF Asked, Applied
  <1>4. a \in Filter /\ g \in Filter /\ c \in Credentials
    BY AskedType, AppliedType
  <1>5. /\ Within(c, r)
        /\ IF policy.selfStats THEN Admin(c) \/ IsOwn(c, r) ELSE ActorMatches(ask, r)
        /\ ask.kinds = {} \/ r.kind \in ask.kinds
        /\ (IF policy.pins THEN c.tenant ELSE ask.tenant) \in {{}, r.tenant}
        /\ policy.machines \/ Superadmin(c) \/ ~LooksLikeMachine(r)
    BY DEF Countable
  <1>6. ResolveScope(c, g.tenant) \in {{}, r.tenant}
    <2>1. g.tenant \in ScopesFor(c, ask)
      BY <1>3, <1>4, StatsFields
    <2>2. /\ Superadmin(c) /\ policy.widen => g.tenant = ask.tenant
          /\ c.tenant = {} => g.tenant = ask.tenant
          /\ c.tenant # {} /\ ~(Superadmin(c) /\ policy.widen) => g.tenant = c.tenant
      BY <1>3, <1>4, <2>1, Scopes
    <2>3. c.tenant \in {{}, r.tenant} \/ (Superadmin(c) /\ policy.widen /\ ~policy.pins)
      BY <1>5 DEF Within
    <2> QED
      BY <1>5, <2>2, <2>3 DEF ResolveScope
  <1>7. ActorMatches(g, r)
    <2>1. IF policy.selfStats THEN g.user = Own(c, {}) /\ g.actor = Own(c, {})
          ELSE g.user = ask.user /\ g.actor = ask.actor
      BY <1>3, <1>4, StatsFields
    <2>2. CASE ~policy.selfStats
      BY <1>5, <2>1, <2>2 DEF ActorMatches
    <2>3. CASE policy.selfStats
      BY <1>5, <2>1, <2>3 DEF ActorMatches, Own, IsOwn
    <2> QED
      BY <2>2, <2>3
  <1>8. g.kinds = {} \/ r.kind \in g.kinds
    BY <1>3, <1>4, <1>5, StatsFields
  <1>9. g.machines \/ ~LooksLikeMachine(r)
    <2>1. g.machines <=> policy.machines \/ Superadmin(c)
      BY <1>3, <1>4, StatsFields
    <2> QED
      BY <1>5, <2>1
  <1> QED
    BY <1>2, <1>4, <1>6, <1>7, <1>8, <1>9, InScopeMatches

-----------------------------------------------------------------------------
(* What was found stays found *)

\* The records request p finds, and those its statistics count, by the one filter it has.
Hits(p) == {i \in DOMAIN log : \A f \in Filters(p) : Matches(f, log[i])}
Tallied(p) == {i \in DOMAIN log : \A f \in Filters(p) : StatsMatches(f, log[i])}

LEMMA FoundIsHits ==
    ASSUME TypeInv, NEW p \in Req, job[p].op # "create", filter[p] \in Filters(p)
    PROVE  /\ Found(p) = Hits(p)
           /\ {i \in DOMAIN log : StatsMatches(filter[p], log[i])} = Tallied(p)
  <1>1. \A f \in Filters(p) : f = filter[p]
    BY FiltersType DEF TypeInv, BaseType
  <1>2. Found(p) = Hits(p)
    BY <1>1 DEF Found, Hits
  <1>3. {i \in DOMAIN log : StatsMatches(filter[p], log[i])} = Tallied(p)
    BY <1>1 DEF Tallied
  <1> QED
    BY <1>2, <1>3

LEMMA HitsGrow ==
    ASSUME TypeInv, Same \/ Logs, NEW p \in Req
    PROVE  /\ \A i \in DOMAIN log : (i \in Hits(p)' <=> i \in Hits(p))
           /\ \A i \in DOMAIN log : (i \in Tallied(p)' <=> i \in Tallied(p))
           /\ Hits(p) \subseteq Hits(p)' /\ Tallied(p) \subseteq Tallied(p)'
           /\ (Filters(p) # {}) => (Filters(p)' # {})
  <1>1. UNCHANGED <<policy, dialect, job>>
    BY SameLemma, LogsLemma
  <1>2. Filters(p)' = Filters(p)
    BY <1>1, FiltersStay
  <1>3. ASSUME NEW i \in DOMAIN log
        PROVE  (i \in Hits(p)' <=> i \in Hits(p)) /\ (i \in Tallied(p)' <=> i \in Tallied(p))
    <2>1. i \in DOMAIN log' /\ log'[i] = log[i]
      BY LogOnlyGrows DEF TypeInv, BaseType
    <2>2. PICK r : r = log[i]
      OBVIOUS
    <2>3. \A f : (Matches(f, r)' <=> Matches(f, r)) /\ (StatsMatches(f, r)' <=> StatsMatches(f, r))
      BY <1>1, MatchesStay
    <2>4. i \in Hits(p)' <=> \A f \in Filters(p) : Matches(f, r)'
      BY <1>2, <2>1, <2>2 DEF Hits
    <2>5. i \in Tallied(p)' <=> \A f \in Filters(p) : StatsMatches(f, r)'
      BY <1>2, <2>1, <2>2 DEF Tallied
    <2>6. i \in Hits(p) <=> \A f \in Filters(p) : Matches(f, r)
      BY <2>2 DEF Hits
    <2>7. i \in Tallied(p) <=> \A f \in Filters(p) : StatsMatches(f, r)
      BY <2>2 DEF Tallied
    <2> QED
      BY <2>3, <2>4, <2>5, <2>6, <2>7
  <1>4. Hits(p) \subseteq DOMAIN log /\ Tallied(p) \subseteq DOMAIN log
    BY DEF Hits, Tallied
  <1> QED
    BY <1>2, <1>3, <1>4

LEMMA ShownStays ==
    ASSUME UNCHANGED <<policy, job>>, NEW p \in Req, NEW i
    PROVE  AsShown(p, i)' = AsShown(p, i)
  BY DEF AsShown, Sanitize, Exposed, SanitizeRecord, Superadmin, Support

-----------------------------------------------------------------------------
(* What clients hold was found *)

Filtered(p) == pc[p] \in {"list", "count"} => filter[p] \in Filters(p)
PageFound(p) == pc[p] = "list" => \A rows \in page[p] : rows \subseteq Hits(p)
ShownFound(p) ==
    \A s \in shown[p] : /\ job[p].op \in Views /\ Filters(p) # {}
                        /\ s.place \in Hits(p) /\ s = AsShown(p, s.place)
CountedFound(p) ==
    /\ counted[p] \subseteq Tallied(p)
    /\ counted[p] # {} => job[p].op = "stats" /\ Filters(p) # {}
CountedAll(p) ==
    pc[p] = "done" /\ job[p].op = "stats" =>
        \A i \in Tallied(p) : i <= known[p] => i \in counted[p]

ViewInv(p) ==
    Filtered(p) /\ PageFound(p) /\ ShownFound(p) /\ CountedFound(p) /\ CountedAll(p)

LEMMA ViewStays ==
    ASSUME TypeInv, Same \/ Logs, NEW p \in Req, Stays(p), ViewInv(p)
    PROVE  ViewInv(p)'
  <1> USE DEF Stays
  <1>1. UNCHANGED <<policy, dialect, job>>
    BY SameLemma, LogsLemma
  <1>2. Filters(p)' = Filters(p)
    BY <1>1, FiltersStay
  <1>3. Hits(p) \subseteq Hits(p)' /\ Tallied(p) \subseteq Tallied(p)'
    BY HitsGrow
  <1>4. Filtered(p)'
    BY <1>2 DEF ViewInv, Filtered
  <1>5. PageFound(p)'
    BY <1>3 DEF ViewInv, PageFound
  <1>6. ShownFound(p)'
    <2>1. ASSUME NEW s \in shown[p]
          PROVE  job'[p].op \in Views /\ Filters(p)' # {} /\ s.place \in Hits(p)'
                 /\ s = AsShown(p, s.place)'
      <3>1. /\ job[p].op \in Views /\ Filters(p) # {} /\ s.place \in Hits(p)
            /\ s = AsShown(p, s.place)
        BY DEF ViewInv, ShownFound
      <3>2. PICK i : i = s.place
        OBVIOUS
      <3>3. AsShown(p, i)' = AsShown(p, i)
        BY <1>1, ShownStays
      <3> QED
        BY <1>1, <1>2, <1>3, <3>1, <3>2, <3>3
    <2> QED
      BY <2>1 DEF ShownFound
  <1>7. CountedFound(p)'
    BY <1>1, <1>2, <1>3 DEF ViewInv, CountedFound
  <1>8. CountedAll(p)'
    <2>1. SUFFICES ASSUME pc[p] = "done", job[p].op = "stats", NEW i \in Tallied(p)', i <= known[p]
                   PROVE  i \in counted[p]
      BY <1>1 DEF CountedAll
    <2>2. /\ known[p] \in Nat /\ known[p] <= Len(log) /\ Len(log) \in Nat
          /\ DOMAIN log = 1 .. Len(log)
      BY LogRecords DEF TypeInv, BaseType, LocalType, InLog
    <2>3. DOMAIN log' = 1 .. Len(log') /\ i \in DOMAIN log'
      BY LogOnlyGrows DEF Tallied, TypeInv, BaseType, LogType
    <2>4. i \in DOMAIN log
      BY <2>1, <2>2, <2>3
    <2>5. i \in Tallied(p)
      BY <2>4, HitsGrow
    <2> QED
      BY <2>1, <2>5 DEF ViewInv, CountedAll
  <1> QED
    BY <1>4, <1>5, <1>6, <1>7, <1>8 DEF ViewInv

LEMMA ViewStep ==
    ASSUME TypeInv, NEW p \in Req, Step(p), ViewInv(p)
    PROVE  ViewInv(p)'
  <1>1. LocalType /\ PlaceFits(p) /\ InLog(p) /\ (Same \/ Logs)
    BY StepLog DEF TypeInv, BaseType
  <1>2. UNCHANGED <<policy, dialect, job>> /\ Filters(p)' = Filters(p)
    BY <1>1, SameLemma, LogsLemma, FiltersStay
  <1>3. Hits(p) \subseteq Hits(p)' /\ Tallied(p) \subseteq Tallied(p)'
    BY <1>1, HitsGrow
  \* What is left alone.
  <1>4. ASSUME UNCHANGED shown[p] PROVE ShownFound(p)'
    <2>1. ASSUME NEW s \in shown[p]
          PROVE  job'[p].op \in Views /\ Filters(p)' # {} /\ s.place \in Hits(p)'
                 /\ s = AsShown(p, s.place)'
      <3>1. /\ job[p].op \in Views /\ Filters(p) # {} /\ s.place \in Hits(p)
            /\ s = AsShown(p, s.place)
        BY DEF ViewInv, ShownFound
      <3>2. PICK i : i = s.place
        OBVIOUS
      <3>3. AsShown(p, i)' = AsShown(p, i)
        BY <1>2, ShownStays
      <3> QED
        BY <1>2, <1>3, <3>1, <3>2, <3>3
    <2> QED
      BY <1>4, <2>1 DEF ShownFound
  <1>5. ASSUME UNCHANGED counted[p] PROVE CountedFound(p)'
    BY <1>2, <1>3, <1>5 DEF ViewInv, CountedFound
  <1>6. CASE Start(p) \/ Create(p) \/ Refuse(p) \/ Fail(p)
    <2>1. /\ UNCHANGED <<filter[p], page[p], shown[p], counted[p]>>
          /\ pc'[p] \in {"create", "ask", "done", "failed", "refused"}
      BY <1>1, <1>6 DEF Start, Create, Refuse, Fail, Goto, reading, LocalType
    <2>2. pc'[p] = "done" => job[p].op = "create"
      BY <1>1, <1>6 DEF Start, Create, Refuse, Fail, Goto, LocalType, PlaceFits
    <2>3. Filtered(p)' /\ PageFound(p)' /\ CountedAll(p)'
      BY <1>2, <2>1, <2>2 DEF Filtered, PageFound, CountedAll
    <2> QED
      BY <1>4, <1>5, <2>1, <2>3 DEF ViewInv
  <1>7. CASE Ask(p)
    <2>1. /\ filter'[p] \in Filters(p) /\ pc'[p] \in {"list", "count"}
          /\ UNCHANGED <<page[p], shown[p], counted[p]>>
      BY <1>1, <1>7 DEF Ask, Goto, LocalType
    <2>2. page[p] = {}
      BY <1>1, <1>7 DEF Ask, PlaceFits
    <2>3. Filtered(p)' /\ PageFound(p)' /\ CountedAll(p)'
      BY <1>2, <2>1, <2>2 DEF Filtered, PageFound, CountedAll
    <2> QED
      BY <1>4, <1>5, <2>1, <2>3 DEF ViewInv
  <1>8. CASE SelectRows(p)
    <2>1. PICK rows \in SUBSET Found(p) : page' = [page EXCEPT ![p] = {rows}]
      BY <1>8 DEF SelectRows
    <2>2. /\ page'[p] = {rows} /\ pc[p] = "list" /\ UNCHANGED log
          /\ UNCHANGED <<pc[p], filter[p], shown[p], counted[p]>>
      BY <1>1, <1>8, <2>1 DEF SelectRows, LocalType
    <2>3. filter[p] \in Filters(p) /\ job[p].op # "create"
      BY <1>1, <2>2 DEF ViewInv, Filtered, PlaceFits, Views
    <2>4. rows \subseteq Hits(p)
      BY <2>1, <2>3, FoundIsHits
    <2>5. Filtered(p)' /\ PageFound(p)' /\ CountedAll(p)'
      BY <1>2, <1>3, <2>2, <2>3, <2>4 DEF Filtered, PageFound, CountedAll
    <2> QED
      BY <1>4, <1>5, <2>2, <2>5 DEF ViewInv
  <1>9. CASE CountRows(p)
    <2>1. /\ UNCHANGED <<pc[p], filter[p], page[p], shown[p], counted[p]>> /\ pc[p] = "list"
      BY <1>1, <1>9 DEF CountRows, LocalType
    <2>2. Filtered(p)' /\ PageFound(p)' /\ CountedAll(p)'
      BY <1>2, <1>3, <2>1 DEF ViewInv, Filtered, PageFound, CountedAll
    <2> QED
      BY <1>4, <1>5, <2>1, <2>2 DEF ViewInv
  <1>10. CASE ShowPage(p)
    <2>1. PICK rows \in page[p] :
              shown' = [shown EXCEPT ![p] = @ \cup {AsShown(p, i) : i \in rows}]
      BY <1>10 DEF ShowPage
    <2>2. /\ shown'[p] = shown[p] \cup {AsShown(p, i) : i \in rows}
          /\ page'[p] = {} /\ pc'[p] \in {"ask", "done"} /\ pc[p] = "list"
          /\ UNCHANGED counted[p]
      BY <1>1, <1>10, <2>1 DEF ShowPage, Goto, LocalType
    <2>3. /\ filter[p] \in Filters(p) /\ job[p].op \in Views /\ rows \subseteq Hits(p)
      BY <1>1, <2>1, <2>2 DEF ViewInv, Filtered, PlaceFits, PageFound
    <2>4. Filtered(p)' /\ PageFound(p)' /\ CountedAll(p)'
      BY <1>2, <2>2, <2>3 DEF Filtered, PageFound, CountedAll, Views
    <2>5. ASSUME NEW i \in rows
          PROVE  /\ AsShown(p, i).place = i /\ i \in Hits(p)' /\ AsShown(p, i)' = AsShown(p, i)
      <3>1. i \in 1 .. MaxLog /\ i \in Hits(p)
        BY <2>3, LogRecords DEF Hits, TypeInv, BaseType
      <3> QED
        BY <1>2, <1>3, <3>1, ShownType, ShownStays
    <2>6. ShownFound(p)'
      <3>1. ASSUME NEW s \in shown'[p]
            PROVE  job'[p].op \in Views /\ Filters(p)' # {} /\ s.place \in Hits(p)'
                   /\ s = AsShown(p, s.place)'
        <4>1. CASE s \in shown[p]
          <5>1. /\ s.place \in Hits(p) /\ s = AsShown(p, s.place)
            BY <4>1 DEF ViewInv, ShownFound
          <5>2. PICK i : i = s.place
            OBVIOUS
          <5>3. AsShown(p, i)' = AsShown(p, i)
            BY <1>2, ShownStays
          <5> QED
            BY <1>2, <1>3, <2>3, <5>1, <5>2, <5>3
        <4>2. CASE s \notin shown[p]
          <5>1. PICK i \in rows : s = AsShown(p, i)
            BY <2>2, <4>2
          <5>2. s.place = i /\ i \in Hits(p)' /\ AsShown(p, i)' = s
            BY <2>5, <5>1
          <5> QED
            BY <1>2, <2>3, <5>2
        <4> QED
          BY <4>1, <4>2
      <3> QED
        BY <3>1 DEF ShownFound
    <2> QED
      BY <1>5, <2>2, <2>4, <2>6 DEF ViewInv
  <1>11. CASE ActivityStats(p)
    <2>1. /\ counted'[p] = {i \in DOMAIN log : StatsMatches(filter[p], log[i])}
          /\ pc[p] = "count" /\ pc'[p] = "done" /\ UNCHANGED <<shown[p], known[p], log>>
      BY <1>1, <1>11 DEF ActivityStats, Goto, LocalType
    <2>2. filter[p] \in Filters(p) /\ job[p].op = "stats"
      BY <1>1, <2>1 DEF ViewInv, Filtered, PlaceFits
    <2>3. counted'[p] = Tallied(p)
      BY <2>1, <2>2, FoundIsHits
    <2>4. Tallied(p)' = Tallied(p)
      <3>1. Tallied(p) \subseteq DOMAIN log /\ Tallied(p)' \subseteq DOMAIN log
        BY <2>1 DEF Tallied
      <3> QED
        BY <1>1, <3>1, HitsGrow
    <2>5. Filtered(p)' /\ PageFound(p)' /\ CountedFound(p)' /\ CountedAll(p)'
      BY <1>2, <2>1, <2>2, <2>3, <2>4 DEF Filtered, PageFound, CountedFound, CountedAll
    <2> QED
      BY <1>4, <2>1, <2>5 DEF ViewInv
  <1> QED
    BY <1>6, <1>7, <1>8, <1>9, <1>10, <1>11 DEF Step

Viewed == TypeInv /\ \A p \in Req : ViewInv(p)

LEMMA ViewedInvariant == Spec => []Viewed
  <1>1. Init => Viewed
    <2> SUFFICES ASSUME Init PROVE Viewed
      OBVIOUS
    <2>1. TypeInv
      BY TypeInit
    <2>2. \A p \in Req : ViewInv(p)
      BY DEF Init, ViewInv, Filtered, PageFound, ShownFound, CountedFound, CountedAll
    <2> QED
      BY <2>1, <2>2 DEF Viewed
  <1>2. Viewed /\ [Next]_vars => Viewed'
    <2> SUFFICES ASSUME Viewed, [Next]_vars PROVE Viewed'
      OBVIOUS
    <2>1. TypeInv'
      BY TypeStep DEF Viewed
    <2>2. \A p \in Req : ViewInv(p)'
      BY StepCases, ViewStep, ViewStays DEF Viewed
    <2> QED
      BY <2>1, <2>2 DEF Viewed
  <1> QED
    BY <1>1, <1>2, PTL DEF Spec

\* Masking a record twice is masking it, and neither way unveils it.
LEMMA Masked ==
    ASSUME NEW p \in Req, NEW i, Watched(p)
    PROVE  LET c == job[p].as  s == AsShown(p, i) IN
           /\ s.data = "raw" => Support(c) /\ policy.exposure = "all"
           /\ Support(c) /\ policy.exposure = "none" => s.data = "dropped"
           /\ s.ip => Superadmin(c) \/ ~policy.redactIP
  <1> DEFINE c == job[p].as
             Kept(s) == /\ s.data = "raw" => Support(c) /\ policy.exposure = "all"
                        /\ Support(c) /\ policy.exposure = "none" => s.data = "dropped"
                        /\ s.ip => Superadmin(c) \/ ~policy.redactIP
             raw == [place |-> i, data |-> "raw", ip |-> TRUE]
             Shape == [place : {i}, data : {"raw", "masked", "twice", "dropped"}, ip : BOOLEAN]
  <1>1. ASSUME NEW s \in Shape
        PROVE  Sanitize(c, s) \in Shape /\ Kept(Sanitize(c, s))
    <2> DEFINE d == Exposed(c, s.data)
               b == s.ip /\ (Superadmin(c) \/ ~policy.redactIP)
    <2>1. /\ d \in {"raw", "masked", "twice", "dropped"}
          /\ d = "raw" => Support(c) /\ policy.exposure = "all"
          /\ Support(c) /\ policy.exposure = "none" => d = "dropped"
      BY DEF Exposed, SanitizeRecord
    <2>2. b \in BOOLEAN /\ (b => Superadmin(c) \/ ~policy.redactIP)
      OBVIOUS
    <2>3. Sanitize(c, s) = [s EXCEPT !.data = d, !.ip = b]
      BY DEF Sanitize
    <2> HIDE DEF d, b
    <2>4. Sanitize(c, s) \in Shape /\ Sanitize(c, s).data = d /\ Sanitize(c, s).ip = b
      BY <2>1, <2>2, <2>3
    <2> QED
      BY <2>1, <2>2, <2>4
  <1>2. raw \in Shape
    OBVIOUS
  <1>3. CASE policy.attached
    <2>1. AsShown(p, i) = IF job[p].op = "index" THEN Sanitize(c, Sanitize(c, raw))
                          ELSE Sanitize(c, raw)
      BY <1>3 DEF AsShown
    <2> HIDE DEF raw, Kept, Shape, c
    <2>2. Kept(AsShown(p, i))
      BY <1>1, <1>2, <2>1
    <2> QED
      BY <2>2 DEF Kept, c
  <1>4. CASE ~policy.attached
    <2>1. AsShown(p, i) = Sanitize(c, raw)
      BY <1>4 DEF AsShown, Watched
    <2> HIDE DEF raw, Kept, Shape, c
    <2>2. Kept(AsShown(p, i))
      BY <1>1, <1>2, <2>1
    <2> QED
      BY <2>2 DEF Kept, c
  <1> QED
    BY <1>3, <1>4

\* A client is shown only records of its tenant and of open channels, its own unless it is
\* an admin, and none of machines where they are hidden, whatever it asks for and wherever
\* the policy is applied (BuildFilterFromActor, Index, Query).
THEOREM ShownIsAllowedHolds == Spec => []ShownIsAllowed
  <1>1. Viewed => ShownIsAllowed
    <2> SUFFICES ASSUME Viewed, NEW p \in Req, Watched(p), NEW s \in shown[p]
                 PROVE  /\ Within(job[p].as, log[s.place]) /\ OpenChannel(log[s.place])
                        /\ Admin(job[p].as) \/ IsOwn(job[p].as, log[s.place])
      BY DEF ShownIsAllowed
    <2>1. job[p].op \in Views /\ Filters(p) # {} /\ s.place \in Hits(p)
      BY DEF Viewed, ViewInv, ShownFound
    <2>2. PICK f \in Filters(p) : Matches(f, log[s.place])
      BY <2>1 DEF Hits
    <2>3. log[s.place] \in Record
      BY <2>1, LogRecords DEF Hits, Viewed, TypeInv, BaseType
    <2> QED
      BY <2>1, <2>2, <2>3, FilterAllows DEF Viewed, TypeInv, BaseType
  <1> QED
    BY <1>1, ViewedInvariant, PTL

\* No client sees data as it was logged unless the host exposed it to support agents, and
\* addresses are for superadmins, though records may be masked twice (Sanitize, Index).
THEOREM SecretsMaskedHolds == Spec => []SecretsMasked
  <1>1. Viewed => SecretsMasked
    <2> SUFFICES ASSUME Viewed, NEW p \in Req, Watched(p), NEW s \in shown[p]
                 PROVE  LET c == job[p].as IN
                        /\ s.data = "raw" => Support(c) /\ policy.exposure = "all"
                        /\ Support(c) /\ policy.exposure = "none" => s.data = "dropped"
                        /\ s.ip => Superadmin(c) \/ ~policy.redactIP
      BY DEF SecretsMasked
    <2>1. s = AsShown(p, s.place)
      BY DEF Viewed, ViewInv, ShownFound
    <2> QED
      BY <2>1, Masked
  <1> QED
    BY <1>1, ViewedInvariant, PTL

\* Under a policy, statistics count exactly the records they are about (Countable), but for
\* those logged while they run (ApplyStats, applyStatsPolicy, ActivityStats).
THEOREM StatsAreExactHolds == Spec => []StatsAreExact
  <1>1. Viewed => StatsAreExact
    <2> SUFFICES ASSUME Viewed, NEW p \in Req, job[p].op = "stats", policy.attached
                 PROVE  /\ \A i \in counted[p] : Countable(p, log[i])
                        /\ pc[p] = "done" => \A i \in 1 .. known[p] :
                               Countable(p, log[i]) => i \in counted[p]
      BY DEF StatsAreExact
    <2>1. EnvType /\ LogType /\ InLog(p) /\ CountedFound(p) /\ CountedAll(p)
      BY DEF Viewed, TypeInv, BaseType, ViewInv
    <2>2. ASSUME NEW i \in counted[p] PROVE Countable(p, log[i])
      <3>1. i \in Tallied(p) /\ Filters(p) # {}
        BY <2>1 DEF CountedFound
      <3>2. PICK f \in Filters(p) : StatsMatches(f, log[i])
        BY <3>1 DEF Tallied
      <3>3. log[i] \in Record
        BY <2>1, <3>1, LogRecords DEF Tallied
      <3> QED
        BY <2>1, <3>2, <3>3, StatsAllow
    <2>3. ASSUME pc[p] = "done", NEW i \in 1 .. known[p], Countable(p, log[i])
          PROVE  i \in counted[p]
      <3>1. i \in DOMAIN log /\ log[i] \in Record /\ i <= known[p]
        <4>1. known[p] \in Nat /\ known[p] <= Len(log)
          BY <2>1 DEF InLog, Viewed, TypeInv, BaseType, LocalType
        <4>2. i \in DOMAIN log
          BY <2>1, <4>1, LogRecords
        <4> QED
          BY <2>1, <4>1, <4>2, LogRecords
      <3>2. \A f \in Filters(p) : StatsMatches(f, log[i])
        BY <2>1, <2>3, <3>1, StatsFind
      <3>3. i \in Tallied(p)
        BY <3>1, <3>2 DEF Tallied
      <3> QED
        BY <2>1, <2>3, <3>1, <3>3 DEF CountedAll
    <2> QED
      BY <2>2, <2>3
  <1> QED
    BY <1>1, ViewedInvariant, PTL

-----------------------------------------------------------------------------
(* A page of a listing, newest first *)

LEMMA SubsetSize ==
    ASSUME NEW S, IsFiniteSet(S), NEW T \in SUBSET S
    PROVE  /\ IsFiniteSet(T) /\ Cardinality(T) \in Nat /\ Cardinality(S) \in Nat
           /\ Cardinality(T) <= Cardinality(S)
           /\ \A x \in S : x \notin T => Cardinality(T) < Cardinality(S)
  <1>1. /\ IsFiniteSet(T) /\ Cardinality(T) \in Nat /\ Cardinality(S) \in Nat
        /\ Cardinality(T) <= Cardinality(S)
        /\ Cardinality(S) = Cardinality(T) => S = T
    BY FS_Subset, FS_CardinalityType
  <1> QED
    BY <1>1

LEMMA ApartSize ==
    ASSUME NEW S, NEW T, IsFiniteSet(S), IsFiniteSet(T), S \cap T = {}
    PROVE  IsFiniteSet(S \cup T) /\ Cardinality(S \cup T) = Cardinality(S) + Cardinality(T)
  <1>1. Cardinality(S \cap T) = 0
    BY FS_EmptySet
  <1>2. Cardinality(S) \in Nat /\ Cardinality(T) \in Nat
    BY FS_CardinalityType
  <1>3. /\ IsFiniteSet(S \cup T)
        /\ Cardinality(S \cup T) = Cardinality(S) + Cardinality(T) - Cardinality(S \cap T)
    BY FS_Union
  <1> DEFINE a == Cardinality(S)
             b == Cardinality(T)
             c == Cardinality(S \cap T)
             u == Cardinality(S \cup T)
  <1> HIDE DEF a, b, c, u
  <1>4. a \in Nat /\ b \in Nat /\ c = 0 /\ u = a + b - c
    BY <1>1, <1>2, <1>3 DEF a, b, c, u
  <1>5. u = a + b
    BY <1>4
  <1> QED
    BY <1>3, <1>5 DEF a, b, u

\* The rows of M that follow the skipped ones, at most l after at most o, by the times at.
IsPage(M, at, o, l, skipped, rows) ==
    /\ skipped \in SUBSET M /\ rows \in SUBSET (M \ skipped)
    /\ Cardinality(skipped) = Min({o, Cardinality(M)})
    /\ Cardinality(rows) = Min({l, Cardinality(M \ skipped)})
    /\ \A a \in skipped, b \in M \ skipped : at[a] >= at[b]
    /\ \A a \in rows, b \in M \ (skipped \cup rows) : at[a] >= at[b]
Unlike(M, at, i) == i \in M /\ \A k \in M \ {i} : at[k] # at[i]
NewerIn(M, at, i) == {k \in M : at[k] > at[i]}

\* Of the records M found, the page of l after o holds just those of which from o to o + l
\* are newer, as far as their times tell.
LEMMA PageRanks ==
    ASSUME NEW M, IsFiniteSet(M), NEW at, \A k \in M : at[k] \in Nat,
           NEW o \in Nat, NEW l \in Nat, NEW skipped, NEW rows,
           IsPage(M, at, o, l, skipped, rows), NEW i, Unlike(M, at, i)
    PROVE  LET N == NewerIn(M, at, i) IN
           /\ o <= Cardinality(N) /\ i \notin rows => o + l <= Cardinality(N)
           /\ i \in rows => o <= Cardinality(N) /\ Cardinality(N) < o + l
  <1> USE DEF IsPage, Unlike, NewerIn
  <1> DEFINE N == NewerIn(M, at, i)
             R == M \ skipped
             m == Cardinality(M)
             n == Cardinality(N)
             s == Cardinality(skipped)
             r == Cardinality(rows)
             k == Cardinality(R)
             P == skipped \cup rows
  <1>1. /\ IsFiniteSet(N) /\ n \in Nat /\ m \in Nat /\ n < m
    <2>1. N \in SUBSET M /\ i \notin N
      OBVIOUS
    <2> QED
      BY <2>1, SubsetSize
  <1>2. /\ IsFiniteSet(skipped) /\ s \in Nat /\ s <= m /\ (i \notin skipped => s < m)
    BY SubsetSize
  <1>3. /\ IsFiniteSet(R) /\ k \in Nat
    BY SubsetSize
  <1>4. /\ IsFiniteSet(rows) /\ r \in Nat /\ r <= k /\ (i \in R /\ i \notin rows => r < k)
    BY <1>3, SubsetSize
  <1>5. s <= o /\ (i \notin skipped => s = o)
    <2> HIDE DEF m, s
    <2>1. s = Min({o, m})
      BY DEF m, s
    <2>2. s = IF o <= m THEN o ELSE m
      BY <1>1, <2>1, MinOfTwo
    <2> QED
      BY <1>1, <1>2, <2>2
  <1>6. r <= l /\ (i \in R /\ i \notin rows => r = l)
    <2> HIDE DEF r, k
    <2>1. r = Min({l, k})
      BY DEF r, k, R
    <2>2. r = IF l <= k THEN l ELSE k
      BY <1>3, <2>1, MinOfTwo
    <2> QED
      BY <1>3, <1>4, <2>2
  <1>7. IsFiniteSet(P) /\ Cardinality(P) = s + r
    BY <1>2, <1>4, ApartSize
  <1>8. i \in skipped => n < s
    <2> SUFFICES ASSUME i \in skipped PROVE n < s
      OBVIOUS
    <2>1. \A b \in M \ skipped : ~(at[b] > at[i])
      OBVIOUS
    <2>2. N \in SUBSET skipped /\ i \notin N
      BY <2>1
    <2> QED
      BY <1>2, <2>2, SubsetSize
  <1>9. i \notin skipped => skipped \subseteq N
    <2> SUFFICES ASSUME i \notin skipped, NEW a \in skipped PROVE a \in N
      OBVIOUS
    <2>1. at[a] >= at[i] /\ at[a] # at[i] /\ at[a] \in Nat /\ at[i] \in Nat
      OBVIOUS
    <2> QED
      BY <2>1
  <1>10. ASSUME o <= n, i \notin rows PROVE o + l <= n
    <2>1. i \notin skipped
      <3> HIDE DEF n, s
      <3> QED
        BY <1>1, <1>2, <1>5, <1>8, <1>10
    <2>2. P \in SUBSET N
      <3> SUFFICES ASSUME NEW a \in rows PROVE a \in N
        BY <1>9, <2>1
      <3>1. at[a] >= at[i] /\ at[a] # at[i] /\ at[a] \in Nat /\ at[i] \in Nat
        BY <1>10, <2>1
      <3> QED
        BY <3>1
    <2>3. Cardinality(P) <= n
      BY <1>1, <2>2, SubsetSize
    <2> HIDE DEF n, s, r, P
    <2> QED
      BY <1>1, <1>2, <1>4, <1>5, <1>6, <1>7, <1>10, <2>1, <2>3
  <1>11. ASSUME i \in rows PROVE o <= n /\ n < o + l
    <2>1. i \notin skipped /\ skipped \in SUBSET N
      BY <1>9, <1>11
    <2>2. s <= n
      BY <1>1, <2>1, SubsetSize
    <2>3. N \in SUBSET P
      <3> SUFFICES ASSUME NEW b \in N, b \notin P PROVE FALSE
        OBVIOUS
      <3>1. at[i] >= at[b] /\ at[b] > at[i] /\ at[b] \in Nat /\ at[i] \in Nat
        BY <1>11
      <3> QED
        BY <3>1
    <2>4. i \in P /\ i \notin N
      BY <1>11
    <2>5. n < Cardinality(P)
      BY <1>7, <2>3, <2>4, SubsetSize
    <2> HIDE DEF n, s, r, P
    <2> QED
      BY <1>1, <1>2, <1>4, <1>5, <1>6, <1>7, <2>1, <2>2, <2>5
  <1> QED
    BY <1>1, <1>10, <1>11

-----------------------------------------------------------------------------
(* Page after page *)

\* How many of the records request p finds are newer than record i, and whether it is one
\* the client waits for: no other is of its time, which would leave their order open.
Newer(p, i) == {j \in Hits(p) : log[j].at > log[i].at}
Rank(p, i) == Cardinality(Newer(p, i))
Left(p, i) == i <= known[p] /\ ~SameTime(i) /\ ~\E s \in shown[p] : s.place = i

\* A record not yet shown comes after the pages shown ...
Ahead(p) ==
    pc[p] \in {"ask", "list"} /\ page[p] = {} =>
        \A i \in Hits(p) : Left(p, i) => offset[p] <= Rank(p, i)
\* ... and after the page that was read, if it is not on it.
Beyond(p) ==
    pc[p] = "list" => \A rows \in page[p] : \A i \in Hits(p) \ rows :
        Left(p, i) => NextOffset(p) <= Rank(p, i)
\* A count is that of the records there are, until the page is read ...
Counts(p) ==
    pc[p] = "list" /\ page[p] = {} =>
        \A n \in total[p] : outrun[p] \/ n = Cardinality(Hits(p))
\* ... and then tells that there is another page to read.
More(p) ==
    pc[p] = "list" => \A rows \in page[p], n \in total[p] : \A i \in Hits(p) \ rows :
        Left(p, i) => outrun[p] \/ NextOffset(p) < n
ReadAll(p) ==
    pc[p] = "done" /\ job[p].op \in Views => \A i \in Hits(p) : Left(p, i) => outrun[p]

\* While nothing is logged, what was shown comes before the page and what is on it does not.
Behind(p) ==
    pc[p] \in {"ask", "list"} /\ Len(log) = known[p] =>
        \A s \in shown[p] : SameTime(s.place) \/ Rank(p, s.place) < offset[p]
OnPage(p) ==
    pc[p] = "list" /\ Len(log) = known[p] => \A rows \in page[p] : \A i \in rows :
        SameTime(i) \/ (offset[p] <= Rank(p, i) /\ Rank(p, i) < NextOffset(p))
Twice(p) ==
    /\ pc[p] = "idle" => again[p] = {}
    /\ \A i \in again[p] : Len(log) > known[p] \/ SameTime(i)

PageInv(p) ==
    /\ Ahead(p) /\ Beyond(p) /\ Counts(p) /\ More(p) /\ ReadAll(p)
    /\ Behind(p) /\ OnPage(p) /\ Twice(p)

LEMMA HitsType ==
    ASSUME LogType, NEW p \in Req
    PROVE  /\ Hits(p) \subseteq DOMAIN log /\ IsFiniteSet(Hits(p)) /\ Cardinality(Hits(p)) \in Nat
           /\ \A i : Rank(p, i) \in Nat /\ IsFiniteSet(Newer(p, i))
           /\ \A i \in Hits(p) : Rank(p, i) < Cardinality(Hits(p))
  <1>1. Len(log) \in Nat /\ DOMAIN log = 1 .. Len(log)
        /\ \A i \in DOMAIN log : log[i].at \in Nat
    BY LogRecords
  <1>2. IsFiniteSet(DOMAIN log)
    <2> DEFINE n == Len(log)
    <2>1. n \in Nat
      BY <1>1
    <2> HIDE DEF n
    <2>2. IsFiniteSet(1 .. n)
      BY <2>1, FS_Interval
    <2> QED
      BY <1>1, <2>2 DEF n
  <1>3. Hits(p) \in SUBSET (DOMAIN log)
    BY DEF Hits
  <1>4. IsFiniteSet(Hits(p)) /\ Cardinality(Hits(p)) \in Nat
    BY <1>2, <1>3, SubsetSize
  <1>5. ASSUME NEW i
        PROVE  /\ Rank(p, i) \in Nat /\ IsFiniteSet(Newer(p, i))
               /\ i \in Hits(p) => Rank(p, i) < Cardinality(Hits(p))
    <2>1. Newer(p, i) \in SUBSET Hits(p)
      BY DEF Newer
    <2>2. i \in Hits(p) => i \notin Newer(p, i)
      BY <1>1, <1>3 DEF Newer
    <2> QED
      BY <1>4, <2>1, <2>2, SubsetSize DEF Rank
  <1> QED
    BY <1>3, <1>4, <1>5

\* Records only get more newer ones, and more of their own time.
LEMMA RankGrows ==
    ASSUME TypeInv, Same \/ Logs, NEW p \in Req, NEW i \in DOMAIN log
    PROVE  /\ Rank(p, i) <= Rank(p, i)' /\ Rank(p, i) \in Nat /\ Rank(p, i)' \in Nat
           /\ SameTime(i) => SameTime(i)'
  <1>1. /\ LogType' /\ DOMAIN log \subseteq DOMAIN log'
        /\ \A k \in DOMAIN log : log'[k] = log[k]
    BY LogOnlyGrows DEF TypeInv, BaseType
  <1>2. Hits(p) \subseteq Hits(p)' /\ Hits(p) \subseteq DOMAIN log
    BY HitsGrow DEF Hits
  <1>3. Newer(p, i) \in SUBSET (Newer(p, i)')
    BY <1>1, <1>2 DEF Newer
  <1>4. IsFiniteSet(Newer(p, i)')
    <2> DEFINE n == Len(log')
    <2>1. n \in Nat /\ DOMAIN log' = 1 .. n
      BY <1>1 DEF LogType
    <2>2. Newer(p, i)' \in SUBSET (1 .. n)
      BY <2>1 DEF Newer, Hits
    <2> HIDE DEF n
    <2>3. IsFiniteSet(1 .. n)
      BY <2>1, FS_Interval
    <2> QED
      BY <2>2, <2>3, FS_Subset
  <1>5. Cardinality(Newer(p, i)) <= Cardinality(Newer(p, i)')
        /\ Cardinality(Newer(p, i)) \in Nat /\ Cardinality(Newer(p, i)') \in Nat
    BY <1>3, <1>4, SubsetSize
  <1>6. SameTime(i) => SameTime(i)'
    BY <1>1 DEF SameTime
  <1> QED
    BY <1>5, <1>6 DEF Rank

\* While nothing is logged, nothing changes for a record.
LEMMA RankStays ==
    ASSUME TypeInv, Same, NEW p \in Req
    PROVE  /\ Hits(p)' = Hits(p)
           /\ \A i : Rank(p, i)' = Rank(p, i) /\ (SameTime(i)' <=> SameTime(i))
  <1>1. log' = log
    BY SameLemma
  <1>2. Hits(p)' = Hits(p)
    <2>1. Hits(p) \subseteq DOMAIN log /\ Hits(p)' \subseteq DOMAIN log
      BY <1>1 DEF Hits
    <2> QED
      BY <2>1, HitsGrow
  <1>3. \A i : Newer(p, i)' = Newer(p, i)
    BY <1>1, <1>2 DEF Newer
  <1> QED
    BY <1>1, <1>2, <1>3 DEF Rank, SameTime

\* Whom the client still waits for it waited for before.
LEMMA LeftBefore ==
    ASSUME TypeInv, Same \/ Logs, NEW p \in Req, UNCHANGED known[p], shown[p] \subseteq shown'[p],
           NEW i \in Hits(p)', Left(p, i)'
    PROVE  i \in Hits(p) /\ Left(p, i)
  <1>1. /\ known[p] \in Nat /\ known[p] <= Len(log) /\ Len(log) \in Nat
        /\ DOMAIN log = 1 .. Len(log) /\ DOMAIN log' = 1 .. Len(log') /\ Len(log') \in Nat
    BY LogRecords, LogOnlyGrows DEF TypeInv, BaseType, LocalType, InLog, LogType
  <1>2. i \in DOMAIN log' /\ i <= known[p]
    BY DEF Left, Hits
  <1>3. i \in DOMAIN log
    BY <1>1, <1>2
  <1>4. i \in Hits(p)
    BY <1>3, HitsGrow
  <1>5. ~SameTime(i)
    BY <1>3, RankGrows DEF Left
  <1> QED
    BY <1>4, <1>5 DEF Left

LEMMA OutrunStays ==
    ASSUME Same \/ Logs, NEW p \in Req
    PROVE  /\ outrun[p] => outrun'[p]
           /\ Logs /\ total[p] # {} /\ page[p] = {} => outrun'[p]
  BY DEF Same, Logs, Insert

LEMMA NextOffsetStays ==
    ASSUME UNCHANGED job, NEW p \in Req, UNCHANGED offset[p]
    PROVE  NextOffset(p)' = NextOffset(p)
  BY DEF NextOffset, Limit, NormalizeLimit

\* Steps that leave the page, and what the client has seen, alone.
Reads(p) == UNCHANGED <<offset[p], page[p], shown[p], again[p], known[p]>>

LEMMA AheadStays ==
    ASSUME TypeInv, Same \/ Logs, NEW p \in Req, Reads(p), Ahead(p), pc[p] \in {"ask", "list"}
    PROVE  Ahead(p)'
  <1> USE DEF Reads
  <1>1. SUFFICES ASSUME page[p] = {}, NEW i \in Hits(p)', Left(p, i)'
                 PROVE  offset[p] <= Rank(p, i)'
    BY DEF Ahead
  <1>2. i \in Hits(p) /\ Left(p, i)
    BY <1>1, LeftBefore
  <1>3. offset[p] <= Rank(p, i)
    BY <1>1, <1>2 DEF Ahead
  <1>4. i \in DOMAIN log /\ offset[p] \in Nat
    BY <1>2 DEF Hits, TypeInv, BaseType, LocalType
  <1>5. Rank(p, i) <= Rank(p, i)' /\ Rank(p, i) \in Nat /\ Rank(p, i)' \in Nat
    BY <1>4, RankGrows
  <1> QED
    BY <1>3, <1>4, <1>5

LEMMA BeyondStays ==
    ASSUME TypeInv, Same \/ Logs, NEW p \in Req, Reads(p), Beyond(p), pc[p] = "list"
    PROVE  Beyond(p)'
  <1> USE DEF Reads
  <1>1. UNCHANGED job /\ NextOffset(p)' = NextOffset(p)
    BY SameLemma, LogsLemma, NextOffsetStays
  <1>2. SUFFICES ASSUME NEW rows \in page[p], NEW i \in Hits(p)', i \notin rows, Left(p, i)'
                 PROVE  NextOffset(p) <= Rank(p, i)'
    BY <1>1 DEF Beyond
  <1>3. i \in Hits(p) /\ Left(p, i)
    BY <1>2, LeftBefore
  <1>4. NextOffset(p) <= Rank(p, i)
    BY <1>2, <1>3 DEF Beyond
  <1>5. i \in DOMAIN log /\ NextOffset(p) \in Nat
    BY <1>3, NextInLog DEF Hits
  <1>6. Rank(p, i) <= Rank(p, i)' /\ Rank(p, i) \in Nat /\ Rank(p, i)' \in Nat
    BY <1>5, RankGrows
  <1> QED
    BY <1>4, <1>5, <1>6

LEMMA MoreStays ==
    ASSUME TypeInv, Same \/ Logs, NEW p \in Req, Reads(p), UNCHANGED total[p], More(p),
           pc[p] = "list"
    PROVE  More(p)'
  <1> USE DEF Reads
  <1>1. UNCHANGED job /\ NextOffset(p)' = NextOffset(p)
    BY SameLemma, LogsLemma, NextOffsetStays
  <1>2. SUFFICES ASSUME NEW rows \in page[p], NEW n \in total[p], NEW i \in Hits(p)', i \notin rows,
                        Left(p, i)'
                 PROVE  outrun'[p] \/ NextOffset(p) < n
    BY <1>1 DEF More
  <1>3. i \in Hits(p) /\ Left(p, i)
    BY <1>2, LeftBefore
  <1>4. outrun[p] \/ NextOffset(p) < n
    BY <1>2, <1>3 DEF More
  <1> QED
    BY <1>4, OutrunStays

LEMMA CountsStay ==
    ASSUME TypeInv, Same \/ Logs, NEW p \in Req, UNCHANGED <<pc[p], page[p], total[p]>>, Counts(p)
    PROVE  Counts(p)'
  <1>1. SUFFICES ASSUME pc[p] = "list", page[p] = {}, NEW n \in total[p]
                 PROVE  outrun'[p] \/ n = Cardinality(Hits(p)')
    BY DEF Counts
  <1>2. outrun[p] \/ n = Cardinality(Hits(p))
    BY <1>1 DEF Counts
  <1>3. CASE Logs
    BY <1>1, <1>3, OutrunStays
  <1>4. CASE Same
    BY <1>2, <1>4, RankStays, OutrunStays
  <1> QED
    BY <1>3, <1>4

LEMMA ReadAllStays ==
    ASSUME TypeInv, Same \/ Logs, NEW p \in Req, Reads(p), UNCHANGED pc[p], ReadAll(p)
    PROVE  ReadAll(p)'
  <1> USE DEF Reads
  <1>1. UNCHANGED job
    BY SameLemma, LogsLemma
  <1>2. SUFFICES ASSUME pc[p] = "done", job[p].op \in Views, NEW i \in Hits(p)', Left(p, i)'
                 PROVE  outrun'[p]
    BY <1>1 DEF ReadAll
  <1>3. i \in Hits(p) /\ Left(p, i)
    BY <1>2, LeftBefore
  <1> QED
    BY <1>2, <1>3, OutrunStays DEF ReadAll

\* Once a record was logged, the log is longer than what the client knows.
LEMMA NothingLogged ==
    ASSUME TypeInv, Same \/ Logs, NEW p \in Req, UNCHANGED known[p], Len(log') = known'[p]
    PROVE  Same /\ Len(log) = known[p]
  <1>1. known[p] \in Nat /\ known[p] <= Len(log) /\ Len(log) \in Nat
    BY DEF TypeInv, BaseType, LocalType, InLog, LogType
  <1>2. ASSUME Logs PROVE FALSE
    <2>1. PICK r \in Record : Insert(r)
      BY <1>2 DEF Logs
    <2>2. Len(log') = Len(log) + 1
      BY <2>1, LogType1 DEF TypeInv, BaseType
    <2> QED
      BY <1>1, <2>2
  <1>3. Same
    BY <1>2
  <1> QED
    BY <1>3, SameLemma

LEMMA BehindStays ==
    ASSUME TypeInv, Same \/ Logs, NEW p \in Req, Reads(p), Behind(p), pc[p] \in {"ask", "list"}
    PROVE  Behind(p)'
  <1> USE DEF Reads
  <1>1. SUFFICES ASSUME Len(log') = known'[p], NEW s \in shown[p]
                 PROVE  SameTime(s.place)' \/ Rank(p, s.place)' < offset[p]
    BY DEF Behind
  <1>2. Same /\ Len(log) = known[p]
    BY <1>1, NothingLogged
  <1>3. SameTime(s.place) \/ Rank(p, s.place) < offset[p]
    BY <1>2 DEF Behind
  <1>4. PICK i : i = s.place
    OBVIOUS
  <1>5. Rank(p, i)' = Rank(p, i) /\ (SameTime(i)' <=> SameTime(i))
    BY <1>2, RankStays
  <1> QED
    BY <1>3, <1>4, <1>5

LEMMA OnPageStays ==
    ASSUME TypeInv, Same \/ Logs, NEW p \in Req, Reads(p), OnPage(p), pc[p] = "list"
    PROVE  OnPage(p)'
  <1> USE DEF Reads
  <1>1. UNCHANGED job /\ NextOffset(p)' = NextOffset(p)
    BY SameLemma, LogsLemma, NextOffsetStays
  <1>2. SUFFICES ASSUME Len(log') = known'[p], NEW rows \in page[p], NEW i \in rows
                 PROVE  \/ SameTime(i)'
                        \/ offset[p] <= Rank(p, i)' /\ Rank(p, i)' < NextOffset(p)
    BY <1>1 DEF OnPage
  <1>3. Same /\ Len(log) = known[p]
    BY <1>2, NothingLogged
  <1>4. SameTime(i) \/ (offset[p] <= Rank(p, i) /\ Rank(p, i) < NextOffset(p))
    BY <1>2, <1>3 DEF OnPage
  <1>5. Rank(p, i)' = Rank(p, i) /\ (SameTime(i)' <=> SameTime(i))
    BY <1>3, RankStays
  <1> QED
    BY <1>4, <1>5

LEMMA TwiceStays ==
    ASSUME TypeInv, Same \/ Logs, NEW p \in Req, UNCHANGED <<again[p], known[p]>>, Twice(p),
           pc'[p] = "idle" => pc[p] = "idle"
    PROVE  Twice(p)'
  <1>1. ASSUME NEW i \in again[p] PROVE Len(log') > known[p] \/ SameTime(i)'
    <2>1. Len(log) > known[p] \/ SameTime(i)
      BY DEF Twice
    <2>2. i \in DOMAIN log
      BY DEF TypeInv, InLog
    <2>3. /\ known[p] \in Nat /\ Len(log) \in Nat /\ Len(log') \in Nat /\ Len(log) <= Len(log')
      BY LogOnlyGrows DEF TypeInv, BaseType, LocalType, LogType
    <2>4. SameTime(i) => SameTime(i)'
      BY <2>2, RankGrows
    <2> QED
      BY <2>1, <2>3, <2>4
  <1> QED
    BY <1>1 DEF Twice

LEMMA PageStays ==
    ASSUME TypeInv, Same \/ Logs, NEW p \in Req, Stays(p), PageInv(p)
    PROVE  PageInv(p)'
  <1>1. Reads(p) /\ UNCHANGED <<pc[p], total[p]>>
    BY DEF Stays, Reads
  <1>2. UNCHANGED <<known[p], again[p], page[p]>>
    BY DEF Stays
  <1>3. Ahead(p)' /\ Behind(p)'
    <2>1. CASE pc[p] \in {"ask", "list"}
      BY <1>1, <2>1, AheadStays, BehindStays DEF PageInv
    <2>2. CASE pc[p] \notin {"ask", "list"}
      BY <1>1, <2>2 DEF Ahead, Behind
    <2> QED
      BY <2>1, <2>2
  <1>4. Beyond(p)' /\ More(p)' /\ OnPage(p)'
    <2>1. CASE pc[p] = "list"
      BY <1>1, <2>1, BeyondStays, MoreStays, OnPageStays DEF PageInv
    <2>2. CASE pc[p] # "list"
      BY <1>1, <2>2 DEF Beyond, More, OnPage
    <2> QED
      BY <2>1, <2>2
  <1>5. Counts(p)' /\ ReadAll(p)' /\ Twice(p)'
    BY <1>1, <1>2, CountsStay, ReadAllStays, TwiceStays DEF PageInv
  <1> QED
    BY <1>3, <1>4, <1>5 DEF PageInv

\* What the page that is read (SelectRows) says of each record found.
LEMMA PageReads ==
    ASSUME TypeInv, NEW p \in Req, pc[p] = "list", filter[p] \in Filters(p),
           NEW skipped \in SUBSET Found(p), NEW rows \in SUBSET (Found(p) \ skipped),
           Cardinality(skipped) = Min({offset[p], Cardinality(Found(p))}),
           Cardinality(rows) = Min({Limit(p), Cardinality(Found(p) \ skipped)}),
           NewerOrSame(skipped, Found(p) \ skipped),
           NewerOrSame(rows, Found(p) \ (skipped \cup rows)),
           NEW i \in Hits(p), ~SameTime(i)
    PROVE  /\ offset[p] <= Rank(p, i) /\ i \notin rows => NextOffset(p) <= Rank(p, i)
           /\ i \in rows => offset[p] <= Rank(p, i) /\ Rank(p, i) < NextOffset(p)
  <1> DEFINE M == Hits(p)
             at == [k \in M |-> log[k].at]
             o == offset[p]
             l == Limit(p)
  <1>1. Found(p) = M
    BY FoundIsHits DEF TypeInv, PlaceFits, Views
  <1>2. IsFiniteSet(M) /\ M \subseteq DOMAIN log
    BY HitsType DEF TypeInv, BaseType
  <1>3. \A k \in M : at[k] = log[k].at /\ at[k] \in Nat
    BY <1>2, LogRecords DEF TypeInv, BaseType
  <1>4. o \in Nat /\ l \in Nat /\ NextOffset(p) = o + l
    BY NextInLog DEF TypeInv, BaseType, LocalType
  <1>5. IsPage(M, at, o, l, skipped, rows)
    <2>1. \A a \in skipped, b \in M \ skipped : at[a] >= at[b]
      BY <1>1, <1>3 DEF NewerOrSame
    <2>2. \A a \in rows, b \in M \ (skipped \cup rows) : at[a] >= at[b]
      BY <1>1, <1>3 DEF NewerOrSame
    <2> QED
      BY <1>1, <2>1, <2>2 DEF IsPage
  <1>6. Unlike(M, at, i)
    BY <1>2, <1>3 DEF SameTime, Unlike
  <1>7. NewerIn(M, at, i) = Newer(p, i)
    BY <1>3 DEF Newer, NewerIn
  <1>8. \A k \in M : at[k] \in Nat
    BY <1>3
  <1> HIDE DEF M, at, o, l
  <1>9. LET N == NewerIn(M, at, i) IN
        /\ o <= Cardinality(N) /\ i \notin rows => o + l <= Cardinality(N)
        /\ i \in rows => o <= Cardinality(N) /\ Cardinality(N) < o + l
    BY <1>2, <1>4, <1>5, <1>6, <1>8, PageRanks
  <1> QED
    BY <1>4, <1>7, <1>9 DEF Rank, o

LEMMA SelectKeeps ==
    ASSUME TypeInv, NEW p \in Req, SelectRows(p), ViewInv(p), PageInv(p)
    PROVE  PageInv(p)'
  <1>1. Same
    BY DEF SelectRows, Same, env
  <1>2. pc[p] = "list" /\ page[p] = {} /\ LocalType /\ job[p].op # "create" /\ job[p].op \in Views
    BY DEF SelectRows, TypeInv, BaseType, PlaceFits, Views
  <1>3. filter[p] \in Filters(p)
    BY <1>2 DEF ViewInv, Filtered
  <1>4. PICK skipped \in SUBSET Found(p) : \E rows \in SUBSET (Found(p) \ skipped) :
           /\ Cardinality(skipped) = Min({offset[p], Cardinality(Found(p))})
           /\ Cardinality(rows) = Min({Limit(p), Cardinality(Found(p) \ skipped)})
           /\ NewerOrSame(skipped, Found(p) \ skipped)
           /\ NewerOrSame(rows, Found(p) \ (skipped \cup rows))
           /\ page' = [page EXCEPT ![p] = {rows}]
    BY DEF SelectRows
  <1>5. PICK rows \in SUBSET (Found(p) \ skipped) :
           /\ Cardinality(skipped) = Min({offset[p], Cardinality(Found(p))})
           /\ Cardinality(rows) = Min({Limit(p), Cardinality(Found(p) \ skipped)})
           /\ NewerOrSame(skipped, Found(p) \ skipped)
           /\ NewerOrSame(rows, Found(p) \ (skipped \cup rows))
           /\ page' = [page EXCEPT ![p] = {rows}]
    BY <1>4
  <1>6. /\ page'[p] = {rows} /\ rows \subseteq Hits(p)
        /\ UNCHANGED <<pc, offset, total, shown, again, known, outrun, log, job>>
    BY <1>2, <1>3, <1>5, FoundIsHits DEF SelectRows, LocalType, env
  <1>7. /\ Hits(p)' = Hits(p) /\ NextOffset(p)' = NextOffset(p)
        /\ \A i : /\ Rank(p, i)' = Rank(p, i) /\ (SameTime(i)' <=> SameTime(i))
                  /\ (Left(p, i)' <=> Left(p, i))
    BY <1>1, <1>6, RankStays, NextOffsetStays DEF Left
  <1>8. ASSUME NEW i \in Hits(p), ~SameTime(i)
        PROVE  /\ offset[p] <= Rank(p, i) /\ i \notin rows => NextOffset(p) <= Rank(p, i)
               /\ i \in rows => offset[p] <= Rank(p, i) /\ Rank(p, i) < NextOffset(p)
    BY <1>2, <1>3, <1>5, <1>8, PageReads
  <1>9. ASSUME NEW i \in Hits(p), i \notin rows, Left(p, i)
        PROVE  /\ NextOffset(p) <= Rank(p, i)
               /\ \A n \in total[p] : outrun[p] \/ NextOffset(p) < n
    <2>1. offset[p] <= Rank(p, i)
      BY <1>2, <1>9 DEF PageInv, Ahead
    <2>2. NextOffset(p) <= Rank(p, i)
      BY <1>8, <1>9, <2>1 DEF Left
    <2>3. /\ Rank(p, i) < Cardinality(Hits(p)) /\ Rank(p, i) \in Nat
          /\ Cardinality(Hits(p)) \in Nat /\ NextOffset(p) \in Nat
      BY <1>2, HitsType, NextInLog DEF TypeInv, BaseType
    <2>4. NextOffset(p) < Cardinality(Hits(p))
      BY <2>2, <2>3
    <2> QED
      BY <1>2, <2>2, <2>4 DEF PageInv, Counts
  <1>10. Ahead(p)' /\ Counts(p)' /\ ReadAll(p)'
    BY <1>2, <1>6 DEF Ahead, Counts, ReadAll
  <1>11. Beyond(p)' /\ More(p)'
    <2>1. \A i \in Hits(p) \ rows : Left(p, i) => NextOffset(p) <= Rank(p, i)
      BY <1>9
    <2>2. \A n \in total[p] : \A i \in Hits(p) \ rows :
              Left(p, i) => outrun[p] \/ NextOffset(p) < n
      BY <1>9
    <2>3. Beyond(p)'
      BY <1>6, <1>7, <2>1 DEF Beyond
    <2>4. More(p)'
      BY <1>6, <1>7, <2>2 DEF More
    <2> QED
      BY <2>3, <2>4
  <1>12. Behind(p)'
    <2>1. ASSUME NEW s \in shown[p], Len(log) = known[p]
          PROVE  SameTime(s.place)' \/ Rank(p, s.place)' < offset[p]
      BY <1>2, <1>7, <2>1 DEF PageInv, Behind
    <2> QED
      BY <1>6, <2>1 DEF Behind
  <1>13. OnPage(p)'
    <2>1. \A i \in rows : SameTime(i) \/ (offset[p] <= Rank(p, i) /\ Rank(p, i) < NextOffset(p))
      BY <1>6, <1>8
    <2> QED
      BY <1>6, <1>7, <2>1 DEF OnPage
  <1>14. Twice(p)'
    BY <1>1, <1>6, TwiceStays DEF PageInv
  <1> QED
    BY <1>10, <1>11, <1>12, <1>13, <1>14 DEF PageInv

LEMMA CountKeeps ==
    ASSUME TypeInv, NEW p \in Req, CountRows(p), ViewInv(p), PageInv(p)
    PROVE  PageInv(p)'
  <1>1. Same
    BY DEF CountRows, Same, env
  <1>2. pc[p] = "list" /\ LocalType /\ job[p].op # "create"
    BY DEF CountRows, TypeInv, BaseType, PlaceFits, Views
  <1>3. filter[p] \in Filters(p)
    BY <1>2 DEF ViewInv, Filtered
  <1>4. /\ Reads(p) /\ UNCHANGED <<pc, known, again, outrun, log, job, offset, page, shown>>
        /\ total'[p] = {Cardinality(Hits(p))}
    BY <1>2, <1>3, FoundIsHits DEF CountRows, LocalType, env, Reads
  <1>5. /\ Hits(p)' = Hits(p) /\ NextOffset(p)' = NextOffset(p)
        /\ \A i : (Left(p, i)' <=> Left(p, i))
    BY <1>1, <1>4, RankStays, NextOffsetStays DEF Left
  <1>6. Ahead(p)' /\ Beyond(p)' /\ Behind(p)' /\ OnPage(p)'
    BY <1>1, <1>2, <1>4, AheadStays, BeyondStays, BehindStays, OnPageStays DEF PageInv
  <1>7. Counts(p)'
    BY <1>4, <1>5 DEF Counts
  <1>8. More(p)'
    <2>1. ASSUME NEW rows \in page[p], NEW i \in Hits(p), i \notin rows, Left(p, i)
          PROVE  NextOffset(p) < Cardinality(Hits(p))
      <3>1. NextOffset(p) <= Rank(p, i)
        BY <1>2, <2>1 DEF PageInv, Beyond
      <3>2. /\ Rank(p, i) < Cardinality(Hits(p)) /\ Rank(p, i) \in Nat
            /\ Cardinality(Hits(p)) \in Nat /\ NextOffset(p) \in Nat
        BY <1>2, <2>1, HitsType, NextInLog DEF TypeInv, BaseType
      <3> QED
        BY <3>1, <3>2
    <2> QED
      BY <1>4, <1>5, <2>1 DEF More
  <1>9. ReadAll(p)' /\ Twice(p)'
    BY <1>1, <1>2, <1>4, TwiceStays DEF PageInv, ReadAll
  <1> QED
    BY <1>6, <1>7, <1>8, <1>9 DEF PageInv

\* What is shown leaves nothing behind that is not on a later page, or was logged late.
LEMMA ShowKeeps ==
    ASSUME TypeInv, NEW p \in Req, ShowPage(p), ViewInv(p), PageInv(p)
    PROVE  PageInv(p)'
  <1>1. Same
    BY DEF ShowPage, Same, env
  <1>2. pc[p] = "list" /\ LocalType /\ UNCHANGED <<log, known, outrun, job>>
    BY DEF ShowPage, TypeInv, BaseType, env
  <1>3. PICK rows \in page[p], n \in total[p] :
           /\ shown' = [shown EXCEPT ![p] = @ \cup {AsShown(p, i) : i \in rows}]
           /\ again' = [again EXCEPT ![p] = @ \cup {i \in rows : \E s \in shown[p] : s.place = i}]
           /\ IF NextOffset(p) < n
              THEN Goto(p, "ask") /\ offset' = [offset EXCEPT ![p] = NextOffset(p)]
              ELSE Goto(p, "done") /\ UNCHANGED offset
    BY DEF ShowPage
  <1>4. /\ shown'[p] = shown[p] \cup {AsShown(p, i) : i \in rows}
        /\ again'[p] = again[p] \cup {i \in rows : \E s \in shown[p] : s.place = i}
        /\ page'[p] = {} /\ total'[p] = {}
        /\ \/ NextOffset(p) < n /\ pc'[p] = "ask" /\ offset'[p] = NextOffset(p)
           \/ ~(NextOffset(p) < n) /\ pc'[p] = "done"
    BY <1>2, <1>3 DEF ShowPage, Goto, LocalType
  <1>5. rows \subseteq Hits(p)
    BY <1>2, <1>3 DEF ViewInv, PageFound
  <1>6. ASSUME NEW i \in rows PROVE AsShown(p, i).place = i
    <2>1. i \in 1 .. MaxLog
      BY <1>5, LogRecords DEF Hits, TypeInv, BaseType
    <2> QED
      BY <2>1, ShownType
  <1>7. /\ Hits(p)' = Hits(p)
        /\ \A i : Rank(p, i)' = Rank(p, i) /\ (SameTime(i)' <=> SameTime(i))
    BY <1>1, RankStays
  <1>8. ASSUME NEW i \in Hits(p), Left(p, i)'
        PROVE  i \notin rows /\ Left(p, i)
    <2>1. i \notin rows
      <3> SUFFICES ASSUME i \in rows PROVE FALSE
        OBVIOUS
      <3>1. AsShown(p, i) \in shown'[p] /\ AsShown(p, i).place = i
        BY <1>4, <1>6
      <3> QED
        BY <1>8, <3>1 DEF Left
    <2> QED
      BY <1>2, <1>4, <1>7, <1>8, <2>1 DEF Left
  <1>9. Ahead(p)'
    <2>1. SUFFICES ASSUME pc'[p] = "ask", NEW i \in Hits(p), Left(p, i)'
                   PROVE  offset'[p] <= Rank(p, i)
      BY <1>4, <1>7 DEF Ahead
    <2>2. NextOffset(p) <= Rank(p, i)
      BY <1>2, <1>3, <1>8, <2>1 DEF PageInv, Beyond
    <2> QED
      BY <1>4, <2>1, <2>2
  <1>10. ReadAll(p)'
    <2>1. SUFFICES ASSUME pc'[p] = "done", NEW i \in Hits(p), Left(p, i)'
                   PROVE  outrun[p]
      BY <1>2, <1>7 DEF ReadAll
    <2>2. ~(NextOffset(p) < n)
      BY <1>4, <2>1
    <2> QED
      BY <1>2, <1>3, <1>8, <2>1, <2>2 DEF PageInv, More
  <1>11. Behind(p)'
    <2>1. SUFFICES ASSUME pc'[p] = "ask", Len(log) = known[p], NEW s \in shown'[p]
                   PROVE  SameTime(s.place)' \/ Rank(p, s.place)' < NextOffset(p)
      BY <1>2, <1>4 DEF Behind
    <2>2. PICK i : i = s.place
      OBVIOUS
    <2>3. Rank(p, i)' = Rank(p, i) /\ (SameTime(i)' <=> SameTime(i))
      BY <1>7
    <2>4. CASE s \in shown[p]
      <3>1. SameTime(i) \/ Rank(p, i) < offset[p]
        BY <1>2, <2>1, <2>2, <2>4 DEF PageInv, Behind
      <3>2. offset[p] \in Nat /\ Limit(p) \in Nat /\ NextOffset(p) = offset[p] + Limit(p)
            /\ Rank(p, i) \in Nat
        BY <1>2, NextInLog, HitsType DEF TypeInv, BaseType, LocalType
      <3>3. SameTime(i) \/ Rank(p, i) < NextOffset(p)
        BY <3>1, <3>2
      <3> QED
        BY <2>2, <2>3, <3>3
    <2>5. CASE s \notin shown[p]
      <3>1. PICK k \in rows : s = AsShown(p, k)
        BY <1>4, <2>1, <2>5
      <3>2. k = i
        BY <1>6, <2>2, <3>1
      <3>3. SameTime(i) \/ Rank(p, i) < NextOffset(p)
        BY <1>2, <1>3, <2>1, <3>1, <3>2 DEF PageInv, OnPage
      <3> QED
        BY <2>2, <2>3, <3>3
    <2> QED
      BY <2>4, <2>5
  <1>12. Twice(p)'
    <2>1. ASSUME NEW i \in again'[p] PROVE Len(log) > known[p] \/ SameTime(i)
      <3>1. CASE i \in again[p]
        BY <3>1 DEF PageInv, Twice
      <3>2. CASE i \notin again[p]
        <4>1. i \in rows /\ \E s \in shown[p] : s.place = i
          BY <1>4, <2>1, <3>2
        <4>2. PICK s \in shown[p] : s.place = i
          BY <4>1
        <4>3. known[p] \in Nat /\ Len(log) \in Nat /\ known[p] <= Len(log)
          BY DEF TypeInv, BaseType, LocalType, InLog, LogType
        <4>4. ASSUME Len(log) = known[p], ~SameTime(i) PROVE FALSE
          <5>1. Rank(p, i) < offset[p]
            BY <1>2, <4>2, <4>4 DEF PageInv, Behind
          <5>2. offset[p] <= Rank(p, i)
            BY <1>2, <1>3, <4>1, <4>4 DEF PageInv, OnPage
          <5>3. Rank(p, i) \in Nat /\ offset[p] \in Nat
            BY HitsType DEF TypeInv, BaseType, LocalType
          <5> QED
            BY <5>1, <5>2, <5>3
        <4> QED
          BY <4>3, <4>4
      <3> QED
        BY <3>1, <3>2
    <2> QED
      BY <1>2, <1>4, <1>7, <2>1 DEF Twice
  <1>13. Beyond(p)' /\ Counts(p)' /\ More(p)' /\ OnPage(p)'
    BY <1>4 DEF Beyond, Counts, More, OnPage
  <1> QED
    BY <1>9, <1>10, <1>11, <1>12, <1>13 DEF PageInv

LEMMA PageStep ==
    ASSUME TypeInv, NEW p \in Req, Step(p), ViewInv(p), PageInv(p)
    PROVE  PageInv(p)'
  <1>1. LocalType /\ PlaceFits(p) /\ InLog(p) /\ (Same \/ Logs)
    BY StepLog DEF TypeInv, BaseType
  <1>2. UNCHANGED job
    BY <1>1, SameLemma, LogsLemma
  <1>3. CASE Start(p)
    <2>1. Same
      BY <1>3 DEF Start, Same, env
    <2>2. /\ pc'[p] \in {"create", "ask"} /\ shown'[p] = {} /\ offset'[p] = 0 /\ page'[p] = {}
          /\ again'[p] = {}
      BY <1>1, <1>3 DEF Start, Goto, LocalType, PlaceFits, PageInv, Twice
    <2>3. \A i : 0 <= Rank(p, i) /\ Rank(p, i)' = Rank(p, i)
      BY <2>1, HitsType, RankStays DEF TypeInv, BaseType
    <2>4. Ahead(p)'
      BY <2>2, <2>3 DEF Ahead
    <2> QED
      BY <2>2, <2>4 DEF PageInv, Beyond, Counts, More, ReadAll, Behind, OnPage, Twice
  <1>4. CASE Create(p) \/ Refuse(p) \/ Fail(p) \/ ActivityStats(p)
    <2>1. /\ UNCHANGED <<again[p], known[p]>>
          /\ pc'[p] \in {"done", "failed", "refused"}
          /\ pc'[p] = "done" => job[p].op \in {"create", "stats"}
      BY <1>1, <1>4 DEF Create, Refuse, Fail, ActivityStats, Goto, reading, LocalType, PlaceFits
    <2>2. Twice(p)'
      BY <1>1, <2>1, TwiceStays DEF PageInv
    <2>3. ReadAll(p)'
      BY <1>2, <2>1 DEF ReadAll, Views
    <2> QED
      BY <2>1, <2>2, <2>3 DEF PageInv, Ahead, Beyond, Counts, More, Behind, OnPage
  <1>5. CASE Ask(p)
    <2>1. Same
      BY <1>5 DEF Ask, Same, env
    <2>2. /\ pc[p] = "ask" /\ pc'[p] \in {"list", "count"} /\ page[p] = {} /\ total[p] = {}
          /\ Reads(p) /\ UNCHANGED <<total[p], page[p], known[p], again[p]>>
      BY <1>1, <1>5 DEF Ask, Goto, LocalType, PlaceFits, Reads
    <2>3. Ahead(p)' /\ Behind(p)'
      BY <2>1, <2>2, AheadStays, BehindStays DEF PageInv
    <2>4. Twice(p)'
      BY <2>1, <2>2, TwiceStays DEF PageInv
    <2> QED
      BY <2>2, <2>3, <2>4 DEF PageInv, Beyond, Counts, More, ReadAll, OnPage
  <1> QED
    BY <1>3, <1>4, <1>5, SelectKeeps, CountKeeps, ShowKeeps DEF Step

Paged == Viewed /\ \A p \in Req : PageInv(p)

LEMMA PagedInvariant == Spec => []Paged
  <1>1. Init => Paged
    <2> SUFFICES ASSUME Init PROVE Paged
      OBVIOUS
    <2>1. TypeInv /\ \A p \in Req : ViewInv(p)
      BY TypeInit DEF Init, ViewInv, Filtered, PageFound, ShownFound, CountedFound, CountedAll
    <2>2. \A p \in Req : PageInv(p)
      BY DEF Init, PageInv, Ahead, Beyond, Counts, More, ReadAll, Behind, OnPage, Twice
    <2> QED
      BY <2>1, <2>2 DEF Paged, Viewed
  <1>2. Paged /\ [Next]_vars => Paged'
    <2> SUFFICES ASSUME Paged, [Next]_vars PROVE Paged'
      OBVIOUS
    <2>1. TypeInv'
      BY TypeStep DEF Paged, Viewed
    <2>2. \A p \in Req : ViewInv(p)'
      BY StepCases, ViewStep, ViewStays DEF Paged, Viewed
    <2>3. \A p \in Req : PageInv(p)'
      BY StepCases, PageStep, PageStays DEF Paged, Viewed
    <2> QED
      BY <2>1, <2>2, <2>3 DEF Paged, Viewed
  <1> QED
    BY <1>1, <1>2, PTL DEF Spec

\* A client that reads a listing to the end, page after page, misses no record that was
\* there when it began, and sees none twice unless records were logged on the way, with the
\* exceptions the property names (SelectRows, CountRows, ShowPage).
THEOREM PagesMissNothingHolds == Spec => []PagesMissNothing
  <1>1. Paged => PagesMissNothing
    <2> SUFFICES ASSUME Paged, NEW p \in Req, pc[p] = "done", job[p].op \in {"index", "feed"}
                 PROVE  /\ \A i \in 1 .. known[p] : Wanted(p, log[i]) =>
                               outrun[p] \/ SameTime(i) \/ \E s \in shown[p] : s.place = i
                        /\ \A i \in again[p] : Len(log) > known[p] \/ SameTime(i)
      BY DEF PagesMissNothing
    <2>1. EnvType /\ LogType /\ InLog(p) /\ ReadAll(p) /\ Twice(p) /\ job[p].op \in Views
      BY DEF Paged, Viewed, TypeInv, BaseType, PageInv, Views
    <2>2. ASSUME NEW i \in 1 .. known[p], Wanted(p, log[i])
          PROVE  outrun[p] \/ SameTime(i) \/ \E s \in shown[p] : s.place = i
      <3>1. known[p] \in Nat /\ known[p] <= Len(log)
        BY <2>1 DEF InLog, Paged, Viewed, TypeInv, BaseType, LocalType
      <3>2. i \in DOMAIN log /\ i <= known[p]
        BY <2>1, <3>1, LogRecords
      <3>3. log[i] \in Record
        BY <2>1, <3>2, LogRecords
      <3>4. \A f \in Filters(p) : Matches(f, log[i])
        BY <2>1, <2>2, <3>3, FilterFinds
      <3>5. i \in Hits(p)
        BY <3>2, <3>4 DEF Hits
      <3> QED
        BY <2>1, <3>2, <3>5 DEF ReadAll, Left
    <2> QED
      BY <2>1, <2>2 DEF Twice
  <1> QED
    BY <1>1, PagedInvariant, PTL

-----------------------------------------------------------------------------
(* ActivityEnrichment: the greatest and the least of a set of numbers *)

\* A set of numbers up to n that is not empty has a greatest.
LEMMA GreatestExists ==
    ASSUME NEW n \in Nat, NEW S \in SUBSET (1..n), S # {}
    PROVE  \E x \in S : \A y \in S : x >= y
<1> DEFINE D == {i \in 1..n : \E s \in S : i <= s}
           c == Cardinality(D)
<1>1. /\ IsFiniteSet(1..n) /\ Cardinality(1..n) = n
      /\ \A m \in Nat : IsFiniteSet(1..m) /\ Cardinality(1..m) = m
  BY FS_Interval
<1>2. \A i \in D, j \in 1..n : j <= i => j \in D
  OBVIOUS
<1>3. S \subseteq D /\ D \subseteq 1..n
  OBVIOUS
<1>4. \A i \in D : \E s \in S : i <= s
  OBVIOUS
<1> HIDE DEF D
<1>5. IsFiniteSet(D) /\ c \in Nat
  <2>1. IsFiniteSet(D)
    BY <1>1, <1>3, FS_Subset
  <2> QED
    BY <2>1, FS_CardinalityType
<1>6. ASSUME NEW m \in Nat, D \subseteq 1..m PROVE c <= m
  <2>1. IsFiniteSet(1..m) /\ Cardinality(1..m) = m
    BY <1>1
  <2>2. Cardinality(D) <= Cardinality(1..m)
    BY <1>6, <2>1, FS_Subset
  <2> QED
    BY <2>1, <2>2
<1>7. ASSUME NEW m \in Nat, 1..m \subseteq D PROVE m <= c
  <2>1. Cardinality(1..m) = m
    BY <1>1
  <2>2. Cardinality(1..m) <= Cardinality(D)
    BY <1>5, <1>7, FS_Subset
  <2> QED
    BY <2>1, <2>2
<1>8. D # {}
  BY <1>3
<1>9. c \in D
  <2> SUFFICES ASSUME c \notin D PROVE FALSE
    OBVIOUS
  <2>1. \A i \in D : i < c
    <3> SUFFICES ASSUME NEW i \in D, c <= i PROVE FALSE
      BY <1>5, <1>3
    <3>1. i \in D /\ i \in 1..n /\ c <= i
      BY <1>3
    <3>2. c = 0
      BY <1>5, <1>2, <3>1
    <3>3. \E d \in D : TRUE
      BY <1>8
    <3>4. D \subseteq 1..0
      <4>1. c <= 0 /\ Cardinality(D) = 0
        BY <3>2
      <4> QED
        BY <1>5, <4>1, FS_EmptySet
    <3> QED
      BY <1>3, <3>3, <3>4
  <2>2. PICK d \in D : TRUE
    BY <1>8
  <2>3. d \in 1..n /\ d < c
    BY <1>3, <2>1, <2>2
  <2>4. c - 1 \in Nat
    BY <1>5, <2>3
  <2>5. D \subseteq 1..(c - 1)
    <3> SUFFICES ASSUME NEW i \in D PROVE i \in 1..(c - 1)
      OBVIOUS
    <3>1. i \in 1..n /\ i < c
      BY <1>3, <2>1
    <3> QED
      BY <1>5, <3>1
  <2>6. c <= c - 1
    BY <1>6, <2>4, <2>5
  <2> QED
    BY <1>5, <2>6
<1>10. c + 1 \notin D
  <2> SUFFICES ASSUME c + 1 \in D PROVE FALSE
    OBVIOUS
  <2>1. 1..(c + 1) \subseteq D
    BY <1>5, <1>2, <1>3
  <2>2. c + 1 <= c
    BY <1>5, <1>7, <2>1
  <2> QED
    BY <1>5, <2>2
<1>11. PICK x \in S : c <= x
  BY <1>9, <1>4
<1>12. \A y \in S : y <= c
  <2> SUFFICES ASSUME NEW y \in S, y > c PROVE FALSE
    BY <1>5, <1>3
  <2>1. y \in 1..n /\ c + 1 <= y /\ c + 1 \in 1..n
    BY <1>5, <1>3
  <2> QED
    BY <1>2, <1>3, <1>10, <2>1
<1>13. x = c
  BY <1>5, <1>3, <1>12, <1>11
<1> QED
  BY <1>5, <1>3, <1>12, <1>13

LEMMA MaxIs ==
    ASSUME NEW n \in Nat, NEW S \in SUBSET (1..n), S # {}
    PROVE  Max(S) \in S /\ \A y \in S : y <= Max(S)
<1>1. \E x \in S : \A y \in S : x >= y
  BY GreatestExists
<1>2. Max(S) \in S /\ \A y \in S : Max(S) >= y
  BY <1>1 DEF Max
<1> QED
  BY <1>2

LEMMA MinIs ==
    ASSUME NEW n \in Nat, NEW S \in SUBSET (1..n), S # {}
    PROVE  Min(S) \in S /\ \A y \in S : Min(S) <= y
<1> DEFINE T == {n + 1 - x : x \in S}
<1>1. T \in SUBSET (1..n) /\ T # {}
  <2>1. \A x \in S : n + 1 - x \in 1..n
    OBVIOUS
  <2>2. T \subseteq 1..n
    BY <2>1
  <2> QED
    BY <2>2
<1>2. \E y \in T : \A z \in T : y >= z
  <2> HIDE DEF T
  <2> QED
    BY <1>1, GreatestExists
<1>3. PICK x \in S : \A z \in T : n + 1 - x >= z
  BY <1>2
<1>4. \A y \in S : x <= y
  <2> SUFFICES ASSUME NEW y \in S PROVE x <= y
    OBVIOUS
  <2>1. n + 1 - x >= n + 1 - y
    BY <1>3
  <2> QED
    BY <2>1
<1>5. \E z \in S : \A y \in S : z <= y
  BY <1>4
<1> QED
  BY <1>5 DEF Min

-----------------------------------------------------------------------------
(* ActivityEnrichment: the newest of a set of records *)

LEMMA EntrySets ==
    ASSUME NEW S \in SUBSET Entry
    PROVE  IsFiniteSet(S) /\ Cardinality(S) \in Nat
<1>1. NRecord \in Nat
  BY EnrichmentAssumption
<1>2. IsFiniteSet(1..NRecord)
  BY <1>1, FS_Interval
<1>3. IsFiniteSet(S)
  BY <1>2, FS_Subset DEF Entry
<1> QED
  BY <1>3, FS_CardinalityType

LEMMA EntrySubset ==
    ASSUME NEW S \in SUBSET Entry, NEW T \in SUBSET S
    PROVE  Cardinality(T) <= Cardinality(S)
  BY EntrySets, FS_Subset

\* What is left out is older than all of the newest.
LEMMA NewestFirst ==
    ASSUME NEW S \in SUBSET Entry, NEW n \in Nat, NEW r \in S, r \notin Newest(S, n)
    PROVE  \A s \in Newest(S, n) : s > r
<1> SUFFICES ASSUME NEW s \in Newest(S, n), ~(s > r) PROVE FALSE
  OBVIOUS
<1> DEFINE A == {x \in S : x > r}
           B == {x \in S : x > s}
<1>1. NRecord \in Nat /\ \A x \in S : x \in Nat
  BY EnrichmentAssumption DEF Entry
<1>2. s \in S /\ Cardinality(B) < n /\ ~(Cardinality(A) < n)
  BY DEF Newest
<1>3. B \in SUBSET Entry /\ A \in SUBSET B
  BY <1>1, <1>2
<1> HIDE DEF A, B
<1>4. Cardinality(A) <= Cardinality(B)
  BY <1>3, EntrySubset
<1>5. Cardinality(A) \in Nat /\ Cardinality(B) \in Nat
  BY <1>3, EntrySets
<1> QED
  BY <1>2, <1>4, <1>5

LEMMA NewestFew ==
    ASSUME NEW S \in SUBSET Entry, NEW n \in Nat
    PROVE  Newest(S, n) \in SUBSET S /\ Cardinality(Newest(S, n)) <= n
<1> DEFINE N == Newest(S, n)
<1>1. N \in SUBSET S /\ N \in SUBSET Entry
  BY DEF Newest
<1>2. CASE N = {}
  BY <1>1, <1>2, FS_EmptySet
<1>3. CASE N # {}
  <2> DEFINE x == Min(N)
             A == {s \in S : s > x}
  <2>1. NRecord \in Nat /\ N \in SUBSET (1..NRecord) /\ \A s \in S : s \in Nat
    BY <1>1, EnrichmentAssumption DEF Entry
  <2>2. x \in N /\ \A y \in N : x <= y
    <3> HIDE DEF N
    <3> QED
      BY <1>3, <2>1, MinIs
  <2>3. x \in S /\ Cardinality(A) < n
    BY <2>2 DEF Newest
  <2>4. A \in SUBSET Entry /\ x \notin A /\ N \subseteq A \cup {x}
    <3> HIDE DEF N, x
    <3>1. \A y \in N : y \in Nat /\ y \in S /\ x \in Nat
      BY <1>1, <2>1, <2>2
    <3>2. \A y \in N : y > x \/ y = x
      BY <2>2, <3>1
    <3>3. N \subseteq A \cup {x}
      BY <3>1, <3>2
    <3>4. A \subseteq Entry
      OBVIOUS
    <3>5. x \notin A
      BY <2>2, <3>1
    <3> QED
      BY <3>3, <3>4, <3>5
  <2>5. A \cup {x} \in SUBSET Entry
    BY <2>3, <2>4
  <2> HIDE DEF A, x, N
  <2>6. IsFiniteSet(A) /\ Cardinality(A) \in Nat
    BY <2>4, EntrySets
  <2>7. Cardinality(A \cup {x}) = Cardinality(A) + 1
    BY <2>4, <2>6, FS_AddElement
  <2>8. Cardinality(N) <= Cardinality(A \cup {x}) /\ Cardinality(N) \in Nat
    BY <1>1, <2>4, <2>5, EntrySubset, EntrySets
  <2>9. Cardinality(N) <= n
    BY <2>3, <2>6, <2>7, <2>8
  <2> QED
    BY <1>1, <2>9 DEF N
<1> QED
  BY <1>2, <1>3

\* Unless all are taken, as many as may be are.
LEMMA NewestFull ==
    ASSUME NEW S \in SUBSET Entry, NEW n \in Nat, Newest(S, n) # S
    PROVE  Cardinality(Newest(S, n)) = n
<1> DEFINE N == Newest(S, n)
           O == S \ N
           r == Max(O)
           A == {s \in S : s > r}
<1>1. N \in SUBSET S /\ Cardinality(N) <= n /\ N \in SUBSET Entry /\ Cardinality(N) \in Nat
  BY NewestFew, EntrySets
<1>2. NRecord \in Nat /\ O \in SUBSET (1..NRecord) /\ O # {} /\ \A s \in S : s \in Nat
  <2>1. N # S
    OBVIOUS
  <2>2. O # {}
    <3> HIDE DEF N
    <3> QED
      BY <1>1, <2>1
  <2>3. NRecord \in Nat /\ S \subseteq 1..NRecord /\ \A s \in S : s \in Nat
    BY EnrichmentAssumption DEF Entry
  <2> QED
    BY <2>2, <2>3
<1>3. r \in O /\ \A y \in O : y <= r
  <2> HIDE DEF O
  <2> QED
    BY <1>2, MaxIs
<1>4. ~(Cardinality(A) < n)
  BY <1>3 DEF Newest
<1>5. A \in SUBSET N /\ A \in SUBSET Entry
  <2> HIDE DEF r, N
  <2>1. \A s \in S : s > r => s \notin O
    BY <1>2, <1>3
  <2> QED
    BY <1>1, <2>1
<1> HIDE DEF A, r, N
<1>6. Cardinality(A) <= Cardinality(N) /\ Cardinality(A) \in Nat
  BY <1>1, <1>5, EntrySubset, EntrySets
<1>7. Cardinality(N) = n
  BY <1>1, <1>4, <1>6
<1> QED
  BY <1>7 DEF N

-----------------------------------------------------------------------------
(* ActivityEnrichment: shapes *)

Stages == {"idle", "list", "tenant", "record", "fetch", "write", "summary", "over"}
AtHand == {"record", "fetch", "write"}
Column == {d \in Data : d.keys["ids"] \in {"log", "none"}}

TableShape ==
    /\ data \in [Entry -> Column \cup {Absent}]
    /\ database \in Dialects
    /\ clock \in 1..MaxClock
    /\ overlapped \subseteq Entry

LocalShape ==
    /\ place \in [Run -> Stages]
    /\ before \in [Run -> 0..MaxClock] /\ \A p \in Run : before[p] <= clock
    /\ cursor \in [Run -> 1..(NRecord + 1)]
    /\ short \in [Run -> BOOLEAN]
    /\ answers \in [Run -> [tenant : 0..(NTenant - 1), told : SUBSET Display]]
    /\ stamp \in [Run -> 0..MaxClock] /\ \A p \in Run : stamp[p] <= clock
    /\ owed \in [Run -> SUBSET (Entry \X (Display \cup {"fresh"}))]

PageShape ==
    /\ DOMAIN listed = Run
    /\ \A p \in Run : /\ DOMAIN listed[p] \subseteq Entry
                      /\ \A r \in DOMAIN listed[p] : listed[p][r] \in Column /\ Exists(r)
    /\ copy \in [Run -> Column \cup {Absent}]

HandShape ==
    \A p \in Run : place[p] \in AtHand =>
        /\ \E r \in DOMAIN listed[p] : TenantOf(r) = answers[p].tenant
        /\ place[p] = "write" => copy[p] \in Column

RunShape == TableShape /\ LocalShape /\ PageShape /\ HandShape

LEMMA AbsentApart == Absent \notin Data /\ Absent \notin Column
<1> SUFFICES Absent \notin Data
  BY DEF Column
<1>1. MaxClock \in Nat
  BY EnrichmentAssumption
<1> SUFFICES ASSUME Absent \in Data PROVE FALSE
  OBVIOUS
<1>2. Absent.at \in 0..MaxClock
  BY DEF Data
<1> QED
  BY <1>1, <1>2 DEF Absent

LEMMA ColumnIs ==
    ASSUME NEW d \in Column
    PROVE  /\ d = [keys |-> d.keys, at |-> d.at] /\ d.at \in 0..MaxClock /\ d.at \in Nat
           /\ d.keys \in [Keys -> Writer]
           /\ \A k \in Keys : d.keys[k] \in Writer
           /\ d.keys["ids"] \in {"log", "none"}
  BY EnrichmentAssumption DEF Column, Data

LEMMA LoggedIs ==
    ASSUME NEW d \in Logged
    PROVE  d \in Column /\ d.at = 0
<1>1. PICK own \in SUBSET Display :
          d = [keys |-> [k \in Keys |-> IF k \in own THEN "log" ELSE "none"], at |-> 0]
  BY DEF Logged
<1>2. d.keys \in [Keys -> Writer] /\ d.at = 0 /\ 0 \in 0..MaxClock
  BY <1>1, EnrichmentAssumption DEF Writer
<1>3. d \in Data
  BY <1>1, <1>2 DEF Data
<1>4. d.keys["ids"] \in {"log", "none"}
  BY <1>1 DEF Keys
<1> QED
  BY <1>2, <1>3, <1>4 DEF Column

LEMMA InHandIs ==
    ASSUME RunShape, NEW p \in Run, place[p] \in AtHand
    PROVE  /\ InHand(p) \in DOMAIN listed[p] /\ TenantOf(InHand(p)) = answers[p].tenant
           /\ InHand(p) \in Entry /\ Exists(InHand(p))
           /\ data[InHand(p)] \in Column /\ listed[p][InHand(p)] \in Column
<1> DEFINE S == {r \in DOMAIN listed[p] : TenantOf(r) = answers[p].tenant}
<1>1. S \in SUBSET (1..NRecord) /\ S # {} /\ NRecord \in Nat
  BY EnrichmentAssumption DEF RunShape, HandShape, PageShape, Entry
<1>2. Max(S) \in S
  <2> HIDE DEF S
  <2> QED
    BY <1>1, MaxIs
<1>3. InHand(p) \in S
  BY <1>2 DEF InHand
<1>4. InHand(p) \in DOMAIN listed[p]
  BY <1>3
<1> QED
  BY <1>3, <1>4 DEF RunShape, PageShape, TableShape, Exists

\* The record in hand depends on the run's page and answers only.
LEMMA SameHand ==
    ASSUME NEW p \in Run, listed'[p] = listed[p], answers'[p] = answers[p]
    PROVE  InHand(p)' = InHand(p)
  BY DEF InHand

LEMMA AdvanceIs ==
    ASSUME RunShape, NEW p \in Run, place[p] \in AtHand, Advance(p)
    PROVE  /\ \A q \in Run \ {p} : /\ place'[q] = place[q] /\ listed'[q] = listed[q]
                                  /\ answers'[q] = answers[q] /\ stamp'[q] = stamp[q]
           /\ short' = short /\ DOMAIN place' = Run /\ DOMAIN listed' = Run
           /\ DOMAIN answers' = Run /\ DOMAIN stamp' = Run
           /\ DOMAIN listed'[p] = DOMAIN listed[p] \ {InHand(p)}
           /\ \A r \in DOMAIN listed'[p] : listed'[p][r] = listed[p][r]
           /\ stamp'[p] = 0
           /\ \/ /\ place'[p] = "record" /\ answers'[p] = answers[p]
                 /\ \E r \in DOMAIN listed'[p] : TenantOf(r) = answers'[p].tenant
              \/ /\ answers'[p] = Nobody
                 /\ \/ place'[p] = "tenant" /\ DOMAIN listed'[p] # {}
                    \/ place'[p] = "list" /\ DOMAIN listed'[p] = {} /\ ~short[p]
                    \/ place'[p] = "summary" /\ DOMAIN listed'[p] = {} /\ short[p]
<1> DEFINE rest == Without(listed[p], InHand(p))
           more == \E r \in DOMAIN rest : TenantOf(r) = answers[p].tenant
           next == IF more THEN "record" ELSE IF DOMAIN rest # {} THEN "tenant"
                   ELSE IF short[p] THEN "summary" ELSE "list"
<1>1. /\ DOMAIN place = Run /\ DOMAIN listed = Run /\ DOMAIN answers = Run
      /\ DOMAIN stamp = Run
  BY DEF RunShape, LocalShape, PageShape
<1>2. /\ listed' = [listed EXCEPT ![p] = rest]
      /\ answers' = IF more THEN answers ELSE [answers EXCEPT ![p] = Nobody]
      /\ stamp' = [stamp EXCEPT ![p] = 0]
      /\ place' = [place EXCEPT ![p] = next]
      /\ short' = short
  BY DEF Advance, MoveTo
<1>3. /\ DOMAIN rest = DOMAIN listed[p] \ {InHand(p)}
      /\ \A r \in DOMAIN rest : rest[r] = listed[p][r]
  BY DEF Without
<1> HIDE DEF rest, next
<1>4. listed'[p] = rest /\ \A q \in Run \ {p} : listed'[q] = listed[q]
  BY <1>1, <1>2
<1>5. place'[p] = next /\ \A q \in Run \ {p} : place'[q] = place[q]
  BY <1>1, <1>2
<1>6. more <=> \E r \in DOMAIN listed'[p] : TenantOf(r) = answers[p].tenant
  BY <1>4
<1>7. /\ \A q \in Run \ {p} : answers'[q] = answers[q]
      /\ answers'[p] = IF more THEN answers[p] ELSE Nobody
      /\ DOMAIN answers' = Run
  BY <1>1, <1>2
<1>8. CASE more
  <2>1. place'[p] = "record" /\ answers'[p] = answers[p]
    BY <1>5, <1>7, <1>8 DEF next
  <2>2. \E r \in DOMAIN listed'[p] : TenantOf(r) = answers'[p].tenant
    BY <1>6, <1>8, <2>1
  <2> HIDE DEF more
  <2> QED
    BY <1>1, <1>2, <1>3, <1>4, <1>5, <1>7, <2>1, <2>2
<1>9. CASE ~more
  <2>1. answers'[p] = Nobody
    BY <1>7, <1>9
  <2>2. \/ place'[p] = "tenant" /\ DOMAIN listed'[p] # {}
        \/ place'[p] = "list" /\ DOMAIN listed'[p] = {} /\ ~short[p]
        \/ place'[p] = "summary" /\ DOMAIN listed'[p] = {} /\ short[p]
    BY <1>4, <1>5, <1>9 DEF next
  <2> HIDE DEF more
  <2> QED
    BY <1>1, <1>2, <1>3, <1>4, <1>5, <1>7, <2>1, <2>2
<1> QED
  BY <1>8, <1>9

\* The ids of the record wanted come from the record, its names from the row that
\* was listed or from the run, and what the resolvers told is among them.
LEMMA EnrichedIs ==
    ASSUME RunShape, NEW p \in Run, NEW d \in Column
    PROVE  /\ Enriched(p, d) \in [Keys -> Writer] /\ Enriched(p, d)["ids"] = "log"
           /\ \A k \in Display :
                 /\ Enriched(p, d)[k] = "log" => d.keys[k] = "log"
                 /\ k \in answers[p].told => Enriched(p, d)[k] # "none"
<1>1. /\ "ids" \in Keys /\ "ids" \notin Display /\ Display \subseteq Keys
      /\ p # "log" /\ p # "none" /\ {"log", "none", p} \subseteq Writer
  BY EnrichmentAssumption DEF Keys, Writer
<1>2. /\ d.keys \in [Keys -> Writer] /\ d.keys["ids"] \in {"log", "none"}
  BY ColumnIs
<1>3. \A k \in Keys : IF k \notin Missing(p, d) THEN Enriched(p, d)[k] = d.keys[k]
                      ELSE IF k = "ids" THEN Enriched(p, d)[k] = "log"
                      ELSE Enriched(p, d)[k] = p
  BY DEF Enriched
<1>4. DOMAIN Enriched(p, d) = Keys /\ Enriched(p, d) = [k \in Keys |-> Enriched(p, d)[k]]
  BY DEF Enriched
<1>5. \A k : k \in Missing(p, d) <=> k \in answers[p].told \cup {"ids"} /\ d.keys[k] = "none"
  BY DEF Missing
<1>6. Enriched(p, d) \in [Keys -> Writer]
  BY <1>1, <1>2, <1>3, <1>4
<1>7. Enriched(p, d)["ids"] = "log"
  BY <1>1, <1>2, <1>3, <1>5
<1>8. ASSUME NEW k \in Display PROVE Enriched(p, d)[k] = "log" => d.keys[k] = "log"
  BY <1>1, <1>3
<1>9. ASSUME NEW k \in Display, k \in answers[p].told PROVE Enriched(p, d)[k] # "none"
  BY <1>1, <1>3, <1>5, <1>9
<1> QED
  BY <1>6, <1>7, <1>8, <1>9

\* What an update leaves in the table.
LEMMA MergedIs ==
    ASSUME RunShape, NEW p \in Run, place[p] = "write"
    PROVE  /\ Merged(p) \in Column /\ Merged(p).at = stamp[p]
           /\ \A k \in Keys :
                 LET mine == Enriched(p, listed[p][InHand(p)])[k]
                 IN IF copy[p].keys[k] = "none" /\ mine # "none"
                      THEN Merged(p).keys[k] = mine
                    ELSE IF database = "pg"
                      THEN Merged(p).keys[k] = data[InHand(p)].keys[k]
                    ELSE Merged(p).keys[k] = copy[p].keys[k]
<1> DEFINE r == InHand(p)
           mine == Enriched(p, listed[p][r])
           base == IF database = "pg" THEN data[r] ELSE copy[p]
           merged == MergeKeys(base.keys, mine, copy[p].keys)
<1>1. /\ data[r] \in Column /\ listed[p][r] \in Column /\ copy[p] \in Column
      /\ stamp[p] \in 0..MaxClock
  BY InHandIs DEF AtHand, RunShape, HandShape, LocalShape
<1>2. mine \in [Keys -> Writer] /\ mine["ids"] = "log"
  <2> HIDE DEF r
  <2> QED
    BY <1>1, EnrichedIs
<1> HIDE DEF mine, r
<1>3. base \in Column
  BY <1>1
<1>4. base.keys \in [Keys -> Writer] /\ base.keys["ids"] \in {"log", "none"}
  <2> HIDE DEF base
  <2> QED
    BY <1>3, ColumnIs
<1>5. Merged(p) = [keys |-> merged, at |-> stamp[p]]
  BY DEF Merged, r, mine
<1>6. \A k \in Keys : IF copy[p].keys[k] = "none" /\ mine[k] # "none"
                        THEN merged[k] = mine[k] ELSE merged[k] = base.keys[k]
  BY DEF MergeKeys
<1>7. DOMAIN merged = Keys /\ merged = [k \in Keys |-> merged[k]]
  BY DEF MergeKeys
<1> HIDE DEF merged, base
<1>8. merged \in [Keys -> Writer]
  BY <1>2, <1>4, <1>6, <1>7
<1>9. merged["ids"] \in {"log", "none"}
  BY <1>2, <1>4, <1>6 DEF Keys
<1>10. Merged(p) \in Column
  <2>1. Merged(p) \in Data
    BY <1>1, <1>5, <1>8 DEF Data
  <2> QED
    BY <1>5, <1>9, <2>1 DEF Column
<1>11. ASSUME NEW k \in Keys
       PROVE  IF copy[p].keys[k] = "none" /\ mine[k] # "none"
                THEN Merged(p).keys[k] = mine[k]
              ELSE IF database = "pg" THEN Merged(p).keys[k] = data[r].keys[k]
              ELSE Merged(p).keys[k] = copy[p].keys[k]
  BY <1>5, <1>6 DEF base
<1> QED
  BY <1>5, <1>10, <1>11 DEF mine, r

-----------------------------------------------------------------------------
(* ActivityEnrichment: steps *)

Act(p) == StartRun(p) \/ Work(p) \/ Stop(p)

LEMMA EnrichmentStepIs ==
    EnrichmentNext <=> PassTime \/ (\E r \in Entry : Log(r)) \/ \E p \in Run : Act(p)
  BY DEF EnrichmentNext, Act

LEMMA ActIs ==
    ASSUME NEW p \in Run, Act(p)
    PROVE  \/ StartRun(p) \/ ListByQuery(p) \/ ListByScan(p) \/ ResolveTenant(p)
           \/ EnrichRecord(p) \/ GetByID(p) \/ UpdateActivityData(p) \/ End(p)
  BY DEF Act, Work, LogSummary, Stop

PutBack(p) == data' = data \/ data' = [data EXCEPT ![InHand(p)] = Merged(p)]

\* A run works on its own variables, and writes the record in hand at most.
LEMMA ActWrites ==
    ASSUME RunShape, NEW p \in Run, Act(p)
    PROVE  /\ database' = database /\ clock' = clock
           /\ data' = data \/ (place[p] = "write" /\ PutBack(p))
           /\ \A q \in Run \ {p} :
                 /\ place'[q] = place[q] /\ before'[q] = before[q] /\ cursor'[q] = cursor[q]
                 /\ listed'[q] = listed[q] /\ short'[q] = short[q]
                 /\ answers'[q] = answers[q] /\ stamp'[q] = stamp[q] /\ copy'[q] = copy[q]
                 /\ owed'[q] = owed[q]
           /\ overlapped \subseteq overlapped'
           /\ \/ overlapped' = overlapped
              \/ /\ place[p] = "record"
                 /\ overlapped' = overlapped \cup {s \in {InHand(p)} : Busy(s) # {}}
<1>1. /\ DOMAIN place = Run /\ DOMAIN before = Run /\ DOMAIN cursor = Run
      /\ DOMAIN listed = Run /\ DOMAIN short = Run /\ DOMAIN answers = Run
      /\ DOMAIN stamp = Run /\ DOMAIN copy = Run /\ DOMAIN owed = Run
  BY DEF RunShape, LocalShape, PageShape
<1>2. CASE StartRun(p)
  BY <1>1, <1>2 DEF StartRun, MoveTo, batch
<1>3. CASE ListByQuery(p)
  <2>1. /\ \A q \in Run \ {p} : /\ place'[q] = place[q] /\ listed'[q] = listed[q]
                                /\ short'[q] = short[q]
        /\ answers' = answers
    BY <1>1, <1>3 DEF ListByQuery, TakePage, MoveTo
  <2>2. \A q \in Run \ {p} : cursor'[q] = cursor[q]
    BY <1>1, <1>3 DEF ListByQuery
  <2>3. UNCHANGED <<data, database, clock, before, stamp, copy, overlapped, owed>>
    BY <1>3 DEF ListByQuery
  <2> QED
    BY <2>1, <2>2, <2>3
<1>4. CASE ListByScan(p)
  <2>1. /\ \A q \in Run \ {p} : /\ place'[q] = place[q] /\ listed'[q] = listed[q]
                                /\ short'[q] = short[q]
        /\ answers' = answers
    BY <1>1, <1>4 DEF ListByScan, MoveTo
  <2>2. \A q \in Run \ {p} : cursor'[q] = cursor[q]
    BY <1>1, <1>4 DEF ListByScan
  <2>3. UNCHANGED <<data, database, clock, before, stamp, copy, overlapped, owed>>
    BY <1>4 DEF ListByScan
  <2> QED
    BY <2>1, <2>2, <2>3
<1>5. CASE ResolveTenant(p)
  BY <1>1, <1>5 DEF ResolveTenant, MoveTo
<1>6. ASSUME place[p] \in AtHand, Advance(p)
      PROVE  /\ short' = short
             /\ \A q \in Run \ {p} : /\ place'[q] = place[q] /\ listed'[q] = listed[q]
                                     /\ answers'[q] = answers[q] /\ stamp'[q] = stamp[q]
  BY <1>6, AdvanceIs
<1>7. ASSUME place[p] \in AtHand, PassOver(p)
      PROVE  Advance(p) /\ \A q \in Run \ {p} : owed'[q] = owed[q]
  BY <1>1, <1>7 DEF PassOver
<1>8. CASE EnrichRecord(p)
  <2>1. /\ UNCHANGED <<data, database, clock, before, cursor, copy>> /\ place[p] = "record"
        /\ \/ overlapped' = overlapped
           \/ overlapped' = overlapped \cup {s \in {InHand(p)} : Busy(s) # {}}
    BY <1>8 DEF EnrichRecord
  <2>2. CASE Advance(p) /\ \E unknown : owed' = [owed EXCEPT ![p] = @ \ unknown]
    BY <1>1, <1>6, <2>1, <2>2 DEF AtHand
  <2>3. CASE PassOver(p)
    BY <1>6, <1>7, <2>1, <2>3 DEF AtHand
  <2>4. CASE /\ \E unknown : owed' = [owed EXCEPT ![p] = @ \ unknown]
             /\ stamp' = [stamp EXCEPT ![p] = clock] /\ MoveTo(p, "fetch") /\ UNCHANGED batch
    BY <1>1, <2>1, <2>4 DEF MoveTo, batch
  <2>5. \/ Advance(p) /\ \E unknown : owed' = [owed EXCEPT ![p] = @ \ unknown]
        \/ PassOver(p)
        \/ /\ \E unknown : owed' = [owed EXCEPT ![p] = @ \ unknown]
           /\ stamp' = [stamp EXCEPT ![p] = clock] /\ MoveTo(p, "fetch") /\ UNCHANGED batch
    BY <1>8 DEF EnrichRecord
  <2> QED
    BY <2>2, <2>3, <2>4, <2>5
<1>9. CASE GetByID(p)
  <2>1. UNCHANGED <<data, database, clock, before, cursor, overlapped>> /\ place[p] = "fetch"
    BY <1>9 DEF GetByID
  <2>2. CASE PassOver(p) /\ copy' = copy
    BY <1>6, <1>7, <2>1, <2>2 DEF AtHand
  <2>3. CASE /\ copy' = [copy EXCEPT ![p] = data[InHand(p)]]
             /\ MoveTo(p, "write") /\ UNCHANGED <<batch, stamp, owed>>
    BY <1>1, <2>1, <2>3 DEF MoveTo, batch
  <2> QED
    BY <1>9, <2>2, <2>3 DEF GetByID
<1>10. CASE UpdateActivityData(p)
  <2>1. /\ UNCHANGED <<database, clock, before, cursor, overlapped>> /\ place[p] = "write"
        /\ copy' = [copy EXCEPT ![p] = Absent] /\ PutBack(p)
    BY <1>10 DEF UpdateActivityData, PutBack
  <2>2. Advance(p) /\ \A q \in Run \ {p} : owed'[q] = owed[q]
    BY <1>7, <1>10, <2>1 DEF UpdateActivityData, AtHand
  <2> QED
    BY <1>1, <1>6, <2>1, <2>2 DEF AtHand
<1>11. CASE End(p)
  BY <1>1, <1>11 DEF End, MoveTo
<1> QED
  BY <1>2, <1>3, <1>4, <1>5, <1>8, <1>9, <1>10, <1>11, ActIs

\* A row is never lost, whoever moves.
LEMMA TableStep ==
    ASSUME RunShape, EnrichmentNext
    PROVE  TableShape' /\ \A r \in Entry : Exists(r) => Exists(r)'
<1>1. /\ data \in [Entry -> Column \cup {Absent}] /\ database \in Dialects
      /\ clock \in 1..MaxClock /\ overlapped \subseteq Entry /\ MaxClock \in Nat
  BY EnrichmentAssumption DEF RunShape, TableShape
<1>2. CASE PassTime
  <2>1. UNCHANGED <<data, database, overlapped>> /\ clock < MaxClock /\ clock' = clock + 1
    BY <1>2 DEF PassTime
  <2> QED
    BY <1>1, <2>1 DEF TableShape, Exists
<1>3. ASSUME NEW r \in Entry, Log(r) PROVE TableShape' /\ \A s \in Entry : Exists(s) => Exists(s)'
  <2>1. PICK d \in Logged : data' = [data EXCEPT ![r] = d]
    BY <1>3 DEF Log
  <2>2. UNCHANGED <<database, clock, overlapped>>
    BY <1>3 DEF Log
  <2>3. d \in Column
    BY LoggedIs
  <2>4. data' \in [Entry -> Column \cup {Absent}]
    BY <1>1, <2>1, <2>3
  <2>5. \A s \in Entry : data'[s] = data[s] \/ data'[s] = d
    BY <1>1, <2>1
  <2> QED
    BY <1>1, <2>2, <2>3, <2>4, <2>5, AbsentApart DEF TableShape, Exists
<1>4. ASSUME NEW p \in Run, Act(p) PROVE TableShape' /\ \A s \in Entry : Exists(s) => Exists(s)'
  <2>1. /\ database' = database /\ clock' = clock
        /\ data' = data \/ (place[p] = "write" /\ PutBack(p))
        /\ \/ overlapped' = overlapped
           \/ /\ place[p] = "record"
              /\ overlapped' = overlapped \cup {s \in {InHand(p)} : Busy(s) # {}}
    BY <1>4, ActWrites
  <2>2. overlapped' \subseteq Entry
    BY <1>1, <2>1, InHandIs DEF AtHand
  <2>3. CASE data' = data
    BY <1>1, <2>1, <2>2, <2>3 DEF TableShape, Exists
  <2>4. CASE place[p] = "write" /\ data' = [data EXCEPT ![InHand(p)] = Merged(p)]
    <3>1. Merged(p) \in Column
      BY <2>4, MergedIs
    <3>2. data' \in [Entry -> Column \cup {Absent}]
      BY <1>1, <2>4, <3>1
    <3>3. \A s \in Entry : data'[s] = data[s] \/ data'[s] = Merged(p)
      BY <1>1, <2>4
    <3> QED
      BY <1>1, <2>1, <2>2, <3>1, <3>2, <3>3, AbsentApart DEF TableShape, Exists
  <2> QED
    BY <2>1, <2>3, <2>4 DEF PutBack
<1> QED
  BY <1>2, <1>3, <1>4, EnrichmentStepIs

LEMMA NobodyIs == Nobody \in [tenant : 0..(NTenant - 1), told : SUBSET Display]
<1>1. 0 \in 0..(NTenant - 1)
  BY EnrichmentAssumption
<1> QED
  BY <1>1 DEF Nobody

LEMMA TenantIs ==
    ASSUME NEW r \in Entry
    PROVE  TenantOf(r) \in 0..(NTenant - 1)
<1>1. r \in Nat /\ NTenant \in Nat /\ NTenant > 0
  BY EnrichmentAssumption DEF Entry
<1>2. r % NTenant \in 0..(NTenant - 1)
  BY <1>1
<1> QED
  BY <1>2 DEF TenantOf

\* What a run finds in the table, and where its next page begins.
Candidates(p) == {r \in Entry : Exists(r) /\ r < cursor[p] /\ MatchesFilter(data[r], before[p])}
Rows(p) == Newest({r \in Entry : Exists(r) /\ r < cursor[p]}, BatchSize)
Room(p) == BatchSize - Cardinality(DOMAIN listed[p])
Taken(p) == Newest({r \in Rows(p) : MatchesFilter(data[r], before[p])}, Room(p))
Scanned(p) == IF Cardinality(Taken(p)) = Room(p)
              THEN {r \in Rows(p) : r >= Min(Taken(p))} ELSE Rows(p)

LEMMA QueryIs ==
    ASSUME RunShape, NEW p \in Run, ListByQuery(p)
    PROVE  LET chosen == Newest(Candidates(p), BatchSize)
           IN /\ place[p] = "list" /\ database = "pg"
              /\ listed' = [listed EXCEPT ![p] = [r \in chosen |-> data[r]]]
              /\ short' = [short EXCEPT ![p] = ~(Cardinality(chosen) = BatchSize)]
              /\ place' = [place EXCEPT ![p] = IF chosen = {} THEN "summary" ELSE "tenant"]
              /\ cursor' = IF chosen = {} THEN cursor ELSE [cursor EXCEPT ![p] = Min(chosen)]
              /\ UNCHANGED <<data, database, clock, before, answers, stamp, copy, overlapped, owed>>
  BY DEF ListByQuery, Candidates, TakePage, MoveTo, NextCursor

LEMMA ScanIs ==
    ASSUME RunShape, NEW p \in Run, ListByScan(p)
    PROVE  LET full == Cardinality(Taken(p)) = Room(p)
               all == [r \in Taken(p) \cup DOMAIN listed[p] |->
                          IF r \in Taken(p) THEN data[r] ELSE listed[p][r]]
           IN /\ place[p] = "list" /\ database = "other"
              /\ listed' = [listed EXCEPT ![p] = all]
              /\ short' = [short EXCEPT ![p] = ~full]
              /\ place' = [place EXCEPT ![p] =
                             IF full THEN "tenant"
                             ELSE IF Cardinality(Rows(p)) = BatchSize THEN "list"
                             ELSE IF DOMAIN all = {} THEN "summary" ELSE "tenant"]
              /\ cursor' = IF Scanned(p) = {} THEN cursor
                           ELSE [cursor EXCEPT ![p] = Min(Scanned(p))]
              /\ UNCHANGED <<data, database, clock, before, answers, stamp, copy, overlapped, owed>>
  BY DEF ListByScan, Rows, Room, Taken, Scanned, MoveTo, NextCursor

LEMMA PageRoom ==
    ASSUME RunShape, NEW p \in Run, Cardinality(DOMAIN listed[p]) < BatchSize
    PROVE  /\ Room(p) \in Nat \ {0}
           /\ Rows(p) \in SUBSET {r \in Entry : Exists(r) /\ r < cursor[p]}
           /\ Taken(p) \in SUBSET Rows(p) /\ Taken(p) \in SUBSET Entry
           /\ Taken(p) \in SUBSET {r \in Rows(p) : MatchesFilter(data[r], before[p])}
           /\ Scanned(p) \in SUBSET Rows(p) /\ Scanned(p) \in SUBSET Entry
<1>1. BatchSize \in Nat \ {0}
  BY EnrichmentAssumption
<1>2. DOMAIN listed[p] \in SUBSET Entry
  BY DEF RunShape, PageShape
<1>3. Cardinality(DOMAIN listed[p]) \in Nat
  BY <1>2, EntrySets
<1>4. Room(p) \in Nat \ {0}
  BY <1>1, <1>3 DEF Room
<1>5. Rows(p) \in SUBSET {r \in Entry : Exists(r) /\ r < cursor[p]}
  BY <1>1, NewestFew DEF Rows
<1>6. Taken(p) \in SUBSET {r \in Rows(p) : MatchesFilter(data[r], before[p])}
  <2>1. {r \in Rows(p) : MatchesFilter(data[r], before[p])} \in SUBSET Entry
    BY <1>5
  <2> QED
    BY <1>4, <2>1, NewestFew DEF Taken
<1>7. Scanned(p) \in SUBSET Rows(p)
  BY DEF Scanned
<1>8. Rows(p) \subseteq Entry
  BY <1>5
<1>9. Taken(p) \subseteq Rows(p)
  BY <1>6
<1>10. Taken(p) \subseteq Entry /\ Scanned(p) \subseteq Entry
  BY <1>7, <1>8, <1>9
<1>11. /\ Taken(p) \in SUBSET Rows(p) /\ Taken(p) \in SUBSET Entry
       /\ Scanned(p) \in SUBSET Entry
  BY <1>9, <1>10
<1> QED
  BY <1>4, <1>5, <1>6, <1>7, <1>11

\* The least of a set of records is a cursor.
LEMMA CursorIs ==
    ASSUME NEW S \in SUBSET Entry, S # {}
    PROVE  Min(S) \in 1..(NRecord + 1) /\ Min(S) \in S /\ \A s \in S : Min(S) <= s
<1>1. NRecord \in Nat /\ S \in SUBSET (1..NRecord)
  BY EnrichmentAssumption DEF Entry
<1>2. Min(S) \in S /\ \A s \in S : Min(S) <= s
  BY <1>1, MinIs
<1>3. \A m \in 1..NRecord : m \in 1..(NRecord + 1)
  BY <1>1
<1>4. Min(S) \in 1..NRecord
  BY <1>1, <1>2
<1> QED
  BY <1>2, <1>3, <1>4

\* At the table a page is not full, and none is left over where the statement filters.
ListingShape ==
    \A p \in Run :
        /\ place[p] \in {"idle", "over", "summary"} => DOMAIN listed[p] = {}
        /\ place[p] \in {"idle", "over"} => ~short[p] /\ cursor[p] = NRecord + 1 /\ owed[p] = {}
        /\ place[p] = "summary" => short[p]
        /\ place[p] = "list" => /\ Cardinality(DOMAIN listed[p]) < BatchSize
                                /\ database = "pg" => DOMAIN listed[p] = {}

LEMMA LocalStep ==
    ASSUME RunShape, ListingShape, NEW p \in Run, Act(p)
    PROVE  LocalShape'
<1>1. /\ clock' = clock /\ clock \in 1..MaxClock /\ MaxClock \in Nat \ {0}
      /\ DOMAIN place = Run /\ DOMAIN before = Run /\ DOMAIN cursor = Run
      /\ DOMAIN listed = Run /\ DOMAIN short = Run /\ DOMAIN answers = Run
      /\ DOMAIN stamp = Run /\ DOMAIN copy = Run /\ DOMAIN owed = Run
  BY ActWrites, EnrichmentAssumption DEF RunShape, TableShape, LocalShape, PageShape
<1> DEFINE Answered == [tenant : 0..(NTenant - 1), told : SUBSET Display]
           Duties == SUBSET (Entry \X (Display \cup {"fresh"}))
<1>2. /\ place \in [Run -> Stages] /\ before \in [Run -> 0..MaxClock]
      /\ cursor \in [Run -> 1..(NRecord + 1)] /\ short \in [Run -> BOOLEAN]
      /\ answers \in [Run -> Answered] /\ stamp \in [Run -> 0..MaxClock]
      /\ owed \in [Run -> Duties]
      /\ \A q \in Run : before[q] <= clock /\ stamp[q] <= clock
  BY DEF RunShape, LocalShape
<1>a. Nobody \in Answered
  BY NobodyIs
<1> HIDE DEF Answered
<1>3. CASE StartRun(p)
  <2>1. UNCHANGED <<cursor, short, answers, stamp>>
    BY <1>3 DEF StartRun, batch
  <2>2. place' = [place EXCEPT ![p] = "list"] /\ "list" \in Stages
    BY <1>3 DEF StartRun, MoveTo, Stages
  <2>3. PICK threshold \in {0} \cup {clock - age : age \in {a \in Cutoffs : a < clock}} :
            before' = [before EXCEPT ![p] = threshold]
    BY <1>3 DEF StartRun
  <2>4. threshold \in 0..MaxClock /\ threshold <= clock
    BY <1>1, <2>3, EnrichmentAssumption
  <2>5. owed' = [owed EXCEPT ![p] = {r \in Entry : Exists(r)} \X (Display \cup {"fresh"})]
    BY <1>3 DEF StartRun
  <2>6. {r \in Entry : Exists(r)} \X (Display \cup {"fresh"}) \in Duties
    OBVIOUS
  <2> HIDE DEF Duties
  <2>7. owed' \in [Run -> Duties]
    BY <1>2, <2>5, <2>6
  <2>8. before' \in [Run -> 0..MaxClock] /\ \A q \in Run : before'[q] <= clock
    BY <1>2, <2>3, <2>4
  <2>9. place' \in [Run -> Stages]
    BY <1>2, <2>2
  <2> QED
    BY <1>1, <1>2, <2>1, <2>7, <2>8, <2>9 DEF LocalShape, Answered, Duties
<1>4. CASE ListByQuery(p)
  <2> DEFINE chosen == Newest(Candidates(p), BatchSize)
  <2>1. chosen \in SUBSET Entry
    BY NewestFew, EnrichmentAssumption DEF Candidates
  <2>2. /\ short' = [short EXCEPT ![p] = ~(Cardinality(chosen) = BatchSize)]
        /\ place' = [place EXCEPT ![p] = IF chosen = {} THEN "summary" ELSE "tenant"]
        /\ cursor' = IF chosen = {} THEN cursor ELSE [cursor EXCEPT ![p] = Min(chosen)]
        /\ UNCHANGED <<before, answers, stamp, owed>>
    BY <1>4, QueryIs
  <2> HIDE DEF chosen, Duties
  <2>3. cursor' \in [Run -> 1..(NRecord + 1)]
    BY <1>2, <2>1, <2>2, CursorIs
  <2>4. place' \in [Run -> Stages]
    BY <1>2, <2>2 DEF Stages
  <2>5. short' \in [Run -> BOOLEAN]
    BY <1>2, <2>2
  <2> QED
    BY <1>1, <1>2, <2>2, <2>3, <2>4, <2>5 DEF LocalShape, Answered, Duties
<1>5. CASE ListByScan(p)
  <2> DEFINE full == Cardinality(Taken(p)) = Room(p)
             all == [r \in Taken(p) \cup DOMAIN listed[p] |->
                        IF r \in Taken(p) THEN data[r] ELSE listed[p][r]]
             next == IF full THEN "tenant"
                     ELSE IF Cardinality(Rows(p)) = BatchSize THEN "list"
                     ELSE IF DOMAIN all = {} THEN "summary" ELSE "tenant"
  <2>1. /\ place[p] = "list" /\ short' = [short EXCEPT ![p] = ~full]
        /\ place' = [place EXCEPT ![p] = next]
        /\ cursor' = IF Scanned(p) = {} THEN cursor ELSE [cursor EXCEPT ![p] = Min(Scanned(p))]
        /\ UNCHANGED <<before, answers, stamp, owed>>
    BY <1>5, ScanIs
  <2>2. Scanned(p) \in SUBSET Entry
    BY <2>1, PageRoom DEF ListingShape
  <2>3. next \in Stages
    BY DEF Stages
  <2>4. full \in BOOLEAN
    OBVIOUS
  <2> HIDE DEF full, next, Duties
  <2>5. cursor' \in [Run -> 1..(NRecord + 1)]
    BY <1>2, <2>1, <2>2, CursorIs
  <2>6. place' \in [Run -> Stages] /\ short' \in [Run -> BOOLEAN]
    BY <1>2, <2>1, <2>3, <2>4
  <2> QED
    BY <1>1, <1>2, <2>1, <2>5, <2>6 DEF LocalShape, Answered, Duties
<1>6. CASE ResolveTenant(p)
  <2>1. UNCHANGED <<before, cursor, short, stamp, owed>>
    BY <1>6 DEF ResolveTenant
  <2>2. place' = [place EXCEPT ![p] = "record"] /\ "record" \in Stages
    BY <1>6 DEF ResolveTenant, MoveTo, Stages
  <2>3. PICK t \in Tenants(p), told \in SUBSET Display :
            answers' = [answers EXCEPT ![p] = [tenant |-> t, told |-> told]]
    BY <1>6 DEF ResolveTenant
  <2>4. t \in 0..(NTenant - 1)
    BY TenantIs DEF Tenants, RunShape, PageShape
  <2>5. [tenant |-> t, told |-> told] \in Answered
    BY <2>4 DEF Answered
  <2> HIDE DEF Duties
  <2>6. answers' \in [Run -> Answered] /\ place' \in [Run -> Stages]
    BY <1>2, <2>2, <2>3, <2>5
  <2> QED
    BY <1>1, <1>2, <2>1, <2>6 DEF LocalShape, Answered, Duties
<1>7. ASSUME place[p] \in AtHand, Advance(p)
      PROVE  /\ place' \in [Run -> Stages] /\ answers' \in [Run -> Answered]
             /\ stamp' \in [Run -> 0..MaxClock] /\ \A q \in Run : stamp'[q] <= clock
             /\ short' \in [Run -> BOOLEAN]
  <2>1. PICK next \in Stages : place' = [place EXCEPT ![p] = next]
    BY <1>7 DEF Advance, MoveTo, Stages
  <2>2. answers' = answers \/ answers' = [answers EXCEPT ![p] = Nobody]
    BY <1>7 DEF Advance
  <2>3. stamp' = [stamp EXCEPT ![p] = 0] /\ short' = short
    BY <1>7 DEF Advance
  <2> QED
    BY <1>1, <1>2, <1>a, <2>1, <2>2, <2>3
<1>8. ASSUME NEW gone, owed' = [owed EXCEPT ![p] = owed[p] \ gone] PROVE owed' \in [Run -> Duties]
  <2>1. owed[p] \ gone \in Duties
    BY <1>2
  <2> HIDE DEF Duties
  <2> QED
    BY <1>2, <1>8, <2>1
<1>9. ASSUME PassOver(p) PROVE Advance(p) /\ owed' \in [Run -> Duties]
  <2>1. owed' = [owed EXCEPT ![p] = owed[p] \ {o \in owed[p] : o[1] = InHand(p)}]
    BY <1>1, <1>9 DEF PassOver
  <2> QED
    BY <1>8, <1>9, <2>1 DEF PassOver
<1> HIDE DEF Duties
<1>10. CASE EnrichRecord(p)
  <2>1. UNCHANGED <<before, cursor>> /\ place[p] = "record"
    BY <1>10 DEF EnrichRecord
  <2>2. \/ Advance(p) /\ \E unknown : owed' = [owed EXCEPT ![p] = owed[p] \ unknown]
        \/ PassOver(p)
        \/ /\ \E unknown : owed' = [owed EXCEPT ![p] = owed[p] \ unknown]
           /\ stamp' = [stamp EXCEPT ![p] = clock] /\ MoveTo(p, "fetch") /\ UNCHANGED batch
    BY <1>10 DEF EnrichRecord
  <2>3. owed' \in [Run -> Duties]
    BY <1>8, <1>9, <2>2
  <2>4. CASE Advance(p)
    BY <1>1, <1>2, <1>7, <2>1, <2>3, <2>4 DEF LocalShape, Answered, Duties, AtHand
  <2>5. CASE /\ stamp' = [stamp EXCEPT ![p] = clock] /\ MoveTo(p, "fetch") /\ UNCHANGED batch
    <3>1. place' \in [Run -> Stages] /\ short' = short /\ answers' = answers
      BY <1>2, <2>5 DEF MoveTo, Stages, batch
    <3>2. stamp' \in [Run -> 0..MaxClock] /\ \A q \in Run : stamp'[q] <= clock
      BY <1>1, <1>2, <2>5
    <3> QED
      BY <1>1, <1>2, <2>1, <2>3, <3>1, <3>2 DEF LocalShape, Answered, Duties
  <2> QED
    BY <1>9, <2>2, <2>4, <2>5
<1>11. CASE GetByID(p)
  <2>1. UNCHANGED <<before, cursor>> /\ place[p] = "fetch"
    BY <1>11 DEF GetByID
  <2>2. CASE PassOver(p)
    BY <1>1, <1>2, <1>7, <1>9, <2>1, <2>2 DEF LocalShape, Answered, Duties, AtHand
  <2>3. CASE MoveTo(p, "write") /\ UNCHANGED <<batch, stamp, owed>>
    <3>1. place' \in [Run -> Stages] /\ short' = short /\ answers' = answers
      BY <1>2, <2>3 DEF MoveTo, Stages, batch
    <3> QED
      BY <1>1, <1>2, <2>1, <2>3, <3>1 DEF LocalShape, Answered, Duties
  <2> QED
    BY <1>11, <2>2, <2>3 DEF GetByID
<1>12. CASE UpdateActivityData(p)
  <2>1. UNCHANGED <<before, cursor>> /\ place[p] = "write"
    BY <1>12 DEF UpdateActivityData
  <2>2. Advance(p) /\ owed' \in [Run -> Duties]
    BY <1>2, <1>9, <1>12 DEF UpdateActivityData
  <2> QED
    BY <1>1, <1>2, <1>7, <2>1, <2>2 DEF LocalShape, Answered, Duties, AtHand
<1>13. CASE End(p)
  <2>1. /\ place' = [place EXCEPT ![p] = "over"] /\ before' = [before EXCEPT ![p] = 0]
        /\ cursor' = [cursor EXCEPT ![p] = NRecord + 1] /\ short' = [short EXCEPT ![p] = FALSE]
        /\ answers' = [answers EXCEPT ![p] = Nobody] /\ stamp' = [stamp EXCEPT ![p] = 0]
        /\ owed' = [owed EXCEPT ![p] = owed[p] \ owed[p]]
    BY <1>13 DEF End, MoveTo
  <2>2. owed' \in [Run -> Duties]
    BY <1>8, <2>1
  <2>3. place' \in [Run -> Stages] /\ short' \in [Run -> BOOLEAN] /\ answers' \in [Run -> Answered]
    BY <1>2, <1>a, <2>1 DEF Stages
  <2>4. NRecord + 1 \in 1..(NRecord + 1)
    BY EnrichmentAssumption
  <2>5. /\ cursor' \in [Run -> 1..(NRecord + 1)] /\ stamp' \in [Run -> 0..MaxClock]
        /\ before' \in [Run -> 0..MaxClock]
        /\ \A q \in Run : before'[q] <= clock /\ stamp'[q] <= clock
    BY <1>1, <1>2, <2>1, <2>4
  <2> QED
    BY <1>1, <2>2, <2>3, <2>5 DEF LocalShape, Answered, Duties
<1> QED
  BY <1>3, <1>4, <1>5, <1>6, <1>10, <1>11, <1>12, <1>13, ActIs

\* Whatever is on a page, there or in the table, is a row.
LEMMA PageShapeStep ==
    ASSUME RunShape, ListingShape, NEW p \in Run, Act(p)
    PROVE  PageShape'
<1>1. /\ DOMAIN listed = Run /\ DOMAIN copy = Run /\ copy \in [Run -> Column \cup {Absent}]
      /\ \A q \in Run : /\ DOMAIN listed[q] \subseteq Entry
                        /\ \A r \in DOMAIN listed[q] : listed[q][r] \in Column /\ Exists(r)
  BY DEF RunShape, PageShape
<1>2. \A r \in Entry : Exists(r) => Exists(r)'
  BY TableStep, EnrichmentStepIs
<1>3. \A q \in Run \ {p} : listed'[q] = listed[q]
  BY ActWrites
<1>4. ASSUME DOMAIN listed' = Run, DOMAIN listed'[p] \subseteq Entry,
             \A r \in DOMAIN listed'[p] : listed'[p][r] \in Column /\ Exists(r),
             copy' \in [Run -> Column \cup {Absent}]
      PROVE  PageShape'
  <2> SUFFICES ASSUME NEW q \in Run
               PROVE  /\ DOMAIN listed'[q] \subseteq Entry
                      /\ \A r \in DOMAIN listed'[q] : listed'[q][r] \in Column /\ Exists(r)'
    BY <1>4 DEF PageShape
  <2>1. CASE q = p
    BY <1>2, <1>4, <2>1
  <2>2. CASE q # p
    BY <1>1, <1>2, <1>3, <2>2
  <2> QED
    BY <2>1, <2>2
<1>5. ASSUME listed' = listed, copy' \in [Run -> Column \cup {Absent}] PROVE PageShape'
  BY <1>1, <1>4, <1>5
<1>6. ASSUME place[p] \in AtHand, Advance(p), copy' \in [Run -> Column \cup {Absent}]
      PROVE  PageShape'
  <2>1. /\ DOMAIN listed' = Run /\ DOMAIN listed'[p] = DOMAIN listed[p] \ {InHand(p)}
        /\ \A r \in DOMAIN listed'[p] : listed'[p][r] = listed[p][r]
    BY <1>6, AdvanceIs
  <2> QED
    BY <1>1, <1>4, <1>6, <2>1
<1>7. CASE StartRun(p)
  BY <1>1, <1>5, <1>7 DEF StartRun, batch
<1>8. CASE ListByQuery(p)
  <2> DEFINE chosen == Newest(Candidates(p), BatchSize)
  <2>1. Candidates(p) \in SUBSET Entry /\ \A r \in Candidates(p) : Exists(r)
    BY DEF Candidates
  <2>2. chosen \in SUBSET Entry /\ \A r \in chosen : Exists(r)
    BY <2>1, NewestFew, EnrichmentAssumption
  <2>3. listed' = [listed EXCEPT ![p] = [r \in chosen |-> data[r]]] /\ copy' = copy
    BY <1>8, QueryIs
  <2> HIDE DEF chosen
  <2>4. \A r \in chosen : data[r] \in Column
    BY <2>2 DEF RunShape, TableShape, Exists
  <2>5. DOMAIN listed' = Run /\ listed'[p] = [r \in chosen |-> data[r]]
    BY <1>1, <2>3
  <2>6. DOMAIN listed'[p] = chosen /\ \A r \in chosen : listed'[p][r] = data[r]
    BY <2>5
  <2> QED
    BY <1>1, <1>4, <2>2, <2>3, <2>4, <2>5, <2>6
<1>9. CASE ListByScan(p)
  <2> DEFINE all == [r \in Taken(p) \cup DOMAIN listed[p] |->
                        IF r \in Taken(p) THEN data[r] ELSE listed[p][r]]
  <2>1. listed' = [listed EXCEPT ![p] = all] /\ copy' = copy /\ place[p] = "list"
    BY <1>9, ScanIs
  <2>2. Taken(p) \in SUBSET Entry /\ \A r \in Taken(p) : Exists(r)
    BY <2>1, PageRoom DEF ListingShape
  <2>3. \A r \in Taken(p) : data[r] \in Column
    BY <2>2 DEF RunShape, TableShape, Exists
  <2>4. DOMAIN listed' = Run /\ listed'[p] = all
    BY <1>1, <2>1
  <2>5. /\ DOMAIN all = Taken(p) \cup DOMAIN listed[p]
        /\ \A r \in DOMAIN all : IF r \in Taken(p) THEN all[r] = data[r] ELSE all[r] = listed[p][r]
    OBVIOUS
  <2> HIDE DEF all
  <2> QED
    BY <1>1, <1>4, <2>1, <2>2, <2>3, <2>4, <2>5
<1>10. CASE ResolveTenant(p)
  BY <1>1, <1>5, <1>10 DEF ResolveTenant
<1>11. CASE EnrichRecord(p)
  <2>1. copy' = copy /\ place[p] = "record" /\ (Advance(p) \/ listed' = listed)
    BY <1>11 DEF EnrichRecord, PassOver, batch
  <2> QED
    BY <1>1, <1>5, <1>6, <2>1 DEF AtHand
<1>12. CASE GetByID(p)
  <2>1. /\ place[p] = "fetch"
        /\ \/ copy' = [copy EXCEPT ![p] = data[InHand(p)]] /\ listed' = listed
           \/ copy' = copy /\ Advance(p)
    BY <1>12 DEF GetByID, PassOver, batch
  <2>2. data[InHand(p)] \in Column
    BY <2>1, InHandIs DEF AtHand
  <2>3. copy' \in [Run -> Column \cup {Absent}]
    BY <1>1, <2>1, <2>2
  <2> QED
    BY <1>5, <1>6, <2>1, <2>3 DEF AtHand
<1>13. CASE UpdateActivityData(p)
  <2>1. place[p] = "write" /\ copy' = [copy EXCEPT ![p] = Absent] /\ Advance(p)
    BY <1>13 DEF UpdateActivityData, PassOver
  <2>2. copy' \in [Run -> Column \cup {Absent}]
    BY <1>1, <2>1
  <2> QED
    BY <1>6, <2>1, <2>2 DEF AtHand
<1>14. CASE End(p)
  <2>1. listed' = [listed EXCEPT ![p] = <<>>] /\ copy' = [copy EXCEPT ![p] = Absent]
    BY <1>14 DEF End
  <2>2. DOMAIN listed' = Run /\ DOMAIN listed'[p] = {}
    BY <1>1, <2>1
  <2>3. copy' \in [Run -> Column \cup {Absent}]
    BY <1>1, <2>1
  <2> QED
    BY <1>4, <2>2, <2>3
<1> QED
  BY <1>7, <1>8, <1>9, <1>10, <1>11, <1>12, <1>13, <1>14, ActIs

LEMMA HandStep ==
    ASSUME RunShape, NEW p \in Run, Act(p)
    PROVE  HandShape'
<1>1. /\ DOMAIN place = Run /\ DOMAIN answers = Run /\ DOMAIN copy = Run
  BY DEF RunShape, LocalShape, PageShape
<1>2. \A q \in Run \ {p} : /\ place'[q] = place[q] /\ listed'[q] = listed[q]
                           /\ answers'[q] = answers[q] /\ copy'[q] = copy[q]
  BY ActWrites
<1>3. ASSUME place'[p] \in AtHand =>
                /\ \E r \in DOMAIN listed'[p] : TenantOf(r) = answers'[p].tenant
                /\ place'[p] = "write" => copy'[p] \in Column
      PROVE  HandShape'
  <2> SUFFICES ASSUME NEW q \in Run, place'[q] \in AtHand
               PROVE  /\ \E r \in DOMAIN listed'[q] : TenantOf(r) = answers'[q].tenant
                      /\ place'[q] = "write" => copy'[q] \in Column
    BY DEF HandShape
  <2> QED
    BY <1>2, <1>3 DEF RunShape, HandShape
<1>4. ASSUME place'[p] \notin AtHand PROVE HandShape'
  BY <1>3, <1>4
<1>5. ASSUME place[p] \in AtHand, Advance(p) PROVE HandShape'
  <2>1. \/ place'[p] = "record" /\ \E r \in DOMAIN listed'[p] : TenantOf(r) = answers'[p].tenant
        \/ place'[p] \in {"tenant", "list", "summary"}
    BY <1>5, AdvanceIs
  <2> QED
    BY <1>3, <2>1 DEF AtHand
<1>6. CASE StartRun(p)
  BY <1>1, <1>4, <1>6 DEF StartRun, MoveTo, AtHand
<1>7. CASE ListByQuery(p)
  <2>1. place'[p] \in {"summary", "tenant"}
    BY <1>1, <1>7 DEF ListByQuery, TakePage, MoveTo
  <2> QED
    BY <1>4, <2>1 DEF AtHand
<1>8. CASE ListByScan(p)
  <2>1. place'[p] \in {"summary", "tenant", "list"}
    BY <1>1, <1>8, ScanIs
  <2> QED
    BY <1>4, <2>1 DEF AtHand
<1>9. CASE ResolveTenant(p)
  <2>1. PICK t \in Tenants(p), told \in SUBSET Display :
            answers' = [answers EXCEPT ![p] = [tenant |-> t, told |-> told]]
    BY <1>9 DEF ResolveTenant
  <2>2. answers'[p].tenant = t /\ listed' = listed /\ place'[p] = "record"
    BY <1>1, <1>9, <2>1 DEF ResolveTenant, MoveTo
  <2>3. \E r \in DOMAIN listed'[p] : TenantOf(r) = answers'[p].tenant
    BY <2>2 DEF Tenants
  <2> QED
    BY <1>3, <2>2, <2>3
<1>10. CASE EnrichRecord(p)
  <2>1. /\ place[p] = "record"
        /\ \/ Advance(p)
           \/ place'[p] = "fetch" /\ listed' = listed /\ answers' = answers
    BY <1>1, <1>10 DEF EnrichRecord, PassOver, MoveTo, batch
  <2>2. CASE place'[p] = "fetch" /\ listed' = listed /\ answers' = answers
    BY <1>3, <2>1, <2>2 DEF RunShape, HandShape, AtHand
  <2> QED
    BY <1>5, <2>1, <2>2 DEF AtHand
<1>11. CASE GetByID(p)
  <2>1. /\ place[p] = "fetch"
        /\ \/ Advance(p)
           \/ /\ place'[p] = "write" /\ listed' = listed /\ answers' = answers
              /\ copy'[p] = data[InHand(p)]
    BY <1>1, <1>11 DEF GetByID, PassOver, MoveTo, batch
  <2>2. CASE /\ place'[p] = "write" /\ listed' = listed /\ answers' = answers
             /\ copy'[p] = data[InHand(p)]
    <3>1. data[InHand(p)] \in Column
      BY <2>1, InHandIs DEF AtHand
    <3> QED
      BY <1>3, <2>1, <2>2, <3>1 DEF RunShape, HandShape, AtHand
  <2> QED
    BY <1>5, <2>1, <2>2 DEF AtHand
<1>12. CASE UpdateActivityData(p)
  BY <1>5, <1>12 DEF UpdateActivityData, PassOver, AtHand
<1>13. CASE End(p)
  BY <1>1, <1>4, <1>13 DEF End, MoveTo, AtHand
<1> QED
  BY <1>6, <1>7, <1>8, <1>9, <1>10, <1>11, <1>12, <1>13, ActIs

\* A scan lists no more than there is room for.
LEMMA ScanSize ==
    ASSUME RunShape, NEW p \in Run, Cardinality(DOMAIN listed[p]) < BatchSize
    PROVE  /\ Cardinality(Taken(p)) <= Room(p)
           /\ Cardinality(Taken(p)) \in Nat /\ Room(p) \in Nat
           /\ Cardinality(Taken(p) \cup DOMAIN listed[p]) <=
                  Cardinality(Taken(p)) + Cardinality(DOMAIN listed[p])
           /\ Room(p) + Cardinality(DOMAIN listed[p]) = BatchSize
           /\ Cardinality(DOMAIN listed[p]) \in Nat
           /\ Cardinality(Taken(p) \cup DOMAIN listed[p]) \in Nat
<1>1. Taken(p) \in SUBSET Entry /\ DOMAIN listed[p] \in SUBSET Entry
  BY PageRoom DEF RunShape, PageShape
<1>2. /\ Cardinality(Taken(p)) \in Nat /\ Cardinality(DOMAIN listed[p]) \in Nat
      /\ IsFiniteSet(Taken(p)) /\ IsFiniteSet(DOMAIN listed[p])
  BY <1>1, EntrySets
<1>3. Cardinality(Taken(p)) <= Room(p) /\ Room(p) \in Nat
  <2>1. Room(p) \in Nat /\ Rows(p) \in SUBSET Entry
    BY PageRoom
  <2>2. {r \in Rows(p) : MatchesFilter(data[r], before[p])} \in SUBSET Entry
    BY <2>1
  <2> QED
    BY <2>1, <2>2, NewestFew DEF Taken
<1>4. Taken(p) \cup DOMAIN listed[p] \in SUBSET Entry
  BY <1>1
<1>5. Taken(p) \cap DOMAIN listed[p] \in SUBSET Entry
  BY <1>1
<1>6. Cardinality(Taken(p) \cup DOMAIN listed[p]) =
          Cardinality(Taken(p)) + Cardinality(DOMAIN listed[p])
            - Cardinality(Taken(p) \cap DOMAIN listed[p])
  BY <1>2, FS_Union
<1>7. /\ Cardinality(Taken(p) \cup DOMAIN listed[p]) \in Nat
      /\ Cardinality(Taken(p) \cap DOMAIN listed[p]) \in Nat
  BY <1>4, <1>5, EntrySets
<1>8. Cardinality(Taken(p) \cup DOMAIN listed[p]) <=
          Cardinality(Taken(p)) + Cardinality(DOMAIN listed[p])
  BY <1>2, <1>6, <1>7
<1>9. Room(p) + Cardinality(DOMAIN listed[p]) = BatchSize
  BY <1>2, EnrichmentAssumption DEF Room
<1> QED
  BY <1>2, <1>3, <1>7, <1>8, <1>9

LEMMA ListingStep ==
    ASSUME RunShape, ListingShape, NEW p \in Run, Act(p)
    PROVE  ListingShape'
<1>1. /\ DOMAIN place = Run /\ DOMAIN cursor = Run /\ DOMAIN short = Run
      /\ DOMAIN owed = Run /\ DOMAIN listed = Run /\ BatchSize \in Nat \ {0}
      /\ Cardinality({}) = 0
  BY EnrichmentAssumption, FS_EmptySet DEF RunShape, LocalShape, PageShape
<1>2. /\ database' = database
      /\ \A q \in Run \ {p} : /\ place'[q] = place[q] /\ listed'[q] = listed[q]
                              /\ short'[q] = short[q] /\ cursor'[q] = cursor[q]
                              /\ owed'[q] = owed[q]
  BY ActWrites
<1> DEFINE Goal == /\ place'[p] \in {"idle", "over", "summary"} => DOMAIN listed'[p] = {}
                   /\ place'[p] \in {"idle", "over"} =>
                         ~short'[p] /\ cursor'[p] = NRecord + 1 /\ owed'[p] = {}
                   /\ place'[p] = "summary" => short'[p]
                   /\ place'[p] = "list" => /\ Cardinality(DOMAIN listed'[p]) < BatchSize
                                            /\ database = "pg" => DOMAIN listed'[p] = {}
<1>3. ASSUME Goal PROVE ListingShape'
  <2> SUFFICES ASSUME NEW q \in Run
               PROVE  /\ place'[q] \in {"idle", "over", "summary"} => DOMAIN listed'[q] = {}
                      /\ place'[q] \in {"idle", "over"} =>
                            ~short'[q] /\ cursor'[q] = NRecord + 1 /\ owed'[q] = {}
                      /\ place'[q] = "summary" => short'[q]
                      /\ place'[q] = "list" => /\ Cardinality(DOMAIN listed'[q]) < BatchSize
                                               /\ database' = "pg" => DOMAIN listed'[q] = {}
    BY DEF ListingShape
  <2>1. CASE q = p
    BY <1>2, <1>3, <2>1
  <2>2. CASE q # p
    BY <1>2, <2>2 DEF ListingShape
  <2> QED
    BY <2>1, <2>2
<1>4. ASSUME place'[p] \in {"tenant", "record", "fetch", "write"} PROVE ListingShape'
  BY <1>3, <1>4
<1>5. ASSUME place[p] \in AtHand, Advance(p) PROVE ListingShape'
  <2>1. /\ short' = short
        /\ \/ place'[p] \in {"record", "tenant"}
           \/ place'[p] = "list" /\ DOMAIN listed'[p] = {}
           \/ place'[p] = "summary" /\ DOMAIN listed'[p] = {} /\ short[p]
    BY <1>5, AdvanceIs
  <2> QED
    BY <1>1, <1>3, <2>1
<1>6. CASE StartRun(p)
  <2>1. place[p] = "idle" /\ place'[p] = "list" /\ listed' = listed
    BY <1>1, <1>6 DEF StartRun, MoveTo, batch
  <2>2. DOMAIN listed'[p] = {}
    BY <2>1 DEF ListingShape
  <2> QED
    BY <1>1, <1>3, <2>1, <2>2
<1>7. CASE ListByQuery(p)
  <2> DEFINE chosen == Newest(Candidates(p), BatchSize)
  <2>1. /\ listed' = [listed EXCEPT ![p] = [r \in chosen |-> data[r]]]
        /\ short' = [short EXCEPT ![p] = ~(Cardinality(chosen) = BatchSize)]
        /\ place' = [place EXCEPT ![p] = IF chosen = {} THEN "summary" ELSE "tenant"]
    BY <1>7, QueryIs
  <2> HIDE DEF chosen
  <2>2. CASE chosen = {}
    <3>1. DOMAIN listed'[p] = {} /\ place'[p] = "summary"
      BY <1>1, <2>1, <2>2
    <3>2. short'[p]
      BY <1>1, <2>1, <2>2
    <3> QED
      BY <1>3, <3>1, <3>2
  <2>3. CASE chosen # {}
    BY <1>1, <1>4, <2>1, <2>3
  <2> QED
    BY <2>2, <2>3
<1>8. CASE ListByScan(p)
  <2> DEFINE full == Cardinality(Taken(p)) = Room(p)
             all == [r \in Taken(p) \cup DOMAIN listed[p] |->
                        IF r \in Taken(p) THEN data[r] ELSE listed[p][r]]
  <2>1. /\ place[p] = "list" /\ database = "other"
        /\ listed' = [listed EXCEPT ![p] = all]
        /\ short' = [short EXCEPT ![p] = ~full]
        /\ place' = [place EXCEPT ![p] =
                       IF full THEN "tenant"
                       ELSE IF Cardinality(Rows(p)) = BatchSize THEN "list"
                       ELSE IF DOMAIN all = {} THEN "summary" ELSE "tenant"]
    BY <1>8, ScanIs
  <2>2. DOMAIN all = Taken(p) \cup DOMAIN listed[p]
    OBVIOUS
  <2>3. /\ place'[p] = IF full THEN "tenant"
                       ELSE IF Cardinality(Rows(p)) = BatchSize THEN "list"
                       ELSE IF DOMAIN all = {} THEN "summary" ELSE "tenant"
        /\ short'[p] = ~full /\ listed'[p] = all
    <3> HIDE DEF full, all
    <3> QED
      BY <1>1, <2>1
  <2> HIDE DEF all
  <2>4. CASE full
    BY <1>4, <2>3, <2>4
  <2>5. CASE ~full /\ Cardinality(Rows(p)) = BatchSize
    <3>1. place'[p] = "list"
      BY <2>3, <2>5
    <3>2. /\ Cardinality(Taken(p)) <= Room(p) /\ Cardinality(Taken(p)) # Room(p)
          /\ Cardinality(Taken(p)) \in Nat /\ Room(p) \in Nat
          /\ Cardinality(Taken(p) \cup DOMAIN listed[p]) <=
                 Cardinality(Taken(p)) + Cardinality(DOMAIN listed[p])
          /\ Room(p) + Cardinality(DOMAIN listed[p]) = BatchSize
          /\ Cardinality(DOMAIN listed[p]) \in Nat
          /\ Cardinality(Taken(p) \cup DOMAIN listed[p]) \in Nat
      BY <2>1, <2>5, ScanSize DEF ListingShape
    <3>3. DOMAIN listed'[p] = Taken(p) \cup DOMAIN listed[p]
      BY <2>2, <2>3
    <3>4. Cardinality(Taken(p) \cup DOMAIN listed[p]) < BatchSize
      BY <1>1, <3>2
    <3>5. Cardinality(DOMAIN listed'[p]) < BatchSize
      BY <3>3, <3>4
    <3> QED
      BY <1>3, <2>1, <3>1, <3>5
  <2>6. CASE ~full /\ Cardinality(Rows(p)) # BatchSize
    <3>1. short'[p] /\ place'[p] = IF DOMAIN listed'[p] = {} THEN "summary" ELSE "tenant"
      BY <2>3, <2>6
    <3> QED
      BY <1>3, <3>1
  <2> QED
    BY <2>4, <2>5, <2>6
<1> HIDE DEF Goal
<1>9. CASE ResolveTenant(p)
  BY <1>1, <1>4, <1>9 DEF ResolveTenant, MoveTo
<1>10. CASE EnrichRecord(p)
  <2>1. place[p] = "record" /\ (Advance(p) \/ place'[p] = "fetch")
    BY <1>1, <1>10 DEF EnrichRecord, PassOver, MoveTo
  <2> QED
    BY <1>4, <1>5, <2>1 DEF AtHand
<1>11. CASE GetByID(p)
  <2>1. place[p] = "fetch" /\ (Advance(p) \/ place'[p] = "write")
    BY <1>1, <1>11 DEF GetByID, PassOver, MoveTo
  <2> QED
    BY <1>4, <1>5, <2>1 DEF AtHand
<1>12. CASE UpdateActivityData(p)
  BY <1>5, <1>12 DEF UpdateActivityData, PassOver, AtHand
<1>13. CASE End(p)
  <2>1. /\ place'[p] = "over" /\ DOMAIN listed'[p] = {} /\ short'[p] = FALSE
        /\ cursor'[p] = NRecord + 1 /\ owed'[p] = {}
    BY <1>1, <1>13 DEF End, MoveTo
  <2> QED
    BY <1>3, <2>1 DEF Goal
<1> QED
  BY <1>6, <1>7, <1>8, <1>9, <1>10, <1>11, <1>12, <1>13, ActIs

LEMMA IdleStep ==
    ASSUME RunShape, ListingShape,
           UNCHANGED <<place, before, cursor, batch, stamp, copy, overlapped, owed, database>>,
           TableShape', clock <= clock', \A r \in Entry : Exists(r) => Exists(r)'
    PROVE  RunShape' /\ ListingShape'
<1>1. UNCHANGED <<place, before, cursor, listed, short, answers, stamp, copy, owed, database>>
  BY DEF batch
<1>2. clock \in Nat /\ clock' \in Nat /\ MaxClock \in Nat
  BY EnrichmentAssumption DEF RunShape, TableShape
<1>3. LocalShape'
  <2>1. \A p \in Run : /\ before[p] \in Nat /\ before[p] <= clock
                       /\ stamp[p] \in Nat /\ stamp[p] <= clock
    BY <1>2 DEF RunShape, LocalShape
  <2>2. \A p \in Run : before[p] <= clock' /\ stamp[p] <= clock'
    BY <1>2, <2>1
  <2> QED
    BY <1>1, <2>2 DEF RunShape, LocalShape
<1>4. PageShape'
  BY <1>1 DEF RunShape, PageShape
<1>5. HandShape'
  BY <1>1 DEF RunShape, HandShape
<1>6. ListingShape'
  BY <1>1 DEF ListingShape
<1> QED
  BY <1>3, <1>4, <1>5, <1>6 DEF RunShape

LEMMA ShapeStep ==
    ASSUME RunShape, ListingShape, EnrichmentNext
    PROVE  RunShape' /\ ListingShape'
<1>1. TableShape' /\ \A r \in Entry : Exists(r) => Exists(r)'
  BY TableStep
<1>2. ASSUME NEW p \in Run, Act(p) PROVE RunShape' /\ ListingShape'
  BY <1>1, <1>2, LocalStep, PageShapeStep, HandStep, ListingStep DEF RunShape
<1>3. clock \in Nat
  BY EnrichmentAssumption DEF RunShape, TableShape
<1>4. CASE PassTime
  <2>1. UNCHANGED <<place, before, cursor, batch, stamp, copy, overlapped, owed, database>>
    BY <1>4 DEF PassTime
  <2>2. clock <= clock'
    BY <1>3, <1>4 DEF PassTime
  <2> QED
    BY <1>1, <2>1, <2>2, IdleStep
<1>5. ASSUME NEW r \in Entry, Log(r) PROVE RunShape' /\ ListingShape'
  <2>1. UNCHANGED <<place, before, cursor, batch, stamp, copy, overlapped, owed, database>>
    BY <1>5 DEF Log
  <2>2. clock <= clock'
    BY <1>3, <1>5 DEF Log
  <2> QED
    BY <1>1, <2>1, <2>2, IdleStep
<1> QED
  BY <1>2, <1>4, <1>5, EnrichmentStepIs

LEMMA ShapeStays ==
    ASSUME RunShape, ListingShape, UNCHANGED enrichmentVars
    PROVE  RunShape' /\ ListingShape'
<1>1. UNCHANGED <<data, clock, place, before, cursor, batch, stamp, copy, overlapped,
                  owed, database>>
  BY DEF enrichmentVars
<1>2. TableShape' /\ \A r \in Entry : Exists(r) => Exists(r)'
  BY <1>1 DEF RunShape, TableShape, Exists
<1>3. clock <= clock'
  BY <1>1, EnrichmentAssumption DEF RunShape, TableShape
<1> QED
  BY <1>1, <1>2, <1>3, IdleStep

LEMMA ShapeInit == EnrichmentInit => RunShape /\ ListingShape
<1> SUFFICES ASSUME EnrichmentInit PROVE RunShape /\ ListingShape
  OBVIOUS
<1>1. /\ MaxClock \in Nat \ {0} /\ NRecord \in Nat /\ BatchSize \in Nat \ {0}
      /\ 0 \in 0..MaxClock /\ NRecord + 1 \in 1..(NRecord + 1) /\ 1 \in 1..MaxClock
  BY EnrichmentAssumption
<1>2. TableShape
  <2>1. Logged \cup {Absent} \subseteq Column \cup {Absent}
    BY LoggedIs
  <2>2. /\ data \in [Entry -> Logged \cup {Absent}] /\ database \in Dialects
        /\ clock = 1 /\ overlapped = {}
    BY DEF EnrichmentInit
  <2>3. data \in [Entry -> Column \cup {Absent}]
    BY <2>1, <2>2
  <2> QED
    BY <1>1, <2>2, <2>3 DEF TableShape
<1>3. LocalShape
  <2>1. /\ place = [p \in Run |-> "idle"] /\ before = [p \in Run |-> 0]
        /\ cursor = [p \in Run |-> NRecord + 1] /\ short = [p \in Run |-> FALSE]
        /\ answers = [p \in Run |-> Nobody] /\ stamp = [p \in Run |-> 0]
        /\ owed = [p \in Run |-> {}] /\ clock = 1
    BY DEF EnrichmentInit
  <2>2. place \in [Run -> Stages] /\ short \in [Run -> BOOLEAN]
    BY <2>1 DEF Stages
  <2>3. /\ before \in [Run -> 0..MaxClock] /\ cursor \in [Run -> 1..(NRecord + 1)]
        /\ stamp \in [Run -> 0..MaxClock] /\ \A p \in Run : before[p] <= clock /\ stamp[p] <= clock
    BY <1>1, <2>1
  <2>4. answers \in [Run -> [tenant : 0..(NTenant - 1), told : SUBSET Display]]
    BY <2>1, NobodyIs
  <2>5. owed \in [Run -> SUBSET (Entry \X (Display \cup {"fresh"}))]
    BY <2>1
  <2> QED
    BY <2>2, <2>3, <2>4, <2>5 DEF LocalShape
<1>4. PageShape
  <2>1. listed = [p \in Run |-> <<>>] /\ copy = [p \in Run |-> Absent]
    BY DEF EnrichmentInit
  <2>2. DOMAIN listed = Run /\ \A p \in Run : DOMAIN listed[p] = {}
    BY <2>1
  <2>3. copy \in [Run -> Column \cup {Absent}]
    BY <2>1
  <2> QED
    BY <2>2, <2>3 DEF PageShape
<1>5. HandShape /\ ListingShape
  <2>1. /\ \A p \in Run : place[p] = "idle" /\ short[p] = FALSE /\ owed[p] = {}
        /\ \A p \in Run : cursor[p] = NRecord + 1 /\ DOMAIN listed[p] = {}
    BY DEF EnrichmentInit
  <2> QED
    BY <1>1, <2>1 DEF HandShape, ListingShape, AtHand
<1> QED
  BY <1>2, <1>3, <1>4, <1>5 DEF RunShape

-----------------------------------------------------------------------------
(* ActivityEnrichment: records only gain *)

Writing == {"fetch", "write"}

\* No page outgrows the batch size.
PagesFit == \A p \in Run : Cardinality(DOMAIN listed[p]) <= BatchSize

LEMMA PagesFitStep ==
    ASSUME RunShape, ListingShape, PagesFit, EnrichmentNext
    PROVE  PagesFit'
<1>1. DOMAIN listed = Run /\ \A q \in Run : DOMAIN listed[q] \in SUBSET Entry
  BY DEF RunShape, PageShape
<1>2. BatchSize \in Nat /\ Cardinality({}) = 0
  BY EnrichmentAssumption, FS_EmptySet
<1> SUFFICES ASSUME NEW q \in Run PROVE Cardinality(DOMAIN listed'[q]) <= BatchSize
  BY DEF PagesFit
<1>3. ASSUME DOMAIN listed'[q] \in SUBSET DOMAIN listed[q]
      PROVE  Cardinality(DOMAIN listed'[q]) <= BatchSize
  <2>1. Cardinality(DOMAIN listed'[q]) <= Cardinality(DOMAIN listed[q])
    BY <1>1, <1>3, EntrySubset
  <2>2. /\ Cardinality(DOMAIN listed[q]) <= BatchSize /\ Cardinality(DOMAIN listed[q]) \in Nat
        /\ Cardinality(DOMAIN listed'[q]) \in Nat
    <3>1. DOMAIN listed'[q] \in SUBSET Entry
      BY <1>1, <1>3
    <3> QED
      BY <1>1, <3>1, EntrySets DEF PagesFit
  <2> QED
    BY <1>2, <2>1, <2>2
<1>4. ASSUME PassTime \/ \E s \in Entry : Log(s) PROVE listed'[q] = listed[q]
  BY <1>4 DEF PassTime, Log, batch
<1>5. ASSUME NEW p \in Run \ {q}, Act(p) PROVE listed'[q] = listed[q]
  BY <1>5, ActWrites
<1>6. CASE listed'[q] = listed[q]
  BY <1>3, <1>6
<1>7. CASE Act(q)
  <2>1. ASSUME place[q] \in AtHand, Advance(q) PROVE DOMAIN listed'[q] \in SUBSET DOMAIN listed[q]
    BY <2>1, AdvanceIs
  <2>2. CASE StartRun(q) \/ ResolveTenant(q)
    BY <1>6, <2>2 DEF StartRun, ResolveTenant, batch
  <2>3. CASE ListByQuery(q)
    <3> DEFINE chosen == Newest(Candidates(q), BatchSize)
    <3>1. Candidates(q) \in SUBSET Entry
      BY DEF Candidates
    <3>2. Cardinality(chosen) <= BatchSize
      BY <1>2, <3>1, NewestFew
    <3>3. listed' = [listed EXCEPT ![q] = [s \in chosen |-> data[s]]]
      BY <2>3, QueryIs
    <3> HIDE DEF chosen
    <3>4. DOMAIN listed'[q] = chosen
      BY <1>1, <3>3
    <3> QED
      BY <3>2, <3>4
  <2>4. CASE ListByScan(q)
    <3> DEFINE all == [s \in Taken(q) \cup DOMAIN listed[q] |->
                          IF s \in Taken(q) THEN data[s] ELSE listed[q][s]]
    <3>1. listed' = [listed EXCEPT ![q] = all] /\ place[q] = "list"
      BY <2>4, ScanIs
    <3>2. DOMAIN all = Taken(q) \cup DOMAIN listed[q]
      OBVIOUS
    <3>3. listed'[q] = all
      BY <1>1, <3>1
    <3> HIDE DEF all
    <3>4. /\ Cardinality(Taken(q)) <= Room(q)
          /\ Cardinality(Taken(q)) \in Nat /\ Room(q) \in Nat
          /\ Cardinality(Taken(q) \cup DOMAIN listed[q]) <=
                 Cardinality(Taken(q)) + Cardinality(DOMAIN listed[q])
          /\ Room(q) + Cardinality(DOMAIN listed[q]) = BatchSize
          /\ Cardinality(DOMAIN listed[q]) \in Nat
          /\ Cardinality(Taken(q) \cup DOMAIN listed[q]) \in Nat
      BY <3>1, ScanSize DEF ListingShape
    <3>5. Cardinality(Taken(q) \cup DOMAIN listed[q]) <= BatchSize
      BY <1>2, <3>4
    <3> QED
      BY <3>2, <3>3, <3>5
  <2>5. CASE EnrichRecord(q)
    <3>1. place[q] = "record" /\ (Advance(q) \/ listed' = listed)
      BY <2>5 DEF EnrichRecord, PassOver, batch
    <3> QED
      BY <1>3, <1>6, <2>1, <3>1 DEF AtHand
  <2>6. CASE GetByID(q)
    <3>1. place[q] = "fetch" /\ (Advance(q) \/ listed' = listed)
      BY <2>6 DEF GetByID, PassOver, batch
    <3> QED
      BY <1>3, <1>6, <2>1, <3>1 DEF AtHand
  <2>7. CASE UpdateActivityData(q)
    <3>1. place[q] = "write" /\ Advance(q)
      BY <2>7 DEF UpdateActivityData, PassOver
    <3> QED
      BY <1>3, <2>1, <3>1 DEF AtHand
  <2>8. CASE End(q)
    <3>1. DOMAIN listed'[q] = {}
      BY <1>1, <2>8 DEF End
    <3> QED
      BY <1>2, <3>1
  <2> QED
    BY <1>7, <2>2, <2>3, <2>4, <2>5, <2>6, <2>7, <2>8, ActIs
<1> QED
  BY <1>4, <1>5, <1>6, <1>7, EnrichmentStepIs

\* A page marks no more as logged than the table does, and the row a run is about
\* to merge into marks as logged exactly what the table does.
LoggedInv ==
    \A p \in Run :
        /\ \A r \in DOMAIN listed[p], k \in Display :
              listed[p][r].keys[k] = "log" => data[r].keys[k] = "log"
        /\ place[p] = "write" => \A k \in Display :
              copy[p].keys[k] = "log" <=> data[InHand(p)].keys[k] = "log"

\* Two runs with one record in hand overlap; a run alone with a record holds the
\* row as it is, and the row is no younger than its stamp or the threshold.
HolderInv ==
    /\ \A p, q \in Run : place[p] \in Writing /\ place[q] \in Writing /\ InHand(p) = InHand(q) =>
          p = q \/ InHand(p) \in overlapped
    /\ \A p \in Run : place[p] \in Writing =>
          /\ before[p] <= stamp[p]
          /\ InHand(p) \notin overlapped => data[InHand(p)].at <= stamp[p]
          /\ place[p] = "write" /\ InHand(p) \notin overlapped => copy[p] = data[InHand(p)]
    /\ \A r \in Entry : Exists(r) => data[r].at <= clock

RecordInv == RunShape /\ ListingShape /\ PagesFit /\ LoggedInv /\ HolderInv

\* What a step may do to a record: RecordsOnlyGain, and it logs no more of it.
Gains(r) ==
    /\ \A k \in Keys :
          \/ data'[r].keys[k] = data[r].keys[k]
          \/ data[r].keys[k] = "none"
          \/ /\ data[r].keys[k] # "log" /\ r \in overlapped
             /\ database = "pg" => data'[r].keys[k] # "none"
    /\ data'[r].at >= data[r].at \/ r \in overlapped
    /\ \A k \in Display : data'[r].keys[k] = "log" => data[r].keys[k] = "log"

LEMMA StayGains ==
    ASSUME NEW r \in Entry, data[r] \in Column, data'[r] = data[r]
    PROVE  Gains(r)
<1>1. data[r].at \in Nat
  BY ColumnIs
<1> QED
  BY <1>1 DEF Gains

LEMMA WriteGains ==
    ASSUME RecordInv, NEW p \in Run, place[p] = "write", data'[InHand(p)] = Merged(p)
    PROVE  Gains(InHand(p))
<1> DEFINE r == InHand(p)
           mine == Enriched(p, listed[p][r])
<1>1. /\ r \in Entry /\ r \in DOMAIN listed[p] /\ data[r] \in Column
      /\ listed[p][r] \in Column /\ copy[p] \in Column
  BY InHandIs DEF AtHand, RecordInv, RunShape, HandShape
<1>2. /\ mine["ids"] = "log"
      /\ \A k \in Display : mine[k] = "log" => listed[p][r].keys[k] = "log"
  <2> HIDE DEF r
  <2> QED
    BY <1>1, EnrichedIs DEF RecordInv
<1>3. /\ Merged(p).at = stamp[p]
      /\ \A k \in Keys :
            IF copy[p].keys[k] = "none" /\ mine[k] # "none" THEN Merged(p).keys[k] = mine[k]
            ELSE IF database = "pg" THEN Merged(p).keys[k] = data[r].keys[k]
            ELSE Merged(p).keys[k] = copy[p].keys[k]
  BY MergedIs DEF RecordInv
<1>4. /\ r \notin overlapped => copy[p] = data[r] /\ data[r].at <= stamp[p]
      /\ \A k \in Display : listed[p][r].keys[k] = "log" => data[r].keys[k] = "log"
      /\ \A k \in Display : copy[p].keys[k] = "log" <=> data[r].keys[k] = "log"
  BY <1>1 DEF RecordInv, HolderInv, LoggedInv, Writing
<1>5. /\ data[r].keys["ids"] \in {"log", "none"} /\ copy[p].keys["ids"] \in {"log", "none"}
      /\ data[r].at \in Nat /\ stamp[p] \in Nat
  BY <1>1, ColumnIs, EnrichmentAssumption DEF RecordInv, RunShape, LocalShape
<1> HIDE DEF mine, r
<1>6. data'[r] = Merged(p)
  BY DEF r
<1>7. ASSUME NEW k \in Display PROVE Merged(p).keys[k] = "log" => data[r].keys[k] = "log"
  BY <1>2, <1>3, <1>4, <1>7 DEF Keys
<1>8. ASSUME NEW k \in Keys
      PROVE  \/ Merged(p).keys[k] = data[r].keys[k]
             \/ data[r].keys[k] = "none"
             \/ /\ data[r].keys[k] # "log" /\ r \in overlapped
                /\ database = "pg" => Merged(p).keys[k] # "none"
  <2>1. CASE k = "ids"
    BY <1>2, <1>3, <1>5, <2>1
  <2>2. CASE k \in Display
    <3>1. IF copy[p].keys[k] = "none" /\ mine[k] # "none" THEN Merged(p).keys[k] = mine[k]
          ELSE IF database = "pg" THEN Merged(p).keys[k] = data[r].keys[k]
          ELSE Merged(p).keys[k] = copy[p].keys[k]
      BY <1>3
    <3>2. copy[p].keys[k] = "log" <=> data[r].keys[k] = "log"
      BY <1>4, <2>2
    <3>3. CASE r \notin overlapped
      BY <1>4, <3>1, <3>3
    <3>4. CASE r \in overlapped
      BY <3>1, <3>2, <3>4
    <3> QED
      BY <3>3, <3>4
  <2> QED
    BY <2>1, <2>2 DEF Keys
<1>9. Merged(p).at >= data[r].at \/ r \in overlapped
  BY <1>3, <1>4, <1>5
<1> QED
  BY <1>6, <1>7, <1>8, <1>9 DEF Gains, r

\* A step leaves a record as it is, gives it more, or logs it.
LEMMA StepGains ==
    ASSUME RecordInv, EnrichmentNext, NEW r \in Entry, Exists(r)
    PROVE  /\ Gains(r) /\ Exists(r)'
           /\ data'[r] = data[r] \/ \E p \in Run : place[p] = "write" /\ InHand(p) = r /\ Act(p)
           /\ r \in overlapped => r \in overlapped'
<1>1. data[r] \in Column /\ DOMAIN data = Entry
  BY DEF RecordInv, RunShape, TableShape, Exists
<1>2. Exists(r)'
  BY TableStep DEF RecordInv
<1>3. CASE PassTime
  BY <1>1, <1>2, <1>3, StayGains DEF PassTime
<1>4. ASSUME NEW s \in Entry, Log(s)
      PROVE  Gains(r) /\ data'[r] = data[r] /\ overlapped' = overlapped
  <2>1. data'[r] = data[r] /\ overlapped' = overlapped
    BY <1>1, <1>4 DEF Log
  <2> QED
    BY <1>1, <2>1, StayGains
<1>5. ASSUME NEW p \in Run, Act(p)
      PROVE  /\ Gains(r) /\ overlapped \subseteq overlapped'
             /\ data'[r] = data[r] \/ (place[p] = "write" /\ InHand(p) = r)
  <2>1. overlapped \subseteq overlapped' /\ (data' = data \/ (place[p] = "write" /\ PutBack(p)))
    BY <1>5, ActWrites DEF RecordInv
  <2>2. CASE data'[r] = data[r]
    BY <1>1, <2>1, <2>2, StayGains
  <2>3. CASE /\ place[p] = "write" /\ data' = [data EXCEPT ![InHand(p)] = Merged(p)]
             /\ data'[r] # data[r]
    <3>1. InHand(p) = r /\ data'[InHand(p)] = Merged(p)
      BY <1>1, <2>3
    <3> QED
      BY <2>1, <2>3, <3>1, WriteGains
  <2> QED
    BY <2>1, <2>2, <2>3 DEF PutBack
<1> QED
  BY <1>2, <1>3, <1>4, <1>5, EnrichmentStepIs DEF PassTime

\* A record on a page was there before, as it is, or is read from the table now.
LEMMA PageFrom ==
    ASSUME RunShape, ListingShape, EnrichmentNext, NEW q \in Run, NEW r \in DOMAIN listed'[q]
    PROVE  /\ r \in Entry /\ Exists(r)
           /\ \/ r \in DOMAIN listed[q] /\ listed'[q][r] = listed[q][r]
              \/ data' = data /\ listed'[q][r] = data[r]
<1>1. DOMAIN listed = Run /\ \A s \in DOMAIN listed[q] : s \in Entry /\ Exists(s)
  BY DEF RunShape, PageShape
<1>2. CASE listed'[q] = listed[q]
  BY <1>1, <1>2
<1>3. ASSUME PassTime \/ \E s \in Entry : Log(s) PROVE listed'[q] = listed[q]
  BY <1>3 DEF PassTime, Log, batch
<1>4. ASSUME NEW p \in Run \ {q}, Act(p) PROVE listed'[q] = listed[q]
  BY <1>4, ActWrites
<1>5. CASE Act(q)
  <2>1. ASSUME place[q] \in AtHand, Advance(q)
        PROVE  r \in DOMAIN listed[q] /\ listed'[q][r] = listed[q][r]
    BY <2>1, AdvanceIs
  <2>2. CASE StartRun(q) \/ ResolveTenant(q)
    BY <1>2, <2>2 DEF StartRun, ResolveTenant, batch
  <2>3. CASE ListByQuery(q)
    <3> DEFINE chosen == Newest(Candidates(q), BatchSize)
    <3>1. Candidates(q) \in SUBSET Entry /\ \A s \in Candidates(q) : Exists(s)
      BY DEF Candidates
    <3>2. chosen \in SUBSET Entry /\ \A s \in chosen : Exists(s)
      BY <3>1, NewestFew, EnrichmentAssumption
    <3>3. listed' = [listed EXCEPT ![q] = [s \in chosen |-> data[s]]] /\ data' = data
      BY <2>3, QueryIs
    <3> HIDE DEF chosen
    <3>4. listed'[q] = [s \in chosen |-> data[s]]
      BY <1>1, <3>3
    <3> QED
      BY <3>2, <3>3, <3>4
  <2>4. CASE ListByScan(q)
    <3> DEFINE all == [s \in Taken(q) \cup DOMAIN listed[q] |->
                          IF s \in Taken(q) THEN data[s] ELSE listed[q][s]]
    <3>1. listed' = [listed EXCEPT ![q] = all] /\ data' = data /\ place[q] = "list"
      BY <2>4, ScanIs
    <3>2. \A s \in Taken(q) : s \in Entry /\ Exists(s)
      BY <3>1, PageRoom DEF ListingShape
    <3>3. /\ DOMAIN all = Taken(q) \cup DOMAIN listed[q]
          /\ \A s \in DOMAIN all : IF s \in Taken(q) THEN all[s] = data[s] ELSE all[s] = listed[q][s]
      OBVIOUS
    <3>4. listed'[q] = all
      BY <1>1, <3>1
    <3> HIDE DEF all
    <3> QED
      BY <1>1, <3>1, <3>2, <3>3, <3>4
  <2>5. CASE EnrichRecord(q)
    <3>1. place[q] = "record" /\ (Advance(q) \/ listed' = listed)
      BY <2>5 DEF EnrichRecord, PassOver, batch
    <3> QED
      BY <1>1, <1>2, <2>1, <3>1 DEF AtHand
  <2>6. CASE GetByID(q)
    <3>1. place[q] = "fetch" /\ (Advance(q) \/ listed' = listed)
      BY <2>6 DEF GetByID, PassOver, batch
    <3> QED
      BY <1>1, <1>2, <2>1, <3>1 DEF AtHand
  <2>7. CASE UpdateActivityData(q)
    <3>1. place[q] = "write" /\ Advance(q)
      BY <2>7 DEF UpdateActivityData, PassOver
    <3> QED
      BY <1>1, <2>1, <3>1 DEF AtHand
  <2>8. CASE End(q)
    <3>1. DOMAIN listed'[q] = {}
      BY <1>1, <2>8 DEF End
    <3> QED
      BY <3>1
  <2> QED
    BY <1>5, <2>2, <2>3, <2>4, <2>5, <2>6, <2>7, <2>8, ActIs
<1> QED
  BY <1>2, <1>3, <1>4, <1>5, EnrichmentStepIs

\* How a run comes to write, and to hold a copy.
LEMMA HandMoves ==
    ASSUME RunShape, EnrichmentNext, NEW q \in Run, place'[q] \in Writing
    PROVE  /\ InHand(q)' = InHand(q) /\ InHand(q) \in Entry /\ Exists(InHand(q))
           /\ listed'[q] = listed[q] /\ answers'[q] = answers[q]
           /\ before'[q] = before[q] /\ before[q] <= clock
           /\ \/ place[q] \in Writing /\ stamp'[q] = stamp[q]
              \/ /\ place[q] = "record" /\ place'[q] = "fetch" /\ EnrichRecord(q)
                 /\ stamp'[q] = clock
                 /\ data' = data /\ overlapped' = overlapped \cup {s \in {InHand(q)} : Busy(s) # {}}
           /\ place'[q] = "write" => \/ place[q] = "write" /\ copy'[q] = copy[q]
                                     \/ data' = data /\ copy'[q] = data[InHand(q)]
           /\ Act(q) => data' = data
           /\ ~Act(q) => /\ place'[q] = place[q] /\ stamp'[q] = stamp[q] /\ owed'[q] = owed[q]
                         /\ copy'[q] = copy[q]
<1>1. /\ DOMAIN place = Run /\ DOMAIN stamp = Run /\ DOMAIN copy = Run
      /\ before[q] <= clock
  BY DEF RunShape, LocalShape, PageShape
<1> DEFINE Kept == /\ place'[q] = place[q] /\ listed'[q] = listed[q] /\ answers'[q] = answers[q]
                   /\ before'[q] = before[q] /\ stamp'[q] = stamp[q] /\ copy'[q] = copy[q]
                   /\ owed'[q] = owed[q]
<1>2. ASSUME Kept
      PROVE  /\ InHand(q)' = InHand(q) /\ InHand(q) \in Entry /\ Exists(InHand(q))
             /\ place[q] \in Writing /\ (place'[q] = "write" => place[q] = "write")
    <2>1. place[q] \in AtHand /\ place[q] \in Writing
      BY <1>2 DEF AtHand, Writing
    <2> QED
      BY <1>2, <2>1, InHandIs, SameHand
<1>3. ASSUME PassTime \/ \E s \in Entry : Log(s) PROVE Kept
  BY <1>3 DEF PassTime, Log, batch
<1>4. ASSUME NEW p \in Run \ {q}, Act(p) PROVE Kept
  BY <1>4, ActWrites
<1>5. CASE Act(q)
  <2> HIDE DEF Kept
  <2>1. ASSUME place[q] \in AtHand, Advance(q) PROVE FALSE
    BY <2>1, AdvanceIs DEF Writing
  <2>2. CASE StartRun(q) \/ ResolveTenant(q)
    BY <1>1, <2>2 DEF StartRun, ResolveTenant, MoveTo, Writing
  <2>3. CASE ListByQuery(q)
    <3>1. place'[q] \in {"summary", "tenant"}
      BY <1>1, <2>3 DEF ListByQuery, TakePage, MoveTo
    <3> QED
      BY <3>1 DEF Writing
  <2>4. CASE ListByScan(q)
    <3>1. place'[q] \in {"summary", "tenant", "list"}
      BY <1>1, <2>4, ScanIs
    <3> QED
      BY <3>1 DEF Writing
  <2>5. CASE EnrichRecord(q)
    <3>1. place[q] = "record" /\ data' = data /\ before' = before
      BY <2>5 DEF EnrichRecord
    <3>2. /\ stamp' = [stamp EXCEPT ![q] = clock] /\ MoveTo(q, "fetch") /\ UNCHANGED batch
          /\ overlapped' = overlapped \cup {s \in {InHand(q)} : Busy(s) # {}}
      BY <2>1, <2>5, <3>1 DEF EnrichRecord, PassOver, AtHand
    <3>3. place'[q] = "fetch" /\ stamp'[q] = clock /\ listed' = listed /\ answers' = answers
      BY <1>1, <3>2 DEF MoveTo, batch
    <3> QED
      BY <1>1, <1>5, <2>5, <3>1, <3>2, <3>3, InHandIs, SameHand DEF AtHand
  <2>6. CASE GetByID(q)
    <3>1. place[q] = "fetch" /\ data' = data /\ before' = before
      BY <2>6 DEF GetByID
    <3>2. /\ copy' = [copy EXCEPT ![q] = data[InHand(q)]]
          /\ MoveTo(q, "write") /\ UNCHANGED <<batch, stamp, owed>>
      BY <2>1, <2>6, <3>1 DEF GetByID, PassOver, AtHand
    <3>3. /\ place'[q] = "write" /\ copy'[q] = data[InHand(q)] /\ stamp' = stamp
          /\ listed' = listed /\ answers' = answers
      BY <1>1, <3>2 DEF MoveTo, batch
    <3> QED
      BY <1>1, <1>5, <3>1, <3>3, InHandIs, SameHand DEF AtHand, Writing
  <2>7. CASE UpdateActivityData(q)
    BY <2>1, <2>7 DEF UpdateActivityData, PassOver, AtHand
  <2>8. CASE End(q)
    BY <1>1, <2>8 DEF End, MoveTo, Writing
  <2> QED
    BY <1>5, <2>2, <2>3, <2>4, <2>5, <2>6, <2>7, <2>8, ActIs
<1>6. CASE Kept /\ ~Act(q)
  BY <1>1, <1>2, <1>6
<1> HIDE DEF Kept
<1> QED
  BY <1>3, <1>4, <1>5, <1>6, EnrichmentStepIs

LEMMA LoggedStep ==
    ASSUME RecordInv, EnrichmentNext
    PROVE  LoggedInv'
<1>1. RunShape /\ ListingShape /\ LoggedInv
  BY DEF RecordInv
<1>2. ASSUME NEW r \in Entry, Exists(r), NEW k \in Display
      PROVE  data'[r].keys[k] = "log" <=> data[r].keys[k] = "log"
  <2>1. Gains(r)
    BY <1>2, StepGains
  <2>2. "log" # "none" /\ k \in Keys
    BY DEF Keys
  <2> QED
    BY <2>1, <2>2 DEF Gains
<1>3. ASSUME NEW q \in Run, NEW r \in DOMAIN listed'[q], NEW k \in Display,
             listed'[q][r].keys[k] = "log"
      PROVE  data'[r].keys[k] = "log"
  <2>1. /\ r \in Entry /\ Exists(r)
        /\ \/ r \in DOMAIN listed[q] /\ listed'[q][r] = listed[q][r]
           \/ data' = data /\ listed'[q][r] = data[r]
    BY <1>1, PageFrom
  <2>2. data[r].keys[k] = "log"
    BY <1>1, <1>3, <2>1 DEF LoggedInv
  <2> QED
    BY <1>2, <2>1, <2>2
<1>4. ASSUME NEW q \in Run, place'[q] = "write", NEW k \in Display
      PROVE  copy'[q].keys[k] = "log" <=> data'[InHand(q)].keys[k] = "log"
  <2>1. /\ InHand(q) \in Entry /\ Exists(InHand(q))
        /\ \/ place[q] = "write" /\ copy'[q] = copy[q]
           \/ data' = data /\ copy'[q] = data[InHand(q)]
    BY <1>1, <1>4, HandMoves DEF Writing
  <2>2. copy'[q].keys[k] = "log" <=> data[InHand(q)].keys[k] = "log"
    BY <1>1, <2>1 DEF LoggedInv
  <2> QED
    BY <1>2, <2>1, <2>2
<1>5. ASSUME NEW q \in Run, place'[q] = "write" PROVE InHand(q)' = InHand(q)
  BY <1>1, <1>5, HandMoves DEF Writing
<1> QED
  BY <1>3, <1>4, <1>5 DEF LoggedInv

LEMMA HolderStep ==
    ASSUME RecordInv, EnrichmentNext
    PROVE  HolderInv'
<1>1. RunShape /\ ListingShape /\ HolderInv
  BY DEF RecordInv
<1>2. ASSUME NEW q \in Run, place'[q] \in Writing
      PROVE  /\ InHand(q)' = InHand(q) /\ InHand(q) \in Entry /\ Exists(InHand(q))
             /\ before'[q] = before[q] /\ before[q] <= clock
             /\ InHand(q) \in overlapped => InHand(q) \in overlapped'
             /\ \/ place[q] \in Writing /\ stamp'[q] = stamp[q]
                \/ /\ place[q] = "record" /\ EnrichRecord(q) /\ stamp'[q] = clock
                   /\ data' = data /\ overlapped' = overlapped \cup {s \in {InHand(q)} : Busy(s) # {}}
             /\ place'[q] = "write" => \/ place[q] = "write" /\ copy'[q] = copy[q]
                                       \/ data' = data /\ copy'[q] = data[InHand(q)]
             /\ Act(q) => data' = data
  <2>1. InHand(q) \in Entry /\ Exists(InHand(q))
    BY <1>1, <1>2, HandMoves
  <2>2. InHand(q) \in overlapped => InHand(q) \in overlapped'
    BY <2>1, StepGains
  <2> QED
    BY <1>1, <1>2, <2>1, <2>2, HandMoves
<1>3. ASSUME NEW p \in Run, NEW q \in Run, place'[p] \in Writing, place'[q] \in Writing,
             InHand(p) = InHand(q), p # q, place[q] \notin Writing
      PROVE  InHand(p) \in overlapped'
  <2>1. /\ EnrichRecord(q) /\ overlapped' = overlapped \cup {s \in {InHand(q)} : Busy(s) # {}}
        /\ place[q] = "record"
    BY <1>2, <1>3
  <2>2. Act(q)
    BY <2>1 DEF Act, Work
  <2>3. place[p] \in Writing
    BY <1>1, <1>3, <2>2, ActWrites
  <2>4. p \in Busy(InHand(q))
    BY <1>3, <2>3 DEF Busy, Writing
  <2> QED
    BY <1>3, <2>1, <2>4
<1>4. ASSUME NEW p \in Run, NEW q \in Run, place'[p] \in Writing, place'[q] \in Writing,
             InHand(p)' = InHand(q)'
      PROVE  p = q \/ InHand(p)' \in overlapped'
  <2> SUFFICES ASSUME p # q PROVE InHand(p) \in overlapped'
    BY <1>2, <1>4
  <2>1. InHand(p) = InHand(q)
    BY <1>2, <1>4
  <2>2. CASE place[p] \in Writing /\ place[q] \in Writing
    <3>1. InHand(p) \in overlapped
      BY <1>1, <2>1, <2>2 DEF HolderInv
    <3> QED
      BY <1>2, <1>4, <3>1
  <2>3. CASE place[q] \notin Writing
    BY <1>3, <1>4, <2>1, <2>3
  <2>4. CASE place[p] \notin Writing
    BY <1>3, <1>4, <2>1, <2>4
  <2> QED
    BY <2>2, <2>3, <2>4
<1>5. ASSUME NEW q \in Run, place'[q] \in Writing, InHand(q) \notin overlapped
      PROVE  data'[InHand(q)] = data[InHand(q)]
  <2> SUFFICES ASSUME data'[InHand(q)] # data[InHand(q)] PROVE FALSE
    OBVIOUS
  <2>1. PICK p \in Run : place[p] = "write" /\ InHand(p) = InHand(q) /\ Act(p)
    BY <1>2, <1>5, StepGains
  <2>2. p # q /\ place[q] \in Writing
    BY <1>2, <1>5, <2>1
  <2> QED
    BY <1>1, <1>5, <2>1, <2>2 DEF HolderInv, Writing
<1>6. ASSUME NEW q \in Run, place'[q] \in Writing
      PROVE  /\ before'[q] <= stamp'[q]
             /\ InHand(q) \notin overlapped' => data'[InHand(q)].at <= stamp'[q]
             /\ place'[q] = "write" /\ InHand(q) \notin overlapped' => copy'[q] = data'[InHand(q)]
  <2>1. before'[q] <= stamp'[q]
    BY <1>1, <1>2, <1>6 DEF HolderInv
  <2>2. ASSUME InHand(q) \notin overlapped
        PROVE  data[InHand(q)].at <= stamp'[q]
    BY <1>1, <1>2, <1>6, <2>2 DEF HolderInv
  <2>3. ASSUME InHand(q) \notin overlapped, place'[q] = "write"
        PROVE  copy'[q] = data[InHand(q)]
    BY <1>1, <1>2, <1>6, <2>3 DEF HolderInv, Writing
  <2> QED
    BY <1>2, <1>5, <1>6, <2>1, <2>2, <2>3
<1>7. ASSUME NEW r \in Entry, Exists(r)' PROVE data'[r].at <= clock'
  <2>1. /\ DOMAIN data = Entry /\ data[r] \in Column \cup {Absent}
        /\ clock \in Nat /\ \A p \in Run : stamp[p] <= clock
    BY <1>1, EnrichmentAssumption DEF RunShape, TableShape, LocalShape
  <2>2. clock' = clock \/ clock' = clock + 1
    BY <1>1, ActWrites, EnrichmentStepIs DEF PassTime, Log
  <2>3. CASE data'[r] = data[r]
    <3>1. Exists(r)
      BY <1>7, <2>3 DEF Exists
    <3>2. data[r].at <= clock /\ data[r].at \in Nat
      BY <1>1, <2>1, <3>1, ColumnIs DEF HolderInv, Exists
    <3> QED
      BY <2>1, <2>2, <2>3, <3>2
  <2>4. CASE data'[r] # data[r] /\ Exists(r)
    <3>1. PICK p \in Run : place[p] = "write" /\ InHand(p) = r /\ Act(p)
      BY <2>4, StepGains
    <3>2. PutBack(p)
      BY <1>1, <2>4, <3>1, ActWrites
    <3>3. data'[r] = Merged(p)
      BY <2>1, <2>4, <3>1, <3>2 DEF PutBack
    <3>4. data'[r].at = stamp[p] /\ stamp[p] \in Nat
      BY <1>1, <3>1, <3>3, MergedIs, EnrichmentAssumption DEF RunShape, LocalShape
    <3> QED
      BY <2>1, <2>2, <3>4
  <2>5. CASE data'[r] # data[r] /\ ~Exists(r)
    <3>1. ~PassTime
      BY <2>5 DEF PassTime
    <3>2. ASSUME NEW p \in Run, Act(p) PROVE FALSE
      <4>1. place[p] = "write" /\ PutBack(p)
        BY <1>1, <2>5, <3>2, ActWrites
      <4>2. InHand(p) # r
        BY <1>1, <2>5, <4>1, InHandIs DEF AtHand
      <4> QED
        BY <2>1, <2>5, <4>1, <4>2 DEF PutBack
    <3>3. PICK s \in Entry : Log(s)
      BY <3>1, <3>2, EnrichmentStepIs
    <3>4. PICK d \in Logged : data' = [data EXCEPT ![s] = d]
      BY <3>3 DEF Log
    <3>5. data'[r] = d
      BY <2>1, <2>5, <3>4
    <3> QED
      BY <2>1, <2>2, <3>5, LoggedIs
  <2> QED
    BY <2>3, <2>4, <2>5
<1>8. \A q \in Run : place'[q] \in Writing => InHand(q)' = InHand(q)
  BY <1>2
<1> QED
  BY <1>4, <1>6, <1>7, <1>8 DEF HolderInv

LEMMA RecordStays ==
    ASSUME RecordInv, UNCHANGED enrichmentVars
    PROVE  RecordInv'
<1>1. UNCHANGED <<data, clock, place, before, listed, short, answers, stamp, copy,
                  overlapped, owed, database>>
  BY DEF enrichmentVars, batch
<1>2. \A p \in Run : InHand(p)' = InHand(p)
  BY <1>1 DEF InHand
<1>a. PagesFit'
  BY <1>1 DEF RecordInv, PagesFit
<1>3. LoggedInv'
  BY <1>1, <1>2 DEF RecordInv, LoggedInv
<1>4. HolderInv'
  BY <1>1, <1>2 DEF RecordInv, HolderInv, Exists
<1> QED
  BY <1>a, <1>3, <1>4, ShapeStays DEF RecordInv

LEMMA RecordInit == EnrichmentInit => RecordInv
<1> SUFFICES ASSUME EnrichmentInit PROVE RecordInv
  OBVIOUS
<1>1. RunShape /\ ListingShape
  BY ShapeInit
<1>2. \A p \in Run : place[p] = "idle" /\ DOMAIN listed[p] = {}
  BY DEF EnrichmentInit
<1>a. PagesFit
  BY <1>2, FS_EmptySet, EnrichmentAssumption DEF PagesFit
<1>3. LoggedInv
  BY <1>2 DEF LoggedInv
<1>4. ASSUME NEW r \in Entry, Exists(r) PROVE data[r].at <= clock
  <2>1. data[r] \in Logged /\ clock = 1
    BY <1>4 DEF EnrichmentInit, Exists
  <2>2. data[r].at = 0
    BY <2>1, LoggedIs
  <2> QED
    BY <2>1, <2>2
<1>5. HolderInv
  BY <1>2, <1>4 DEF HolderInv, Writing
<1> QED
  BY <1>a, <1>1, <1>3, <1>5 DEF RecordInv

LEMMA RecordStep == ASSUME RecordInv, EnrichmentNext PROVE RecordInv'
  BY ShapeStep, PagesFitStep, LoggedStep, HolderStep DEF RecordInv

LEMMA RecordInvariant == EnrichmentSpec => []RecordInv
<1>1. EnrichmentInit => RecordInv
  BY RecordInit
<1>2. RecordInv /\ [EnrichmentNext]_enrichmentVars => RecordInv'
  BY RecordStep, RecordStays
<1> QED
  BY <1>1, <1>2, PTL DEF EnrichmentSpec

LEMMA RecordTyped == RecordInv => EnrichmentTypeOK
<1> SUFFICES ASSUME RecordInv PROVE EnrichmentTypeOK
  OBVIOUS
<1>1. TableShape /\ LocalShape /\ PageShape /\ PagesFit
  BY DEF RecordInv, RunShape
<1>2. Column \subseteq Data
  BY DEF Column
<1>3. /\ \A r \in Entry : Exists(r) => data[r] \in Data
      /\ database \in Dialects /\ clock \in 0..MaxClock /\ overlapped \subseteq Entry
  BY <1>1, <1>2, EnrichmentAssumption DEF TableShape, Exists
<1>4. /\ place \in [Run -> {"idle", "list", "tenant", "record", "fetch", "write",
                            "summary", "over"}]
      /\ before \in [Run -> 0..MaxClock] /\ cursor \in [Run -> 1..(NRecord + 1)]
      /\ short \in [Run -> BOOLEAN] /\ stamp \in [Run -> 0..MaxClock]
      /\ answers \in [Run -> [tenant : 0..(NTenant - 1), told : SUBSET Display]]
  BY <1>1 DEF LocalShape, Stages
<1>5. \A p \in Run : owed[p] \subseteq Entry \X (Display \cup {"fresh"})
  BY <1>1 DEF LocalShape
<1>6. /\ \A p \in Run : /\ DOMAIN listed[p] \subseteq Entry
                        /\ Cardinality(DOMAIN listed[p]) <= BatchSize
                        /\ \A r \in DOMAIN listed[p] : listed[p][r] \in Data
      /\ \A p \in Run : copy[p] \in Data \cup {Absent}
  BY <1>1, <1>2 DEF PageShape, PagesFit
<1> QED
  BY <1>3, <1>4, <1>5, <1>6 DEF EnrichmentTypeOK

\* Every variable keeps the shape the code gives it.
THEOREM EnrichmentTypeCorrect == EnrichmentSpec => []EnrichmentTypeOK
  BY RecordInvariant, RecordTyped, PTL

LEMMA GainsRecords ==
    ASSUME RecordInv, EnrichmentNext
    PROVE  \A r \in Entry : Exists(r) =>
              /\ \A k \in Keys :
                    \/ data'[r].keys[k] = data[r].keys[k]
                    \/ data[r].keys[k] = "none"
                    \/ /\ data[r].keys[k] # "log" /\ r \in overlapped
                       /\ database = "pg" => data'[r].keys[k] # "none"
              /\ data'[r].at >= data[r].at \/ r \in overlapped
  BY StepGains DEF Gains

\* A backfill adds the keys a record misses: it never takes away or changes what the
\* record was logged with, and what a run added changes only where two runs were
\* dealing with the record at once.
THEOREM RecordsOnlyGainHolds == EnrichmentSpec => RecordsOnlyGain
<1> DEFINE Gain == \A r \in Entry : Exists(r) =>
              /\ \A k \in Keys :
                    \/ data'[r].keys[k] = data[r].keys[k]
                    \/ data[r].keys[k] = "none"
                    \/ /\ data[r].keys[k] # "log" /\ r \in overlapped
                       /\ database = "pg" => data'[r].keys[k] # "none"
              /\ data'[r].at >= data[r].at \/ r \in overlapped
<1>1. RecordInv /\ EnrichmentNext => Gain
  BY GainsRecords
<1> HIDE DEF Gain
<1>2. EnrichmentSpec => [][Gain]_enrichmentVars
  BY <1>1, RecordInvariant, PTL DEF EnrichmentSpec
<1> QED
  BY <1>2 DEF RecordsOnlyGain, Gain

-----------------------------------------------------------------------------
(* ActivityEnrichment: a run leaves nothing behind *)

\* What a run has to see to is done, or another run's as well.
Met(p, o) ==
    \/ o[1] \in overlapped
    \/ o[2] \in Display /\ data[o[1]].keys[o[2]] # "none"
    \/ o[2] = "fresh" /\ ~Stale(data[o[1]], before[p])

\* A record the run will still come to: on its page, or older than it.
StillAhead(p, r) ==
    \/ r \in DOMAIN listed[p]
    \/ r < cursor[p] /\ (~short[p] \/ place[p] = "list")

\* A page is no better than the table, unless another run overlapped.
SeenInv ==
    \A p \in Run : \A r \in DOMAIN listed[p] :
        r \notin overlapped =>
            /\ \A k \in Display : listed[p][r].keys[k] # "none" => data[r].keys[k] # "none"
            /\ listed[p][r].at <= data[r].at

OwedInv ==
    \A p \in Run : \A o \in owed[p] :
        /\ Exists(o[1])
        /\ Met(p, o) \/ StillAhead(p, o[1])
        /\ place[p] \in Writing /\ o[1] = InHand(p) => o[2] \in answers[p].told \cup {"fresh"}

CompletionInv == RecordInv /\ SeenInv /\ OwedInv

LEMMA OwedIs ==
    ASSUME RunShape, NEW p \in Run, NEW o \in owed[p]
    PROVE  o[1] \in Entry /\ o[2] \in Display \cup {"fresh"} /\ o = <<o[1], o[2]>>
  BY DEF RunShape, LocalShape

LEMMA SeenStep ==
    ASSUME RecordInv, SeenInv, EnrichmentNext
    PROVE  SeenInv'
<1> SUFFICES ASSUME NEW p \in Run, NEW r \in DOMAIN listed'[p], r \notin overlapped'
             PROVE  /\ \A k \in Display : listed'[p][r].keys[k] # "none" => data'[r].keys[k] # "none"
                    /\ listed'[p][r].at <= data'[r].at
  BY DEF SeenInv
<1>1. /\ r \in Entry /\ Exists(r)
      /\ \/ r \in DOMAIN listed[p] /\ listed'[p][r] = listed[p][r]
         \/ data' = data /\ listed'[p][r] = data[r]
  BY PageFrom DEF RecordInv
<1>2. Gains(r) /\ r \notin overlapped /\ Exists(r)'
  BY <1>1, StepGains
<1>3. /\ data[r] \in Column /\ data'[r] \in Column /\ Display \subseteq Keys
      /\ r \in DOMAIN listed[p] => listed[p][r] \in Column
  BY <1>1, <1>2, TableStep DEF RecordInv, RunShape, TableShape, PageShape, Exists, Keys
<1>4. CASE data' = data /\ listed'[p][r] = data[r]
  BY <1>3, <1>4, ColumnIs
<1>5. CASE r \in DOMAIN listed[p] /\ listed'[p][r] = listed[p][r]
  <2>1. /\ \A k \in Display : listed[p][r].keys[k] # "none" => data[r].keys[k] # "none"
        /\ listed[p][r].at <= data[r].at
    BY <1>2, <1>5 DEF SeenInv
  <2>2. /\ \A k \in Display : data[r].keys[k] # "none" => data'[r].keys[k] # "none"
        /\ data[r].at <= data'[r].at
    BY <1>2, <1>3, ColumnIs DEF Gains
  <2>3. listed[p][r].at \in Nat /\ data[r].at \in Nat /\ data'[r].at \in Nat
    BY <1>3, <1>5, ColumnIs
  <2> QED
    BY <1>5, <2>1, <2>2, <2>3
<1> QED
  BY <1>1, <1>4, <1>5

\* What is done stays done.
LEMMA MetStays ==
    ASSUME RecordInv, EnrichmentNext, NEW p \in Run, NEW o \in owed[p],
           Exists(o[1]), Met(p, o), before'[p] = before[p]
    PROVE  Met(p, o)'
<1>1. o[1] \in Entry /\ before[p] \in Nat
  BY OwedIs, EnrichmentAssumption DEF RecordInv, RunShape, LocalShape
<1>2. Gains(o[1]) /\ (o[1] \in overlapped => o[1] \in overlapped') /\ Exists(o[1])'
  BY <1>1, StepGains
<1>3. /\ data[o[1]] \in Column /\ data'[o[1]] \in Column
  BY <1>1, <1>2, TableStep DEF RecordInv, RunShape, TableShape, Exists
<1>4. data[o[1]].at \in Nat /\ data'[o[1]].at \in Nat
  BY <1>3, ColumnIs
<1>5. CASE o[1] \in overlapped
  BY <1>2, <1>5 DEF Met
<1>6. CASE o[2] \in Display /\ data[o[1]].keys[o[2]] # "none"
  BY <1>2, <1>6 DEF Met, Gains, Keys
<1>7. CASE o[2] = "fresh" /\ ~Stale(data[o[1]], before[p])
  <2>1. o[1] \in overlapped \/ data'[o[1]].at >= data[o[1]].at
    BY <1>2 DEF Gains
  <2> QED
    BY <1>1, <1>2, <1>4, <1>7, <2>1 DEF Met, Stale
<1> QED
  BY <1>5, <1>6, <1>7 DEF Met

\* What is not met is missing something, and so matches the filter.
LEMMA UnmetMatches ==
    ASSUME RunShape, NEW p \in Run, NEW o \in owed[p], ~Met(p, o)
    PROVE  MatchesFilter(data[o[1]], before[p])
  BY OwedIs DEF Met, MatchesFilter

\* On PostgreSQL a page leaves no matching record behind its cursor.
LEMMA QueryAhead ==
    ASSUME RunShape, ListingShape, NEW p \in Run, ListByQuery(p), NEW r \in Entry,
           Exists(r), StillAhead(p, r), MatchesFilter(data[r], before[p])
    PROVE  StillAhead(p, r)'
<1> DEFINE chosen == Newest(Candidates(p), BatchSize)
<1>1. /\ place[p] = "list"
      /\ listed' = [listed EXCEPT ![p] = [s \in chosen |-> data[s]]]
      /\ short' = [short EXCEPT ![p] = ~(Cardinality(chosen) = BatchSize)]
      /\ place' = [place EXCEPT ![p] = IF chosen = {} THEN "summary" ELSE "tenant"]
      /\ cursor' = IF chosen = {} THEN cursor ELSE [cursor EXCEPT ![p] = Min(chosen)]
      /\ database = "pg"
  BY QueryIs
<1>2. DOMAIN listed[p] = {} /\ BatchSize \in Nat \ {0}
  BY <1>1, EnrichmentAssumption DEF ListingShape
<1>3. Candidates(p) \in SUBSET Entry /\ r \in Candidates(p)
  BY <1>2 DEF Candidates, StillAhead
<1>4. /\ r \in chosen \/ (Cardinality(chosen) = BatchSize /\ \A s \in chosen : s > r)
      /\ chosen \in SUBSET Entry
  <2>1. CASE r \in chosen
    BY <1>2, <1>3, <2>1, NewestFew
  <2>2. CASE r \notin chosen
    <3>1. \A s \in chosen : s > r
      BY <1>2, <1>3, <2>2, NewestFirst
    <3>2. Cardinality(chosen) = BatchSize
      BY <1>2, <1>3, <2>2, NewestFull
    <3>3. chosen \in SUBSET Entry
      BY <1>2, <1>3, NewestFew
    <3> QED
      BY <3>1, <3>2, <3>3
  <2> QED
    BY <2>1, <2>2
<1> HIDE DEF chosen
<1>5. DOMAIN listed'[p] = chosen /\ short'[p] = ~(Cardinality(chosen) = BatchSize)
  BY <1>1 DEF RunShape, LocalShape, PageShape
<1>6. CASE r \in chosen
  BY <1>5, <1>6 DEF StillAhead
<1>7. CASE r \notin chosen
  <2>1. Cardinality(chosen) = BatchSize /\ \A s \in chosen : s > r
    BY <1>4, <1>7
  <2>2. chosen # {}
    BY <1>2, <2>1, FS_EmptySet
  <2>3. cursor'[p] = Min(chosen)
    BY <1>1, <2>2 DEF RunShape, LocalShape
  <2>4. Min(chosen) \in chosen
    BY <1>4, <2>2, CursorIs
  <2>5. \A s \in Entry : s \in Nat
    BY EnrichmentAssumption DEF Entry
  <2>6. Min(chosen) > r /\ Min(chosen) \in Nat /\ r \in Nat
    BY <1>4, <2>1, <2>4, <2>5
  <2>7. r < cursor'[p]
    BY <2>3, <2>6
  <2> QED
    BY <1>5, <2>1, <2>7 DEF StillAhead
<1> QED
  BY <1>6, <1>7

\* Nor does a scan elsewhere.
LEMMA ScanAhead ==
    ASSUME RunShape, ListingShape, NEW p \in Run, ListByScan(p), NEW r \in Entry,
           Exists(r), StillAhead(p, r), MatchesFilter(data[r], before[p])
    PROVE  StillAhead(p, r)'
<1> DEFINE full == Cardinality(Taken(p)) = Room(p)
           all == [s \in Taken(p) \cup DOMAIN listed[p] |->
                      IF s \in Taken(p) THEN data[s] ELSE listed[p][s]]
           more == {s \in Entry : Exists(s) /\ s < cursor[p]}
           match == {s \in Rows(p) : MatchesFilter(data[s], before[p])}
<1>1. /\ place[p] = "list" /\ listed' = [listed EXCEPT ![p] = all]
      /\ short' = [short EXCEPT ![p] = ~full]
      /\ place' = [place EXCEPT ![p] =
                     IF full THEN "tenant"
                     ELSE IF Cardinality(Rows(p)) = BatchSize THEN "list"
                     ELSE IF DOMAIN all = {} THEN "summary" ELSE "tenant"]
      /\ cursor' = IF Scanned(p) = {} THEN cursor
                   ELSE [cursor EXCEPT ![p] = Min(Scanned(p))]
  BY ScanIs
<1>2. /\ Room(p) \in Nat \ {0} /\ Rows(p) \in SUBSET more
      /\ Taken(p) \in SUBSET Rows(p) /\ Taken(p) \in SUBSET Entry
      /\ Scanned(p) \in SUBSET Rows(p) /\ Scanned(p) \in SUBSET Entry
      /\ BatchSize \in Nat \ {0}
  BY <1>1, PageRoom, EnrichmentAssumption DEF ListingShape
<1>3. DOMAIN all = Taken(p) \cup DOMAIN listed[p]
  OBVIOUS
<1>4. /\ DOMAIN place = Run /\ DOMAIN listed = Run /\ DOMAIN short = Run /\ DOMAIN cursor = Run
  BY DEF RunShape, LocalShape, PageShape
<1> HIDE DEF all
<1>5. DOMAIN listed'[p] = Taken(p) \cup DOMAIN listed[p]
  BY <1>1, <1>3, <1>4
<1>6. short'[p] = ~full
  <2> HIDE DEF full
  <2> QED
    BY <1>1, <1>4
<1>7. ASSUME full PROVE Scanned(p) = {s \in Rows(p) : s >= Min(Taken(p))}
  BY <1>7 DEF Scanned
<1>8. ASSUME ~full PROVE Scanned(p) = Rows(p)
  BY <1>8 DEF Scanned
<1>9. more \in SUBSET Entry /\ match \in SUBSET Entry
  BY <1>2
<1>10. Rows(p) = Newest(more, BatchSize) /\ Taken(p) = Newest(match, Room(p))
  BY DEF Rows, Taken
<1>11. ASSUME Scanned(p) # {}, \A s \in Scanned(p) : s > r PROVE r < cursor'[p]
  <2>1. Min(Scanned(p)) \in Scanned(p)
    BY <1>2, <1>11, CursorIs
  <2>2. cursor'[p] = Min(Scanned(p))
    BY <1>1, <1>4, <1>11
  <2>3. Min(Scanned(p)) > r /\ Min(Scanned(p)) \in Nat /\ r \in Nat
    BY <1>2, <1>11, <2>1, EnrichmentAssumption DEF Entry
  <2> QED
    BY <2>2, <2>3
<1>12. CASE r \in DOMAIN listed[p] \/ r \in Taken(p)
  BY <1>5, <1>12 DEF StillAhead
<1>13. CASE r \notin DOMAIN listed[p] /\ r \notin Taken(p)
  <2>1. r \in more
    BY <1>13 DEF StillAhead
  <2> HIDE DEF more, match, full
  <2>2. CASE r \in Rows(p)
    <3>1. r \in match
      BY <2>2 DEF match
    <3>2. \A s \in Taken(p) : s > r
      BY <1>2, <1>9, <1>10, <1>13, <3>1, NewestFirst
    <3>3. Taken(p) # match
      BY <1>13, <3>1
    <3>4. Cardinality(Taken(p)) = Room(p)
      BY <1>2, <1>9, <1>10, <3>3, NewestFull
    <3>5. Taken(p) # {}
      BY <1>2, <3>4, FS_EmptySet
    <3>6. Min(Taken(p)) \in Taken(p) /\ \A s \in Taken(p) : Min(Taken(p)) <= s
      BY <1>2, <3>5, CursorIs
    <3>7. full
      BY <3>4 DEF full
    <3>8. Scanned(p) = {s \in Rows(p) : s >= Min(Taken(p))}
      BY <1>7, <3>7
    <3>9. \A s \in Entry : s \in Nat
      BY EnrichmentAssumption DEF Entry
    <3>10. Min(Taken(p)) \in Scanned(p)
      BY <1>2, <3>6, <3>8, <3>9
    <3>11. \A s \in Scanned(p) : s > r
      BY <1>2, <3>2, <3>6, <3>8, <3>9
    <3>12. r < cursor'[p]
      BY <1>11, <3>10, <3>11
    <3> QED
      BY <1>6, <3>7, <3>12 DEF StillAhead
  <2>3. CASE r \notin Rows(p)
    <3>1. \A s \in Rows(p) : s > r
      BY <1>2, <1>9, <1>10, <2>1, <2>3, NewestFirst
    <3>2. Cardinality(Rows(p)) = BatchSize
      BY <1>2, <1>9, <1>10, <2>1, <2>3, NewestFull
    <3>3. Rows(p) # {}
      BY <1>2, <3>2, FS_EmptySet
    <3>4. Scanned(p) # {}
      <4>1. CASE ~full
        BY <1>8, <3>3, <4>1
      <4>2. CASE full
        <5>1. Taken(p) # {}
          BY <1>2, <4>2, FS_EmptySet DEF full
        <5>2. Min(Taken(p)) \in Taken(p)
          BY <1>2, <5>1, CursorIs
        <5>3. Min(Taken(p)) \in Rows(p) /\ Min(Taken(p)) \in Nat
          BY <1>2, <5>2, EnrichmentAssumption DEF Entry
        <5>4. Min(Taken(p)) >= Min(Taken(p))
          BY <5>3
        <5> QED
          BY <1>7, <4>2, <5>3, <5>4
      <4> QED
        BY <4>1, <4>2
    <3>5. \A s \in Scanned(p) : s > r
      BY <1>2, <3>1
    <3>6. r < cursor'[p]
      BY <1>11, <3>4, <3>5
    <3>7. CASE full
      BY <1>6, <3>6, <3>7 DEF StillAhead
    <3>8. CASE ~full
      <4>1. place'[p] = "list"
        BY <1>1, <1>4, <3>2, <3>8
      <4> QED
        BY <3>6, <4>1 DEF StillAhead
    <3> QED
      BY <3>7, <3>8
  <2> QED
    BY <2>2, <2>3
<1> QED
  BY <1>12, <1>13

\* The pages still to come do not change while one is dealt with.
LEMMA AdvanceAhead ==
    ASSUME RunShape, NEW p \in Run, place[p] \in AtHand, Advance(p), cursor' = cursor,
           NEW r \in Entry, StillAhead(p, r), r # InHand(p)
    PROVE  StillAhead(p, r)'
<1>1. /\ DOMAIN listed'[p] = DOMAIN listed[p] \ {InHand(p)} /\ short' = short
  BY AdvanceIs
<1>2. place[p] # "list"
  BY DEF AtHand
<1> QED
  BY <1>1, <1>2 DEF StillAhead

\* A record that needs nothing has what the resolvers know.
LEMMA NotDueMet ==
    ASSUME RecordInv, SeenInv, NEW p \in Run, place[p] = "record", NEW o \in owed[p],
           o[1] = InHand(p), o[2] \in answers[p].told \cup {"fresh"},
           Missing(p, listed[p][InHand(p)]) = {}, ~Stale(listed[p][InHand(p)], before[p])
    PROVE  Met(p, o)
<1> DEFINE r == InHand(p)
           d == listed[p][r]
<1>1. r \in DOMAIN listed[p] /\ d \in Column /\ data[r] \in Column
  BY InHandIs DEF RecordInv, AtHand
<1>2. o[2] \in Display \cup {"fresh"} /\ "fresh" \notin Display
  BY OwedIs, EnrichmentAssumption DEF RecordInv
<1>3. d.at \in Nat /\ data[r].at \in Nat /\ before[p] \in Nat
  <2>1. before[p] \in Nat
    BY EnrichmentAssumption DEF RecordInv, RunShape, LocalShape
  <2> HIDE DEF d, r
  <2> QED
    BY <1>1, <2>1, ColumnIs
<1>4. CASE r \in overlapped
  BY <1>4 DEF Met
<1>5. CASE r \notin overlapped
  <2>1. /\ \A k \in Display : d.keys[k] # "none" => data[r].keys[k] # "none"
        /\ d.at <= data[r].at
    BY <1>1, <1>5 DEF SeenInv
  <2>2. Missing(p, d) = {} /\ ~Stale(d, before[p])
    OBVIOUS
  <2> HIDE DEF d, r
  <2>3. o[1] = r
    BY DEF r
  <2>4. CASE o[2] = "fresh"
    BY <1>3, <2>1, <2>2, <2>3, <2>4 DEF Met, Stale
  <2>5. CASE o[2] \in answers[p].told /\ o[2] # "fresh"
    <3>1. d.keys[o[2]] # "none"
      BY <2>2, <2>5 DEF Missing
    <3> QED
      BY <1>2, <2>1, <2>3, <2>5, <3>1 DEF Met
  <2> QED
    BY <2>4, <2>5
<1> QED
  BY <1>4, <1>5

\* A record that was updated has what the resolvers know, and a new stamp.
LEMMA WrittenMet ==
    ASSUME RecordInv, NEW p \in Run, place[p] = "write", NEW o \in owed[p],
           o[1] = InHand(p), o[2] \in answers[p].told \cup {"fresh"},
           data'[InHand(p)] = Merged(p), before' = before, overlapped' = overlapped
    PROVE  Met(p, o)'
<1> DEFINE r == InHand(p)
           mine == Enriched(p, listed[p][r])
<1>1. /\ r \in Entry /\ r \in DOMAIN listed[p] /\ data[r] \in Column
      /\ listed[p][r] \in Column /\ copy[p] \in Column
  BY InHandIs DEF AtHand, RecordInv, RunShape, HandShape
<1>2. o[2] \in Display \cup {"fresh"} /\ "fresh" \notin Display /\ Display \subseteq Keys
  BY OwedIs, EnrichmentAssumption DEF RecordInv, Keys
<1>3. \A k \in Display : k \in answers[p].told => mine[k] # "none"
  <2> HIDE DEF r
  <2> QED
    BY <1>1, EnrichedIs DEF RecordInv
<1>4. /\ Merged(p).at = stamp[p]
      /\ \A k \in Keys :
            IF copy[p].keys[k] = "none" /\ mine[k] # "none" THEN Merged(p).keys[k] = mine[k]
            ELSE IF database = "pg" THEN Merged(p).keys[k] = data[r].keys[k]
            ELSE Merged(p).keys[k] = copy[p].keys[k]
  BY MergedIs DEF RecordInv
<1>5. /\ r \notin overlapped => copy[p] = data[r]
      /\ before[p] <= stamp[p]
  BY DEF RecordInv, HolderInv, Writing
<1>6. before[p] \in Nat /\ stamp[p] \in Nat
  BY EnrichmentAssumption DEF RecordInv, RunShape, LocalShape
<1> HIDE DEF mine, r
<1>7. data'[r] = Merged(p) /\ o[1] = r
  BY DEF r
<1>8. CASE r \in overlapped
  BY <1>7, <1>8 DEF Met
<1>9. CASE o[2] = "fresh"
  BY <1>4, <1>5, <1>6, <1>7, <1>9 DEF Met, Stale
<1>10. CASE r \notin overlapped /\ o[2] \in Display
  <2>1. Merged(p).keys[o[2]] # "none"
    BY <1>2, <1>3, <1>4, <1>5, <1>10
  <2> QED
    BY <1>7, <1>10, <2>1 DEF Met
<1> QED
  BY <1>2, <1>8, <1>9, <1>10

LEMMA OwedStep ==
    ASSUME CompletionInv, EnrichmentNext
    PROVE  OwedInv'
<1>1. RecordInv /\ SeenInv /\ OwedInv /\ RunShape /\ ListingShape
  BY DEF CompletionInv, RecordInv
<1>2. /\ DOMAIN place = Run /\ DOMAIN before = Run /\ DOMAIN cursor = Run
      /\ DOMAIN listed = Run /\ DOMAIN short = Run /\ DOMAIN answers = Run
      /\ DOMAIN stamp = Run /\ DOMAIN copy = Run /\ DOMAIN owed = Run
  BY <1>1 DEF RunShape, LocalShape, PageShape
<1> SUFFICES ASSUME NEW p \in Run, NEW o \in owed'[p]
             PROVE  /\ Exists(o[1])'
                    /\ Met(p, o)' \/ StillAhead(p, o[1])'
                    /\ place'[p] \in Writing /\ o[1] = InHand(p)' =>
                          o[2] \in answers'[p].told \cup {"fresh"}
  BY DEF OwedInv
<1> DEFINE Goal == /\ Exists(o[1])'
                   /\ Met(p, o)' \/ StillAhead(p, o[1])'
                   /\ place'[p] \in Writing /\ o[1] = InHand(p)' =>
                         o[2] \in answers'[p].told \cup {"fresh"}
<1>3. ASSUME o \in owed[p]
      PROVE  /\ o[1] \in Entry /\ Exists(o[1]) /\ Exists(o[1])'
             /\ Met(p, o) \/ StillAhead(p, o[1])
             /\ Met(p, o) /\ before'[p] = before[p] => Met(p, o)'
             /\ ~Met(p, o) => MatchesFilter(data[o[1]], before[p])
             /\ place[p] \in Writing /\ o[1] = InHand(p) => o[2] \in answers[p].told \cup {"fresh"}
  <2>1. o[1] \in Entry /\ Exists(o[1])
    BY <1>1, <1>3, OwedIs DEF OwedInv
  <2>2. Exists(o[1])'
    BY <1>1, <2>1, StepGains
  <2>3. Met(p, o) /\ before'[p] = before[p] => Met(p, o)'
    BY <1>1, <1>3, <2>1, MetStays
  <2>4. ~Met(p, o) => MatchesFilter(data[o[1]], before[p])
    BY <1>1, <1>3, UnmetMatches
  <2> QED
    BY <1>1, <1>3, <2>1, <2>2, <2>3, <2>4 DEF OwedInv
<1>4. ASSUME place'[p] = place[p], listed'[p] = listed[p], answers'[p] = answers[p],
             before'[p] = before[p], cursor'[p] = cursor[p], short'[p] = short[p],
             owed'[p] = owed[p]
      PROVE  Goal
  <2>1. o \in owed[p] /\ InHand(p)' = InHand(p)
    BY <1>4, SameHand
  <2>2. StillAhead(p, o[1]) => StillAhead(p, o[1])'
    BY <1>4 DEF StillAhead
  <2> HIDE DEF Met, StillAhead, Exists
  <2> QED
    BY <1>3, <1>4, <2>1, <2>2
<1>5. ASSUME PassTime \/ \E s \in Entry : Log(s) PROVE Goal
  <2>1. UNCHANGED <<place, before, cursor, listed, short, answers, owed>>
    BY <1>5 DEF PassTime, Log, batch
  <2> QED
    BY <1>4, <2>1
<1>6. ASSUME NEW q \in Run \ {p}, Act(q) PROVE Goal
  BY <1>1, <1>4, <1>6, ActWrites
<1>7. ASSUME Act(p) PROVE Goal
  <2>1. ASSUME place[p] \in AtHand, Advance(p), cursor' = cursor, before' = before,
               o \in owed[p], o[1] # InHand(p)
        PROVE  Goal
    <3>1. place'[p] \notin Writing
      BY <1>1, <2>1, AdvanceIs DEF Writing
    <3>2. StillAhead(p, o[1]) => StillAhead(p, o[1])'
      BY <1>1, <1>3, <2>1, AdvanceAhead
    <3> QED
      BY <1>3, <2>1, <3>1, <3>2
  <2>2. ASSUME place[p] \in AtHand, PassOver(p), cursor' = cursor, before' = before PROVE Goal
    <3>1. owed'[p] = {x \in owed[p] : x[1] # InHand(p)}
      BY <1>2, <2>2 DEF PassOver
    <3> QED
      BY <2>1, <2>2, <3>1 DEF PassOver
  <2>3. ASSUME place[p] \in AtHand, Advance(p), cursor' = cursor, before' = before,
               o \in owed[p], Met(p, o)'
        PROVE  Goal
    <3>1. place'[p] \notin Writing
      BY <1>1, <2>3, AdvanceIs DEF Writing
    <3> QED
      BY <1>3, <2>3, <3>1
  <2>4. CASE StartRun(p)
    <3>1. /\ place[p] = "idle" /\ place'[p] = "list" /\ UNCHANGED <<data, cursor, listed>>
          /\ owed'[p] = {r \in Entry : Exists(r)} \X (Display \cup {"fresh"})
      BY <1>2, <2>4 DEF StartRun, MoveTo, batch
    <3>2. o[1] \in Entry /\ Exists(o[1]) /\ data' = data
      BY <3>1
    <3>3. cursor'[p] = NRecord + 1
      BY <1>1, <3>1 DEF ListingShape
    <3>4. o[1] < NRecord + 1
      BY <3>2, EnrichmentAssumption DEF Entry
    <3>5. StillAhead(p, o[1])' /\ Exists(o[1])'
      BY <3>1, <3>2, <3>3, <3>4 DEF StillAhead, Exists
    <3> QED
      BY <3>1, <3>5 DEF Writing
  <2>5. CASE ListByQuery(p) \/ ListByScan(p)
    <3>1. /\ place'[p] \in {"summary", "tenant", "list"} /\ owed' = owed /\ before' = before
      BY <1>1, <1>2, <2>5, QueryIs, ScanIs
    <3>2. o \in owed[p] /\ place'[p] \notin Writing
      BY <3>1 DEF Writing
    <3>3. CASE Met(p, o)
      BY <1>3, <3>1, <3>2, <3>3
    <3>4. CASE ~Met(p, o)
      <4>1. /\ o[1] \in Entry /\ Exists(o[1]) /\ StillAhead(p, o[1])
            /\ MatchesFilter(data[o[1]], before[p])
        BY <1>3, <3>2, <3>4
      <4>2. StillAhead(p, o[1])'
        BY <1>1, <2>5, <4>1, QueryAhead, ScanAhead
      <4> QED
        BY <1>3, <3>2, <4>2
    <3> QED
      BY <3>3, <3>4
  <2>6. CASE ResolveTenant(p)
    <3>1. /\ place'[p] = "record" /\ place[p] = "tenant"
          /\ UNCHANGED <<before, cursor, listed, short, owed>>
      BY <1>2, <2>6 DEF ResolveTenant, MoveTo
    <3>2. StillAhead(p, o[1]) => StillAhead(p, o[1])'
      BY <3>1 DEF StillAhead
    <3>3. o \in owed[p] /\ place'[p] \notin Writing
      BY <3>1 DEF Writing
    <3> QED
      BY <1>3, <3>1, <3>2, <3>3
  <2>7. CASE EnrichRecord(p)
    <3> DEFINE unknown == {<<InHand(p), k>> : k \in Display \ answers[p].told}
    <3>1. place[p] = "record" /\ UNCHANGED <<data, before, cursor>>
      BY <2>7 DEF EnrichRecord
    <3>2. ASSUME owed' = [owed EXCEPT ![p] = owed[p] \ unknown]
          PROVE  /\ o \in owed[p]
                 /\ o[1] = InHand(p) => o[2] \in answers[p].told \cup {"fresh"}
      <4>1. o \in owed[p] /\ o \notin unknown
        BY <1>2, <3>2
      <4>2. o[2] \in Display \cup {"fresh"} /\ o = <<o[1], o[2]>>
        BY <1>1, <4>1, OwedIs
      <4>3. o[1] = InHand(p) => o[2] \notin Display \ answers[p].told
        BY <4>1, <4>2
      <4> QED
        BY <4>1, <4>2, <4>3
    <3>3. CASE /\ owed' = [owed EXCEPT ![p] = owed[p] \ unknown]
               /\ MoveTo(p, "fetch") /\ UNCHANGED batch
      <4>1. place'[p] = "fetch" /\ UNCHANGED <<listed, short, answers, cursor, before>>
        BY <1>2, <3>1, <3>3 DEF MoveTo, batch
      <4>2. InHand(p)' = InHand(p)
        BY <4>1, SameHand
      <4>3. StillAhead(p, o[1]) => StillAhead(p, o[1])'
        BY <3>1, <4>1 DEF StillAhead
      <4>4. /\ o \in owed[p]
            /\ o[1] = InHand(p) => o[2] \in answers[p].told \cup {"fresh"}
        BY <3>2, <3>3
      <4> HIDE DEF unknown
      <4> QED
        BY <1>3, <4>1, <4>2, <4>3, <4>4
    <3>4. CASE /\ owed' = [owed EXCEPT ![p] = owed[p] \ unknown] /\ Advance(p)
               /\ Missing(p, listed[p][InHand(p)]) = {} /\ ~Stale(listed[p][InHand(p)], before[p])
      <4>1. /\ o \in owed[p]
            /\ o[1] = InHand(p) => o[2] \in answers[p].told \cup {"fresh"}
        BY <3>2, <3>4
      <4> HIDE DEF unknown
      <4>2. CASE o[1] # InHand(p)
        BY <2>1, <3>1, <3>4, <4>1, <4>2 DEF AtHand
      <4>3. CASE o[1] = InHand(p)
        <5>1. Met(p, o)
          BY <1>1, <3>1, <3>4, <4>1, <4>3, NotDueMet
        <5>2. Met(p, o)'
          BY <1>3, <3>1, <4>1, <5>1
        <5> QED
          BY <2>3, <3>1, <3>4, <4>1, <5>2 DEF AtHand
      <4> QED
        BY <4>2, <4>3
    <3>5. CASE PassOver(p)
      BY <2>2, <3>1, <3>5 DEF AtHand
    <3>6. \/ owed' = [owed EXCEPT ![p] = owed[p] \ unknown] /\ MoveTo(p, "fetch") /\ UNCHANGED batch
          \/ /\ owed' = [owed EXCEPT ![p] = owed[p] \ unknown] /\ Advance(p)
             /\ Missing(p, listed[p][InHand(p)]) = {} /\ ~Stale(listed[p][InHand(p)], before[p])
          \/ PassOver(p)
      BY <2>7 DEF EnrichRecord
    <3> QED
      BY <3>3, <3>4, <3>5, <3>6
  <2>8. CASE GetByID(p)
    <3>1. place[p] = "fetch" /\ UNCHANGED <<before, cursor>>
      BY <2>8 DEF GetByID
    <3>2. CASE PassOver(p)
      BY <2>2, <3>1, <3>2 DEF AtHand
    <3>3. CASE MoveTo(p, "write") /\ UNCHANGED <<batch, stamp, owed>>
      <4>1. place'[p] = "write" /\ UNCHANGED <<listed, short, answers, cursor, before, owed>>
        BY <1>2, <3>1, <3>3 DEF MoveTo, batch
      <4>2. InHand(p)' = InHand(p) /\ o \in owed[p]
        BY <4>1, SameHand
      <4>3. StillAhead(p, o[1]) => StillAhead(p, o[1])'
        BY <3>1, <4>1 DEF StillAhead
      <4> QED
        BY <1>3, <3>1, <4>1, <4>2, <4>3 DEF Writing
    <3> QED
      BY <2>8, <3>2, <3>3 DEF GetByID
  <2>9. CASE UpdateActivityData(p)
    <3>1. place[p] = "write" /\ UNCHANGED <<before, cursor, overlapped>>
      BY <2>9 DEF UpdateActivityData
    <3>2. CASE PassOver(p)
      BY <2>2, <3>1, <3>2 DEF AtHand
    <3>3. CASE data' = [data EXCEPT ![InHand(p)] = Merged(p)] /\ Advance(p) /\ owed' = owed
      <4>1. o \in owed[p]
        BY <3>3
      <4>2. CASE o[1] # InHand(p)
        BY <2>1, <3>1, <3>3, <4>1, <4>2 DEF AtHand
      <4>3. CASE o[1] = InHand(p)
        <5>1. o[2] \in answers[p].told \cup {"fresh"}
          BY <1>3, <3>1, <4>1, <4>3 DEF Writing
        <5>2. data'[InHand(p)] = Merged(p)
          BY <1>1, <3>1, <3>3, InHandIs DEF AtHand, RunShape, TableShape
        <5>3. Met(p, o)'
          BY <1>1, <3>1, <4>1, <4>3, <5>1, <5>2, WrittenMet
        <5> QED
          BY <2>3, <3>1, <3>3, <4>1, <5>3 DEF AtHand
      <4> QED
        BY <4>2, <4>3
    <3> QED
      BY <2>9, <3>2, <3>3 DEF UpdateActivityData
  <2>10. CASE End(p)
    <3>1. owed'[p] = {}
      BY <1>2, <2>10 DEF End
    <3> QED
      BY <3>1
  <2> HIDE DEF Goal
  <2> QED
    BY <1>7, <2>4, <2>5, <2>6, <2>7, <2>8, <2>9, <2>10, ActIs
<1> HIDE DEF Goal
<1>8. Goal
  BY <1>5, <1>6, <1>7, EnrichmentStepIs
<1> QED
  BY <1>8 DEF Goal

LEMMA CompletionStays ==
    ASSUME CompletionInv, UNCHANGED enrichmentVars
    PROVE  CompletionInv'
<1>1. UNCHANGED <<data, place, before, cursor, listed, short, answers, overlapped, owed>>
  BY DEF enrichmentVars, batch
<1>2. \A p \in Run : InHand(p)' = InHand(p)
  BY <1>1 DEF InHand
<1>3. SeenInv'
  BY <1>1 DEF CompletionInv, SeenInv
<1>4. \A p \in Run : \A o \in owed[p] : Met(p, o) => Met(p, o)'
  BY <1>1 DEF Met
<1>5. \A p \in Run : \A r : StillAhead(p, r) => StillAhead(p, r)'
  BY <1>1 DEF StillAhead
<1>6. \A r : Exists(r) => Exists(r)'
  BY <1>1 DEF Exists
<1>7. OwedInv'
  <2> SUFFICES ASSUME NEW p \in Run, NEW o \in owed[p]
               PROVE  /\ Exists(o[1])'
                      /\ Met(p, o)' \/ StillAhead(p, o[1])'
                      /\ place'[p] \in Writing /\ o[1] = InHand(p)' =>
                            o[2] \in answers'[p].told \cup {"fresh"}
    BY <1>1 DEF OwedInv
  <2>1. /\ Exists(o[1])
        /\ Met(p, o) \/ StillAhead(p, o[1])
        /\ place[p] \in Writing /\ o[1] = InHand(p) => o[2] \in answers[p].told \cup {"fresh"}
    BY DEF CompletionInv, OwedInv
  <2> QED
    BY <1>1, <1>2, <1>4, <1>5, <1>6, <2>1
<1> QED
  BY <1>3, <1>7, RecordStays DEF CompletionInv

LEMMA CompletionInit == EnrichmentInit => CompletionInv
<1> SUFFICES ASSUME EnrichmentInit PROVE CompletionInv
  OBVIOUS
<1>1. \A p \in Run : owed[p] = {} /\ DOMAIN listed[p] = {}
  BY DEF EnrichmentInit
<1> QED
  BY <1>1, RecordInit DEF CompletionInv, SeenInv, OwedInv

LEMMA CompletionStep == ASSUME CompletionInv, EnrichmentNext PROVE CompletionInv'
  BY RecordStep, SeenStep, OwedStep DEF CompletionInv

LEMMA CompletionInvariant == EnrichmentSpec => []CompletionInv
<1>1. EnrichmentInit => CompletionInv
  BY CompletionInit
<1>2. CompletionInv /\ [EnrichmentNext]_enrichmentVars => CompletionInv'
  BY CompletionStep, CompletionStays
<1> QED
  BY <1>1, <1>2, PTL DEF EnrichmentSpec

\* A run that came to its end left nothing behind: every record that was there when it
\* began was reported as failed, or has the display names the resolvers knew and is
\* not stale, or another run dealt with it at once; whatever was logged meanwhile,
\* whichever way the table filters, and wherever the pages fell.
THEOREM RunCompletesHolds == EnrichmentSpec => []RunCompletes
<1>1. CompletionInv => RunCompletes
  <2> SUFFICES ASSUME CompletionInv, NEW p \in Run, place[p] = "summary", NEW o \in owed[p]
               PROVE  \/ o[1] \in overlapped
                      \/ o[2] \in Display /\ data[o[1]].keys[o[2]] # "none"
                      \/ o[2] = "fresh" /\ ~Stale(data[o[1]], before[p])
    BY DEF RunCompletes
  <2>1. DOMAIN listed[p] = {} /\ short[p]
    BY DEF CompletionInv, RecordInv, ListingShape
  <2>2. ~StillAhead(p, o[1])
    BY <2>1 DEF StillAhead
  <2>3. Met(p, o)
    BY <2>2 DEF CompletionInv, OwedInv
  <2> QED
    BY <2>3 DEF Met
<1> QED
  BY <1>1, CompletionInvariant, PTL
=============================================================================
