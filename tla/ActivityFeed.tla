----------------------------- MODULE ActivityFeed -----------------------------
(* Reading the activity log: the access policy (activity/access_policy.go,      *)
(* filter_helpers.go), the feed and statistics queries (query/), the table       *)
(* (activity/bun_repository.go) and the CRUD service in front of them            *)
(* (crudsvc/activity_service.go), which is also where clients log.  A client     *)
(* reads page after page, while records are logged.                               *)
EXTENDS Naturals, Sequences, FiniteSets, FiniteSetsExt

CONSTANTS
    Req,          \* requests, each runs once
    Actor, Tenant, Channel,
    Kind,         \* what verbs, objects, times and keywords tell apart
    DefaultLimit, MaxLimit,
    Elsewhere,    \* the records other parts may log, whose time is given to them
    MaxLog,       \* how many records there may be
    MaxTime,      \* bound of the clock
    Faults        \* which of "error", "lost_reply" may happen

ASSUME FeedAssumption ==
    /\ DefaultLimit \in Nat \ {0} /\ MaxLimit \in Nat /\ DefaultLimit <= MaxLimit
    /\ MaxLog \in Nat /\ MaxTime \in Nat \ {0}
    /\ Faults \subseteq {"error", "lost_reply"}

VARIABLES
    policy,     \* what the host configured
    dialect,    \* "pg" or "other"
    job, pc,
    log,        \* the table, in the order of insertion
    now,
    filter,     \* per request: the filter the table is asked with
    offset,     \* per request: where its page begins
    page,       \* per request: the rows of the page, or nothing before it is read
    total,      \* per request: the count that goes with it, or nothing
    shown,      \* per request: what the client has seen, see Seen
    counted,    \* per request: the records its statistics count
    again,      \* history: per request, records it was shown twice
    known,      \* history: per request, how many records there were when it began
    outrun      \* history: per request, whether a record was logged after a page
                \* was counted and before it was read

env == <<policy, dialect, job>>
reading == <<filter, offset, page, total, shown, counted, again, known>>
vars == <<policy, dialect, job, pc, log, now, filter, offset, page, total, shown, counted,
          again, known, outrun>>

-----------------------------------------------------------------------------
Id(S) == {{}} \cup {{x} : x \in S}
\* How the data of a record names a machine: by a flag, by the type of the actor, by
\* a nested actor whose first field is the type, or another one.  A "plain" record has
\* none of the keys looked for, that of a "person" all of them, for something else.
Machine == {"flag", "type", "nested", "deep"}
Mark == Machine \cup {"plain", "person"}
Record == [user : Id(Actor), actor : Id(Actor), tenant : Id(Tenant), channel : Channel,
           kind : Kind, mark : Mark, at : 1 .. MaxTime]
ASSUME ElsewhereAssumption == Elsewhere \subseteq Record

Policy == [attached : BOOLEAN,  \* the queries have it, not only the service
           pins : BOOLEAN,      \* the scope resolver keeps actors in their tenant
           allow : SUBSET Channel, deny : SUBSET Channel,
           machines : BOOLEAN,  \* machine activity is shown
           widen : BOOLEAN,     \* superadmins may name another tenant
           selfStats : BOOLEAN, redactIP : BOOLEAN,
           exposure : {"none", "sanitized", "all"}]

Credentials == [id : Actor, role : {"superadmin", "admin", "support", "member"},
                tenant : Id(Tenant)]
Superadmin(c) == c.role = "superadmin"
Admin(c) == Superadmin(c) \/ c.role = "admin"
Support(c) == c.role = "support"

\* A filter; no channels and no kinds mean all of them.
Filter == [tenant : Id(Tenant), user : Id(Actor), actor : Id(Actor),
           channels : SUBSET Channel, deny : SUBSET Channel, kinds : SUBSET Kind,
           machines : BOOLEAN]
Blank == [tenant |-> {}, user |-> {}, actor |-> {}, channels |-> {}, deny |-> {},
          kinds |-> {}, machines |-> TRUE]

\* The service lets nobody name a tenant; statistics know no channels.
Job == [op : {"index", "feed", "stats"}, as : Credentials, ask : Filter, limit : Nat]
    \cup [op : {"create"}, as : Credentials, record : Record]

\* A record as the client sees it: its place in the log, its data and its address.
Seen == [place : 1 .. MaxLog, data : {"raw", "masked", "twice", "dropped"}, ip : BOOLEAN]

-----------------------------------------------------------------------------
(* The access policy *)

\* At most one scope: none if another one was asked for than the actor's.
IntersectScopes(base, asked) ==
    IF base # {} /\ asked # {} /\ base # asked THEN {}
    ELSE {IF asked # {} THEN asked ELSE base}

\* At most one set of channels: those asked for that are allowed, unless none is left.
ApplyChannelOptions(f) ==
    LET wanted == IF policy.allow = {} THEN f.channels
                  ELSE IF f.channels = {} THEN policy.allow
                  ELSE f.channels \cap policy.allow
        left == wanted \ (policy.deny \cup f.deny)
    IN IF left = {} /\ (policy.allow # {} \/ f.channels # {}) THEN {} ELSE {left}

\* Bug: whoever asks for another's records is not held to its own.
OwnUnlessAsked(c, asked) == IF asked = {} THEN {c.id} ELSE asked

\* Others than admins read their own records.
Own(c, asked) == IF Admin(c) THEN asked ELSE {c.id}

\* Superadmins may be let name any scope.
ScopesFor(c, f) ==
    IF Superadmin(c) /\ policy.widen THEN {f.tenant} ELSE IntersectScopes(c.tenant, f.tenant)

Narrowed(c, f, tenant, channels) ==
    [f EXCEPT !.tenant = tenant, !.user = Own(c, f.user), !.actor = Own(c, f.actor),
              !.channels = channels, !.deny = policy.deny \cup f.deny,
              !.machines = IF policy.machines \/ Superadmin(c) THEN @ ELSE FALSE]

\* At most one filter.
BuildFilterFromActor(c, f) ==
    {Narrowed(c, f, tenant, channels) :
        tenant \in ScopesFor(c, f), channels \in ApplyChannelOptions(f)}

\* Bug: the statistics keep the users asked for.
StatsOfAnyone(f, g) ==
    [f EXCEPT !.tenant = g.tenant, !.machines = g.machines]

\* Of the filter the policy makes of the scope alone, statistics take the scope, the
\* machine rules and, if so configured, the users.
StatsOf(f, g) ==
    [f EXCEPT !.tenant = g.tenant, !.machines = g.machines,
              !.user = IF policy.selfStats THEN g.user ELSE @,
              !.actor = IF policy.selfStats THEN g.actor ELSE @]

ApplyStats(c, f) ==
    {StatsOf(f, g) : g \in BuildFilterFromActor(c, [Blank EXCEPT !.tenant = f.tenant])}

\* Masking hashes what it finds, also what it hashed before.
SanitizeRecord(data) == IF data = "raw" THEN "masked" ELSE IF data = "masked" THEN "twice" ELSE data

\* Bug: support agents are spared the masks, whatever the exposure.
ExposedAny(c, data) == IF Support(c) /\ policy.exposure # "none" THEN data ELSE SanitizeRecord(data)

Exposed(c, data) ==
    IF ~Support(c) \/ policy.exposure = "sanitized" THEN SanitizeRecord(data)
    ELSE IF policy.exposure = "all" THEN data ELSE "dropped"

Sanitize(c, s) ==
    [s EXCEPT !.data = Exposed(c, @), !.ip = @ /\ (Superadmin(c) \/ ~policy.redactIP)]

-----------------------------------------------------------------------------
(* The table *)

\* On PostgreSQL, what a missing key compares to is unknown, and the negation of it too;
\* elsewhere the text of the data is searched.
LooksLikeMachine(r) ==
    IF dialect = "pg" THEN r.mark # "person" ELSE r.mark \in {"flag", "type", "nested"}

\* With both a user and an actor, either will do.
ActorMatches(f, r) ==
    IF f.user # {} /\ f.actor # {} THEN r.user = f.user \/ r.actor = f.actor
    ELSE f.user \in {{}, r.user} /\ f.actor \in {{}, r.actor}

StatsMatches(f, r) ==
    /\ f.tenant \in {{}, r.tenant}
    /\ ActorMatches(f, r)
    /\ f.kinds = {} \/ r.kind \in f.kinds
    /\ f.machines \/ ~LooksLikeMachine(r)

Matches(f, r) ==
    /\ StatsMatches(f, r)
    /\ f.channels = {} \/ r.channel \in f.channels
    /\ r.channel \notin f.deny

NormalizeLimit(n) == IF n = 0 THEN DefaultLimit ELSE Min({n, MaxLimit})

-----------------------------------------------------------------------------
Goto(p, place) == pc' = [pc EXCEPT ![p] = place]
ResolveScope(c, asked) == IF policy.pins THEN c.tenant ELSE asked

Init ==
    /\ policy \in Policy /\ dialect \in {"pg", "other"}
    /\ job \in [Req -> Job]
    /\ \A p \in Req : job[p].op = "index" => job[p].ask.tenant = {} /\ job[p].ask.machines
    /\ log \in Seq(Record) /\ Len(log) <= MaxLog
    /\ now = 1
    /\ pc = [p \in Req |-> "idle"]
    /\ filter = [p \in Req |-> Blank]
    /\ offset = [p \in Req |-> 0]
    /\ page = [p \in Req |-> {}]
    /\ total = [p \in Req |-> {}]
    /\ shown = [p \in Req |-> {}]
    /\ counted = [p \in Req |-> {}]
    /\ again = [p \in Req |-> {}]
    /\ known = [p \in Req |-> 0]
    /\ outrun = [p \in Req |-> FALSE]

Tick ==
    /\ now < MaxTime /\ now' = now + 1
    /\ UNCHANGED <<env, pc, log, reading, outrun>>

Start(p) ==
    /\ pc[p] = "idle"
    /\ Goto(p, IF job[p].op = "create" THEN "create" ELSE "ask")
    /\ known' = [known EXCEPT ![p] = Len(log)]
    /\ UNCHANGED <<env, log, now, filter, offset, page, total, shown, counted, again, outrun>>

-----------------------------------------------------------------------------
(* Logging *)

Insert(r) ==
    /\ Len(log) < MaxLog
    /\ log' = Append(log, r)
    /\ outrun' = [p \in Req |-> outrun[p] \/ (total[p] # {} /\ page[p] = {})]

\* Any other part logs too, sometimes what happened before.
LogElsewhere ==
    /\ \E r \in Elsewhere, t \in 1 .. now : Insert([r EXCEPT !.at = t])
    /\ UNCHANGED <<env, pc, now, reading>>

\* A client may say when, who and what; who did it and where are the client's own.
Stamped(r, c, tenant) == [r EXCEPT !.actor = {c.id}, !.tenant = tenant]

\* A support agent logs about itself or nobody.
MayLog(c, r) == Support(c) => r.user \in {{}, {c.id}}

\* The service, the command, the enricher and the table.  The guard sees the actor's
\* tenant where the payload names none.
Create(p) ==
    /\ pc[p] = "create"
    /\ LET c == job[p].as
           r == job[p].record
           tenant == ResolveScope(c, IF r.tenant = {} THEN c.tenant ELSE r.tenant)
       IN /\ MayLog(c, r) /\ r.at <= now
          /\ Insert(Stamped(r, c, tenant))
    /\ \/ Goto(p, "done")
       \/ "lost_reply" \in Faults /\ Goto(p, "failed")
    /\ UNCHANGED <<env, now, reading>>

\* No actor, the host's policy, the access policy, or an enricher that fails.
Refuse(p) ==
    /\ pc[p] \in {"create", "ask"}
    /\ Goto(p, "refused")
    /\ UNCHANGED <<env, log, now, reading, outrun>>

-----------------------------------------------------------------------------
(* Reading *)

\* What the service makes of a request before it calls the query.
Served(c, f) ==
    BuildFilterFromActor(c, [f EXCEPT !.tenant = ResolveScope(c, c.tenant)])

\* The policy of the queries, then the guard.
Guarded(c, filters) == {[f EXCEPT !.tenant = ResolveScope(c, @)] : f \in filters}

Filters(p) ==
    LET c == job[p].as
        asked == IF job[p].op = "index" THEN Served(c, job[p].ask) ELSE {job[p].ask}
    IN Guarded(c, IF ~policy.attached THEN asked
                  ELSE UNION {IF job[p].op = "stats" THEN ApplyStats(c, f)
                              ELSE BuildFilterFromActor(c, f) : f \in asked})

Ask(p) ==
    /\ pc[p] = "ask"
    /\ \E f \in Filters(p) : filter' = [filter EXCEPT ![p] = f]
    /\ Goto(p, IF job[p].op = "stats" THEN "count" ELSE "list")
    /\ UNCHANGED <<env, log, now, offset, page, total, shown, counted, again, known, outrun>>

Found(p) == {i \in DOMAIN log : Matches(filter[p], log[i])}
NewerOrSame(A, B) == \A i \in A, j \in B : log[i].at >= log[j].at
Limit(p) == NormalizeLimit(job[p].limit)

\* The rows and their count are two statements, in any order.  Rows of one time come in
\* any order, too.
SelectRows(p) ==
    /\ pc[p] = "list" /\ page[p] = {}
    /\ \E skipped \in SUBSET Found(p) : \E rows \in SUBSET (Found(p) \ skipped) :
           /\ Cardinality(skipped) = Min({offset[p], Cardinality(Found(p))})
           /\ Cardinality(rows) = Min({Limit(p), Cardinality(Found(p) \ skipped)})
           /\ NewerOrSame(skipped, Found(p) \ skipped)
           /\ NewerOrSame(rows, Found(p) \ (skipped \cup rows))
           /\ page' = [page EXCEPT ![p] = {rows}]
    /\ UNCHANGED <<env, pc, log, now, filter, offset, total, shown, counted, again, known,
                   outrun>>

CountRows(p) ==
    /\ pc[p] = "list" /\ total[p] = {}
    /\ total' = [total EXCEPT ![p] = {Cardinality(Found(p))}]
    /\ UNCHANGED <<env, pc, log, now, filter, offset, page, shown, counted, again, known,
                   outrun>>

\* A record as the query, then the service, sanitizes it.
AsShown(p, i) ==
    LET c == job[p].as
        raw == [place |-> i, data |-> "raw", ip |-> TRUE]
        queried == IF policy.attached THEN Sanitize(c, raw) ELSE raw
    IN IF job[p].op = "index" THEN Sanitize(c, queried) ELSE queried

\* Bug: the next page begins after the limit that was asked for.
NextOffsetAsked(p) == offset[p] + job[p].limit

NextOffset(p) == offset[p] + Limit(p)

\* The client sees the page and asks for the next one, from scratch, if there is more.
ShowPage(p) ==
    /\ pc[p] = "list"
    /\ \E rows \in page[p], n \in total[p] :
           /\ shown' = [shown EXCEPT ![p] = @ \cup {AsShown(p, i) : i \in rows}]
           /\ again' = [again EXCEPT ![p] = @ \cup {i \in rows : \E s \in shown[p] : s.place = i}]
           /\ IF NextOffset(p) < n
              THEN Goto(p, "ask") /\ offset' = [offset EXCEPT ![p] = NextOffset(p)]
              ELSE Goto(p, "done") /\ UNCHANGED offset
    /\ page' = [page EXCEPT ![p] = {}]
    /\ total' = [total EXCEPT ![p] = {}]
    /\ UNCHANGED <<env, log, now, filter, counted, known, outrun>>

\* Statistics are one statement.
ActivityStats(p) ==
    /\ pc[p] = "count"
    /\ counted' = [counted EXCEPT ![p] = {i \in DOMAIN log : StatsMatches(filter[p], log[i])}]
    /\ Goto(p, "done")
    /\ UNCHANGED <<env, log, now, filter, offset, page, total, shown, again, known, outrun>>

Fail(p) ==
    /\ pc[p] \in {"create", "list", "count"}
    /\ "error" \in Faults
    /\ Goto(p, "failed")
    /\ UNCHANGED <<env, log, now, reading, outrun>>

Next ==
    \/ Tick \/ LogElsewhere
    \/ \E p \in Req :
           \/ Start(p) \/ Create(p) \/ Refuse(p) \/ Ask(p) \/ SelectRows(p) \/ CountRows(p)
           \/ ShowPage(p) \/ ActivityStats(p) \/ Fail(p)

Spec == Init /\ [][Next]_vars
-----------------------------------------------------------------------------
(* Properties *)

\* Every variable keeps its shape.
TypeOK ==
    /\ Len(log) <= MaxLog /\ \A i \in DOMAIN log : log[i] \in Record
    /\ now \in 1 .. MaxTime
    /\ pc \in [Req -> {"idle", "create", "ask", "list", "count", "done", "refused", "failed"}]
    /\ filter \in [Req -> Filter]
    /\ \A p \in Req : /\ offset[p] \in 0 .. MaxLog
                      /\ \A rows \in page[p] : Cardinality(rows) <= MaxLimit
                      /\ shown[p] \subseteq Seen
                      /\ counted[p] \subseteq DOMAIN log /\ again[p] \subseteq DOMAIN log

\* The access policy has its say on request p.
Watched(p) == job[p].op = "index" \/ policy.attached

\* What the documentation promises of an actor's view, without the channels.
Within(c, r) ==
    /\ c.tenant \in {{}, r.tenant} \/ (Superadmin(c) /\ policy.widen /\ ~policy.pins)
    /\ policy.machines \/ Superadmin(c) \/ r.mark \notin Machine
        \/ (dialect = "other" /\ r.mark = "deep")
IsOwn(c, r) == {c.id} \in {r.user, r.actor}
OpenChannel(r) == (policy.allow = {} \/ r.channel \in policy.allow) /\ r.channel \notin policy.deny

\* Whatever a request names as users, channels, exceptions or tenant, and however often
\* the policy is applied on the way, the client is shown only records of its own tenant,
\* its own records unless it is an admin, and no record of a closed channel or of a
\* machine the database recognises.
ShownIsAllowed ==
    \A p \in Req : Watched(p) => \A s \in shown[p] :
        LET c == job[p].as  r == log[s.place] IN
        Within(c, r) /\ OpenChannel(r) /\ (Admin(c) \/ IsOwn(c, r))

\* Nobody sees data as it was logged, but a support agent of a host that chose so, and a
\* support agent sees none unless the host chose so; addresses are for superadmins.
SecretsMasked ==
    \A p \in Req : Watched(p) => \A s \in shown[p] :
        LET c == job[p].as IN
        /\ s.data = "raw" => Support(c) /\ policy.exposure = "all"
        /\ Support(c) /\ policy.exposure = "none" => s.data = "dropped"
        /\ s.ip => Superadmin(c) \/ ~policy.redactIP

\* What request p asks for, and the policy lets it have.
Wanted(p, r) ==
    LET c == job[p].as  ask == job[p].ask IN
    /\ IF Watched(p) THEN Within(c, r) /\ OpenChannel(r) /\ (Admin(c) \/ IsOwn(c, r)) ELSE TRUE
    /\ (IF policy.pins \/ job[p].op = "index" THEN c.tenant ELSE ask.tenant) \in {{}, r.tenant}
    /\ ask.machines \/ ~LooksLikeMachine(r)
    /\ ask.kinds = {} \/ r.kind \in ask.kinds
    /\ ask.channels = {} \/ r.channel \in ask.channels
    /\ r.channel \notin ask.deny
    /\ ~Watched(p) \/ Admin(c) => ActorMatches(ask, r)
    /\ dialect = "other" \/ policy.machines \/ Superadmin(c) \/ ~Watched(p) \/ r.mark = "person"

SameTime(i) == \E j \in DOMAIN log \ {i} : log[j].at = log[i].at

\* A client that read to the end has seen every record it asked for and may have that was
\* there when it began, however many were logged on the way, and saw one twice only if
\* some were; but for records of the same time, which come in any order, and
\* a record logged after a page was counted and before it was read.
PagesMissNothing ==
    \A p \in Req : pc[p] = "done" /\ job[p].op \in {"index", "feed"} =>
        /\ \A i \in 1 .. known[p] : Wanted(p, log[i]) =>
               outrun[p] \/ SameTime(i) \/ \E s \in shown[p] : s.place = i
        /\ \A i \in again[p] : Len(log) > known[p] \/ SameTime(i)

\* What the statistics of request p are about: records of the actor's tenant and the one
\* asked for, of the kinds asked for, of any channel.  Of which users is the request's to
\* say, and anybody may count anybody's; but with self-only statistics an admin counts
\* everybody's and others their own, whatever they ask.  Machines are hidden by the
\* policy alone, as the database tells them.
Countable(p, r) ==
    LET c == job[p].as  ask == job[p].ask IN
    /\ Within(c, r)
    /\ (IF policy.pins THEN c.tenant ELSE ask.tenant) \in {{}, r.tenant}
    /\ ask.kinds = {} \/ r.kind \in ask.kinds
    /\ IF policy.selfStats THEN Admin(c) \/ IsOwn(c, r) ELSE ActorMatches(ask, r)
    /\ policy.machines \/ Superadmin(c) \/ ~LooksLikeMachine(r)

\* Under a policy, statistics count no other records than those they are about, and every
\* one of these that was there when the request came, however the scopes of the actor,
\* the request, the policy and the guard differ and whatever is logged meanwhile.
StatsAreExact ==
    \A p \in Req : job[p].op = "stats" /\ policy.attached =>
        /\ \A i \in counted[p] : Countable(p, log[i])
        /\ pc[p] = "done" => \A i \in 1 .. known[p] : Countable(p, log[i]) => i \in counted[p]

=============================================================================
