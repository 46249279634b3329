----------------------------- MODULE CrudServices -----------------------------
(* The CRUD services for users, roles and preferences (crudsvc/), the adapter  *)
(* that authorises them (crudguard/), the scope guard (scope/), and the bulk    *)
(* commands, which are called without the adapter.  A request works through its *)
(* items; each is authorised by the service and again by the command or query  *)
(* behind it, then written or read, then logged.  What the repositories do       *)
(* between reading and writing one row is left to UserAccount, RoleRegistry and *)
(* Preferences.                                                                  *)
EXTENDS Naturals, Sequences, FiniteSets

CONSTANTS
    Req,        \* requests, each runs once
    User, Role, Tenant,
    Support,    \* the users who act as support agents
    MaxItems,   \* length of the longest batch
    Faults      \* which of "error", "lost_reply", "crash" may happen

ASSUME CrudAssumption ==
    /\ Support \subseteq User
    /\ MaxItems \in Nat \ {0}
    /\ Faults \subseteq {"error", "lost_reply", "crash"}

VARIABLES
    users,      \* the user table: per user its status, or "absent"
    roles,      \* the rows of the role table
    prefs,      \* the rows of the preference table, for one key
    home,       \* per user: the tenant its credentials name
    pins,       \* whether the host's scope resolver keeps actors in their tenant
    job, pc,
    at,         \* per request: the item it works on
    scope,      \* per request: the scope the service got from the guard
    cmd,        \* per request: the scope the command got from the guard
    results,    \* per request: the outcome of each item it is through with
    seen,       \* per request: what its answer shows
    total,      \* per request: how many records the answer counts
    granted,    \* history: per request, the checks the host's policy passed
    effects,    \* history: items that took effect, and in which scope
    log         \* the activity records

env == <<home, pins, job>>
tables == <<users, roles, prefs>>
answers == <<seen, total>>
vars == <<users, roles, prefs, home, pins, job, pc, at, scope, cmd, results, seen, total,
          granted, effects, log>>

-----------------------------------------------------------------------------
Id(S) == {{}} \cup {{x} : x \in S}
Status == {"pending", "active", "suspended", "disabled", "archived"}
RoleRow == [id : Id(Role) \ {{}}, tenant : Id(Tenant)]
\* A row of the tenant level carries no user, the one of the system level neither
\* user nor tenant.
PrefRow == [id : Id(User), tenant : Id(Tenant)]
SystemRow == [id |-> {}, tenant |-> {}]

Creates == {"user.create", "user.invite", "user.import", "role.create"}
Lists == {"user.index", "role.index", "pref.index"}
Reads == Lists \cup {"user.show", "role.show", "pref.show"}
Bulk == {"user.import", "user.transition"}
UserOps == {"user.create", "user.invite", "user.update", "user.delete", "user.delete_batch",
            "user.index", "user.show"} \cup Bulk
RoleOps == {"role.create", "role.update", "role.delete", "role.index", "role.show"}
PrefOps == {"pref.upsert", "pref.delete", "pref.index", "pref.show"}
Batches == Bulk \cup {"user.create", "user.invite", "user.update", "user.delete_batch",
                      "pref.upsert", "pref.delete"}

Level == {"user", "tenant", "system"}
Item == [id : Id(User) \cup Id(Role), tenant : Id(Tenant), level : Level]
Items == UNION {[1 .. n -> Item] : n \in 0 .. MaxItems}
\* keepOn: ContinueOnError of an import, ~StopOnError of a transition.
Jobs == [op : UserOps \cup RoleOps \cup PrefOps, actor : Id(User), items : Items,
         keepOn : BOOLEAN, dry : BOOLEAN, to : Status]
\* Nobody names what its request has no use for; a preference to be shown is named
\* by its row, not by a level.
IsJob(j) ==
    /\ j.op \notin Batches => Len(j.items) = 1
    /\ \A i \in DOMAIN j.items : LET item == j.items[i] IN
           /\ item.level # "user" => j.op \in PrefOps \ {"pref.show"}
           /\ item.id # {} \/ item.level # "user" \/ j.op \in Lists \cup {"pref.show"}
           /\ item.id \in Id(IF j.op \in RoleOps THEN Role ELSE User)
           /\ j.op \in UserOps \ Bulk \/ j.op \in {"role.index", "role.show"}
                  => item.tenant = {}
           /\ j.op \in Bulk => item.tenant = j.items[1].tenant
    /\ j.keepOn => j.op \in Bulk
    /\ j.dry => j.op = "user.import"
    /\ j.to = "archived" \/ j.op = "user.transition"

IsSupport(p) == job[p].actor # {} /\ job[p].actor \subseteq Support
This(p) == job[p].items[at[p]]
Action(p) == [on |-> IF job[p].op \in UserOps THEN "users"
                     ELSE IF job[p].op \in RoleOps THEN "roles" ELSE "preferences",
              verb |-> IF job[p].op \in Reads THEN "read" ELSE "write"]
Target(p) == IF job[p].op \in Creates \cup Lists THEN {} ELSE This(p).id
Home(p) == UNION {home[u] : u \in job[p].actor}
MergeScopeFilters(base, override) == IF override = {} THEN base ELSE override

\* The host's resolver either takes the scope as asked for, or knows better.
ResolveScope(p, asked) == IF pins THEN Home(p) ELSE asked

\* Bug: only reading is limited.
RowAccessReads(p) ==
    job[p].op \in {"user.show", "pref.show"} /\ IsSupport(p) => This(p).id = job[p].actor

\* A support agent may only name itself.
RowAccess(p) ==
    job[p].op \in {"user.update", "user.delete", "user.delete_batch", "user.show",
                   "pref.upsert", "pref.delete", "pref.show"} /\ IsSupport(p) =>
        This(p).id = job[p].actor

ShownUser(p, u) == [id |-> u, tenant |-> {}, masked |-> IsSupport(p) /\ u # job[p].actor]

\* The row a preference of this level is kept in: whatever the scope, those of the
\* system level are in one row.
PrefKey(level, user, s) ==
    [id |-> IF level = "user" THEN user ELSE {}, tenant |-> IF level = "system" THEN {} ELSE s]

\* A user's preference needs a user, a tenant's needs a tenant.
Identified(level, row) ==
    /\ level = "user" => row.id # {}
    /\ level = "tenant" => row.tenant # {}

ShownRow(row) == [id |-> row.id, tenant |-> row.tenant, masked |-> FALSE]

-----------------------------------------------------------------------------
InFlight(p) == pc[p] \notin {"idle", "done", "crashed"}
Goto(p, place) == pc' = [pc EXCEPT ![p] = place]
Entry(p) == IF job[p].op \in Bulk THEN "command" ELSE "check"
Pass(p, s) ==
    granted' = [granted EXCEPT ![p] = @ \cup
                   {[action |-> Action(p), scope |-> s, target |-> Target(p)]}]

\* Bug: a batch that is to go on after an error stops at it.
KeepsGoingNever(p) == FALSE

\* Deleting a batch of users goes on after an error, once all were let through.
KeepsGoing(p) == job[p].keepOn \/ job[p].op = "user.delete_batch"

\* The item at hand came to this outcome; the next one, or the end.  An error
\* leaves the answer without records.
Settle(p, outcome) ==
    LET all == Append(results[p], outcome) IN
    /\ results' = [results EXCEPT ![p] = all]
    /\ IF at[p] < Len(job[p].items) /\ (outcome = "ok" \/ KeepsGoing(p))
       THEN /\ at' = [at EXCEPT ![p] = @ + 1]
            /\ Goto(p, IF KeepsGoing(p) THEN "command" ELSE Entry(p))
            /\ UNCHANGED seen
       ELSE /\ Goto(p, "done")
            /\ seen' = IF job[p].op \in {"user.create", "user.invite", "user.update"} /\ outcome = "ok"
                       THEN [seen EXCEPT ![p] = {ShownUser(p, job[p].items[i].id) :
                                                     i \in DOMAIN all}]
                       ELSE seen
            /\ UNCHANGED at

\* Reading ends a request.
Show(p, shown, count) ==
    /\ Goto(p, "done")
    /\ results' = [results EXCEPT ![p] = <<"ok">>]
    /\ seen' = [seen EXCEPT ![p] = shown]
    /\ total' = [total EXCEPT ![p] = count]
    /\ UNCHANGED at

Init ==
    /\ home \in [User -> Id(Tenant)]
    /\ pins \in BOOLEAN
    /\ job \in [Req -> Jobs] /\ \A p \in Req : IsJob(job[p])
    /\ users \in [User -> Status \cup {"absent"}]
    /\ roles \in SUBSET RoleRow
    /\ \A r, s \in roles : r.id = s.id => r = s
    /\ prefs \in SUBSET PrefRow
    /\ pc = [p \in Req |-> "idle"]
    /\ at = [p \in Req |-> 1]
    /\ scope = [p \in Req |-> {}]
    /\ cmd = [p \in Req |-> {}]
    /\ results = [p \in Req |-> <<>>]
    /\ seen = [p \in Req |-> {}]
    /\ total = [p \in Req |-> 0]
    /\ granted = [p \in Req |-> {}]
    /\ effects = {} /\ log = {}

\* A bulk command is given its scope by its caller, and wants an actor first.  An
\* empty batch is an error to the bulk commands and to the deletion of users.
Start(p) ==
    /\ pc[p] = "idle"
    /\ IF job[p].items = <<>> \/ (job[p].op \in Bulk /\ job[p].actor = {})
       THEN Goto(p, "done") /\ UNCHANGED scope
       ELSE /\ Goto(p, IF job[p].op = "pref.show" THEN "fetch" ELSE Entry(p))
            /\ scope' = [scope EXCEPT ![p] =
                            IF job[p].op \in Bulk THEN This(p).tenant ELSE {}]
    /\ UNCHANGED <<env, tables, at, cmd, results, answers, granted, effects, log>>

\* What follows when the service lets a request through.
NextCheck(p) ==
    IF job[p].op = "user.delete_batch" /\ at[p] < Len(job[p].items) THEN "check"
    ELSE IF job[p].op \in {"user.show", "pref.index", "pref.show"} THEN "read"
    ELSE "command"

RowNamed(p) == [id |-> This(p).id, tenant |-> This(p).tenant]

\* A preference is read before its scope can be checked.
FetchPreference(p) ==
    /\ pc[p] = "fetch"
    /\ IF RowNamed(p) \in prefs
       THEN Goto(p, "check") /\ UNCHANGED <<at, results, seen>>
       ELSE Settle(p, "missing")
    /\ UNCHANGED <<env, tables, scope, cmd, total, granted, effects, log>>

\* A request that is refused here, or has no actor, ends; a batch of users to be
\* deleted ends as a whole, and goes on with the scope of its first user.
Refuse(p) ==
    /\ pc[p] = "check"
    /\ IF job[p].op = "user.delete_batch"
       THEN Goto(p, "done") /\ UNCHANGED <<at, results, seen>>
       ELSE Settle(p, "denied")
    /\ UNCHANGED <<env, tables, scope, cmd, total, granted, effects, log>>

Enforce(p) ==
    /\ pc[p] = "check" /\ job[p].actor # {}
    /\ RowAccess(p)
    /\ LET s == ResolveScope(p, MergeScopeFilters(Home(p), This(p).tenant)) IN
       /\ Pass(p, s)
       /\ scope' = [scope EXCEPT ![p] = IF at[p] = 1 \/ job[p].op # "user.delete_batch"
                                        THEN s ELSE @]
    /\ Goto(p, NextCheck(p))
    /\ at' = [at EXCEPT ![p] = IF job[p].op # "user.delete_batch" THEN @
                               ELSE IF NextCheck(p) = "check" THEN @ + 1 ELSE 1]
    /\ UNCHANGED <<env, tables, cmd, results, answers, effects, log>>

\* Commands and queries authorise on their own.  This also stands for the feature
\* gate of UserInvite and for an input that does not validate.
RefuseCommand(p) ==
    /\ pc[p] = "command"
    /\ Settle(p, "denied")
    /\ UNCHANGED <<env, tables, scope, cmd, total, granted, effects, log>>

EnforceCommand(p) ==
    /\ pc[p] = "command" /\ job[p].actor # {}
    /\ LET s == ResolveScope(p, scope[p]) IN
       /\ Pass(p, s)
       /\ cmd' = [cmd EXCEPT ![p] = s]
    /\ Goto(p, IF job[p].op \in Reads THEN "read" ELSE "write")
    /\ UNCHANGED <<env, tables, at, scope, results, answers, effects, log>>

-----------------------------------------------------------------------------
(* The repositories *)

\* The statement took effect; its reply may be lost.
Done(p) ==
    /\ effects' = effects \cup {[req |-> p, item |-> at[p], scope |-> cmd[p]]}
    /\ \/ Goto(p, "log") /\ UNCHANGED <<at, results, seen>>
       \/ "lost_reply" \in Faults /\ Settle(p, "error")

\* Bug: the error is swallowed.
RefusedQuietly(p, outcome) == Settle(p, "ok") /\ UNCHANGED <<tables, effects>>

Refused(p, outcome) == Settle(p, outcome) /\ UNCHANGED <<tables, effects>>

Writing(p, ops) ==
    /\ pc[p] = "write" /\ job[p].op \in ops
    /\ UNCHANGED <<env, scope, cmd, total, granted, log>>

NewStatus(p) == IF job[p].op = "user.invite" THEN "pending" ELSE "active"

\* A dry run of an import does not look whether the user exists.
CreateUser(p) ==
    /\ Writing(p, {"user.create", "user.invite", "user.import"})
    /\ \E u \in This(p).id :
           \/ /\ ~job[p].dry /\ users[u] = "absent"
              /\ users' = [users EXCEPT ![u] = NewStatus(p)]
              /\ Done(p) /\ UNCHANGED <<roles, prefs>>
           \/ ~job[p].dry /\ users[u] # "absent" /\ Refused(p, "exists")
           \/ job[p].dry /\ Goto(p, "log") /\ UNCHANGED <<tables, at, results, seen, effects>>

UpdateUser(p) ==
    /\ Writing(p, {"user.update"})
    /\ \E u \in This(p).id :
           IF users[u] = "absent" THEN Refused(p, "missing")
           ELSE Done(p) /\ UNCHANGED tables

Transitions == {<<"pending", "active">>, <<"pending", "disabled">>, <<"active", "suspended">>,
                <<"active", "disabled">>, <<"active", "archived">>, <<"suspended", "active">>,
                <<"suspended", "disabled">>, <<"disabled", "archived">>}

\* A deletion archives.
ChangeStatus(p) ==
    /\ Writing(p, {"user.delete", "user.delete_batch", "user.transition"})
    /\ \E u \in This(p).id :
           IF <<users[u], job[p].to>> \in Transitions
           THEN /\ users' = [users EXCEPT ![u] = job[p].to]
                /\ Done(p) /\ UNCHANGED <<roles, prefs>>
           ELSE Refused(p, IF users[u] = "absent" THEN "missing" ELSE "not allowed")

CreateRole(p) ==
    /\ Writing(p, {"role.create"})
    /\ IF \E row \in roles : row.id = This(p).id THEN Refused(p, "exists")
       ELSE /\ roles' = roles \cup {[id |-> This(p).id, tenant |-> cmd[p]]}
            /\ Done(p) /\ UNCHANGED <<users, prefs>>

\* A role is found only in its own scope.
RoleAsked(p) == [id |-> This(p).id, tenant |-> cmd[p]]

UpdateRole(p) ==
    /\ Writing(p, {"role.update"})
    /\ IF RoleAsked(p) \notin roles THEN Refused(p, "missing")
       ELSE Done(p) /\ UNCHANGED tables

DeleteRole(p) ==
    /\ Writing(p, {"role.delete"})
    /\ IF RoleAsked(p) \notin roles THEN Refused(p, "missing")
       ELSE /\ roles' = roles \ {RoleAsked(p)}
            /\ Done(p) /\ UNCHANGED <<users, prefs>>

\* Bug: a preference is stored where the payload says.
PreferenceScopeFirst(p) == This(p).tenant

PreferenceScope(p) == cmd[p]

PreferenceAsked(p) == PrefKey(This(p).level, This(p).id, PreferenceScope(p))

UpsertPreference(p) ==
    /\ Writing(p, {"pref.upsert"})
    /\ IF ~Identified(This(p).level, PreferenceAsked(p)) THEN Refused(p, "invalid")
       ELSE /\ prefs' = prefs \cup {PreferenceAsked(p)}
            /\ Done(p) /\ UNCHANGED <<users, roles>>

DeletePreference(p) ==
    /\ Writing(p, {"pref.delete"})
    /\ IF ~Identified(This(p).level, PreferenceAsked(p)) THEN Refused(p, "invalid")
       ELSE IF PreferenceAsked(p) \notin prefs THEN Refused(p, "missing")
       ELSE /\ prefs' = prefs \ {PreferenceAsked(p)}
            /\ Done(p) /\ UNCHANGED <<users, roles>>

\* Bug: the record names the scope that was asked for.
LoggedScopeAsked(p) == MergeScopeFilters(Home(p), This(p).tenant)

\* Commands on users log on their own, after others the service does.
LoggedScope(p) == IF job[p].op \in UserOps THEN cmd[p] ELSE scope[p]

\* A record that cannot be logged is passed over.
Log(p) ==
    /\ pc[p] = "log"
    /\ \/ log' = log \cup {[req |-> p, item |-> at[p], scope |-> LoggedScope(p)]}
       \/ "error" \in Faults /\ UNCHANGED log
    /\ Settle(p, "ok")
    /\ UNCHANGED <<env, tables, scope, cmd, total, granted, effects>>

-----------------------------------------------------------------------------
(* Reading *)

Reading(p, op) ==
    /\ pc[p] = "read" /\ job[p].op = op
    /\ UNCHANGED <<env, tables, scope, cmd, granted, effects, log>>

\* Whether the store keeps to a filter by user is its own affair: the page of a
\* support agent is sifted.
Sifted(p, page) == IF IsSupport(p) THEN page \cap {job[p].actor} ELSE page

\* A page is whatever the store makes of limit, offset and filters, and the
\* count is the store's, which may not count.
ListUsers(p) ==
    /\ Reading(p, "user.index")
    /\ LET present == {{u} : u \in {v \in User : users[v] # "absent"}} IN
       \E page \in SUBSET present : \E count \in {0, Cardinality(present)} :
           LET shown == Sifted(p, page) IN
           Show(p, {ShownUser(p, u) : u \in shown},
                IF IsSupport(p) \/ count = 0 THEN Cardinality(shown) ELSE count)

GetUser(p) ==
    /\ Reading(p, "user.show")
    /\ \E u \in This(p).id :
           IF users[u] = "absent" THEN Settle(p, "missing") /\ UNCHANGED total
           ELSE Show(p, {ShownUser(p, {u})}, 1)

ListRoles(p) ==
    /\ Reading(p, "role.index")
    /\ LET found == {row \in roles : row.tenant = cmd[p]} IN
       \E page \in SUBSET found :
           Show(p, {ShownRow(row) : row \in page}, Cardinality(found))

GetRole(p) ==
    /\ Reading(p, "role.show")
    /\ IF RoleAsked(p) \in roles THEN Show(p, {ShownRow(RoleAsked(p))}, 1)
       ELSE Settle(p, "missing") /\ UNCHANGED total

\* A support agent asks for its own preferences, whatever the request says, and
\* what it was not to ask for is taken out of the answer.
Whose(p) == IF IsSupport(p) THEN job[p].actor ELSE This(p).id
OwnOnly(p, rows) == {r \in rows : IsSupport(p) => r.id = job[p].actor}

ListPreferences(p) ==
    /\ Reading(p, "pref.index")
    /\ LET row == PrefKey(This(p).level, Whose(p), scope[p])
           shown == OwnOnly(p, prefs \cap {row})
       IN IF ~Identified(This(p).level, row) THEN Settle(p, "invalid") /\ UNCHANGED total
          ELSE Show(p, {ShownRow(r) : r \in shown}, Cardinality(shown))

\* The record that was fetched before.
ShowPreference(p) ==
    /\ Reading(p, "pref.show")
    /\ Show(p, {ShownRow(RowNamed(p))}, 1)

-----------------------------------------------------------------------------
Fail(p) ==
    /\ pc[p] \in {"fetch", "write", "read"}
    /\ "error" \in Faults
    /\ Settle(p, "error")
    /\ UNCHANGED <<env, tables, scope, cmd, total, granted, effects, log>>

Crash(p) ==
    /\ InFlight(p)
    /\ "crash" \in Faults
    /\ Goto(p, "crashed")
    /\ UNCHANGED <<env, tables, at, scope, cmd, results, answers, granted, effects, log>>

Write(p) ==
    CreateUser(p) \/ UpdateUser(p) \/ ChangeStatus(p) \/ CreateRole(p) \/ UpdateRole(p)
        \/ DeleteRole(p) \/ UpsertPreference(p) \/ DeletePreference(p)

Read(p) ==
    ListUsers(p) \/ GetUser(p) \/ ListRoles(p) \/ GetRole(p) \/ ListPreferences(p)
        \/ ShowPreference(p)

Next ==
    \E p \in Req :
        \/ Start(p) \/ FetchPreference(p) \/ Refuse(p) \/ Enforce(p) \/ RefuseCommand(p)
        \/ EnforceCommand(p) \/ Write(p) \/ Log(p) \/ Read(p) \/ Fail(p) \/ Crash(p)

Spec == Init /\ [][Next]_vars

-----------------------------------------------------------------------------
(* Properties *)

\* Every variable keeps its shape.
TypeOK ==
    /\ users \in [User -> Status \cup {"absent"}]
    /\ roles \subseteq RoleRow /\ prefs \subseteq PrefRow
    /\ home \in [User -> Id(Tenant)] /\ pins \in BOOLEAN
    /\ pc \in [Req -> {"idle", "fetch", "check", "command", "write", "log", "read", "done",
                       "crashed"}]
    /\ \A p \in Req : at[p] \in 1 .. MaxItems /\ Len(results[p]) <= MaxItems
    /\ scope \in [Req -> Id(Tenant)] /\ cmd \in [Req -> Id(Tenant)]

\* Request p took this step, with a check of this kind passed before.
By(p, on, s, target) ==
    /\ pc[p] = "write" /\ <<pc[p], results[p]>> # <<pc'[p], results'[p]>>
    /\ \E g \in granted[p] :
           g.action = [on |-> on, verb |-> "write"] /\ g.scope \in s /\ g.target = target

\* Whatever a request changes, its own actor was allowed to write, for just that
\* user or role and in the very tenant the row is kept in; only what did not exist
\* before may have been allowed without being named.  A preference that carries no
\* user is changed for the user the request named, if any, and the row of the system
\* level, which is in no tenant, by a request that asked for that level, in whatever
\* tenant it was allowed to write.
ChangesAuthorised ==
    [][/\ \A u \in User : users'[u] # users[u] =>
              \E p \in Req : By(p, "users", Id(Tenant),
                                IF users[u] = "absent" THEN {} ELSE {u})
       /\ \A row \in (roles \ roles') \cup (roles' \ roles) :
              \E p \in Req : By(p, "roles", {row.tenant}, IF row \in roles THEN row.id ELSE {})
       /\ \A row \in (prefs \ prefs') \cup (prefs' \ prefs) :
              \E p \in Req :
                  /\ By(p, "preferences", IF row = SystemRow THEN Id(Tenant) ELSE {row.tenant},
                        IF row.id = {} THEN Target(p) ELSE row.id)
                  /\ (row = SystemRow) = (This(p).level = "system")
      ]_vars

\* Under a resolver that keeps actors in their tenant, everything takes effect in the
\* actor's tenant, whatever the payload names, and no list shows a role or preference
\* of another one; only who asks for the system level is shown the preferences all
\* tenants share.  Activity is recorded where it took place.
TenantsApart ==
    /\ pins => \A e \in effects : e.scope = Home(e.req)
    /\ pins => \A p \in Req : \A s \in seen[p] :
                   job[p].op \in {"role.index", "role.show", "pref.index"} =>
                       s.tenant = IF job[p].items[1].level = "system" THEN {} ELSE Home(p)
    /\ \A e \in effects, l \in log : e.req = l.req /\ e.item = l.item => e.scope = l.scope

\* A support agent changes no other user and no other user's preferences, sees of
\* others at most that they exist, and cannot count them.
SupportKeepsToItself ==
    \A p \in Req : IsSupport(p) =>
        /\ \A e \in effects : e.req = p /\ job[p].op \notin Creates \cup RoleOps \cup Bulk =>
               job[p].items[e.item].id = job[p].actor
        /\ job[p].op \in UserOps \cup PrefOps =>
               \A s \in seen[p] : s.masked \/ s.id = job[p].actor
        /\ job[p].op = "user.index" => total[p] <= 1

Took(p) == {e.item : e \in {f \in effects : f.req = p}}

\* The outcomes of a finished request tell what happened: an item reported done
\* took effect unless it was a dry run, one refused did not, nothing that was not
\* reported took effect, and only a bulk command or a batch deletion goes on after
\* an item that was not done.
OutcomesTellTheTruth ==
    \A p \in Req : pc[p] = "done" =>
        /\ \A i \in DOMAIN results[p] :
               /\ results[p][i] = "ok" /\ job[p].op \notin Reads => i \in Took(p) \/ job[p].dry
               /\ results[p][i] \notin {"ok", "error"} => i \notin Took(p)
               /\ results[p][i] # "ok" /\ i < Len(results[p]) => KeepsGoing(p)
        /\ Took(p) \subseteq DOMAIN results[p]

\* A batch reaches every user it names: nobody of a deletion is archived before each
\* user of it was let through, and an import that goes on after errors reports on every
\* user of its list, those it created or found existing do exist: importing the list
\* again creates nobody twice and the rest.
BatchesSeeToEveryUser ==
    \A p \in Req :
        /\ job[p].op = "user.delete_batch" /\ Took(p) # {} =>
               \A i \in DOMAIN job[p].items :
                   \E g \in granted[p] : g.target = job[p].items[i].id
        /\ pc[p] = "done" /\ job[p].op = "user.import" /\ job[p].keepOn /\ job[p].actor # {} =>
               /\ Len(results[p]) = Len(job[p].items)
               /\ \A i \in DOMAIN results[p] :
                      results[p][i] \in {"ok", "exists"} /\ ~job[p].dry =>
                          \A u \in job[p].items[i].id : users[u] # "absent"
=============================================================================
