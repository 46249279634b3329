-------------------------- MODULE CrudServicesProofs --------------------------
(* Proofs about CrudServices, for every set of requests, users, roles and      *)
(* tenants, every set of support agents, batches of every length, and every     *)
(* combination of faults.                                                        *)
EXTENDS CrudServices, FiniteSetTheorems, SequenceTheorems, TLAPS

-----------------------------------------------------------------------------
(* The inductive invariant *)

Places == {"idle", "fetch", "check", "command", "write", "log", "read", "done", "crashed"}

Outcomes == {"ok", "denied", "missing", "exists", "invalid", "not allowed", "error"}

TypeInv ==
    /\ TypeOK
    /\ job \in [Req -> Jobs] /\ \A p \in Req : IsJob(job[p])
    /\ at \in [Req -> 1 .. MaxItems] /\ results \in [Req -> Seq(Outcomes)]
    /\ DOMAIN seen = Req /\ DOMAIN total = Req /\ DOMAIN granted = Req

Op(p) == job[p].op
Deletion(p) == Op(p) = "user.delete_batch"

\* A batch deletion is let through as a whole before its first user is archived.
Checking(p) == Deletion(p) /\ pc[p] = "check"

\* A request works on an item it has, with an outcome for each one before it.
Counted ==
    \A p \in Req :
        /\ InFlight(p) => /\ at[p] \in DOMAIN job[p].items
                          /\ Len(results[p]) = IF Checking(p) THEN 0 ELSE at[p] - 1
        /\ pc[p] = "idle" => at[p] = 1 /\ results[p] = <<>>
        /\ Len(results[p]) <= Len(job[p].items)

\* Which operations come to a place.
PlaceFits ==
    \A p \in Req :
        /\ pc[p] \in {"write", "log"} => Op(p) \notin Reads
        /\ pc[p] = "read" => Op(p) \in Reads
        /\ pc[p] = "fetch" => Op(p) = "pref.show"
        /\ pc[p] = "check" => Op(p) \notin Bulk

\* Under a resolver that pins actors, what was let through is in their tenant.
ScopesFit ==
    \A p \in Req :
        /\ pins /\ pc[p] \in {"write", "log"} => cmd[p] = Home(p)
        /\ pins /\ pc[p] = "read" /\ Op(p) \in {"role.index", "role.show"} => cmd[p] = Home(p)
        /\ pins /\ pc[p] \in {"command", "read"} /\ Op(p) \notin UserOps => scope[p] = Home(p)
        /\ pc[p] \in {"write", "log"} /\ Op(p) \notin UserOps => scope[p] = cmd[p]

\* The operations that RowAccess is about.
Own == {"user.update", "user.delete", "user.delete_batch", "user.show", "pref.upsert",
        "pref.delete", "pref.show"}

\* The items that the service has let through.
Checked(p) ==
    IF Deletion(p)
    THEN IF pc[p] = "check" THEN 1 .. at[p] - 1
         ELSE IF pc[p] \in {"command", "write", "log"} THEN DOMAIN job[p].items ELSE {}
    ELSE IF Op(p) \in Own /\ pc[p] \in {"command", "write", "log", "read"} THEN {at[p]} ELSE {}

Granted(p, target) == \E g \in granted[p] : g.target = target

AccessGiven ==
    \A p \in Req : \A i \in Checked(p) :
        /\ IsSupport(p) => job[p].items[i].id = job[p].actor
        /\ Deletion(p) => Granted(p, job[p].items[i].id)

\* Whoever writes was let through for this item, by the command, in its scope.
WriteGranted ==
    \A p \in Req : pc[p] = "write" =>
        \E g \in granted[p] : g = [action |-> Action(p), scope |-> cmd[p], target |-> Target(p)]

\* What took effect did so in a place and by a request that was let through.
EffectsFit ==
    \A e \in effects :
        /\ e.req \in Req /\ e.item \in DOMAIN job[e.req].items
        /\ Op(e.req) \notin Reads
        /\ pins => e.scope = Home(e.req)
        /\ Op(e.req) \in Own /\ IsSupport(e.req) =>
               job[e.req].items[e.item].id = job[e.req].actor
        /\ Deletion(e.req) => \A i \in DOMAIN job[e.req].items :
                                  Granted(e.req, job[e.req].items[i].id)

\* It is an item that is through, or the one being logged.
EffectsPast ==
    \A e \in effects :
        /\ pc[e.req] # "idle" /\ ~Checking(e.req)
        /\ \/ e.item \in DOMAIN results[e.req]
           \/ /\ e.item = at[e.req] /\ pc[e.req] \in {"log", "crashed"}
              /\ pc[e.req] = "log" => e.scope = cmd[e.req]

LogPast ==
    \A l \in log :
        /\ l.req \in Req /\ l.item \in DOMAIN results[l.req]
        /\ pc[l.req] # "idle" /\ ~Checking(l.req)

SameScope == \A e \in effects, l \in log : e.req = l.req /\ e.item = l.item => e.scope = l.scope

\* Outcomes are true of what has happened so far.
Truthful ==
    \A p \in Req :
        /\ pc[p] = "log" => at[p] \in Took(p) \/ job[p].dry
        /\ \A i \in DOMAIN results[p] :
               /\ results[p][i] = "ok" /\ Op(p) \notin Reads => i \in Took(p) \/ job[p].dry
               /\ results[p][i] \notin {"ok", "error"} => i \notin Took(p)
               /\ results[p][i] # "ok" /\ (i < Len(results[p]) \/ InFlight(p)) => KeepsGoing(p)

Present(p, i) == \A u \in job[p].items[i].id : users[u] # "absent"

\* An import that goes on reports on every user, and those it reports are there.
ImportsPresent ==
    \A p \in Req : Op(p) = "user.import" =>
        /\ pc[p] = "done" /\ job[p].keepOn /\ job[p].actor # {} =>
               Len(results[p]) = Len(job[p].items)
        /\ ~job[p].dry =>
               /\ pc[p] = "log" => Present(p, at[p])
               /\ \A i \in DOMAIN results[p] :
                      results[p][i] \in {"ok", "exists"} => Present(p, i)

\* Answers show what the asker may see.
\* The tenant of the rows a list shows.
TenantShown(p, s) == IF job[p].items[1].level = "system" THEN {} ELSE s

SeenFits ==
    \A p \in Req :
        /\ pins => \A s \in seen[p] :
               Op(p) \in {"role.index", "role.show", "pref.index"} => s.tenant = TenantShown(p, Home(p))
        /\ IsSupport(p) /\ Op(p) \in UserOps \cup PrefOps =>
               \A s \in seen[p] : s.masked \/ s.id = job[p].actor
        /\ IsSupport(p) /\ Op(p) = "user.index" => total[p] <= 1

BaseInv == TypeInv /\ Counted /\ PlaceFits

IInv ==
    /\ BaseInv
    /\ ScopesFit /\ AccessGiven /\ WriteGranted /\ EffectsFit /\ EffectsPast
    /\ LogPast /\ SameScope /\ Truthful /\ ImportsPresent /\ SeenFits

-----------------------------------------------------------------------------
(* Facts about requests *)

LEMMA JobFacts ==
    ASSUME TypeInv, NEW p \in Req
    PROVE  /\ Op(p) \in UserOps \cup RoleOps \cup PrefOps
           /\ job[p].actor \in Id(User) /\ Len(job[p].items) \in 0 .. MaxItems
           /\ DOMAIN job[p].items = 1 .. Len(job[p].items)
           /\ \A i \in DOMAIN job[p].items : job[p].items[i] \in Item
           /\ Op(p) \notin Batches => Len(job[p].items) = 1
           /\ job[p].dry => Op(p) = "user.import"
           /\ job[p].keepOn => Op(p) \in Bulk
           /\ job[p].to \in Status
<1>1. job[p] \in Jobs /\ IsJob(job[p]) /\ MaxItems \in Nat
  BY CrudAssumption DEF TypeInv
<1>2. PICK n \in 0 .. MaxItems : job[p].items \in [1 .. n -> Item]
  BY <1>1 DEF Jobs, Items
<1>3. job[p].items \in Seq(Item)
  BY <1>1, <1>2, SeqDef
<1>4. Len(job[p].items) = n
  BY <1>1, <1>2, <1>3, LenProperties
<1> QED
  BY <1>1, <1>2, <1>4 DEF Jobs, IsJob, Op

LEMMA AppendFacts ==
    ASSUME NEW s \in Seq(Outcomes), NEW o \in Outcomes
    PROVE  /\ Append(s, o) \in Seq(Outcomes)
           /\ Len(s) \in Nat /\ DOMAIN s = 1 .. Len(s)
           /\ Len(Append(s, o)) = Len(s) + 1
           /\ DOMAIN Append(s, o) = 1 .. Len(s) + 1
           /\ Append(s, o)[Len(s) + 1] = o
           /\ \A i \in 1 .. Len(s) : Append(s, o)[i] = s[i]
<1> DEFINE all == Append(s, o)
<1>1. all \in Seq(Outcomes) /\ Len(s) \in Nat /\ DOMAIN s = 1 .. Len(s) /\ Len(all) = Len(s) + 1
  BY AppendProperties, LenProperties
<1>2. DOMAIN all = 1 .. Len(all)
  BY <1>1, LenProperties
<1>3. all[Len(s) + 1] = o /\ \A i \in 1 .. Len(s) : all[i] = s[i]
  BY AppendProperties
<1> QED
  BY <1>1, <1>2, <1>3

-----------------------------------------------------------------------------
(* What a step is for the request that takes it *)

\* The step of p leaves what belongs to others alone.
Frame(p) ==
    /\ job' = job /\ home' = home /\ pins' = pins
    /\ \A q \in Req \ {p} :
           /\ pc'[q] = pc[q] /\ at'[q] = at[q] /\ scope'[q] = scope[q] /\ cmd'[q] = cmd[q]
           /\ results'[q] = results[q] /\ seen'[q] = seen[q] /\ total'[q] = total[q]
           /\ granted'[q] = granted[q]
    /\ \A u \in User : users[u] # "absent" => users'[u] # "absent"

\* Nobody is told about anything, and nothing happens to an item.
Quiet(p) ==
    /\ at'[p] = at[p] /\ results'[p] = results[p] /\ seen'[p] = seen[p] /\ total'[p] = total[p]
Untouched == effects' = effects /\ log' = log
SameScopes(p) == scope'[p] = scope[p] /\ cmd'[p] = cmd[p] /\ granted'[p] = granted[p]

Settles(p, outcome) ==
    /\ results'[p] = Append(results[p], outcome)
    /\ total'[p] = total[p]
    /\ \/ /\ at[p] < Len(job[p].items) /\ (outcome = "ok" \/ KeepsGoing(p))
          /\ at'[p] = at[p] + 1
          /\ pc'[p] = (IF KeepsGoing(p) \/ Op(p) \in Bulk THEN "command" ELSE "check")
          /\ seen'[p] = seen[p]
       \/ /\ ~(at[p] < Len(job[p].items) /\ (outcome = "ok" \/ KeepsGoing(p)))
          /\ at'[p] = at[p] /\ pc'[p] = "done"
          /\ \/ seen'[p] = seen[p]
             \/ /\ Op(p) \in {"user.create", "user.invite", "user.update"}
                /\ \A s \in seen'[p] : \E u : s = ShownUser(p, u)

Begins(p) ==
    /\ pc[p] = "idle" /\ Quiet(p) /\ Untouched /\ cmd'[p] = cmd[p] /\ granted'[p] = granted[p]
    /\ \/ pc'[p] = "done" /\ (job[p].items = <<>> \/ (Op(p) \in Bulk /\ job[p].actor = {}))
       \/ /\ job[p].items # <<>>
          /\ pc'[p] = IF Op(p) = "pref.show" THEN "fetch"
                      ELSE IF Op(p) \in Bulk THEN "command" ELSE "check"

Fetches(p) ==
    pc[p] = "fetch" /\ pc'[p] = "check" /\ Quiet(p) /\ Untouched /\ SameScopes(p)

Drops(p) ==
    Checking(p) /\ pc'[p] = "done" /\ Quiet(p) /\ Untouched /\ SameScopes(p)

Pinned(s, p) == pins => s = Home(p)

Enforces(p) ==
    /\ pc[p] = "check" /\ RowAccess(p) /\ Untouched
    /\ results'[p] = results[p] /\ seen'[p] = seen[p] /\ total'[p] = total[p]
    /\ cmd'[p] = cmd[p] /\ pc'[p] = NextCheck(p)
    /\ \E g : g.target = Target(p) /\ granted'[p] = granted[p] \cup {g}
    /\ ~Deletion(p) => Pinned(scope'[p], p)
    /\ at'[p] = IF ~Deletion(p) THEN at[p] ELSE IF NextCheck(p) = "check" THEN at[p] + 1 ELSE 1

Commands(p) ==
    /\ pc[p] = "command" /\ Quiet(p) /\ Untouched
    /\ pc'[p] = IF Op(p) \in Reads THEN "read" ELSE "write"
    /\ scope'[p] = scope[p]
    /\ cmd'[p] = ResolveScope(p, scope[p])
    /\ granted'[p] = granted[p] \cup
           {[action |-> Action(p), scope |-> cmd'[p], target |-> Target(p)]}

\* What the outcome of an item that came to nothing says.
Refuses(p, outcome) ==
    /\ pc[p] \in {"fetch", "check", "command", "write", "read"} /\ ~Checking(p)
    /\ outcome # "ok" /\ Settles(p, outcome) /\ Untouched /\ SameScopes(p)
    /\ outcome = "exists" /\ Op(p) = "user.import" => Present(p, at[p])

TakesEffect(p) ==
    /\ pc[p] = "write" /\ log' = log /\ SameScopes(p)
    /\ effects' = effects \cup {[req |-> p, item |-> at[p], scope |-> cmd[p]]}
    /\ (Quiet(p) /\ pc'[p] = "log") \/ Settles(p, "error")
    /\ Op(p) = "user.import" => \A u \in This(p).id : users'[u] # "absent"

Passes(p) ==
    /\ pc[p] = "write" /\ pc'[p] = "log" /\ job[p].dry
    /\ Quiet(p) /\ Untouched /\ SameScopes(p)

Logs(p) ==
    /\ pc[p] = "log" /\ Settles(p, "ok") /\ effects' = effects /\ SameScopes(p)
    /\ \/ log' = log \cup {[req |-> p, item |-> at[p], scope |-> LoggedScope(p)]}
       \/ log' = log

Shows(p) ==
    /\ pc[p] = "read" /\ pc'[p] = "done" /\ results'[p] = <<"ok">> /\ at'[p] = at[p]
    /\ Untouched /\ SameScopes(p)
    /\ Op(p) \in {"role.index", "role.show"} => \A s \in seen'[p] : s.tenant = cmd[p]
    /\ Op(p) = "pref.index" => \A s \in seen'[p] : s.tenant = TenantShown(p, scope[p])
    /\ IsSupport(p) /\ Op(p) \in UserOps \cup PrefOps =>
           \A s \in seen'[p] : s.masked \/ s.id = job[p].actor
    /\ IsSupport(p) /\ Op(p) = "user.index" => total'[p] <= 1

Crashes(p) ==
    InFlight(p) /\ pc'[p] = "crashed" /\ Quiet(p) /\ Untouched /\ SameScopes(p)

Moves(p) ==
    \/ Begins(p) \/ Fetches(p) \/ Drops(p) \/ Enforces(p) \/ Commands(p)
    \/ (\E outcome \in Outcomes : Refuses(p, outcome))
    \/ TakesEffect(p) \/ Passes(p) \/ Logs(p) \/ Shows(p) \/ Crashes(p)

Acts(p) ==
    \/ Start(p) \/ FetchPreference(p) \/ Refuse(p) \/ Enforce(p) \/ RefuseCommand(p)
    \/ EnforceCommand(p) \/ Write(p) \/ Log(p) \/ Read(p) \/ Fail(p) \/ Crash(p)

\* What a settled item leaves typed, and alone.
SettledTypes(p) ==
    /\ pc' \in [Req -> Places] /\ at' \in [Req -> 1 .. MaxItems]
    /\ results' \in [Req -> Seq(Outcomes)] /\ \A q \in Req : Len(results'[q]) <= MaxItems
    /\ DOMAIN seen' = Req
    /\ \A q \in Req \ {p} : /\ pc'[q] = pc[q] /\ at'[q] = at[q]
                            /\ results'[q] = results[q] /\ seen'[q] = seen[q]

LEMMA Settling ==
    ASSUME BaseInv, NEW p \in Req, NEW outcome \in Outcomes, InFlight(p), ~Checking(p),
           Settle(p, outcome), total' = total
    PROVE  Settles(p, outcome) /\ SettledTypes(p)
<1> DEFINE all == Append(results[p], outcome)
<1>1. /\ pc \in [Req -> Places] /\ at \in [Req -> 1 .. MaxItems] /\ DOMAIN seen = Req
      /\ results \in [Req -> Seq(Outcomes)] /\ \A q \in Req : Len(results[q]) <= MaxItems
      /\ MaxItems \in Nat
  BY CrudAssumption DEF BaseInv, TypeInv, TypeOK, Places
<1>2. /\ at[p] \in 1 .. Len(job[p].items) /\ Len(job[p].items) \in 0 .. MaxItems
      /\ Len(results[p]) = at[p] - 1
  BY JobFacts DEF BaseInv, Counted
<1>3. all \in Seq(Outcomes) /\ Len(all) = at[p] /\ at[p] <= MaxItems
  BY <1>1, <1>2, AppendFacts
<1>4. results' = [results EXCEPT ![p] = all]
  BY DEF Settle
<1> HIDE DEF all
<1>5. /\ results' \in [Req -> Seq(Outcomes)] /\ \A q \in Req : Len(results'[q]) <= MaxItems
      /\ results'[p] = all /\ \A q \in Req \ {p} : results'[q] = results[q]
  BY <1>1, <1>3, <1>4
<1>6. CASE at[p] < Len(job[p].items) /\ (outcome = "ok" \/ KeepsGoing(p))
  <2>1. /\ at' = [at EXCEPT ![p] = @ + 1] /\ seen' = seen
        /\ pc' = [pc EXCEPT ![p] = IF KeepsGoing(p) \/ Op(p) \in Bulk THEN "command" ELSE "check"]
    BY <1>6 DEF Settle, Goto, Entry, Op
  <2>2. at[p] + 1 \in 1 .. MaxItems
    BY <1>1, <1>2, <1>6
  <2> QED
    BY <1>1, <1>5, <1>6, <2>1, <2>2 DEF Settles, SettledTypes, Places, all
<1>7. CASE ~(at[p] < Len(job[p].items) /\ (outcome = "ok" \/ KeepsGoing(p)))
  <2>1. pc' = [pc EXCEPT ![p] = "done"] /\ at' = at /\ DOMAIN seen' = DOMAIN seen
        /\ \A q \in Req \ {p} : seen'[q] = seen[q]
    BY <1>1, <1>7 DEF Settle, Goto
  <2>2. \/ seen'[p] = seen[p]
        \/ /\ Op(p) \in {"user.create", "user.invite", "user.update"}
           /\ \A s \in seen'[p] : \E u : s = ShownUser(p, u)
    BY <1>1, <1>7 DEF Settle, Op
  <2> QED
    BY <1>1, <1>5, <1>7, <2>1, <2>2 DEF Settles, SettledTypes, Places, all
<1> QED
  BY <1>6, <1>7

\* The scopes that are named or resolved are scopes.
LEMMA ScopeTypes ==
    ASSUME BaseInv, NEW p \in Req
    PROVE  /\ Home(p) \in Id(Tenant)
           /\ InFlight(p) => This(p) \in Item /\ This(p) = job[p].items[at[p]]
           /\ pc[p] = "idle" /\ job[p].items # <<>> => This(p) \in Item
           /\ \A asked \in Id(Tenant) : ResolveScope(p, asked) \in Id(Tenant)
<1>1. Home(p) \in Id(Tenant)
  <2>1. home \in [User -> Id(Tenant)] /\ job[p].actor \in Id(User)
    BY JobFacts DEF BaseInv, TypeInv, TypeOK
  <2>2. CASE job[p].actor = {}
    BY <2>2 DEF Home, Id
  <2>3. ASSUME NEW u \in User, job[p].actor = {u} PROVE Home(p) \in Id(Tenant)
    <3>1. Home(p) = UNION {home[v] : v \in {u}}
      BY <2>3 DEF Home
    <3>2. home[u] \in Id(Tenant) /\ UNION {home[v] : v \in {u}} = home[u]
      BY <2>1
    <3> QED
      BY <3>1, <3>2
  <2> QED
    BY <2>1, <2>2, <2>3 DEF Id
<1>2. InFlight(p) => This(p) \in Item /\ This(p) = job[p].items[at[p]]
  BY JobFacts DEF BaseInv, Counted, This
<1>3. pc[p] = "idle" /\ job[p].items # <<>> => This(p) \in Item
  <2>1. SUFFICES ASSUME pc[p] = "idle", job[p].items # <<>> PROVE 1 \in DOMAIN job[p].items
    BY JobFacts DEF BaseInv, Counted, This
  <2>2. job[p].items \in Seq(Item)
    <3>1. job[p] \in Jobs /\ MaxItems \in Nat
      BY CrudAssumption DEF BaseInv, TypeInv
    <3> QED
      BY <3>1, SeqDef DEF Jobs, Items
  <2>3. Len(job[p].items) # 0
    BY <2>1, <2>2, EmptySeq
  <2> QED
    BY <2>3, JobFacts DEF BaseInv
<1> QED
  BY <1>1, <1>2, <1>3 DEF ResolveScope

\* An item that comes to nothing.
LEMMA Refusals ==
    ASSUME BaseInv, NEW p \in Req, NEW outcome \in Outcomes, outcome # "ok",
           pc[p] \in {"fetch", "check", "command", "write", "read"}, ~Checking(p),
           Settle(p, outcome),
           UNCHANGED <<env, tables, scope, cmd, total, granted, effects, log>>,
           outcome = "exists" /\ Op(p) = "user.import" => Present(p, at[p])
    PROVE  TypeInv' /\ Frame(p) /\ Moves(p)
<1>1. InFlight(p)
  BY DEF InFlight
<1>2. Settles(p, outcome) /\ SettledTypes(p)
  BY <1>1, Settling
<1>3. Frame(p) /\ TypeInv'
  BY <1>2 DEF SettledTypes, BaseInv, TypeInv, TypeOK, Frame, env, tables, Places
<1>4. Refuses(p, outcome)
  BY <1>2 DEF Refuses, Untouched, SameScopes
<1> QED
  BY <1>3, <1>4 DEF Moves

LEMMA CheckMoves ==
    ASSUME BaseInv, NEW p \in Req,
           Start(p) \/ FetchPreference(p) \/ Refuse(p) \/ Enforce(p) \/ Crash(p)
    PROVE  TypeInv' /\ Frame(p) /\ Moves(p)
<1>1. /\ pc \in [Req -> Places] /\ at \in [Req -> 1 .. MaxItems] /\ DOMAIN seen = Req
      /\ results \in [Req -> Seq(Outcomes)] /\ \A q \in Req : Len(results[q]) <= MaxItems
      /\ scope \in [Req -> Id(Tenant)] /\ cmd \in [Req -> Id(Tenant)] /\ DOMAIN granted = Req
      /\ MaxItems \in Nat \ {0} /\ DOMAIN total = Req
  BY CrudAssumption DEF BaseInv, TypeInv, TypeOK, Places
<1>2. CASE Start(p)
  <2>1. UNCHANGED <<env, tables, at, cmd, results, answers, granted, effects, log>>
    BY <1>2 DEF Start
  <2>2. CASE job[p].items = <<>> \/ (job[p].op \in Bulk /\ job[p].actor = {})
    <3>1. pc[p] = "idle" /\ pc' = [pc EXCEPT ![p] = "done"] /\ scope' = scope
      BY <1>2, <2>2 DEF Start, Goto
    <3>2. Frame(p) /\ TypeInv'
      BY <1>1, <2>1, <3>1 DEF BaseInv, TypeInv, TypeOK, Frame, env, tables, answers, Places
    <3>3. Begins(p)
      BY <1>1, <2>1, <2>2, <3>1 DEF Begins, Quiet, Untouched, answers, Op
    <3> QED
      BY <3>2, <3>3 DEF Moves
  <2>3. CASE ~(job[p].items = <<>> \/ (job[p].op \in Bulk /\ job[p].actor = {}))
    <3> DEFINE place == IF Op(p) = "pref.show" THEN "fetch"
                        ELSE IF Op(p) \in Bulk THEN "command" ELSE "check"
               given == IF job[p].op \in Bulk THEN This(p).tenant ELSE {}
    <3>1. pc[p] = "idle" /\ pc' = [pc EXCEPT ![p] = place] /\ scope' = [scope EXCEPT ![p] = given]
      BY <1>2, <2>3 DEF Start, Goto, Entry, Op
    <3>2. given \in Id(Tenant) /\ place \in Places
      BY <2>3, <3>1, ScopeTypes DEF Item, Id, Places
    <3>3. pc'[p] = place
      BY <1>1, <3>1
    <3>4. Begins(p)
      BY <1>1, <2>1, <2>3, <3>1, <3>3 DEF Begins, Quiet, Untouched, answers, Op
    <3> HIDE DEF place, given
    <3>5. Frame(p) /\ TypeInv'
      BY <1>1, <2>1, <3>1, <3>2 DEF BaseInv, TypeInv, TypeOK, Frame, env, tables, answers, Places
    <3> QED
      BY <3>4, <3>5 DEF Moves
  <2> QED
    BY <2>2, <2>3
<1>3. CASE FetchPreference(p)
  <2>1. /\ pc[p] = "fetch"
        /\ UNCHANGED <<env, tables, scope, cmd, total, granted, effects, log>>
    BY <1>3 DEF FetchPreference
  <2>2. CASE pc' = [pc EXCEPT ![p] = "check"] /\ UNCHANGED <<at, results, seen>>
    <3>1. Frame(p) /\ TypeInv'
      BY <1>1, <2>1, <2>2 DEF BaseInv, TypeInv, TypeOK, Frame, env, tables, Places
    <3>2. Fetches(p)
      BY <1>1, <2>1, <2>2 DEF Fetches, Quiet, Untouched, SameScopes
    <3> QED
      BY <3>1, <3>2 DEF Moves
  <2>3. CASE Settle(p, "missing")
    <3>1. ~Checking(p) /\ pc[p] \in {"fetch", "check", "command", "write", "read"}
      BY <2>1 DEF Checking
    <3>2. "missing" \in Outcomes /\ "missing" # "ok" /\ "missing" # "exists"
      BY DEF Outcomes
    <3> QED
      BY <2>1, <2>3, <3>1, <3>2, Refusals
  <2> QED
    BY <1>3, <2>2, <2>3 DEF FetchPreference, Goto
<1>4. CASE Refuse(p)
  <2>1. /\ pc[p] = "check"
        /\ UNCHANGED <<env, tables, scope, cmd, total, granted, effects, log>>
    BY <1>4 DEF Refuse
  <2>2. CASE Deletion(p)
    <3>1. pc' = [pc EXCEPT ![p] = "done"] /\ UNCHANGED <<at, results, seen>>
      BY <1>4, <2>2 DEF Refuse, Goto, Deletion, Op
    <3>2. Frame(p) /\ TypeInv'
      BY <1>1, <2>1, <3>1 DEF BaseInv, TypeInv, TypeOK, Frame, env, tables, Places
    <3>3. Drops(p)
      BY <1>1, <2>1, <2>2, <3>1 DEF Drops, Checking, Quiet, Untouched, SameScopes
    <3> QED
      BY <3>2, <3>3 DEF Moves
  <2>3. CASE ~Deletion(p)
    <3>1. Settle(p, "denied")
      BY <1>4, <2>3 DEF Refuse, Deletion, Op
    <3>2. ~Checking(p) /\ pc[p] \in {"fetch", "check", "command", "write", "read"}
      BY <2>1, <2>3 DEF Checking
    <3>3. "denied" \in Outcomes /\ "denied" # "ok" /\ "denied" # "exists"
      BY DEF Outcomes
    <3> QED
      BY <2>1, <3>1, <3>2, <3>3, Refusals
  <2> QED
    BY <2>2, <2>3
<1>5. CASE Enforce(p)
  <2> DEFINE s == ResolveScope(p, MergeScopeFilters(Home(p), This(p).tenant))
             g == [action |-> Action(p), scope |-> s, target |-> Target(p)]
             newAt == IF ~Deletion(p) THEN at[p]
                      ELSE IF NextCheck(p) = "check" THEN at[p] + 1 ELSE 1
             newScope == IF at[p] = 1 \/ job[p].op # "user.delete_batch" THEN s ELSE scope[p]
  <2>1. /\ pc[p] = "check" /\ RowAccess(p)
        /\ granted' = [granted EXCEPT ![p] = @ \cup {g}]
        /\ scope' = [scope EXCEPT ![p] = newScope]
        /\ pc' = [pc EXCEPT ![p] = NextCheck(p)]
        /\ at' = [at EXCEPT ![p] = newAt]
        /\ UNCHANGED <<env, tables, cmd, results, answers, effects, log>>
    <3>1. at' = [at EXCEPT ![p] = newAt]
      BY <1>5 DEF Enforce, Deletion, Op
    <3> QED
      BY <1>5, <3>1 DEF Enforce, Pass, Goto
  <2>2. s \in Id(Tenant) /\ (pins => s = Home(p)) /\ g.target = Target(p)
    <3>1. MergeScopeFilters(Home(p), This(p).tenant) \in Id(Tenant)
      BY <2>1, ScopeTypes DEF InFlight, Item, MergeScopeFilters
    <3> QED
      BY <3>1, ScopeTypes DEF ResolveScope
  <2>3. newAt \in 1 .. MaxItems /\ NextCheck(p) \in Places
    BY <1>1, <2>1, JobFacts DEF NextCheck, Places, Deletion, Op, BaseInv, TypeInv
  <2>4. newScope \in Id(Tenant) /\ (~Deletion(p) => newScope = s)
    BY <1>1, <2>2 DEF Deletion, Op
  <2> HIDE DEF s, g, newAt, newScope
  <2>5. /\ pc'[p] = NextCheck(p) /\ at'[p] = newAt /\ scope'[p] = newScope
        /\ granted'[p] = granted[p] \cup {g}
    BY <1>1, <2>1
  <2>6. Frame(p) /\ TypeInv'
    BY <1>1, <2>1, <2>3, <2>4 DEF BaseInv, TypeInv, TypeOK, Frame, env, tables, answers, Places
  <2>7. Enforces(p)
    <3>1. newAt = IF ~Deletion(p) THEN at[p] ELSE IF NextCheck(p) = "check" THEN at[p] + 1 ELSE 1
      BY DEF newAt
    <3> QED
      BY <1>1, <2>1, <2>2, <2>4, <2>5, <3>1 DEF Enforces, Untouched, answers, Pinned
  <2> QED
    BY <2>6, <2>7 DEF Moves
<1>6. CASE Crash(p)
  <2>1. /\ InFlight(p) /\ pc' = [pc EXCEPT ![p] = "crashed"]
        /\ UNCHANGED <<env, tables, at, scope, cmd, results, answers, granted, effects, log>>
    BY <1>6 DEF Crash, Goto
  <2>2. Frame(p) /\ TypeInv'
    BY <1>1, <2>1 DEF BaseInv, TypeInv, TypeOK, Frame, env, tables, answers, Places
  <2>3. Crashes(p)
    BY <1>1, <2>1 DEF Crashes, Quiet, Untouched, SameScopes, answers
  <2> QED
    BY <2>2, <2>3 DEF Moves
<1> QED
  BY <1>2, <1>3, <1>4, <1>5, <1>6

LEMMA CommandMoves ==
    ASSUME BaseInv, NEW p \in Req, RefuseCommand(p) \/ EnforceCommand(p) \/ Fail(p) \/ Log(p)
    PROVE  TypeInv' /\ Frame(p) /\ Moves(p)
<1>1. /\ pc \in [Req -> Places] /\ at \in [Req -> 1 .. MaxItems]
      /\ scope \in [Req -> Id(Tenant)] /\ cmd \in [Req -> Id(Tenant)] /\ DOMAIN granted = Req
  BY DEF BaseInv, TypeInv, TypeOK, Places
<1>2. CASE RefuseCommand(p)
  <2>1. /\ pc[p] = "command" /\ Settle(p, "denied")
        /\ UNCHANGED <<env, tables, scope, cmd, total, granted, effects, log>>
    BY <1>2 DEF RefuseCommand
  <2>2. ~Checking(p) /\ pc[p] \in {"fetch", "check", "command", "write", "read"}
    BY <2>1 DEF Checking
  <2>3. "denied" \in Outcomes /\ "denied" # "ok" /\ "denied" # "exists"
    BY DEF Outcomes
  <2> QED
    BY <2>1, <2>2, <2>3, Refusals
<1>3. CASE EnforceCommand(p)
  <2> DEFINE s == ResolveScope(p, scope[p])
             g == [action |-> Action(p), scope |-> s, target |-> Target(p)]
             place == IF Op(p) \in Reads THEN "read" ELSE "write"
  <2>1. /\ pc[p] = "command"
        /\ granted' = [granted EXCEPT ![p] = @ \cup {g}]
        /\ cmd' = [cmd EXCEPT ![p] = s]
        /\ pc' = [pc EXCEPT ![p] = place]
        /\ UNCHANGED <<env, tables, at, scope, results, answers, effects, log>>
    BY <1>3 DEF EnforceCommand, Pass, Goto, Op
  <2>2. s \in Id(Tenant) /\ place \in Places
    BY <1>1, ScopeTypes DEF Places
  <2>3. /\ granted'[p] = granted[p] \cup {g} /\ cmd'[p] = s /\ pc'[p] = place
    BY <1>1, <2>1
  <2>4. Commands(p)
    BY <2>1, <2>3 DEF Commands, Quiet, Untouched, answers
  <2> HIDE DEF s, g, place
  <2>5. Frame(p) /\ TypeInv'
    BY <1>1, <2>1, <2>2 DEF BaseInv, TypeInv, TypeOK, Frame, env, tables, answers, Places
  <2> QED
    BY <2>4, <2>5 DEF Moves
<1>4. CASE Fail(p)
  <2>1. /\ pc[p] \in {"fetch", "write", "read"} /\ Settle(p, "error")
        /\ UNCHANGED <<env, tables, scope, cmd, total, granted, effects, log>>
    BY <1>4 DEF Fail
  <2>2. ~Checking(p) /\ pc[p] \in {"fetch", "check", "command", "write", "read"}
    BY <2>1 DEF Checking
  <2>3. "error" \in Outcomes /\ "error" # "ok" /\ "error" # "exists"
    BY DEF Outcomes
  <2> QED
    BY <2>1, <2>2, <2>3, Refusals
<1>5. CASE Log(p)
  <2>1. /\ pc[p] = "log" /\ Settle(p, "ok")
        /\ UNCHANGED <<env, tables, scope, cmd, total, granted, effects>>
        /\ \/ log' = log \cup {[req |-> p, item |-> at[p], scope |-> LoggedScope(p)]}
           \/ log' = log
    BY <1>5 DEF Log
  <2>2. "ok" \in Outcomes /\ InFlight(p) /\ ~Checking(p)
    BY <2>1 DEF Outcomes, InFlight, Checking
  <2>3. Settles(p, "ok") /\ SettledTypes(p)
    BY <2>1, <2>2, Settling
  <2>4. Frame(p) /\ TypeInv'
    BY <2>1, <2>3 DEF SettledTypes, BaseInv, TypeInv, TypeOK, Frame, env, tables, Places
  <2>5. Logs(p)
    BY <2>1, <2>3 DEF Logs, SameScopes
  <2> QED
    BY <2>4, <2>5 DEF Moves
<1> QED
  BY <1>2, <1>3, <1>4, <1>5

\* A statement that took effect, with what it does to the tables.
LEMMA Effects ==
    ASSUME BaseInv, NEW p \in Req, pc[p] = "write", Done(p),
           UNCHANGED <<env, scope, cmd, total, granted, log>>,
           users' \in [User -> Status \cup {"absent"}], roles' \subseteq RoleRow,
           prefs' \subseteq PrefRow,
           \A u \in User : users[u] # "absent" => users'[u] # "absent",
           Op(p) = "user.import" => \A u \in This(p).id : users'[u] # "absent"
    PROVE  TypeInv' /\ Frame(p) /\ Moves(p)
<1>1. /\ pc \in [Req -> Places] /\ effects' = effects \cup {[req |-> p, item |-> at[p], scope |-> cmd[p]]}
  BY DEF BaseInv, TypeInv, TypeOK, Places, Done
<1>2. CASE pc' = [pc EXCEPT ![p] = "log"] /\ UNCHANGED <<at, results, seen>>
  <2>1. Frame(p) /\ TypeInv'
    BY <1>1, <1>2 DEF BaseInv, TypeInv, TypeOK, Frame, env, Places
  <2>2. TakesEffect(p)
    BY <1>1, <1>2 DEF TakesEffect, Quiet, SameScopes
  <2> QED
    BY <2>1, <2>2 DEF Moves
<1>3. CASE Settle(p, "error")
  <2>1. "error" \in Outcomes /\ InFlight(p) /\ ~Checking(p)
    BY DEF Outcomes, InFlight, Checking
  <2>2. Settles(p, "error") /\ SettledTypes(p)
    BY <1>3, <2>1, Settling
  <2>3. Frame(p) /\ TypeInv'
    BY <1>1, <2>2 DEF SettledTypes, BaseInv, TypeInv, TypeOK, Frame, env, Places
  <2>4. TakesEffect(p)
    BY <1>1, <2>2 DEF TakesEffect, SameScopes
  <2> QED
    BY <2>3, <2>4 DEF Moves
<1> QED
  BY <1>2, <1>3 DEF Done, Goto

\* What the item at hand may name.
LEMMA ItemFacts ==
    ASSUME BaseInv, NEW p \in Req, InFlight(p)
    PROVE  /\ Op(p) \in RoleOps => This(p).id \in Id(Role)
           /\ Op(p) \notin RoleOps => This(p).id \in Id(User)
           /\ Op(p) \notin Lists \cup PrefOps => This(p).id # {}
           /\ This(p).tenant \in Id(Tenant)
<1>1. This(p) \in Item /\ This(p) = job[p].items[at[p]] /\ at[p] \in DOMAIN job[p].items
  BY ScopeTypes DEF BaseInv, Counted
<1>2. IsJob(job[p])
  BY DEF BaseInv, TypeInv
<1>3. Op(p) \notin Lists \cup PrefOps => This(p).id # {}
  BY <1>1, <1>2 DEF IsJob, Op, PrefOps
<1> QED
  BY <1>1, <1>2, <1>3 DEF IsJob, Op, Item

LEMMA WriteRefusals ==
    ASSUME BaseInv, NEW p \in Req, NEW outcome \in Outcomes, outcome # "ok", pc[p] = "write",
           Refused(p, outcome), UNCHANGED <<env, scope, cmd, total, granted, log>>,
           outcome = "exists" /\ Op(p) = "user.import" => Present(p, at[p])
    PROVE  TypeInv' /\ Frame(p) /\ Moves(p)
<1>1. ~Checking(p) /\ pc[p] \in {"fetch", "check", "command", "write", "read"}
  BY DEF Checking
<1> QED
  BY <1>1, Refusals DEF Refused

LEMMA UserWrites ==
    ASSUME BaseInv, NEW p \in Req, CreateUser(p) \/ UpdateUser(p) \/ ChangeStatus(p)
    PROVE  TypeInv' /\ Frame(p) /\ Moves(p)
<1>1. /\ pc[p] = "write" /\ UNCHANGED <<env, scope, cmd, total, granted, log>>
  BY DEF CreateUser, UpdateUser, ChangeStatus, Writing
<1>2. /\ users \in [User -> Status \cup {"absent"}] /\ roles \subseteq RoleRow /\ prefs \subseteq PrefRow
      /\ pc \in [Req -> Places] /\ job[p].to \in Status
  BY JobFacts DEF BaseInv, TypeInv, TypeOK, Places
<1>3. Op(p) \in UserOps /\ This(p).id \in Id(User)
  BY <1>1, ItemFacts
     DEF CreateUser, UpdateUser, ChangeStatus, Writing, InFlight, Op, UserOps, RoleOps, Bulk
<1>4. "exists" \in Outcomes /\ "missing" \in Outcomes /\ "not allowed" \in Outcomes
  BY DEF Outcomes
<1>5. CASE CreateUser(p)
  <2>1. PICK u \in This(p).id :
           \/ /\ ~job[p].dry /\ users[u] = "absent"
              /\ users' = [users EXCEPT ![u] = NewStatus(p)]
              /\ Done(p) /\ UNCHANGED <<roles, prefs>>
           \/ ~job[p].dry /\ users[u] # "absent" /\ Refused(p, "exists")
           \/ job[p].dry /\ Goto(p, "log") /\ UNCHANGED <<tables, at, results, seen, effects>>
    BY <1>5 DEF CreateUser
  <2>2. u \in User /\ This(p).id = {u}
    BY <1>3, <2>1 DEF Id
  <2>3. CASE users' = [users EXCEPT ![u] = NewStatus(p)] /\ Done(p) /\ UNCHANGED <<roles, prefs>>
    <3>1. NewStatus(p) \in Status /\ NewStatus(p) # "absent"
      BY DEF NewStatus, Status
    <3>2. /\ users' \in [User -> Status \cup {"absent"}] /\ users'[u] # "absent"
          /\ \A v \in User : users[v] # "absent" => users'[v] # "absent"
      BY <1>2, <2>2, <2>3, <3>1
    <3>3. \A v \in This(p).id : users'[v] # "absent"
      BY <2>2, <3>2
    <3> QED
      BY <1>1, <1>2, <2>3, <3>2, <3>3, Effects
  <2>4. CASE users[u] # "absent" /\ Refused(p, "exists")
    <3>1. Present(p, at[p])
      BY <2>2, <2>4 DEF Present, This
    <3> QED
      BY <1>1, <1>4, <2>4, <3>1, WriteRefusals
  <2>5. CASE job[p].dry /\ Goto(p, "log") /\ UNCHANGED <<tables, at, results, seen, effects>>
    <3>1. Frame(p) /\ TypeInv'
      BY <1>1, <1>2, <2>5 DEF BaseInv, TypeInv, TypeOK, Frame, env, tables, Places, Goto
    <3>2. Passes(p)
      BY <1>1, <1>2, <2>5 DEF Passes, Quiet, Untouched, SameScopes, Goto
    <3> QED
      BY <3>1, <3>2 DEF Moves
  <2> QED
    BY <2>1, <2>3, <2>4, <2>5
<1>6. CASE UpdateUser(p)
  <2>1. Op(p) # "user.import" /\ (Refused(p, "missing") \/ (Done(p) /\ UNCHANGED tables))
    BY <1>6 DEF UpdateUser, Writing, Op
  <2>2. CASE Refused(p, "missing")
    BY <1>1, <1>4, <2>2, WriteRefusals
  <2>3. CASE Done(p) /\ UNCHANGED tables
    BY <1>1, <1>2, <2>1, <2>3, Effects DEF tables
  <2> QED
    BY <2>1, <2>2, <2>3
<1>7. CASE ChangeStatus(p)
  <2>1. Op(p) # "user.import"
    BY <1>7 DEF ChangeStatus, Writing, Op
  <2>2. PICK u \in This(p).id :
           IF <<users[u], job[p].to>> \in Transitions
           THEN /\ users' = [users EXCEPT ![u] = job[p].to]
                /\ Done(p) /\ UNCHANGED <<roles, prefs>>
           ELSE Refused(p, IF users[u] = "absent" THEN "missing" ELSE "not allowed")
    BY <1>7 DEF ChangeStatus
  <2>3. CASE <<users[u], job[p].to>> \in Transitions
    <3>1. /\ users' \in [User -> Status \cup {"absent"}]
          /\ \A v \in User : users[v] # "absent" => users'[v] # "absent"
      BY <1>2, <2>2, <2>3 DEF Status
    <3> QED
      BY <1>1, <1>2, <2>1, <2>2, <2>3, <3>1, Effects
  <2>4. CASE <<users[u], job[p].to>> \notin Transitions
    <3>1. Refused(p, "missing") \/ Refused(p, "not allowed")
      BY <2>2, <2>4
    <3> QED
      BY <1>1, <1>4, <2>1, <3>1, WriteRefusals
  <2> QED
    BY <2>3, <2>4
<1> QED
  BY <1>5, <1>6, <1>7

LEMMA RowWrites ==
    ASSUME BaseInv, NEW p \in Req,
           CreateRole(p) \/ UpdateRole(p) \/ DeleteRole(p) \/ UpsertPreference(p) \/ DeletePreference(p)
    PROVE  TypeInv' /\ Frame(p) /\ Moves(p)
<1>1. /\ pc[p] = "write" /\ UNCHANGED <<env, scope, cmd, total, granted, log>>
      /\ Op(p) # "user.import"
  BY DEF CreateRole, UpdateRole, DeleteRole, UpsertPreference, DeletePreference, Writing, Op
<1>2. /\ users \in [User -> Status \cup {"absent"}] /\ roles \subseteq RoleRow /\ prefs \subseteq PrefRow
      /\ cmd[p] \in Id(Tenant)
  BY DEF BaseInv, TypeInv, TypeOK
<1>3. /\ "exists" \in Outcomes /\ "missing" \in Outcomes /\ "invalid" \in Outcomes
  BY DEF Outcomes
<1>4. ASSUME Refused(p, "exists") \/ Refused(p, "missing") \/ Refused(p, "invalid")
      PROVE  TypeInv' /\ Frame(p) /\ Moves(p)
  BY <1>1, <1>3, <1>4, WriteRefusals
<1>5. ASSUME Done(p), users' = users, roles' \subseteq RoleRow, prefs' \subseteq PrefRow
      PROVE  TypeInv' /\ Frame(p) /\ Moves(p)
  BY <1>1, <1>2, <1>5, Effects
<1>6. CASE CreateRole(p)
  <2>1. [id |-> This(p).id, tenant |-> cmd[p]] \in RoleRow
    <3>1. Op(p) \in RoleOps /\ Op(p) \notin Lists \cup PrefOps /\ InFlight(p)
      BY <1>1, <1>6 DEF CreateRole, Writing, Op, RoleOps, Lists, PrefOps, InFlight
    <3> QED
      BY <1>2, <3>1, ItemFacts DEF RoleRow
  <2> QED
    BY <1>2, <1>4, <1>5, <1>6, <2>1 DEF CreateRole
<1>7. CASE UpdateRole(p)
  BY <1>2, <1>4, <1>5, <1>7 DEF UpdateRole, tables
<1>8. CASE DeleteRole(p)
  BY <1>2, <1>4, <1>5, <1>8 DEF DeleteRole
<1>9. CASE UpsertPreference(p)
  <2>1. PreferenceAsked(p) \in PrefRow
    <3>1. Op(p) \notin RoleOps /\ InFlight(p)
      BY <1>1, <1>9 DEF UpsertPreference, Writing, Op, RoleOps, InFlight
    <3>2. {} \in Id(User)
      BY DEF Id
    <3> QED
      BY <1>2, <3>1, <3>2, ItemFacts DEF PrefRow, PreferenceAsked, PreferenceScope, PrefKey, Id
  <2> QED
    BY <1>2, <1>4, <1>5, <1>9, <2>1 DEF UpsertPreference
<1>10. CASE DeletePreference(p)
  BY <1>2, <1>4, <1>5, <1>10 DEF DeletePreference
<1> QED
  BY <1>6, <1>7, <1>8, <1>9, <1>10

\* Of others, a support agent is shown a masked record.
LEMMA ShownToSupport ==
    ASSUME NEW p, NEW u, IsSupport(p)
    PROVE  ShownUser(p, u).masked \/ ShownUser(p, u).id = job[p].actor
<1> DEFINE hidden == IsSupport(p) /\ u # job[p].actor
<1>1. ShownUser(p, u).masked = hidden /\ ShownUser(p, u).id = u
  <2> HIDE DEF hidden
  <2>1. ShownUser(p, u) = [id |-> u, tenant |-> {}, masked |-> hidden]
    BY Zenon DEF ShownUser, hidden
  <2> QED
    BY <2>1
<1>2. CASE u = job[p].actor
  BY <1>1, <1>2
<1>3. CASE u # job[p].actor
  <2>1. hidden
    BY <1>3
  <2> HIDE DEF hidden
  <2> QED
    BY Zenon, <1>1, <2>1
<1> QED
  BY <1>2, <1>3

\* An answer that keeps to what its asker may see.
LEMMA Answers ==
    ASSUME BaseInv, NEW p \in Req, NEW shown, NEW count, pc[p] = "read", Show(p, shown, count),
           UNCHANGED <<env, tables, scope, cmd, granted, effects, log>>,
           Op(p) \in {"role.index", "role.show"} => \A s \in shown : s.tenant = cmd[p],
           Op(p) = "pref.index" => \A s \in shown : s.tenant = TenantShown(p, scope[p]),
           IsSupport(p) /\ Op(p) \in UserOps \cup PrefOps =>
               \A s \in shown : s.masked \/ s.id = job[p].actor,
           IsSupport(p) /\ Op(p) = "user.index" => count <= 1
    PROVE  TypeInv' /\ Frame(p) /\ Moves(p)
<1>1. /\ pc \in [Req -> Places] /\ results \in [Req -> Seq(Outcomes)]
      /\ DOMAIN seen = Req /\ DOMAIN total = Req /\ MaxItems \in Nat \ {0}
      /\ \A q \in Req : Len(results[q]) <= MaxItems
  BY CrudAssumption DEF BaseInv, TypeInv, TypeOK, Places
<1>2. /\ pc' = [pc EXCEPT ![p] = "done"] /\ results' = [results EXCEPT ![p] = <<"ok">>]
      /\ seen' = [seen EXCEPT ![p] = shown] /\ total' = [total EXCEPT ![p] = count] /\ at' = at
  BY DEF Show, Goto
<1>3. <<"ok">> \in Seq(Outcomes) /\ Len(<<"ok">>) = 1
  BY DEF Outcomes
<1>4. /\ pc'[p] = "done" /\ results'[p] = <<"ok">> /\ seen'[p] = shown /\ total'[p] = count
  BY <1>1, <1>2
<1>5. /\ results' \in [Req -> Seq(Outcomes)] /\ \A q \in Req : Len(results'[q]) <= MaxItems
  BY <1>1, <1>2, <1>3
<1>6. Frame(p) /\ TypeInv'
  BY <1>1, <1>2, <1>5 DEF BaseInv, TypeInv, TypeOK, Frame, env, tables, Places
<1>7. Shows(p)
  BY <1>2, <1>4 DEF Shows, Untouched, SameScopes
<1> QED
  BY <1>6, <1>7 DEF Moves

LEMMA ReadMoves ==
    ASSUME BaseInv, AccessGiven, NEW p \in Req, Read(p)
    PROVE  TypeInv' /\ Frame(p) /\ Moves(p)
<1>1. pc[p] = "read" /\ UNCHANGED <<env, tables, scope, cmd, granted, effects, log>>
  BY DEF Read, ListUsers, GetUser, ListRoles, GetRole, ListPreferences, ShowPreference, Reading
<1>2. ASSUME NEW outcome \in {"missing", "invalid"}, Settle(p, outcome), UNCHANGED total
      PROVE  TypeInv' /\ Frame(p) /\ Moves(p)
  <2>1. ~Checking(p) /\ pc[p] \in {"fetch", "check", "command", "write", "read"}
    BY <1>1 DEF Checking
  <2>2. outcome \in Outcomes /\ outcome # "ok" /\ outcome # "exists"
    BY <1>2 DEF Outcomes
  <2> QED
    BY <1>1, <1>2, <2>1, <2>2, Refusals
<1>3. CASE ListUsers(p)
  <2>1. Op(p) = "user.index"
    BY <1>3 DEF ListUsers, Reading, Op
  <2>2. PICK page, count :
            LET shown == Sifted(p, page) IN
            Show(p, {ShownUser(p, u) : u \in shown},
                 IF IsSupport(p) \/ count = 0 THEN Cardinality(shown) ELSE count)
    BY <1>3 DEF ListUsers
  <2> DEFINE shown == Sifted(p, page)
             all == {ShownUser(p, u) : u \in shown}
             n == IF IsSupport(p) \/ count = 0 THEN Cardinality(shown) ELSE count
  <2>3. Show(p, all, n)
    BY <2>2
  <2>4. \A s \in all : IsSupport(p) => s.masked \/ s.id = job[p].actor
    BY ShownToSupport
  <2>5. IsSupport(p) => n <= 1
    <3>1. SUFFICES ASSUME IsSupport(p) PROVE Cardinality(shown) <= 1
      OBVIOUS
    <3>2. shown \in SUBSET {job[p].actor}
      BY <3>1 DEF Sifted
    <3>3. IsFiniteSet({job[p].actor}) /\ Cardinality({job[p].actor}) = 1
      BY FS_Singleton
    <3> HIDE DEF shown
    <3> QED
      BY <3>2, <3>3, FS_Subset
  <2> HIDE DEF all, n
  <2> QED
    BY <1>1, <2>1, <2>3, <2>4, <2>5, Answers
<1>4. CASE GetUser(p)
  <2>1. Op(p) = "user.show"
    BY <1>4 DEF GetUser, Reading, Op
  <2>2. PICK u :
            IF users[u] = "absent" THEN Settle(p, "missing") /\ UNCHANGED total
            ELSE Show(p, {ShownUser(p, {u})}, 1)
    BY <1>4 DEF GetUser
  <2>3. CASE users[u] = "absent"
    BY <1>2, <2>2, <2>3
  <2>4. CASE users[u] # "absent"
    <3>1. \A s \in {ShownUser(p, {u})} : IsSupport(p) => s.masked \/ s.id = job[p].actor
      BY ShownToSupport
    <3>2. Show(p, {ShownUser(p, {u})}, 1)
      BY <2>2, <2>4
    <3> QED
      BY <1>1, <2>1, <3>1, <3>2, Answers
  <2> QED
    BY <2>3, <2>4
<1>5. CASE ListRoles(p)
  <2>1. Op(p) = "role.index" /\ Op(p) \notin UserOps \cup PrefOps
    BY <1>5 DEF ListRoles, Reading, Op, UserOps, PrefOps, Bulk
  <2>2. PICK page \in SUBSET {row \in roles : row.tenant = cmd[p]} :
            Show(p, {ShownRow(row) : row \in page}, Cardinality({row \in roles : row.tenant = cmd[p]}))
    BY <1>5 DEF ListRoles
  <2>3. \A s \in {ShownRow(row) : row \in page} : s.tenant = cmd[p]
    BY <2>2 DEF ShownRow
  <2> QED
    BY <1>1, <2>1, <2>2, <2>3, Answers
<1>6. CASE GetRole(p)
  <2>1. Op(p) = "role.show" /\ Op(p) \notin UserOps \cup PrefOps
    BY <1>6 DEF GetRole, Reading, Op, UserOps, PrefOps, Bulk
  <2>2. CASE RoleAsked(p) \in roles
    <3>1. Show(p, {ShownRow(RoleAsked(p))}, 1)
      BY <1>6, <2>2 DEF GetRole
    <3>2. \A s \in {ShownRow(RoleAsked(p))} : s.tenant = cmd[p]
      BY DEF ShownRow, RoleAsked
    <3> QED
      BY <1>1, <2>1, <3>1, <3>2, Answers
  <2>3. CASE RoleAsked(p) \notin roles
    BY <1>2, <1>6, <2>3 DEF GetRole
  <2> QED
    BY <2>2, <2>3
<1>7. CASE ListPreferences(p)
  <2> DEFINE row == PrefKey(This(p).level, Whose(p), scope[p])
             shown == OwnOnly(p, prefs \cap {row})
             all == {ShownRow(r) : r \in shown}
  <2>1. Op(p) = "pref.index"
    BY <1>7 DEF ListPreferences, Reading, Op
  <2>2. \/ Settle(p, "invalid") /\ UNCHANGED total
        \/ Show(p, all, Cardinality(shown))
    BY <1>7 DEF ListPreferences
  <2>3. This(p) = job[p].items[1]
    <3>1. This(p) = job[p].items[at[p]] /\ at[p] \in 1 .. Len(job[p].items)
      BY <1>1, ScopeTypes, JobFacts DEF BaseInv, Counted, InFlight
    <3>2. Len(job[p].items) = 1
      BY <2>1, JobFacts DEF BaseInv, Batches, Bulk
    <3> QED
      BY <3>1, <3>2
  <2>4. \A s \in all : s.tenant = TenantShown(p, scope[p]) /\ (IsSupport(p) => s.id = job[p].actor)
    BY <2>3 DEF ShownRow, OwnOnly, PrefKey, TenantShown
  <2> HIDE DEF all, shown, row
  <2>5. ASSUME Show(p, all, Cardinality(shown)) PROVE TypeInv' /\ Frame(p) /\ Moves(p)
    BY <1>1, <2>1, <2>4, <2>5, Answers
  <2> QED
    BY <1>2, <2>2, <2>5
<1>8. CASE ShowPreference(p)
  <2> DEFINE one == ShownRow(RowNamed(p))
  <2>1. Op(p) = "pref.show"
    BY <1>8 DEF ShowPreference, Reading, Op
  <2>2. Show(p, {one}, 1)
    BY <1>8 DEF ShowPreference
  <2>3. IsSupport(p) => one.id = job[p].actor
    <3>1. SUFFICES ASSUME IsSupport(p) PROVE one.id = job[p].actor
      OBVIOUS
    <3>2. Checked(p) = {at[p]}
      BY <1>1, <2>1 DEF Checked, Deletion, Own
    <3>3. This(p).id = job[p].actor
      BY <3>1, <3>2 DEF AccessGiven, This
    <3> QED
      BY <3>3 DEF ShownRow, RowNamed
  <2> HIDE DEF one
  <2> QED
    BY <1>1, <2>1, <2>2, <2>3, Answers
<1> QED
  BY <1>3, <1>4, <1>5, <1>6, <1>7, <1>8 DEF Read

\* Every step is a move of one request.
LEMMA StepMoves ==
    ASSUME BaseInv, AccessGiven, NEW p \in Req, Acts(p)
    PROVE  TypeInv' /\ Frame(p) /\ Moves(p)
<1>1. CASE Write(p)
  BY <1>1, UserWrites, RowWrites DEF Write
<1> QED
  BY <1>1, CheckMoves, CommandMoves, ReadMoves DEF Acts

-----------------------------------------------------------------------------
(* Each part of the invariant survives every move *)

\* The sets of operations are apart from each other.
LEMMA Operations ==
    /\ Reads \cap Bulk = {} /\ "pref.show" \in Reads /\ "user.delete_batch" \notin Reads \cup Bulk
    /\ "user.delete_batch" \in UserOps /\ "user.import" \in Bulk /\ Bulk \subseteq UserOps
    /\ "user.import" \notin Reads /\ "pref.show" \notin UserOps \cup RoleOps
    /\ UserOps \cap RoleOps = {} /\ PrefOps \cap RoleOps = {}
  BY DEF Reads, Lists, Bulk, UserOps, RoleOps, PrefOps

LEMMA CountedKept ==
    ASSUME BaseInv, NEW p \in Req, Frame(p), Moves(p)
    PROVE  Counted'
<1> DEFINE At(q) ==
        /\ InFlight(q) => /\ at[q] \in DOMAIN job[q].items
                          /\ Len(results[q]) = IF Checking(q) THEN 0 ELSE at[q] - 1
        /\ pc[q] = "idle" => at[q] = 1 /\ results[q] = <<>>
        /\ Len(results[q]) <= Len(job[q].items)
<1>1. SUFFICES At(p)'
  <2>1. ASSUME NEW q \in Req \ {p} PROVE At(q)'
    BY <2>1 DEF BaseInv, Counted, Frame, InFlight, Checking, Deletion, Op
  <2> QED
    BY <2>1 DEF Counted
<1>2. /\ At(p) /\ at[p] \in Nat \ {0} /\ Len(results[p]) \in Nat /\ Len(job[p].items) \in Nat
      /\ DOMAIN job[p].items = 1 .. Len(job[p].items) /\ job' = job
      /\ Op(p) \notin Batches => Len(job[p].items) = 1
      /\ results[p] \in Seq(Outcomes)
  <2>1. at[p] \in 1 .. MaxItems /\ MaxItems \in Nat /\ results[p] \in Seq(Outcomes)
    BY CrudAssumption DEF BaseInv, TypeInv
  <2> QED
    BY <2>1, JobFacts DEF BaseInv, Counted, Frame
<1>3. Checking(p)' <=> Deletion(p) /\ pc'[p] = "check"
  BY <1>2 DEF Checking, Deletion, Op
<1>4. ASSUME NEW outcome \in Outcomes, Settles(p, outcome), InFlight(p), ~Checking(p) PROVE At(p)'
  <2>1. Len(results'[p]) = at[p] /\ at[p] \in 1 .. Len(job[p].items)
    BY <1>2, <1>4, AppendFacts DEF Settles
  <2>2. CASE pc'[p] = "done"
    BY <1>2, <2>1, <2>2 DEF InFlight
  <2>3. CASE pc'[p] # "done"
    <3>1. ~Checking(p)' /\ pc'[p] # "idle"
      BY <1>3, <1>4, <2>3, Operations DEF Settles, KeepsGoing, Deletion, Op
    <3>2. at'[p] \in 1 .. Len(job[p].items) /\ at'[p] = at[p] + 1
      BY <1>2, <1>4, <2>1, <2>3 DEF Settles
    <3> QED
      BY <1>2, <2>1, <3>1, <3>2
  <2> QED
    BY <2>2, <2>3
<1>5. ASSUME Quiet(p), InFlight(p), Checking(p)' => Len(results[p]) = 0,
             ~Checking(p)' /\ InFlight(p)' => ~Checking(p), pc'[p] # "idle"
      PROVE  At(p)'
  BY <1>2, <1>5 DEF Quiet
<1>6. CASE Begins(p)
  <2>1. job[p].items # <<>> => Len(job[p].items) # 0
    <3>1. job[p].items \in Seq(Item)
      <4>1. job[p] \in Jobs /\ MaxItems \in Nat
        BY CrudAssumption DEF BaseInv, TypeInv
      <4> QED
        BY <4>1, SeqDef DEF Jobs, Items
    <3> QED
      BY <3>1, EmptySeq
  <2>2. Len(<<>>) = 0
    OBVIOUS
  <2> QED
    BY <1>2, <1>6, <2>1, <2>2 DEF Begins, Quiet, InFlight
<1>7. CASE Fetches(p)
  BY <1>2, <1>3, <1>7 DEF Fetches, Quiet, InFlight, BaseInv, PlaceFits, Deletion, Checking
<1>8. CASE Drops(p)
  BY <1>2, <1>8 DEF Drops, Quiet, InFlight, Checking
<1>9. CASE Enforces(p)
  <2>1. CASE Deletion(p)
    BY <1>2, <1>3, <1>9, <2>1 DEF Enforces, NextCheck, InFlight, Checking, Deletion, Op
  <2>2. CASE ~Deletion(p)
    BY <1>2, <1>3, <1>9, <2>2 DEF Enforces, NextCheck, InFlight, Checking, Deletion, Op
  <2> QED
    BY <2>1, <2>2
<1>10. CASE Commands(p)
  BY <1>2, <1>3, <1>10 DEF Commands, Quiet, InFlight, Checking
<1>11. CASE \E outcome \in Outcomes : Refuses(p, outcome)
  BY <1>4, <1>11 DEF Refuses, InFlight
<1>12. CASE TakesEffect(p)
  <2>1. "error" \in Outcomes /\ InFlight(p) /\ ~Checking(p)
    BY <1>12 DEF Outcomes, TakesEffect, InFlight, Checking
  <2>2. CASE Quiet(p) /\ pc'[p] = "log"
    BY <1>2, <1>3, <2>1, <2>2 DEF Quiet, InFlight
  <2> QED
    BY <1>4, <1>12, <2>1, <2>2 DEF TakesEffect
<1>13. CASE Passes(p)
  BY <1>2, <1>3, <1>13 DEF Passes, Quiet, InFlight, Checking
<1>14. CASE Logs(p)
  <2>1. "ok" \in Outcomes /\ InFlight(p) /\ ~Checking(p)
    BY <1>14 DEF Outcomes, Logs, InFlight, Checking
  <2> QED
    BY <1>4, <1>14, <2>1 DEF Logs
<1>15. CASE Shows(p)
  <2>1. Len(<<"ok">>) = 1
    OBVIOUS
  <2> QED
    BY <1>2, <1>15, <2>1 DEF Shows, InFlight
<1>16. CASE Crashes(p)
  BY <1>2, <1>16 DEF Crashes, Quiet, InFlight
<1> QED
  BY <1>6, <1>7, <1>8, <1>9, <1>10, <1>11, <1>12, <1>13, <1>14, <1>15, <1>16 DEF Moves

LEMMA PlaceFitsKept ==
    ASSUME BaseInv, NEW p \in Req, Frame(p), Moves(p)
    PROVE  PlaceFits'
<1> DEFINE At(q) ==
        /\ pc[q] \in {"write", "log"} => Op(q) \notin Reads
        /\ pc[q] = "read" => Op(q) \in Reads
        /\ pc[q] = "fetch" => Op(q) = "pref.show"
        /\ pc[q] = "check" => Op(q) \notin Bulk
<1>1. SUFFICES At(p)'
  <2>1. ASSUME NEW q \in Req \ {p} PROVE At(q)'
    BY <2>1 DEF BaseInv, PlaceFits, Frame, Op
  <2> QED
    BY <2>1 DEF PlaceFits
<1>2. At(p) /\ Op(p)' = Op(p)
  BY DEF BaseInv, PlaceFits, Frame, Op
<1>3. ASSUME NEW outcome, Settles(p, outcome) PROVE At(p)'
  BY <1>2, <1>3 DEF Settles
<1>4. CASE Begins(p)
  BY <1>2, <1>4, Operations DEF Begins
<1>5. CASE Fetches(p)
  BY <1>2, <1>5, Operations DEF Fetches
<1>6. CASE Drops(p)
  BY <1>2, <1>6 DEF Drops
<1>7. CASE Enforces(p)
  BY <1>2, <1>7, Operations DEF Enforces, NextCheck, Op, Reads, Lists, Bulk
<1>8. CASE Commands(p)
  BY <1>2, <1>8 DEF Commands
<1>9. CASE \E outcome \in Outcomes : Refuses(p, outcome)
  BY <1>3, <1>9 DEF Refuses
<1>10. CASE TakesEffect(p)
  BY <1>2, <1>3, <1>10 DEF TakesEffect
<1>11. CASE Passes(p)
  BY <1>2, <1>11 DEF Passes
<1>12. CASE Logs(p)
  BY <1>3, <1>12 DEF Logs
<1>13. CASE Shows(p)
  BY <1>2, <1>13 DEF Shows
<1>14. CASE Crashes(p)
  BY <1>2, <1>14 DEF Crashes
<1> QED
  BY <1>4, <1>5, <1>6, <1>7, <1>8, <1>9, <1>10, <1>11, <1>12, <1>13, <1>14 DEF Moves

\* The service's scope stays as it is pinned; the command's is pinned anew.
LEMMA ScopesFitKept ==
    ASSUME BaseInv, ScopesFit, NEW p \in Req, Frame(p), Moves(p)
    PROVE  ScopesFit'
<1> DEFINE At(q) ==
        /\ pins /\ pc[q] \in {"write", "log"} => cmd[q] = Home(q)
        /\ pins /\ pc[q] = "read" /\ Op(q) \in {"role.index", "role.show"} => cmd[q] = Home(q)
        /\ pins /\ pc[q] \in {"command", "read"} /\ Op(q) \notin UserOps => scope[q] = Home(q)
        /\ pc[q] \in {"write", "log"} /\ Op(q) \notin UserOps => scope[q] = cmd[q]
<1>1. \A q \in Req : Home(q)' = Home(q) /\ Op(q)' = Op(q) /\ pins' = pins
  BY DEF Frame, Home, Op
<1>2. SUFFICES At(p)'
  <2>1. ASSUME NEW q \in Req \ {p} PROVE At(q)'
    BY <1>1, <2>1 DEF ScopesFit, Frame
  <2> QED
    BY <2>1 DEF ScopesFit
<1>3. At(p)
  BY DEF ScopesFit
<1>4. Op(p) \notin UserOps => ~KeepsGoing(p) /\ Op(p) \notin Bulk
  BY JobFacts, Operations DEF BaseInv, KeepsGoing, Op
<1>5. ASSUME NEW outcome, Settles(p, outcome) PROVE At(p)'
  <2>1. pc'[p] \in {"done", "check", "command"} /\ (pc'[p] = "command" => Op(p) \in UserOps)
    BY <1>4, <1>5 DEF Settles
  <2> QED
    BY <1>1, <2>1
<1>6. CASE Begins(p)
  BY <1>1, <1>3, <1>4, <1>6 DEF Begins
<1>7. CASE Fetches(p) \/ Drops(p) \/ Crashes(p) \/ Shows(p)
  BY <1>1, <1>7 DEF Fetches, Drops, Crashes, Shows
<1>8. CASE Enforces(p)
  <2>1. pc'[p] \in {"check", "command", "read"}
    BY <1>8 DEF Enforces, NextCheck
  <2>2. Op(p) \notin UserOps => ~Deletion(p)
    BY Operations DEF Deletion
  <2>3. ~(pc'[p] = "read" /\ Op(p) \in {"role.index", "role.show"})
    BY <1>8 DEF Enforces, NextCheck, Op
  <2> QED
    BY <1>1, <1>8, <2>1, <2>2, <2>3 DEF Enforces, Pinned
<1>9. CASE Commands(p)
  <2>1. cmd'[p] = ResolveScope(p, scope[p]) /\ scope'[p] = scope[p] /\ pc[p] = "command"
    BY <1>9 DEF Commands
  <2>2. pins => cmd'[p] = Home(p)
    BY <2>1 DEF ResolveScope
  <2>3. Op(p) \notin UserOps => cmd'[p] = scope[p]
    BY <1>3, <2>1 DEF ResolveScope
  <2>4. pins /\ Op(p) \notin UserOps => scope'[p] = Home(p)
    BY <1>3, <2>1
  <2> QED
    BY <1>1, <2>1, <2>2, <2>3, <2>4
<1>10. CASE \E outcome \in Outcomes : Refuses(p, outcome)
  BY <1>5, <1>10 DEF Refuses
<1>11. CASE TakesEffect(p)
  <2>1. CASE Quiet(p) /\ pc'[p] = "log"
    BY <1>1, <1>3, <1>11, <2>1 DEF TakesEffect, SameScopes
  <2> QED
    BY <1>5, <1>11, <2>1 DEF TakesEffect
<1>12. CASE Passes(p)
  BY <1>1, <1>3, <1>12 DEF Passes, SameScopes
<1>13. CASE Logs(p)
  BY <1>5, <1>13 DEF Logs
<1> QED
  BY <1>6, <1>7, <1>8, <1>9, <1>10, <1>11, <1>12, <1>13 DEF Moves

LEMMA WriteGrantedKept ==
    ASSUME BaseInv, WriteGranted, NEW p \in Req, Frame(p), Moves(p)
    PROVE  WriteGranted'
<1>1. \A q \in Req : /\ Action(q)' = Action(q)
  BY DEF Frame, Action
<1>2. ASSUME NEW q \in Req \ {p}, pc'[q] = "write"
      PROVE  \E g \in granted'[q] :
                 g = [action |-> Action(q)', scope |-> cmd'[q], target |-> Target(q)']
  <2>1. Target(q)' = Target(q)
    BY <1>2 DEF Frame, Target, This
  <2>2. pc[q] = "write" /\ granted'[q] = granted[q] /\ cmd'[q] = cmd[q]
    BY <1>2 DEF Frame
  <2> QED
    BY <1>1, <1>2, <2>1, <2>2 DEF WriteGranted
<1>3. ASSUME pc'[p] = "write"
      PROVE  \E g \in granted'[p] :
                 g = [action |-> Action(p)', scope |-> cmd'[p], target |-> Target(p)']
  <2>1. Commands(p)
    <3>1. \A outcome : ~Settles(p, outcome)
      BY <1>3 DEF Settles
    <3>2. ~Logs(p) /\ ~TakesEffect(p) /\ \A outcome : ~Refuses(p, outcome)
      BY <1>3, <3>1 DEF Logs, TakesEffect, Refuses
    <3> QED
      BY <1>3, <3>2 DEF Moves, Begins, Fetches, Drops, Enforces, NextCheck, Passes, Shows, Crashes
  <2>2. Target(p)' = Target(p)
    BY <2>1 DEF Commands, Quiet, Frame, Target, This
  <2> QED
    BY <1>1, <2>1, <2>2 DEF Commands
<1> QED
  BY <1>2, <1>3 DEF WriteGranted

\* No check is forgotten.
LEMMA GrantsStay ==
    ASSUME BaseInv, NEW p \in Req, Frame(p), Moves(p)
    PROVE  \A q \in Req : granted[q] \subseteq granted'[q]
<1>1. granted[p] \subseteq granted'[p]
  <2>1. CASE Begins(p) \/ Fetches(p) \/ Drops(p) \/ Passes(p) \/ Logs(p) \/ Shows(p) \/ Crashes(p)
             \/ TakesEffect(p) \/ \E outcome \in Outcomes : Refuses(p, outcome)
    BY <2>1 DEF Begins, Fetches, Drops, Passes, Logs, Shows, Crashes, TakesEffect, Refuses, SameScopes
  <2>2. CASE Enforces(p)
    BY <2>2 DEF Enforces
  <2>3. CASE Commands(p)
    BY <2>3 DEF Commands
  <2> QED
    BY <2>1, <2>2, <2>3 DEF Moves
<1> QED
  BY <1>1 DEF Frame

LEMMA AccessGivenKept ==
    ASSUME BaseInv, AccessGiven, NEW p \in Req, Frame(p), Moves(p)
    PROVE  AccessGiven'
<1> DEFINE Fit(q, i) == /\ IsSupport(q) => job[q].items[i].id = job[q].actor
                        /\ Deletion(q) => Granted(q, job[q].items[i].id)
<1>1. \A q \in Req : Op(q)' = Op(q) /\ Deletion(q)' = Deletion(q) /\ IsSupport(q)' = IsSupport(q)
  BY DEF Frame, Op, Deletion, IsSupport
<1>2. ASSUME NEW q \in Req, NEW i, Fit(q, i) PROVE Fit(q, i)'
  BY <1>1, <1>2, GrantsStay DEF Frame, Granted
<1>3. ASSUME NEW q \in Req \ {p}, NEW i \in Checked(q)' PROVE Fit(q, i)'
  <2>1. Checked(q)' = Checked(q)
    BY <1>1, <1>3 DEF Checked, Frame
  <2> QED
    BY <1>2, <1>3, <2>1 DEF AccessGiven
<1>4. ASSUME NEW i \in Checked(p)' PROVE Fit(p, i)'
  <2>1. Checked(p)' = IF Deletion(p)
                      THEN IF pc'[p] = "check" THEN 1 .. at'[p] - 1
                           ELSE IF pc'[p] \in {"command", "write", "log"} THEN DOMAIN job[p].items ELSE {}
                      ELSE IF Op(p) \in Own /\ pc'[p] \in {"command", "write", "log", "read"}
                           THEN {at'[p]} ELSE {}
    BY <1>1 DEF Checked, Frame
  <2>2. /\ at[p] \in Nat \ {0} /\ DOMAIN job[p].items = 1 .. Len(job[p].items)
        /\ Len(job[p].items) \in Nat /\ (InFlight(p) => at[p] \in DOMAIN job[p].items)
    <3>1. at[p] \in 1 .. MaxItems /\ MaxItems \in Nat
      BY CrudAssumption DEF BaseInv, TypeInv
    <3> QED
      BY <3>1, JobFacts DEF BaseInv, Counted
  <2>3. ASSUME Checked(p)' \subseteq Checked(p) PROVE Fit(p, i)'
    BY <1>2, <1>4, <2>3 DEF AccessGiven
  <2>4. Deletion(p) => Op(p) \notin Reads \cup Bulk
    BY Operations DEF Deletion
  <2>5. Op(p) \in Own => Op(p) \notin Bulk
    BY DEF Own, Bulk
  <2>6. ASSUME NEW outcome, Settles(p, outcome), InFlight(p), ~Checking(p) PROVE Fit(p, i)'
    <3>1. CASE Deletion(p)
      <4>1. pc[p] \in {"command", "write", "log"}
        <5>1. pc[p] \in Places
          BY DEF BaseInv, TypeInv, TypeOK, Places
        <5> QED
          BY <2>4, <2>6, <3>1, <5>1, Operations
             DEF BaseInv, PlaceFits, Checking, InFlight, Places, Deletion
      <4>2. Checked(p) = DOMAIN job[p].items
        BY <3>1, <4>1 DEF Checked
      <4>3. pc'[p] \in {"command", "done"}
        BY <2>6, <3>1 DEF Settles, KeepsGoing, Deletion, Op
      <4> QED
        BY <2>1, <2>3, <3>1, <4>2, <4>3
    <3>2. CASE ~Deletion(p)
      <4>1. Op(p) \in Own => ~KeepsGoing(p)
        BY <2>5, <3>2, JobFacts DEF BaseInv, KeepsGoing, Deletion, Op
      <4>2. Op(p) \in Own => pc'[p] \in {"check", "done"}
        BY <2>5, <2>6, <4>1 DEF Settles
      <4> QED
        BY <1>4, <2>1, <3>2, <4>2
    <3> QED
      BY <3>1, <3>2
  <2>7. CASE Begins(p)
    BY <1>4, <2>1, <2>2, <2>4, <2>5, <2>7 DEF Begins, Quiet, Deletion, BaseInv, Counted
  <2>8. CASE Fetches(p)
    <3>1. ~Deletion(p)
      BY <2>8 DEF Fetches, BaseInv, PlaceFits, Deletion
    <3> QED
      BY <1>4, <2>1, <2>8, <3>1 DEF Fetches
  <2>9. CASE Drops(p)
    BY <1>4, <2>1, <2>9 DEF Drops
  <2>10. CASE Enforces(p)
    <3>1. pc[p] = "check" /\ pc'[p] = NextCheck(p) /\ RowAccess(p) /\ InFlight(p)
      BY <2>10 DEF Enforces, InFlight
    <3>2. Op(p) \in Own /\ IsSupport(p) => This(p).id = job[p].actor
      BY <3>1 DEF RowAccess, Own, Op
    <3>3. CASE Deletion(p)
      <4>1. Target(p) = This(p).id
        BY <3>3 DEF Target, Deletion, Op, Creates, Lists
      <4>2. \E h \in granted'[p] : h.target = This(p).id
        BY <2>10, <4>1 DEF Enforces
      <4>3. i = at[p] => Fit(p, i)'
        <5>1. Deletion(p) => Op(p) \in Own
          BY DEF Deletion, Own
        <5> QED
          BY <1>1, <3>2, <3>3, <4>2, <5>1 DEF Frame, Granted, This
      <4>4. Checked(p) = 1 .. at[p] - 1
        BY <3>1, <3>3 DEF Checked
      <4>5. Checked(p)' \subseteq 1 .. at[p]
        <5>1. CASE at[p] < Len(job[p].items)
          <6>1. pc'[p] = "check" /\ at'[p] = at[p] + 1
            BY <2>10, <3>1, <3>3, <5>1 DEF Enforces, NextCheck, Deletion, Op
          <6> QED
            BY <2>1, <2>2, <3>3, <6>1
        <5>2. CASE ~(at[p] < Len(job[p].items))
          <6>1. pc'[p] # "check" /\ at[p] = Len(job[p].items)
            BY <2>2, <3>1, <3>3, <5>2 DEF NextCheck, Deletion, Op
          <6> QED
            BY <2>1, <2>2, <3>3, <6>1
        <5> QED
          BY <5>1, <5>2
      <4>6. i = at[p] \/ i \in Checked(p)
        BY <1>4, <2>2, <4>4, <4>5
      <4> QED
        BY <1>2, <4>3, <4>6 DEF AccessGiven
    <3>4. CASE ~Deletion(p)
      <4>1. at'[p] = at[p]
        BY <2>10, <3>4 DEF Enforces
      <4>2. Op(p) \in Own /\ i = at[p]
        BY <1>4, <2>1, <3>4, <4>1
      <4> QED
        BY <1>1, <3>2, <3>4, <4>2 DEF Frame, This
    <3> QED
      BY <3>3, <3>4
  <2>11. CASE Commands(p)
    <3>1. Checked(p)' \subseteq Checked(p)
      <4>1. pc[p] = "command" /\ at'[p] = at[p] /\ pc'[p] # "check"
        BY <2>11 DEF Commands, Quiet
      <4> QED
        BY <2>1, <4>1 DEF Checked
    <3> QED
      BY <2>3, <3>1
  <2>12. CASE \E outcome \in Outcomes : Refuses(p, outcome)
    BY <2>6, <2>12 DEF Refuses, InFlight
  <2>13. ASSUME pc[p] = "write", pc'[p] = "log", Quiet(p) PROVE Fit(p, i)'
    <3>1. Checked(p)' \subseteq Checked(p)
      BY <2>1, <2>13 DEF Checked, Quiet
    <3> QED
      BY <2>3, <3>1
  <2>14. CASE TakesEffect(p)
    <3>1. InFlight(p) /\ ~Checking(p)
      BY <2>14 DEF TakesEffect, InFlight, Checking
    <3> QED
      BY <2>6, <2>13, <2>14, <3>1 DEF TakesEffect
  <2>15. CASE Passes(p)
    BY <2>13, <2>15 DEF Passes
  <2>16. CASE Logs(p)
    <3>1. InFlight(p) /\ ~Checking(p)
      BY <2>16 DEF Logs, InFlight, Checking
    <3> QED
      BY <2>6, <2>16, <3>1 DEF Logs
  <2>17. CASE Shows(p) \/ Crashes(p)
    BY <1>4, <2>1, <2>17 DEF Shows, Crashes
  <2> QED
    BY <2>7, <2>8, <2>9, <2>10, <2>11, <2>12, <2>14, <2>15, <2>16, <2>17 DEF Moves
<1> QED
  BY <1>3, <1>4 DEF AccessGiven

\* Outcomes are only ever added, and no request starts or is checked again.
LEMMA ResultsGrow ==
    ASSUME BaseInv, NEW p \in Req, Frame(p), Moves(p)
    PROVE  \A q \in Req :
               /\ DOMAIN results[q] \subseteq DOMAIN results'[q]
               /\ \A i \in DOMAIN results[q] : results'[q][i] = results[q][i]
               /\ pc[q] # "idle" => pc'[q] # "idle"
               /\ pc[q] # "idle" /\ ~Checking(q) => ~Checking(q)'
<1>1. SUFFICES /\ DOMAIN results[p] \subseteq DOMAIN results'[p]
               /\ \A i \in DOMAIN results[p] : results'[p][i] = results[p][i]
               /\ pc'[p] # "idle"
               /\ pc[p] # "idle" /\ ~Checking(p) => ~Checking(p)'
  BY DEF Frame, Checking, Deletion, Op
<1>2. results[p] \in Seq(Outcomes) /\ Deletion(p)' = Deletion(p)
  BY DEF BaseInv, TypeInv, Frame, Deletion, Op
<1>3. ASSUME results'[p] = results[p], pc'[p] # "idle", pc'[p] = "check" => pc[p] \in {"idle", "fetch", "check"}
      PROVE  <1>1!1
  <2>1. Deletion(p) /\ pc[p] = "fetch" => FALSE
    BY DEF BaseInv, PlaceFits, Deletion
  <2> QED
    BY <1>2, <1>3, <2>1 DEF Checking
<1>4. ASSUME NEW outcome \in Outcomes, Settles(p, outcome) PROVE <1>1!1
  <2>1. results'[p] = Append(results[p], outcome) /\ pc'[p] \in {"done", "command", "check"}
        /\ (Deletion(p) => pc'[p] # "check")
    BY <1>4 DEF Settles, KeepsGoing, Deletion, Op
  <2> QED
    BY <1>2, <2>1, AppendFacts DEF Checking
<1>5. CASE Begins(p) \/ Fetches(p) \/ Drops(p) \/ Passes(p) \/ Crashes(p)
  BY <1>3, <1>5 DEF Begins, Fetches, Drops, Passes, Crashes, Quiet
<1>6. CASE Enforces(p) \/ Commands(p)
  BY <1>3, <1>6 DEF Enforces, Commands, Quiet, NextCheck
<1>7. CASE \E outcome \in Outcomes : Refuses(p, outcome)
  BY <1>4, <1>7 DEF Refuses
<1>8. CASE TakesEffect(p)
  <2>1. "error" \in Outcomes
    BY DEF Outcomes
  <2>2. CASE Quiet(p) /\ pc'[p] = "log"
    BY <1>3, <2>2 DEF Quiet
  <2> QED
    BY <1>4, <1>8, <2>1, <2>2 DEF TakesEffect
<1>9. CASE Logs(p)
  <2>1. "ok" \in Outcomes
    BY DEF Outcomes
  <2> QED
    BY <1>4, <1>9, <2>1 DEF Logs
<1>10. CASE Shows(p)
  <2>1. Op(p) \in Reads /\ Op(p) \notin Batches
    BY <1>10 DEF Shows, BaseInv, PlaceFits, Batches, Reads, Lists, Bulk
  <2>2. Len(job[p].items) = 1 /\ DOMAIN job[p].items = 1 .. Len(job[p].items)
    BY <2>1, JobFacts DEF BaseInv
  <2>3. Len(results[p]) = 0
    <3>1. InFlight(p) /\ ~Checking(p)
      BY <1>10 DEF Shows, InFlight, Checking
    <3> QED
      BY <2>2, <3>1 DEF BaseInv, Counted
  <2>4. DOMAIN results[p] = {}
    BY <1>2, <2>3, LenProperties
  <2> QED
    BY <1>10, <2>4 DEF Shows, Checking
<1> QED
  BY <1>5, <1>6, <1>7, <1>8, <1>9, <1>10 DEF Moves

LEMMA EffectsFitKept ==
    ASSUME BaseInv, ScopesFit, AccessGiven, EffectsFit, NEW p \in Req, Frame(p), Moves(p)
    PROVE  EffectsFit'
<1> DEFINE Fit(e) ==
        /\ e.req \in Req /\ e.item \in DOMAIN job[e.req].items
        /\ Op(e.req) \notin Reads
        /\ pins => e.scope = Home(e.req)
        /\ Op(e.req) \in Own /\ IsSupport(e.req) =>
               job[e.req].items[e.item].id = job[e.req].actor
        /\ Deletion(e.req) => \A i \in DOMAIN job[e.req].items :
                                  Granted(e.req, job[e.req].items[i].id)
<1>1. ASSUME NEW e, Fit(e) PROVE Fit(e)'
  <2>1. job' = job /\ home' = home /\ pins' = pins
    BY DEF Frame
  <2> QED
    BY <1>1, <2>1, GrantsStay DEF Op, Home, IsSupport, Deletion, Granted
<1>2. CASE effects' = effects
  BY <1>1, <1>2 DEF EffectsFit
<1>3. CASE TakesEffect(p)
  <2> DEFINE new == [req |-> p, item |-> at[p], scope |-> cmd[p]]
  <2>1. pc[p] = "write" /\ effects' = effects \cup {new} /\ InFlight(p)
    BY <1>3 DEF TakesEffect, InFlight
  <2>2. at[p] \in DOMAIN job[p].items /\ Op(p) \notin Reads /\ (pins => cmd[p] = Home(p))
    BY <2>1 DEF BaseInv, Counted, PlaceFits, ScopesFit
  <2>3. Op(p) \in Own => at[p] \in Checked(p)
    BY <2>1, <2>2 DEF Checked
  <2>4. Deletion(p) => Checked(p) = DOMAIN job[p].items
    BY <2>1 DEF Checked
  <2>5. Fit(new)
    BY <2>2, <2>3, <2>4 DEF AccessGiven
  <2> HIDE DEF new
  <2>6. \A e \in effects' : Fit(e)
    BY <2>1, <2>5 DEF EffectsFit
  <2> HIDE DEF Fit
  <2>7. \A e \in effects' : Fit(e)'
    BY <1>1, <2>6
  <2> QED
    BY <2>7 DEF EffectsFit, Fit
<1> QED
  BY <1>2, <1>3 DEF Moves, Begins, Fetches, Drops, Enforces, Commands, Refuses, Passes, Logs,
                    Shows, Crashes, Untouched

\* The outcomes of a request that works are those of the items before the one at
\* hand; what an item is settled with is the outcome of that one.
LEMMA SettledItem ==
    ASSUME BaseInv, NEW p \in Req, InFlight(p), ~Checking(p)
    PROVE  /\ DOMAIN results[p] = 1 .. at[p] - 1 /\ Len(results[p]) = at[p] - 1
           /\ at[p] \in Nat \ {0} /\ at[p] \in DOMAIN job[p].items
           /\ at[p] <= Len(job[p].items) /\ Len(job[p].items) \in Nat
           /\ \A outcome \in Outcomes : Settles(p, outcome) =>
                  /\ DOMAIN results'[p] = 1 .. at[p] /\ Len(results'[p]) = at[p]
                  /\ results'[p][at[p]] = outcome
                  /\ \A i \in 1 .. at[p] - 1 : results'[p][i] = results[p][i]
<1>1. /\ results[p] \in Seq(Outcomes) /\ at[p] \in DOMAIN job[p].items
      /\ Len(results[p]) = at[p] - 1
  BY DEF BaseInv, TypeInv, Counted
<1>2. at[p] \in 1 .. Len(job[p].items) /\ Len(job[p].items) \in Nat
  BY <1>1, JobFacts DEF BaseInv
<1> QED
  BY <1>1, <1>2, AppendFacts, LenProperties DEF Settles

LEMMA EffectsPastKept ==
    ASSUME BaseInv, EffectsFit, EffectsPast, NEW p \in Req, Frame(p), Moves(p)
    PROVE  EffectsPast'
<1> DEFINE Past(e) ==
        /\ pc[e.req] # "idle" /\ ~Checking(e.req)
        /\ \/ e.item \in DOMAIN results[e.req]
           \/ /\ e.item = at[e.req] /\ pc[e.req] \in {"log", "crashed"}
              /\ pc[e.req] = "log" => e.scope = cmd[e.req]
<1>1. ASSUME NEW e \in effects PROVE Past(e)'
  <2>1. Past(e) /\ e.req \in Req
    BY DEF EffectsPast, EffectsFit
  <2>2. pc'[e.req] # "idle" /\ ~Checking(e.req)'
    BY <2>1, ResultsGrow
  <2>3. CASE e.item \in DOMAIN results[e.req]
    BY <2>1, <2>2, <2>3, ResultsGrow
  <2>4. CASE e.req # p
    BY <2>1, <2>2, <2>4 DEF Frame
  <2>5. CASE e.req = p /\ e.item = at[p] /\ pc[p] \in {"log", "crashed"}
    <3>1. CASE Logs(p)
      <4>1. InFlight(p) /\ ~Checking(p) /\ Settles(p, "ok") /\ "ok" \in Outcomes
        BY <3>1 DEF Logs, InFlight, Checking, Outcomes
      <4>2. e.item \in DOMAIN results'[p]
        BY <2>5, <4>1, SettledItem
      <4> QED
        BY <2>2, <2>5, <4>2
    <3>2. CASE Crashes(p)
      BY <2>2, <2>5, <3>2 DEF Crashes, Quiet
    <3> QED
      BY <2>5, <3>1, <3>2 DEF Moves, Begins, Fetches, Drops, Checking, Enforces, Commands,
                              Refuses, TakesEffect, Passes, Shows
  <2> QED
    BY <2>1, <2>3, <2>4, <2>5
<1>2. CASE effects' = effects
  BY <1>1, <1>2 DEF EffectsPast
<1>3. CASE TakesEffect(p)
  <2> DEFINE new == [req |-> p, item |-> at[p], scope |-> cmd[p]]
  <2>1. /\ pc[p] = "write" /\ effects' = effects \cup {new} /\ InFlight(p) /\ ~Checking(p)
        /\ cmd'[p] = cmd[p]
    BY <1>3 DEF TakesEffect, InFlight, Checking, SameScopes
  <2>2. pc'[p] # "idle" /\ ~Checking(p)'
    BY <2>1, ResultsGrow
  <2>3. ASSUME NEW e, e = new PROVE Past(e)'
    <3>1. e.req = p /\ e.item = at[p] /\ e.scope = cmd[p]
      BY <2>3
    <3>2. CASE Quiet(p) /\ pc'[p] = "log"
      BY <2>1, <2>2, <3>1, <3>2 DEF Quiet
    <3>3. CASE Settles(p, "error")
      <4>1. "error" \in Outcomes
        BY DEF Outcomes
      <4>2. e.item \in DOMAIN results'[p]
        BY <2>1, <3>1, <3>3, <4>1, SettledItem
      <4> QED
        BY <2>2, <3>1, <4>2
    <3> QED
      BY <1>3, <3>2, <3>3 DEF TakesEffect
  <2> HIDE DEF new, Past
  <2>4. \A e \in effects' : Past(e)'
    BY <1>1, <2>1, <2>3
  <2> QED
    BY <2>4 DEF EffectsPast, Past
<1> QED
  BY <1>2, <1>3 DEF Moves, Begins, Fetches, Drops, Enforces, Commands, Refuses, Passes, Logs,
                    Shows, Crashes, Untouched

\* A record is of an item that is through, in the scope in which it took effect.
LEMMA LogKept ==
    ASSUME BaseInv, ScopesFit, EffectsFit, EffectsPast, LogPast, SameScope,
           NEW p \in Req, Frame(p), Moves(p)
    PROVE  LogPast' /\ SameScope'
<1> DEFINE Past(l) ==
        /\ l.req \in Req /\ l.item \in DOMAIN results[l.req]
        /\ pc[l.req] # "idle" /\ ~Checking(l.req)
           Same(e, l) == e.req = l.req /\ e.item = l.item => e.scope = l.scope
           new == [req |-> p, item |-> at[p], scope |-> LoggedScope(p)]
           effect == [req |-> p, item |-> at[p], scope |-> cmd[p]]
<1>1. ASSUME NEW l \in log PROVE Past(l)'
  BY ResultsGrow DEF LogPast
<1>2. CASE log' = log /\ effects' = effects
  BY <1>1, <1>2 DEF LogPast, SameScope
<1>3. CASE TakesEffect(p)
  <2>1. /\ effects' = effects \cup {effect} /\ log' = log
        /\ DOMAIN results[p] = 1 .. at[p] - 1 /\ at[p] \in Nat
    <3>1. InFlight(p) /\ ~Checking(p)
      BY <1>3 DEF TakesEffect, InFlight, Checking
    <3> QED
      BY <1>3, <3>1, SettledItem DEF TakesEffect
  <2>2. \A l \in log : ~(l.req = p /\ l.item = at[p])
    BY <2>1 DEF LogPast
  <2>3. \A l \in log : Same(effect, l)
    BY <2>2
  <2> HIDE DEF effect
  <2> QED
    BY <1>1, <2>1, <2>3 DEF LogPast, SameScope
<1>4. CASE Logs(p) /\ log' = log \cup {new}
  <2>1. effects' = effects /\ pc[p] = "log" /\ Settles(p, "ok") /\ "ok" \in Outcomes
    BY <1>4 DEF Logs, Outcomes
  <2>2. InFlight(p) /\ ~Checking(p)
    BY <2>1 DEF InFlight, Checking
  <2>3. DOMAIN results[p] = 1 .. at[p] - 1 /\ DOMAIN results'[p] = 1 .. at[p] /\ at[p] \in Nat \ {0}
    BY <2>1, <2>2, SettledItem
  <2>4. LoggedScope(p) = cmd[p]
    BY <2>1 DEF LoggedScope, ScopesFit, Op
  <2>5. \A e \in effects : Same(e, new)
    <3>1. \A e \in effects : e.req = p /\ e.item = at[p] => e.scope = cmd[p]
      BY <2>1, <2>3 DEF EffectsPast
    <3> QED
      BY <2>4, <3>1
  <2>6. ASSUME NEW l, l = new PROVE Past(l)'
    <3>1. l.req = p /\ l.item = at[p]
      BY <2>6
    <3>2. pc'[p] # "idle" /\ ~Checking(p)'
      BY <2>1, <2>2, ResultsGrow
    <3> QED
      BY <2>3, <3>1, <3>2
  <2> HIDE DEF new, Past
  <2>7. \A l \in log' : Past(l)'
    BY <1>1, <1>4, <2>6
  <2>8. \A e \in effects, l \in log' : Same(e, l)
    BY <1>4, <2>5 DEF SameScope
  <2> QED
    BY <2>1, <2>7, <2>8 DEF LogPast, SameScope, Past
<1> QED
  BY <1>2, <1>3, <1>4 DEF Moves, Begins, Fetches, Drops, Enforces, Commands, Refuses, Passes, Logs,
                    Shows, Crashes, Untouched

\* Which items of whom took effect changes by one item of one request.
LEMMA TookFacts ==
    ASSUME BaseInv, EffectsPast, NEW p \in Req, Frame(p), Moves(p)
    PROVE  /\ \A q \in Req \ {p} : Took(q)' = Took(q)
           /\ ~TakesEffect(p) => Took(p)' = Took(p)
           /\ TakesEffect(p) => Took(p)' = Took(p) \cup {at[p]}
           /\ InFlight(p) /\ ~Checking(p) /\ pc[p] # "log" => at[p] \notin Took(p)
           /\ Checking(p) \/ pc[p] = "idle" => Took(p) = {}
<1>1. ~TakesEffect(p) => effects' = effects
  BY DEF Moves, Begins, Fetches, Drops, Enforces, Commands, Refuses, Passes, Logs, Shows, Crashes,
         Untouched
<1>2. ASSUME TakesEffect(p)
      PROVE  /\ \A q \in Req \ {p} : Took(q)' = Took(q)
             /\ Took(p)' = Took(p) \cup {at[p]}
  <2> DEFINE new == [req |-> p, item |-> at[p], scope |-> cmd[p]]
  <2>1. effects' = effects \cup {new} /\ new.req = p /\ new.item = at[p]
    BY <1>2 DEF TakesEffect
  <2> HIDE DEF new
  <2> QED
    BY <2>1 DEF Took
<1>3. ASSUME InFlight(p), ~Checking(p), pc[p] # "log" PROVE at[p] \notin Took(p)
  <2>1. DOMAIN results[p] = 1 .. at[p] - 1 /\ at[p] \in Nat
    BY <1>3, SettledItem
  <2> QED
    BY <1>3, <2>1 DEF EffectsPast, Took, InFlight
<1>4. Checking(p) \/ pc[p] = "idle" => Took(p) = {}
  BY DEF EffectsPast, Took
<1> QED
  BY <1>1, <1>2, <1>3, <1>4 DEF Took

LEMMA TruthfulKept ==
    ASSUME BaseInv, EffectsPast, Truthful, NEW p \in Req, Frame(p), Moves(p)
    PROVE  Truthful'
<1> DEFINE Told(q, i) ==
               /\ results[q][i] = "ok" /\ Op(q) \notin Reads => i \in Took(q) \/ job[q].dry
               /\ results[q][i] \notin {"ok", "error"} => i \notin Took(q)
               /\ results[q][i] # "ok" /\ (i < Len(results[q]) \/ InFlight(q)) => KeepsGoing(q)
           At(q) == /\ pc[q] = "log" => at[q] \in Took(q) \/ job[q].dry
                    /\ \A i \in DOMAIN results[q] : Told(q, i)
<1>1. \A q \in Req : Op(q)' = Op(q) /\ job'[q] = job[q] /\ KeepsGoing(q)' = KeepsGoing(q)
  BY DEF Frame, Op, KeepsGoing
<1>2. SUFFICES At(p)'
  <2>1. ASSUME NEW q \in Req \ {p} PROVE At(q)'
    <3>1. At(q) /\ Took(q)' = Took(q)
      BY TookFacts DEF Truthful
    <3> QED
      BY <1>1, <3>1 DEF Frame, InFlight
  <2> QED
    BY <2>1 DEF Truthful
<1>3. At(p)
  BY DEF Truthful
<1>4. ASSUME results'[p] = results[p], Took(p)' = Took(p), InFlight(p) \/ ~InFlight(p)',
             pc'[p] # "log"
      PROVE  At(p)'
  BY <1>1, <1>3, <1>4
<1>5. ASSUME NEW outcome \in Outcomes, InFlight(p), ~Checking(p), Settles(p, outcome),
             Took(p) \subseteq Took(p)', Took(p)' \subseteq Took(p) \cup {at[p]},
             outcome = "ok" => at[p] \in Took(p)' \/ job[p].dry,
             outcome \notin {"ok", "error"} => at[p] \notin Took(p)'
      PROVE  At(p)'
  <2>1. /\ DOMAIN results[p] = 1 .. at[p] - 1 /\ at[p] \in Nat \ {0}
        /\ DOMAIN results'[p] = 1 .. at[p] /\ Len(results'[p]) = at[p]
        /\ results'[p][at[p]] = outcome
        /\ \A i \in 1 .. at[p] - 1 : results'[p][i] = results[p][i]
    BY <1>5, SettledItem
  <2>2. /\ pc'[p] # "log"
        /\ outcome # "ok" /\ InFlight(p)' => KeepsGoing(p)
    BY <1>5 DEF Settles, InFlight
  <2>3. ASSUME NEW i \in 1 .. at[p] - 1 PROVE Told(p, i)'
    <3>1. Told(p, i) /\ results'[p][i] = results[p][i] /\ i # at[p]
      BY <1>3, <2>1, <2>3
    <3> QED
      BY <1>1, <1>5, <3>1
  <2>4. ASSUME NEW i, i = at[p] PROVE Told(p, i)'
    BY <1>1, <1>5, <2>1, <2>2, <2>4
  <2>5. ASSUME NEW i \in 1 .. at[p] PROVE Told(p, i)'
    <3>1. i = at[p] \/ i \in 1 .. at[p] - 1
      BY <2>1, <2>5
    <3> QED
      BY <2>3, <2>4, <3>1
  <2> HIDE DEF Told
  <2> QED
    BY <2>1, <2>2, <2>5
<1>6. CASE Begins(p)
  <2>1. results'[p] = results[p] /\ DOMAIN results[p] = {} /\ pc'[p] # "log"
    <3>1. results[p] = <<>>
      BY <1>6 DEF Begins, BaseInv, Counted
    <3> QED
      BY <1>6, <3>1 DEF Begins, Quiet
  <2> QED
    BY <2>1
<1>7. CASE Fetches(p) \/ Drops(p) \/ Crashes(p)
  <2>1. Took(p)' = Took(p)
    BY <1>7, TookFacts DEF Fetches, Drops, Crashes, TakesEffect, Untouched, Took
  <2> QED
    BY <1>4, <1>7, <2>1 DEF Fetches, Drops, Crashes, Quiet, InFlight
<1>8. CASE Enforces(p) \/ Commands(p)
  <2>1. Took(p)' = Took(p)
    BY <1>8 DEF Enforces, Commands, Untouched, Took
  <2> QED
    BY <1>4, <1>8, <2>1 DEF Enforces, Commands, Quiet, InFlight, NextCheck
<1>9. CASE \E outcome \in Outcomes : Refuses(p, outcome)
  <2>1. PICK outcome \in Outcomes : Refuses(p, outcome)
    BY <1>9
  <2>2. Took(p)' = Took(p) /\ InFlight(p) /\ pc[p] # "log" /\ ~Checking(p)
    BY <2>1 DEF Refuses, Untouched, Took, InFlight
  <2> QED
    BY <1>5, <2>1, <2>2, TookFacts DEF Refuses
<1>10. CASE TakesEffect(p)
  <2>1. Took(p)' = Took(p) \cup {at[p]}
    BY <1>10, TookFacts
  <2>2. InFlight(p) /\ ~Checking(p)
    BY <1>10 DEF TakesEffect, InFlight, Checking
  <2>3. CASE Quiet(p) /\ pc'[p] = "log"
    <3>1. at[p] \notin DOMAIN results[p]
      BY <2>2, SettledItem
    <3> QED
      BY <1>1, <1>3, <2>1, <2>2, <2>3, <3>1 DEF Quiet
  <2>4. CASE Settles(p, "error")
    <3>1. "error" \in Outcomes
      BY DEF Outcomes
    <3> QED
      BY <1>5, <2>1, <2>2, <2>4, <3>1
  <2> QED
    BY <1>10, <2>3, <2>4 DEF TakesEffect
<1>11. CASE Passes(p)
  <2>1. Took(p)' = Took(p) /\ InFlight(p)
    BY <1>11 DEF Passes, Untouched, Took, InFlight
  <2> QED
    BY <1>1, <1>3, <1>11, <2>1 DEF Passes, Quiet
<1>12. CASE Logs(p)
  <2>1. Took(p)' = Took(p) /\ InFlight(p) /\ ~Checking(p) /\ "ok" \in Outcomes
    BY <1>12 DEF Logs, Took, InFlight, Checking, Outcomes
  <2> QED
    BY <1>3, <1>5, <1>12, <2>1 DEF Logs
<1>13. CASE Shows(p)
  <2>1. Op(p) \in Reads
    BY <1>13 DEF Shows, BaseInv, PlaceFits
  <2>2. DOMAIN <<"ok">> = {1} /\ <<"ok">>[1] = "ok"
    OBVIOUS
  <2> QED
    BY <1>1, <1>13, <2>1, <2>2 DEF Shows
<1> QED
  BY <1>6, <1>7, <1>8, <1>9, <1>10, <1>11, <1>12, <1>13 DEF Moves

LEMMA ImportsPresentKept ==
    ASSUME BaseInv, ImportsPresent, NEW p \in Req, Frame(p), Moves(p)
    PROVE  ImportsPresent'
<1> DEFINE At(q) ==
        /\ pc[q] = "done" /\ job[q].keepOn /\ job[q].actor # {} =>
               Len(results[q]) = Len(job[q].items)
        /\ ~job[q].dry =>
               /\ pc[q] = "log" => Present(q, at[q])
               /\ \A i \in DOMAIN results[q] :
                      results[q][i] \in {"ok", "exists"} => Present(q, i)
<1>1. \A q \in Req : Op(q)' = Op(q) /\ job'[q] = job[q]
  BY DEF Frame, Op
\* Nobody who is there goes away.
<1>2. ASSUME NEW q \in Req, Op(q) = "user.import", NEW i \in DOMAIN job[q].items, Present(q, i)
      PROVE  \A u \in job'[q].items[i].id : users'[u] # "absent"
  <2>1. job[q].items[i].id \subseteq User
    <3>1. IsJob(job[q]) /\ job[q].op \notin RoleOps
      BY <1>2 DEF BaseInv, TypeInv, Op, RoleOps
    <3>2. job[q].items[i].id \in Id(User)
      BY <1>2, <3>1 DEF IsJob
    <3> QED
      BY <3>2 DEF Id
  <2> QED
    BY <1>1, <1>2, <2>1 DEF Frame, Present
<1>3. \A q \in Req : /\ DOMAIN results[q] \subseteq DOMAIN job[q].items
                     /\ InFlight(q) => at[q] \in DOMAIN job[q].items
  <2>1. SUFFICES ASSUME NEW q \in Req PROVE DOMAIN results[q] \subseteq DOMAIN job[q].items
    BY DEF BaseInv, Counted
  <2>2. DOMAIN results[q] = 1 .. Len(results[q]) /\ Len(results[q]) \in Nat
    BY LenProperties DEF BaseInv, TypeInv
  <2>3. DOMAIN job[q].items = 1 .. Len(job[q].items) /\ Len(job[q].items) \in Nat
    BY JobFacts DEF BaseInv
  <2> QED
    BY <2>2, <2>3 DEF BaseInv, Counted
<1>4. ASSUME NEW q \in Req \ {p}, Op(q) = "user.import" PROVE At(q)'
  <2>1. At(q)
    BY <1>4 DEF ImportsPresent
  <2>2. pc'[q] = pc[q] /\ results'[q] = results[q] /\ at'[q] = at[q]
    BY DEF Frame
  <2>3. ~job[q].dry => /\ pc[q] = "log" => Present(q, at[q])'
                       /\ \A i \in DOMAIN results[q] :
                              results[q][i] \in {"ok", "exists"} => Present(q, i)'
    BY <1>2, <1>3, <1>4, <2>1, <2>2 DEF Present, InFlight
  <2> HIDE DEF Present
  <2> QED
    BY <1>1, <2>1, <2>2, <2>3
<1>5. ASSUME Op(p) = "user.import" PROVE At(p)'
  <2>1. At(p) /\ Op(p) \in Bulk /\ Op(p) \notin Reads /\ ~Deletion(p)
    BY <1>5, Operations DEF ImportsPresent, Deletion
  \* What was reported so far stays so.
  <2>2. ASSUME NEW i \in DOMAIN results[p], ~job[p].dry, results'[p][i] \in {"ok", "exists"}
        PROVE  Present(p, i)'
    BY <1>2, <1>3, <1>5, <2>1, <2>2, ResultsGrow DEF Present
  <2>3. ASSUME results'[p] = results[p], pc'[p] \notin {"done", "log"} PROVE At(p)'
    BY <1>1, <2>2, <2>3
  <2>4. ASSUME NEW outcome \in Outcomes, InFlight(p), Settles(p, outcome),
               ~job[p].dry /\ outcome \in {"ok", "exists"} =>
                   \A u \in This(p).id : users'[u] # "absent"
        PROVE  At(p)'
    <3>1. ~Checking(p)
      BY <2>1 DEF Checking
    <3>2. /\ DOMAIN results[p] = 1 .. at[p] - 1 /\ at[p] \in Nat \ {0}
          /\ DOMAIN results'[p] = 1 .. at[p] /\ Len(results'[p]) = at[p]
          /\ results'[p][at[p]] = outcome /\ at[p] <= Len(job[p].items)
          /\ Len(job[p].items) \in Nat
      BY <2>4, <3>1, SettledItem
    <3>3. pc'[p] # "log" /\ (pc'[p] = "done" /\ KeepsGoing(p) => Len(results'[p]) = Len(job[p].items))
      BY <2>4, <3>2 DEF Settles
    <3>4. ASSUME NEW i \in DOMAIN results'[p], ~job[p].dry, results'[p][i] \in {"ok", "exists"}
          PROVE  Present(p, i)'
      <4>1. CASE i = at[p]
        BY <1>1, <2>4, <3>2, <3>4, <4>1 DEF Present, This
      <4>2. CASE i # at[p]
        BY <2>2, <3>2, <3>4, <4>2
      <4> QED
        BY <4>1, <4>2
    <3> QED
      BY <1>1, <3>3, <3>4 DEF KeepsGoing
  <2>5. CASE Begins(p)
    <3>1. results'[p] = results[p] /\ results[p] = <<>> /\ DOMAIN results[p] = {}
          /\ pc'[p] # "log"
      BY <2>5 DEF Begins, Quiet, BaseInv, Counted
    <3>2. Len(<<>>) = 0
      OBVIOUS
    <3> QED
      BY <1>1, <2>5, <3>1, <3>2 DEF Begins, Op
  <2>6. CASE Fetches(p)
    BY <2>3, <2>6 DEF Fetches, Quiet
  <2>7. CASE Drops(p) \/ Enforces(p) \/ Shows(p)
    BY <2>1, <2>7 DEF Drops, Enforces, Shows, Checking, BaseInv, PlaceFits
  <2>8. CASE Commands(p)
    BY <2>3, <2>8 DEF Commands, Quiet
  <2>9. CASE \E outcome \in Outcomes : Refuses(p, outcome)
    <3>1. PICK outcome \in Outcomes : Refuses(p, outcome)
      BY <2>9
    <3>2. InFlight(p) /\ Settles(p, outcome) /\ outcome # "ok"
      BY <3>1 DEF Refuses, InFlight
    <3>3. outcome = "exists" => \A u \in This(p).id : users'[u] # "absent"
      BY <1>1, <1>2, <1>3, <1>5, <3>1, <3>2 DEF Refuses, This
    <3> QED
      BY <2>4, <3>2, <3>3
  <2>10. CASE TakesEffect(p)
    <3>1. InFlight(p) /\ "error" \in Outcomes
      BY <2>10 DEF TakesEffect, InFlight, Outcomes
    <3>2. CASE Quiet(p) /\ pc'[p] = "log"
      <4>1. Present(p, at[p])' /\ results'[p] = results[p]
        BY <1>1, <1>5, <2>10, <3>2 DEF TakesEffect, Present, This, Quiet
      <4> QED
        BY <1>1, <2>2, <3>2, <4>1 DEF Quiet
    <3>3. CASE Settles(p, "error")
      BY <2>4, <3>1, <3>3
    <3> QED
      BY <2>10, <3>2, <3>3 DEF TakesEffect
  <2>11. CASE Passes(p)
    BY <1>1, <2>11 DEF Passes
  <2>12. CASE Logs(p)
    <3>1. InFlight(p) /\ "ok" \in Outcomes /\ Settles(p, "ok") /\ pc[p] = "log"
      BY <2>12 DEF Logs, InFlight, Outcomes
    <3>2. ~job[p].dry => \A u \in This(p).id : users'[u] # "absent"
      BY <1>1, <1>2, <1>3, <1>5, <2>1, <3>1 DEF This
    <3> QED
      BY <2>4, <3>1, <3>2
  <2>13. CASE Crashes(p)
    BY <2>3, <2>13 DEF Crashes, Quiet
  <2> QED
    BY <2>5, <2>6, <2>7, <2>8, <2>9, <2>10, <2>11, <2>12, <2>13 DEF Moves
<1> QED
  BY <1>1, <1>4, <1>5 DEF ImportsPresent

LEMMA SeenFitsKept ==
    ASSUME BaseInv, ScopesFit, SeenFits, NEW p \in Req, Frame(p), Moves(p)
    PROVE  SeenFits'
<1> DEFINE At(q) ==
        /\ pins => \A s \in seen[q] :
               Op(q) \in {"role.index", "role.show", "pref.index"} => s.tenant = TenantShown(q, Home(q))
        /\ IsSupport(q) /\ Op(q) \in UserOps \cup PrefOps =>
               \A s \in seen[q] : s.masked \/ s.id = job[q].actor
        /\ IsSupport(q) /\ Op(q) = "user.index" => total[q] <= 1
<1>1. \A q \in Req : /\ Op(q)' = Op(q) /\ job'[q] = job[q] /\ pins' = pins
                     /\ Home(q)' = Home(q) /\ (IsSupport(q)' <=> IsSupport(q))
                     /\ TenantShown(q, Home(q))' = TenantShown(q, Home(q))
  BY DEF Frame, Op, Home, IsSupport, TenantShown
<1>2. ASSUME NEW q \in Req, seen'[q] = seen[q], total'[q] = total[q] PROVE At(q)'
  BY <1>1, <1>2 DEF SeenFits
<1>3. \A q \in Req \ {p} : At(q)'
  BY <1>2 DEF Frame
<1>4. ASSUME NEW outcome, Settles(p, outcome) PROVE At(p)'
  <2>1. CASE seen'[p] = seen[p]
    BY <1>2, <1>4, <2>1 DEF Settles
  <2>2. CASE /\ Op(p) \in {"user.create", "user.invite", "user.update"}
             /\ \A s \in seen'[p] : \E u : s = ShownUser(p, u)
    <3>1. IsSupport(p) => \A s \in seen'[p] : s.masked \/ s.id = job[p].actor
      BY <2>2, ShownToSupport
    <3> QED
      BY <1>1, <2>2, <3>1
  <2> QED
    BY <1>4, <2>1, <2>2 DEF Settles
<1>5. ASSUME Shows(p) PROVE At(p)'
  <2>1. pc[p] = "read" /\ "pref.index" \notin UserOps
    BY <1>5 DEF Shows, UserOps, Bulk
  <2>2. pins /\ Op(p) \in {"role.index", "role.show"} => cmd[p] = Home(p)
    BY <2>1 DEF ScopesFit
  <2>3. pins /\ Op(p) = "pref.index" => scope[p] = Home(p)
    BY <2>1 DEF ScopesFit
  <2>4. pins => \A s \in seen'[p] :
            Op(p) \in {"role.index", "role.show", "pref.index"} => s.tenant = TenantShown(p, Home(p))
    <3>1. Op(p) \in {"role.index", "role.show"} => TenantShown(p, Home(p)) = Home(p)
      <4>1. IsJob(job[p]) /\ DOMAIN job[p].items = 1 .. Len(job[p].items)
        BY JobFacts DEF BaseInv, TypeInv
      <4>2. Op(p) \in {"role.index", "role.show"} => Len(job[p].items) = 1
        BY JobFacts DEF BaseInv, Batches, Bulk
      <4>3. Op(p) \in {"role.index", "role.show"} => job[p].items[1].level = "user"
        BY <4>1, <4>2 DEF IsJob, Op, PrefOps
      <4> QED
        BY <4>3 DEF TenantShown
    <3> QED
      BY <1>5, <2>2, <2>3, <3>1 DEF Shows
  <2>5. /\ IsSupport(p) /\ Op(p) \in UserOps \cup PrefOps =>
               \A s \in seen'[p] : s.masked \/ s.id = job[p].actor
        /\ IsSupport(p) /\ Op(p) = "user.index" => total'[p] <= 1
    BY Zenon, <1>5 DEF Shows
  <2> QED
    BY <1>1, <2>4, <2>5
<1> HIDE DEF At
<1>6. At(p)'
  <2>1. CASE Begins(p) \/ Fetches(p) \/ Drops(p) \/ Enforces(p) \/ Commands(p) \/ Passes(p) \/ Crashes(p)
    BY <1>2, <2>1 DEF Begins, Fetches, Drops, Enforces, Commands, Passes, Crashes, Quiet
  <2>2. CASE TakesEffect(p)
    <3>1. CASE Quiet(p)
      BY Zenon, <1>2, <3>1 DEF Quiet
    <3> QED
      BY Zenon, <1>4, <2>2, <3>1 DEF TakesEffect
  <2>3. CASE Logs(p) \/ \E outcome \in Outcomes : Refuses(p, outcome)
    BY <1>4, <2>3 DEF Logs, Refuses
  <2> QED
    BY <1>5, <2>1, <2>2, <2>3 DEF Moves
<1> QED
  BY <1>3, <1>6 DEF SeenFits, At

-----------------------------------------------------------------------------
(* The invariant *)

LEMMA Initially == Init => IInv
<1>1. SUFFICES ASSUME Init PROVE IInv
  OBVIOUS
<1>2. /\ \A p \in Req : /\ pc[p] = "idle" /\ at[p] = 1 /\ scope[p] = {} /\ cmd[p] = {}
                        /\ results[p] = <<>> /\ seen[p] = {} /\ total[p] = 0 /\ granted[p] = {}
      /\ effects = {} /\ log = {}
  BY <1>1 DEF Init
<1>3. {} \in Id(Tenant) /\ Len(<<>>) = 0 /\ <<>> \in Seq(Outcomes) /\ DOMAIN <<>> = {}
      /\ MaxItems \in Nat \ {0}
  BY CrudAssumption DEF Id
<1>4. TypeInv
  <2>1. /\ pc \in [Req -> Places] /\ at \in [Req -> 1 .. MaxItems]
        /\ scope \in [Req -> Id(Tenant)] /\ cmd \in [Req -> Id(Tenant)]
        /\ results \in [Req -> Seq(Outcomes)]
        /\ DOMAIN seen = Req /\ DOMAIN total = Req /\ DOMAIN granted = Req
    BY <1>1, <1>3 DEF Init, Places
  <2>2. /\ users \in [User -> Status \cup {"absent"}] /\ roles \subseteq RoleRow
        /\ prefs \subseteq PrefRow /\ home \in [User -> Id(Tenant)] /\ pins \in BOOLEAN
        /\ job \in [Req -> Jobs] /\ \A p \in Req : IsJob(job[p])
    BY <1>1 DEF Init
  <2>3. \A p \in Req : Len(results[p]) <= MaxItems
    BY <1>2, <1>3
  <2> QED
    BY <2>1, <2>2, <2>3 DEF TypeInv, TypeOK, Places
<1>5. BaseInv
  <2>1. \A p \in Req : Len(job[p].items) \in Nat
    BY <1>4, JobFacts, CrudAssumption
  <2>2. Counted
    BY <1>2, <1>3, <2>1 DEF Counted, InFlight
  <2> QED
    BY <1>2, <1>4, <2>2 DEF BaseInv, PlaceFits
<1>6. ScopesFit /\ AccessGiven /\ WriteGranted
  BY <1>2 DEF ScopesFit, AccessGiven, Checked, WriteGranted
<1>7. EffectsFit /\ EffectsPast /\ LogPast /\ SameScope
  BY <1>2 DEF EffectsFit, EffectsPast, LogPast, SameScope
<1>8. Truthful /\ ImportsPresent /\ SeenFits
  BY <1>2, <1>3 DEF Truthful, ImportsPresent, SeenFits
<1> QED
  BY <1>5, <1>6, <1>7, <1>8 DEF IInv

LEMMA Unchanged == IInv /\ UNCHANGED vars => IInv'
<1>1. SUFFICES ASSUME IInv, UNCHANGED vars PROVE IInv'
  OBVIOUS
<1>2. /\ users' = users /\ roles' = roles /\ prefs' = prefs /\ home' = home /\ pins' = pins
      /\ job' = job /\ pc' = pc /\ at' = at /\ scope' = scope /\ cmd' = cmd /\ results' = results
      /\ seen' = seen /\ total' = total /\ granted' = granted /\ effects' = effects /\ log' = log
  BY <1>1 DEF vars
<1>3. BaseInv'
  BY <1>1, <1>2 DEF IInv, BaseInv, TypeInv, TypeOK, Counted, PlaceFits, InFlight, Checking, Deletion, Op
<1>4. ScopesFit' /\ AccessGiven' /\ WriteGranted'
  BY <1>1, <1>2 DEF IInv, ScopesFit, AccessGiven, WriteGranted, Home, Op, Checked, Deletion, IsSupport,
                    Granted, Action, Target, This
<1>5. EffectsFit' /\ EffectsPast' /\ LogPast' /\ SameScope'
  BY <1>1, <1>2 DEF IInv, EffectsFit, EffectsPast, LogPast, SameScope, Op, Home, IsSupport, Deletion,
                    Granted, Checking
<1>6. Truthful' /\ ImportsPresent'
  BY <1>1, <1>2 DEF IInv, Truthful, ImportsPresent, Took, Op, InFlight, KeepsGoing, Present
<1>7. SeenFits'
  <2>1. \A p \in Req : /\ TenantShown(p, Home(p))' = TenantShown(p, Home(p))
                       /\ Op(p)' = Op(p) /\ (IsSupport(p)' <=> IsSupport(p))
    BY <1>2 DEF TenantShown, Home, Op, IsSupport
  <2> QED
    BY <1>1, <1>2, <2>1 DEF IInv, SeenFits
<1> QED
  BY <1>3, <1>4, <1>5, <1>6, <1>7 DEF IInv

LEMMA Inductive == IInv /\ [Next]_vars => IInv'
<1>1. ASSUME IInv, NEW p \in Req, Acts(p) PROVE IInv'
  <2>1. TypeInv' /\ Frame(p) /\ Moves(p)
    BY <1>1, StepMoves DEF IInv
  <2>2. BaseInv'
    BY <1>1, <2>1, CountedKept, PlaceFitsKept DEF IInv, BaseInv
  <2>3. ScopesFit' /\ AccessGiven' /\ WriteGranted'
    BY <1>1, <2>1, ScopesFitKept, AccessGivenKept, WriteGrantedKept DEF IInv
  <2>4. EffectsFit' /\ EffectsPast'
    BY <1>1, <2>1, EffectsFitKept, EffectsPastKept DEF IInv
  <2>5. LogPast' /\ SameScope'
    BY <1>1, <2>1, LogKept DEF IInv
  <2>6. Truthful' /\ ImportsPresent' /\ SeenFits'
    BY <1>1, <2>1, TruthfulKept, ImportsPresentKept, SeenFitsKept DEF IInv
  <2> QED
    BY <2>2, <2>3, <2>4, <2>5, <2>6 DEF IInv
<1>2. Next => \E p \in Req : Acts(p)
  BY DEF Next, Acts
<1> QED
  BY <1>1, <1>2, Unchanged

LEMMA Invariant == Spec => []IInv
  BY Initially, Inductive, PTL DEF Spec

\* Every variable keeps its shape.
THEOREM TypeCorrect == Spec => []TypeOK
<1>1. IInv => TypeOK
  BY DEF IInv, BaseInv, TypeInv
<1> QED
  BY <1>1, Invariant, PTL

\* Under a resolver that keeps actors in their tenant, everything takes effect in the
\* actor's tenant and no list shows a role or preference of another one, the system
\* level's shared preferences aside; what took effect is recorded in the scope where
\* it took place (scope/guard.go, crudsvc/*_service.go).
THEOREM TenantsApartHolds == Spec => []TenantsApart
<1>1. IInv => TenantsApart
  BY DEF IInv, TenantsApart, EffectsFit, SeenFits, SameScope, Op, TenantShown
<1> QED
  BY <1>1, Invariant, PTL

\* A support agent changes no other user and no other user's preferences, is shown
\* of others at most masked records, and cannot count them (crudsvc/user_service.go, preference_service.go).
THEOREM SupportKeepsToItselfHolds == Spec => []SupportKeepsToItself
<1>1. ASSUME IInv PROVE SupportKeepsToItself
  <2>1. SUFFICES ASSUME NEW p \in Req, IsSupport(p)
                 PROVE  /\ \A e \in effects :
                               e.req = p /\ job[p].op \notin Creates \cup RoleOps \cup Bulk =>
                                   job[p].items[e.item].id = job[p].actor
                        /\ job[p].op \in UserOps \cup PrefOps =>
                               \A s \in seen[p] : s.masked \/ s.id = job[p].actor
                        /\ job[p].op = "user.index" => total[p] <= 1
    BY DEF SupportKeepsToItself
  <2>2. ASSUME NEW e \in effects, e.req = p, Op(p) \notin Creates \cup RoleOps \cup Bulk
        PROVE  job[p].items[e.item].id = job[p].actor
    <3>1. Op(p) \in UserOps \cup RoleOps \cup PrefOps /\ Op(p) \notin Reads
      BY <1>1, <2>2, JobFacts DEF IInv, BaseInv, EffectsFit
    <3>2. Op(p) \in Own
      BY <2>2, <3>1 DEF Own, UserOps, RoleOps, PrefOps, Reads, Lists, Creates, Bulk
    <3> QED
      BY <1>1, <2>1, <2>2, <3>2 DEF IInv, EffectsFit
  <2> QED
    BY <1>1, <2>1, <2>2 DEF IInv, SeenFits, Op
<1> QED
  BY <1>1, Invariant, PTL

\* The outcomes of a finished request tell what happened to its items
\* (crudsvc batches, command/bulk_import.go, command/bulk_lifecycle.go).
THEOREM OutcomesTellTheTruthHolds == Spec => []OutcomesTellTheTruth
<1>1. ASSUME IInv, NEW p \in Req, pc[p] = "done" PROVE Took(p) \subseteq DOMAIN results[p]
  BY <1>1 DEF IInv, EffectsPast, Took
<1>2. IInv => OutcomesTellTheTruth
  BY <1>1 DEF IInv, OutcomesTellTheTruth, Truthful, Op
<1> QED
  BY <1>2, Invariant, PTL

\* Nobody of a batch deletion is archived before each user of it was let through,
\* and an import that goes on after errors reports on every user of its list, those
\* it created or found existing do exist.
THEOREM BatchesSeeToEveryUserHolds == Spec => []BatchesSeeToEveryUser
<1>1. ASSUME IInv, NEW p \in Req, Deletion(p), Took(p) # {}
      PROVE  \A i \in DOMAIN job[p].items : Granted(p, job[p].items[i].id)
  BY <1>1 DEF IInv, EffectsFit, Took
<1>2. ASSUME IInv, NEW p \in Req, pc[p] = "done", Op(p) = "user.import", job[p].keepOn,
             job[p].actor # {}
      PROVE  /\ Len(results[p]) = Len(job[p].items)
             /\ \A i \in DOMAIN results[p] :
                    results[p][i] \in {"ok", "exists"} /\ ~job[p].dry => Present(p, i)
  BY <1>2 DEF IInv, ImportsPresent
<1>3. IInv => BatchesSeeToEveryUser
  BY <1>1, <1>2 DEF BatchesSeeToEveryUser, Deletion, Op, Granted, Present
<1> QED
  BY <1>3, Invariant, PTL

-----------------------------------------------------------------------------
(* What a step does to the tables *)

\* Whoever takes a step that writes was let through to write for its target.
LEMMA WriterBy ==
    ASSUME IInv, NEW p \in Req, pc[p] = "write", Acts(p), NEW s, cmd[p] \in s
    PROVE  By(p, Action(p).on, s, Target(p))
<1>1. pc'[p] # "write"
  <2>1. Moves(p)
    BY StepMoves DEF IInv
  <2> QED
    BY <2>1 DEF Moves, Begins, Fetches, Drops, Checking, Enforces, Commands, Refuses, TakesEffect,
                Settles, Passes, Logs, Shows, Crashes
<1>2. PICK g \in granted[p] : g = [action |-> Action(p), scope |-> cmd[p], target |-> Target(p)]
  BY DEF IInv, WriteGranted
<1>3. Action(p) = [on |-> Action(p).on, verb |-> "write"]
  BY DEF Action, IInv, BaseInv, PlaceFits, Op
<1> QED
  BY <1>1, <1>2, <1>3 DEF By

\* Whatever a request changes, its own actor was allowed to write, for just that user
\* or role and in the very tenant the row is kept in; the row of the system level, in
\* no tenant, is changed only by who asks for it, and may write preferences somewhere
\* (command/*.go with their guards, behind crudsvc/*_service.go).
THEOREM ChangesAuthorisedHolds == Spec => ChangesAuthorised
<1> DEFINE UserChange(p, u) == By(p, "users", Id(Tenant), IF users[u] = "absent" THEN {} ELSE {u})
           RoleChange(p, row) == By(p, "roles", {row.tenant}, IF row \in roles THEN row.id ELSE {})
           PrefChange(p, row) ==
               /\ By(p, "preferences", IF row = SystemRow THEN Id(Tenant) ELSE {row.tenant},
                     IF row.id = {} THEN Target(p) ELSE row.id)
               /\ (row = SystemRow) = (This(p).level = "system")
           Authorised ==
               /\ \A u \in User : users'[u] # users[u] => \E p \in Req : UserChange(p, u)
               /\ \A row \in (roles \ roles') \cup (roles' \ roles) : \E p \in Req : RoleChange(p, row)
               /\ \A row \in (prefs \ prefs') \cup (prefs' \ prefs) : \E p \in Req : PrefChange(p, row)
<1>1. ASSUME IInv, NEW p \in Req, Acts(p) PROVE Authorised
  <2>1. users \in [User -> Status \cup {"absent"}] /\ cmd[p] \in Id(Tenant)
    BY <1>1 DEF IInv, BaseInv, TypeInv, TypeOK
  <2>2. CASE UNCHANGED tables
    BY <2>2 DEF tables
  <2>3. ASSUME pc[p] = "write", Op(p) \in UserOps, roles' = roles, prefs' = prefs,
               NEW u \in User, NEW new, users' = [users EXCEPT ![u] = new],
               Target(p) = IF users[u] = "absent" THEN {} ELSE {u}
        PROVE  Authorised
    <3>1. By(p, Action(p).on, Id(Tenant), Target(p))
      BY <1>1, <2>1, <2>3, WriterBy
    <3>2. UserChange(p, u)
      BY <2>3, <3>1 DEF Action, Op
    <3> QED
      BY <2>1, <2>3, <3>2
  <2>4. ASSUME pc[p] = "write", Op(p) \in RoleOps, users' = users, prefs' = prefs,
               NEW row, row.tenant = cmd[p], roles' = roles \cup {row} \/ roles' = roles \ {row},
               roles' # roles,
               Target(p) = IF row \in roles THEN row.id ELSE {}
        PROVE  Authorised
    <3>1. By(p, Action(p).on, {row.tenant}, Target(p))
      BY <1>1, <2>4, WriterBy
    <3>2. Action(p).on = "roles"
      BY <2>4, Operations DEF Action, Op
    <3>3. RoleChange(p, row)
      BY <2>4, <3>1, <3>2
    <3> HIDE DEF RoleChange
    <3>4. \A r \in (roles \ roles') \cup (roles' \ roles) : r = row
      BY <2>4
    <3> QED
      BY <2>4, <3>3, <3>4
  <2>5. ASSUME pc[p] = "write", Op(p) \in PrefOps, users' = users, roles' = roles,
               NEW row, row = PreferenceAsked(p), Identified(This(p).level, row),
               prefs' = prefs \cup {row} \/ prefs' = prefs \ {row},
               Target(p) = This(p).id
        PROVE  Authorised
    <3>1. /\ (row = SystemRow) = (This(p).level = "system")
          /\ row = SystemRow \/ row.tenant = cmd[p]
          /\ row.id = {} \/ row.id = This(p).id
      <4>1. This(p).level \in Level
        BY <1>1, <2>5, ScopeTypes DEF IInv, InFlight, Item
      <4>2. row = [id |-> IF This(p).level = "user" THEN This(p).id ELSE {},
                   tenant |-> IF This(p).level = "system" THEN {} ELSE cmd[p]]
        BY <2>5 DEF PreferenceAsked, PrefKey, PreferenceScope
      <4> QED
        BY <2>5, <4>1, <4>2 DEF Identified, SystemRow, Level
    <3> DEFINE scopes == IF row = SystemRow THEN Id(Tenant) ELSE {row.tenant}
    <3>2. By(p, Action(p).on, scopes, Target(p))
      <4>1. cmd[p] \in scopes
        BY <2>1, <3>1
      <4> HIDE DEF scopes
      <4> QED
        BY <1>1, <2>5, <4>1, WriterBy
    <3>3. Action(p).on = "preferences"
      BY <2>5 DEF Action, Op, PrefOps, UserOps, RoleOps, Bulk
    <3>4. PrefChange(p, row)
      BY <2>5, <3>1, <3>2, <3>3
    <3> HIDE DEF PrefChange
    <3>5. \A r \in (prefs \ prefs') \cup (prefs' \ prefs) : r = row
      BY <2>5
    <3> QED
      BY <2>5, <3>4, <3>5
  <2> HIDE DEF Authorised
  <2>6. ASSUME CreateUser(p) \/ ChangeStatus(p), ~UNCHANGED tables PROVE Authorised
    <3>1. pc[p] = "write" /\ Op(p) \in UserOps
      BY <2>6 DEF CreateUser, ChangeStatus, Writing, Op, UserOps, Bulk
    <3>2. This(p).id \in Id(User)
      BY <1>1, <3>1, ItemFacts, Operations DEF IInv, InFlight
    <3>3. CASE CreateUser(p)
      <4>1. PICK u \in This(p).id : /\ users[u] = "absent" /\ users' = [users EXCEPT ![u] = NewStatus(p)]
                                    /\ UNCHANGED <<roles, prefs>>
        BY <2>6, <3>3 DEF CreateUser, Refused
      <4>2. Target(p) = {}
        BY <3>3 DEF CreateUser, Writing, Target, Creates
      <4>3. u \in User
        BY <3>2, <4>1 DEF Id
      <4> QED
        BY <2>3, <3>1, <4>1, <4>2, <4>3
    <3>4. CASE ChangeStatus(p)
      <4>1. PICK u \in This(p).id : /\ <<users[u], job[p].to>> \in Transitions
                                    /\ users' = [users EXCEPT ![u] = job[p].to]
                                    /\ UNCHANGED <<roles, prefs>>
        BY <2>6, <3>4 DEF ChangeStatus, Refused
      <4>2. Target(p) = This(p).id
        BY <3>4 DEF ChangeStatus, Writing, Target, Creates, Lists
      <4>3. u \in User /\ This(p).id = {u} /\ users[u] # "absent"
        BY <3>2, <4>1 DEF Id, Transitions
      <4> QED
        BY <2>3, <3>1, <4>1, <4>2, <4>3
    <3> QED
      BY <2>6, <3>3, <3>4
  <2>7. ASSUME CreateRole(p) \/ DeleteRole(p), ~UNCHANGED tables PROVE Authorised
    <3>1. pc[p] = "write" /\ Op(p) \in RoleOps
      BY <2>7 DEF CreateRole, DeleteRole, Writing, Op, RoleOps
    <3>2. CASE CreateRole(p)
      <4> DEFINE row == [id |-> This(p).id, tenant |-> cmd[p]]
      <4>1. /\ ~\E r \in roles : r.id = This(p).id
            /\ roles' = roles \cup {row} /\ users' = users /\ prefs' = prefs
        BY <2>7, <3>2 DEF CreateRole, Refused
      <4>2. Target(p) = {}
        BY <3>2 DEF CreateRole, Writing, Target, Creates
      <4>3. row.tenant = cmd[p] /\ row \notin roles
        BY <4>1
      <4> HIDE DEF row
      <4>4. roles' # roles /\ Target(p) = IF row \in roles THEN row.id ELSE {}
        BY <4>1, <4>2, <4>3
      <4> QED
        BY <2>4, <3>1, <4>1, <4>3, <4>4
    <3>3. CASE DeleteRole(p)
      <4>1. /\ RoleAsked(p) \in roles /\ roles' = roles \ {RoleAsked(p)}
            /\ users' = users /\ prefs' = prefs
        BY <2>7, <3>3 DEF DeleteRole, Refused
      <4>2. Target(p) = This(p).id
        BY <3>3 DEF DeleteRole, Writing, Target, Creates, Lists
      <4>3. RoleAsked(p).tenant = cmd[p] /\ RoleAsked(p).id = This(p).id
        BY DEF RoleAsked
      <4>4. roles' # roles /\ Target(p) = IF RoleAsked(p) \in roles THEN RoleAsked(p).id ELSE {}
        BY <4>1, <4>2, <4>3
      <4> QED
        BY <2>4, <3>1, <4>1, <4>3, <4>4
    <3> QED
      BY <2>7, <3>2, <3>3
  <2>8. ASSUME UpsertPreference(p) \/ DeletePreference(p), ~UNCHANGED tables PROVE Authorised
    <3>1. Identified(This(p).level, PreferenceAsked(p))
      BY <2>8 DEF UpsertPreference, DeletePreference, Refused
    <3>2. pc[p] = "write" /\ Op(p) \in PrefOps /\ Target(p) = This(p).id
      BY <2>8 DEF UpsertPreference, DeletePreference, Writing, Op, PrefOps, Target, Creates, Lists
    <3>3. \/ prefs' = prefs \cup {PreferenceAsked(p)}
          \/ prefs' = prefs \ {PreferenceAsked(p)}
      BY <2>8 DEF UpsertPreference, DeletePreference, Refused
    <3>4. users' = users /\ roles' = roles
      BY <2>8 DEF UpsertPreference, DeletePreference, Refused
    <3> QED
      BY <2>5, <3>1, <3>2, <3>3, <3>4
  <2>9. CASE UpdateUser(p) \/ UpdateRole(p)
    <3>1. UNCHANGED tables
      BY <2>9 DEF UpdateUser, UpdateRole, Refused
    <3> QED
      BY <2>2, <3>1
  <2>10. CASE ~Write(p)
    <3>1. UNCHANGED tables
      <4>1. CASE Read(p)
        BY <4>1 DEF Read, ListUsers, GetUser, ListRoles, GetRole, ListPreferences, ShowPreference, Reading
      <4> QED
        BY <1>1, <2>10, <4>1 DEF Acts, Start, FetchPreference, Refuse, Enforce, RefuseCommand,
                                EnforceCommand, Log, Fail, Crash
    <3> QED
      BY <2>2, <3>1
  <2> QED
    BY <2>2, <2>6, <2>7, <2>8, <2>9, <2>10 DEF Write
<1>2. Next => \E p \in Req : Acts(p)
  BY DEF Next, Acts
<1> HIDE DEF Authorised
<1>3. ASSUME IInv, [Next]_vars PROVE [Authorised]_vars
  BY <1>1, <1>2, <1>3
<1>4. Spec => [][Authorised]_vars
  BY <1>3, Invariant, PTL DEF Spec
<1> QED
  BY <1>4 DEF ChangesAuthorised, Authorised

=============================================================================
