------------------------------ MODULE Preferences ------------------------------
(* Scoped preferences (preferences/bun_repository.go), the single and bulk     *)
(* commands over them (command/preference_*.go), and the resolver that merges  *)
(* the levels into one effective value (preferences/resolver.go).  One user    *)
(* with one tenant and organisation is modelled, so a level is one set of      *)
(* scope ids.  A level is its priority: 1 is the system level.  A value is     *)
(* the operation that wrote it and the fields it has: the resolver merges       *)
(* field by field.  Keys are compared as the store does.                       *)
EXTENDS Naturals, Sequences, FiniteSets, FiniteSetsExt

CONSTANTS
    Call,       \* calls of a command or of the query, each is made once
    NLevel,     \* how many levels there are
    Key,        \* preference keys, numbered in the order sort.Strings gives
    Part,       \* the fields a value may have
    Defaults,   \* keys and fields with a default the resolver was configured with
    Old,        \* values (and ids) of the rows that were there at the start
    Failures    \* which of "error", "lost_reply", "crash" may happen

ASSUME PreferenceAssumption ==
    /\ NLevel \in Nat \ {0}
    /\ Key \subseteq Nat
    /\ Defaults \subseteq Key \X Part
    /\ {"default", "none"} \cap Call = {}
    /\ Old \cap (Call \cup {"default", "none"}) = {}
    /\ Failures \subseteq {"error", "lost_reply", "crash"}

VARIABLES
    rows,       \* the user_preferences table: per level and key, a row or NoRow
    command, step,
    left,       \* per call: keys (or levels) it has not dealt with yet
    existing,   \* per call: the row findExisting returned for the first of them
    outcome,    \* per call and key: what the result of the command says
    saved,      \* per call and key: the record an upsert returned
    layers,     \* per call and level: what a resolution read
    reply,
    stale,      \* keys that changed and whose event no listener has heard
    history     \* for the properties: see Remember and FindPreference

preferenceVars ==
    <<rows, command, step, left, existing, outcome, saved, layers, reply, stale, history>>

-----------------------------------------------------------------------------
Level == 1..NLevel
System == 1
Value == Call \cup Old \cup {"default", "none"}

NoRow == [id |-> "none", value |-> "none", has |-> {}, version |-> 0]
Row == [id : Call \cup Old \cup {"none"}, value : Value, has : SUBSET Part, version : Nat]
FirstRows == {[id |-> v, value |-> v, has |-> parts, version |-> 1] :
                 v \in Old, parts \in SUBSET Part}
Nothing == [k \in Key |-> NoRow]

\* Sequences of distinct members of S, at least one.
Arrangements(S) ==
    UNION {{s \in [1..n -> S] : \A i, j \in 1..n : i # j => s[i] # s[j]} :
              n \in 1..Cardinality(S)}
Ascending(s) == \A i, j \in DOMAIN s : i < j => s[i] < s[j]

\* A bulk upsert sorts its keys, a bulk delete keeps the order it was given, a
\* resolution reads the levels it was asked for in the order it was asked.  The
\* value an upsert stores has some fields, or none; it may not be missing.
Commands ==
    [kind : {"upsert"}, level : Level, list : {s \in Arrangements(Key) : Ascending(s)},
     has : SUBSET Part, transactional : BOOLEAN]
    \cup [kind : {"delete"}, level : Level, list : Arrangements(Key),
          has : {{}}, transactional : BOOLEAN]
    \cup [kind : {"resolve"}, level : {System}, list : Arrangements(Level),
          has : {{}}, transactional : {FALSE}]

UnderWay(p) == step[p] \notin {"idle", "done", "crashed"}
Here(p) == Head(left[p])
Cell(p) == rows[command[p].level][Here(p)]

\* The default of a key that has one; it has no version.
Default(k) ==
    LET parts == {f \in Part : <<k, f>> \in Defaults} IN
    IF parts = {} THEN NoRow ELSE [NoRow EXCEPT !.value = "default", !.has = parts]

\* The layer one level contributes: its records, each in the place of the whole
\* default of its key.  Defaults belong to the system level.
Layer(table, l) ==
    [k \in Key |-> IF table[l][k] # NoRow THEN table[l][k]
                   ELSE IF l = System THEN Default(k)
                   ELSE NoRow]

Holding(snapshots, list, k) ==
    {i \in DOMAIN list : snapshots[list[i]][k].value # "none"}

\* Bug: of several levels that have a field the first one asked for wins.
EffectiveFirst(snapshots, list, k) ==
    [f \in Part |->
        LET found == {i \in DOMAIN list : f \in snapshots[list[i]][k].has}
        IN IF found = {} THEN "none" ELSE snapshots[list[Min(found)]][k].value]

\* Bug: the whole value of the highest level that holds the key.
EffectiveWhole(snapshots, list, k) ==
    LET found == Holding(snapshots, list, k)
        top == snapshots[Max({list[i] : i \in found})][k]
    IN [f \in Part |-> IF found # {} /\ f \in top.has THEN top.value ELSE "none"]

\* Merge: field by field, of the levels that have it the one of highest priority.
Effective(snapshots, list, k) ==
    [f \in Part |->
        LET found == {i \in DOMAIN list : f \in snapshots[list[i]][k].has}
        IN IF found = {} THEN "none" ELSE snapshots[Max({list[i] : i \in found})][k].value]

\* buildEffectiveVersions: of the levels that hold the key, the last one asked for.
EffectiveVersion(snapshots, list, k) ==
    LET found == Holding(snapshots, list, k) IN
    IF found = {} THEN 0 ELSE snapshots[list[Max(found)]][k].version

Resolved(snapshots, list, k) ==
    [value |-> Effective(snapshots, list, k),
     version |-> EffectiveVersion(snapshots, list, k)]

\* What is effective in one state: each field as the highest level that has it
\* says, and the version of the highest level with an entry.
InOneState(table, list, k) ==
    LET levels == {list[i] : i \in DOMAIN list}
        having == [f \in Part |-> {l \in levels : f \in Layer(table, l)[k].has}]
        holding == {l \in levels : Layer(table, l)[k].value # "none"}
    IN [value |-> [f \in Part |->
                      IF having[f] = {} THEN "none" ELSE Layer(table, Max(having[f]))[k].value],
        version |-> IF holding = {} THEN 0 ELSE Layer(table, Max(holding))[k].version]

Reading(p) == UnderWay(p) /\ command[p].kind = "resolve"

\* For every resolution in flight: the answers that one state would have given
\* since it began, and the changes that came in between, with the fields they left.
Remember(table, kind, l, k) ==
    LET Of(p, j) == Reading(p) /\ j = k IN
    history' = [history EXCEPT
        !.was = [p \in Call |-> [j \in Key |->
                    IF Of(p, j) THEN history.was[p][k] \cup {InOneState(table, command[p].list, k)}
                    ELSE history.was[p][j]]],
        !.moved = [p \in Call |-> [j \in Key |->
                      IF Of(p, j) THEN history.moved[p][k] \cup {<<kind, l, table[l][k].has>>}
                      ELSE history.moved[p][j]]]]

-----------------------------------------------------------------------------
MoveTo(p, place) == step' = [step EXCEPT ![p] = place]
Finish(p, what) == MoveTo(p, "done") /\ reply' = [reply EXCEPT ![p] = what]

\* Bug: the first failure ends the command.
SettleStops(p, what) ==
    /\ outcome' = [outcome EXCEPT ![p][Here(p)] = what]
    /\ left' = [left EXCEPT ![p] = Tail(@)]
    /\ existing' = [existing EXCEPT ![p] = NoRow]
    /\ IF Len(left[p]) > 1 /\ what = "ok" THEN MoveTo(p, "find") /\ UNCHANGED reply
       ELSE Finish(p, what)

\* Record the result for the key in hand and go on with the next one: one
\* key's failure does not stop the others.
Settle(p, what) ==
    /\ outcome' = [outcome EXCEPT ![p][Here(p)] = what]
    /\ left' = [left EXCEPT ![p] = Tail(@)]
    /\ existing' = [existing EXCEPT ![p] = NoRow]
    /\ IF Len(left[p]) > 1 THEN MoveTo(p, "find") /\ UNCHANGED reply
       ELSE Finish(p, IF what = "ok" /\ \A k \in Key : outcome[p][k] # "failed"
                      THEN "ok" ELSE "error")

NoSettle == UNCHANGED <<outcome, left, existing, reply>>

PreferenceInit ==
    /\ rows \in [Level -> [Key -> {NoRow} \cup FirstRows]]
    /\ command \in [Call -> Commands]
    /\ step = [p \in Call |-> "idle"]
    /\ left = [p \in Call |-> command[p].list]
    /\ existing = [p \in Call |-> NoRow]
    /\ outcome = [p \in Call |-> [k \in Key |-> "none"]]
    /\ saved = [p \in Call |-> Nothing]
    /\ layers = [p \in Call |-> [l \in Level |-> Nothing]]
    /\ reply = [p \in Call |-> "none"]
    /\ stale = {}
    /\ history = [was |-> [p \in Call |-> [k \in Key |-> {}]],
                  moved |-> [p \in Call |-> [k \in Key |-> {}]],
                  overlapped |-> {}]

\* The store of this repository refuses the transactional mode as a whole.
RefuseTransactional(p) ==
    /\ step[p] = "idle" /\ command[p].transactional
    /\ Finish(p, "unsupported")
    /\ UNCHANGED <<rows, command, left, existing, outcome, saved, layers, stale, history>>

Begin(p, kind, place) ==
    /\ step[p] = "idle" /\ command[p].kind = kind /\ ~command[p].transactional
    /\ MoveTo(p, place)
    /\ UNCHANGED <<rows, command, left, existing, outcome, saved, layers, reply, stale>>

StartUpsert(p) == Begin(p, "upsert", "find") /\ UNCHANGED history
StartDelete(p) == Begin(p, "delete", "find") /\ UNCHANGED history

StartQuery(p) ==
    /\ Begin(p, "resolve", "list")
    /\ history' = [history EXCEPT !.was[p] =
                       [k \in Key |-> {InOneState(rows, command[p].list, k)}]]

\* A delete that finds nothing fails; an upsert will create the row.
FindPreference(p) ==
    /\ step[p] = "find"
    /\ \/ /\ command[p].kind = "upsert" \/ Cell(p) # NoRow
          /\ existing' = [existing EXCEPT ![p] = Cell(p)]
          /\ MoveTo(p, "write")
          /\ UNCHANGED <<outcome, left, reply>>
       \/ /\ command[p].kind = "delete" /\ Cell(p) = NoRow
          /\ Settle(p, "failed")
    /\ history' =
           IF \E q \in Call \ {p} :
                  /\ step[q] = "write" /\ Here(q) = Here(p)
                  /\ command[q].level = command[p].level
                  /\ command[p].kind = "upsert" /\ command[q].kind = "upsert"
           THEN [history EXCEPT !.overlapped = @ \cup {<<command[p].level, Here(p)>>}]
           ELSE history
    /\ UNCHANGED <<rows, command, saved, layers, stale>>

\* Bug: an update stores the version it read.
NextVersionKept(mine) == mine.version

NextVersion(mine) == mine.version + 1

\* The row an upsert writes: under the id it found, or a new one.
Upserted(p) ==
    [id |-> IF existing[p] = NoRow THEN p ELSE existing[p].id,
     value |-> p, has |-> command[p].has,
     version |-> IF existing[p] = NoRow THEN 1 ELSE NextVersion(existing[p])]

\* A write that was applied is reported, or its reply is lost and no event follows.
Applied(p) ==
    \/ /\ MoveTo(p, "emit")
       /\ saved' = IF command[p].kind = "upsert"
                   THEN [saved EXCEPT ![p][Here(p)] = Upserted(p)] ELSE saved
       /\ NoSettle
    \/ "lost_reply" \in Failures /\ Settle(p, "failed") /\ UNCHANGED saved

Store(p, row) ==
    LET table == [rows EXCEPT ![command[p].level][Here(p)] = row] IN
    /\ rows' = table
    /\ Remember(table, command[p].kind, command[p].level, Here(p))
    /\ stale' = stale \cup {Here(p)}

\* The update needs the row it found, the insert needs the key to be free.
UpsertPreference(p) ==
    /\ step[p] = "write" /\ command[p].kind = "upsert"
    /\ \/ /\ Cell(p).id = existing[p].id
          /\ Store(p, Upserted(p))
          /\ Applied(p)
       \/ /\ Cell(p).id # existing[p].id
          /\ Settle(p, "failed")
          /\ UNCHANGED <<rows, saved, stale, history>>
    /\ UNCHANGED <<command, layers>>

\* Deleting a row that is gone already is reported either way.
DeletePreference(p) ==
    /\ step[p] = "write" /\ command[p].kind = "delete"
    /\ \/ /\ Cell(p).id = existing[p].id
          /\ Store(p, NoRow)
          /\ Applied(p)
       \/ /\ Cell(p).id # existing[p].id
          /\ \/ MoveTo(p, "emit") /\ NoSettle
             \/ Settle(p, "failed")
          /\ UNCHANGED <<rows, saved, stale, history>>
    /\ UNCHANGED <<command, layers>>

\* Bug: only upserts fire the hook.
AnnounceUpserts(p) == IF command[p].kind = "upsert" THEN stale \ {Here(p)} ELSE stale

\* A listener re-reads the key of the event.
Announce(p) == stale \ {Here(p)}

EmitPreferenceHook(p) ==
    /\ step[p] = "emit"
    /\ stale' = Announce(p)
    /\ Settle(p, "ok")
    /\ UNCHANGED <<rows, command, saved, layers, history>>

\* One level per statement, in the order asked for.
ListPreferences(p) ==
    /\ step[p] = "list"
    /\ layers' = [layers EXCEPT ![p][Here(p)] = Layer(rows, Here(p))]
    /\ left' = [left EXCEPT ![p] = Tail(@)]
    /\ IF Len(left[p]) > 1 THEN UNCHANGED <<step, reply>> ELSE Finish(p, "ok")
    /\ UNCHANGED <<rows, command, existing, outcome, saved, stale, history>>

\* A statement fails without effect: the key in hand, or the whole resolution.
FailStatement(p) ==
    /\ "error" \in Failures
    /\ \/ step[p] \in {"find", "write"} /\ Settle(p, "failed")
       \/ step[p] = "list" /\ Finish(p, "error") /\ UNCHANGED <<outcome, left, existing>>
    /\ UNCHANGED <<rows, command, saved, layers, stale, history>>

Die(p) ==
    /\ UnderWay(p)
    /\ "crash" \in Failures
    /\ MoveTo(p, "crashed")
    /\ UNCHANGED <<rows, command, left, existing, outcome, saved, layers, reply, stale, history>>

PreferenceNext ==
    \E p \in Call :
        \/ RefuseTransactional(p) \/ StartUpsert(p) \/ StartDelete(p) \/ StartQuery(p)
        \/ FindPreference(p) \/ UpsertPreference(p) \/ DeletePreference(p)
        \/ EmitPreferenceHook(p) \/ ListPreferences(p) \/ FailStatement(p) \/ Die(p)

PreferenceSpec == PreferenceInit /\ [][PreferenceNext]_preferenceVars

-----------------------------------------------------------------------------
(* Properties *)

\* Every variable keeps the shape the code gives it; a stored row has an id, a
\* value and a version of at least 1.
PreferenceTypeOK ==
    /\ rows \in [Level -> [Key -> Row]]
    /\ \A l \in Level, k \in Key : rows[l][k] = NoRow \/
           (rows[l][k].id # "none" /\ rows[l][k].value \in Call \cup Old
               /\ rows[l][k].version > 0)
    /\ command \in [Call -> Commands]
    /\ step \in [Call -> {"idle", "find", "write", "emit", "list", "done", "crashed"}]
    /\ \A p \in Call : /\ Len(left[p]) <= Len(command[p].list)
                       /\ (UnderWay(p) => left[p] # <<>>)
    /\ existing \in [Call -> Row]
    /\ outcome \in [Call -> [Key -> {"none", "ok", "failed"}]]
    /\ saved \in [Call -> [Key -> Row]]
    /\ layers \in [Call -> [Level -> [Key -> Row]]]
    /\ reply \in [Call -> {"none", "ok", "error", "unsupported"}]
    /\ stale \subseteq Key

Done(p) == step[p] = "done"

\* The resolver reads the levels one statement after another, without a
\* transaction, and merges what it read.  Where only one level changed the key
\* meanwhile, the whole value was effective at some moment of the resolution,
\* and where levels are read by priority the version is the one that came with
\* it.  Where levels are read by priority and several changed, each field that
\* none of them removed has a value it had at some moment, though not all at the
\* same one, and so has the version if no level deleted the key.
ResolvedWasEffective ==
    \A p \in Call : Done(p) /\ reply[p] = "ok" /\ command[p].kind = "resolve" =>
        \A k \in Key :
            LET moved == history.moved[p][k]
                once == history.was[p][k]
                told == Resolved(layers[p], command[p].list, k)
                ordered == Ascending(command[p].list)
            IN /\ Cardinality({m[2] : m \in moved}) <= 1 =>
                      /\ told.value \in {was.value : was \in once}
                      /\ ordered => told \in once
               /\ ordered =>
                      /\ \A f \in Part : (\A m \in moved : f \in m[3]) =>
                             told.value[f] \in {was.value[f] : was \in once}
                      /\ (\A m \in moved : m[1] = "upsert") =>
                             told.version \in {was.version : was \in once}

\* Two upserts of one row are given different versions, unless both had found
\* the row before either wrote it.
VersionsTellWritesApart ==
    \A p, q \in Call, k \in Key :
        /\ p # q /\ saved[p][k] # NoRow /\ saved[q][k] # NoRow
        /\ command[p].level = command[q].level
        /\ <<command[p].level, k>> \notin history.overlapped
        => <<saved[p][k].id, saved[p][k].version>> # <<saved[q][k].id, saved[q][k].version>>

\* A bulk command reports on every key it was given, and ends well only when
\* all of them did; a transactional one the store refuses has written nothing.
BulkTellsEachKey ==
    \A p \in Call : Done(p) /\ command[p].kind # "resolve" =>
        LET asked == {command[p].list[i] : i \in DOMAIN command[p].list} IN
        IF command[p].transactional
        THEN /\ \A k \in Key : outcome[p][k] = "none"
             /\ \A l \in Level, k \in Key : rows[l][k].value # p
        ELSE /\ \A k \in asked : outcome[p][k] # "none"
             /\ reply[p] = "ok" <=> \A k \in asked : outcome[p][k] = "ok"

\* A listener that re-reads the key of every event ends up with what is stored:
\* a change it has not heard of is still to be announced, or the writer was
\* told that it failed, or died.
ChangesAreAnnounced ==
    \A k \in stale : \E p \in Call :
        \/ step[p] = "emit" /\ Here(p) = k
        \/ outcome[p][k] = "failed"
        \/ step[p] = "crashed"
=============================================================================
