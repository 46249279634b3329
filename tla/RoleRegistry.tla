------------------------------ MODULE RoleRegistry ------------------------------
(* Custom roles and their assignments (registry/bun_registry.go), over the     *)
(* tables of data/sql/migrations/00003_custom_roles.up.sql.  An operation is a *)
(* read, a statement and a hook call, and operations interleave between them.  *)
(* A listener applies every role event it is handed to a mirror of its own.     *)
(* Nothing orders the operations; "overlapped" remembers the roles on which two *)
(* changes were ever in flight together, for the properties that need it.        *)
EXTENDS Naturals, FiniteSets

CONSTANTS
    Op,         \* operations, each runs once
    Role,       \* role ids
    Member,     \* users that may hold a role
    Scope,      \* tenant and organisation pairs
    Name,       \* role names, as compared by the unique index
    Faults      \* which of "error", "lost_reply", "crash" may happen

ASSUME RoleAssumption == Faults \subseteq {"error", "lost_reply", "crash"}

VARIABLES
    roles,       \* the custom_roles table, as a function of the id
    assignments, \* the user_custom_roles table
    job, pc,
    copy,        \* per op: the role record it read and may write back
    answer,
    mirror,      \* what a listener of AfterRoleChange believes
    listed,      \* per op: the assignments it lists, with the names of their roles
    overlapped   \* roles on which two changes were in flight together

vars == <<roles, assignments, job, pc, copy, answer, mirror, listed, overlapped>>

-----------------------------------------------------------------------------
NoRole == [exists |-> FALSE, scope |-> {}, name |-> {}, system |-> FALSE]
RoleRecord == [exists : BOOLEAN, scope : SUBSET Scope, name : SUBSET Name,
               system : BOOLEAN]
Assignment == [member : Member, role : Role, scope : Scope]
Actions == {"create", "update", "delete", "assign", "unassign", "list"}
\* Only a create or an update brings a name and a system mark; {} is a blank name.
Jobs == {j \in [action : Actions, role : Role, member : Member, scope : Scope,
                name : {{}} \cup {{n} : n \in Name}, system : BOOLEAN] :
            j.action \in {"create", "update"} \/ (j.name = {} /\ ~j.system)}

InFlight(p) == pc[p] \notin {"idle", "done", "crashed"}
Changing(r) == {p \in Op : job[p].role = r /\ job[p].action # "list"}
Goto(p, place) == pc' = [pc EXCEPT ![p] = place]
Reply(p, what) ==
    /\ Goto(p, "done")
    /\ answer' = [answer EXCEPT ![p] = what]
    /\ copy' = [copy EXCEPT ![p] = NoRole]
Continue(p, place) == Goto(p, place) /\ UNCHANGED <<answer, copy>>
Written(p, place) ==
    Continue(p, place) \/ ("lost_reply" \in Faults /\ Reply(p, "error"))
KeepTables == UNCHANGED <<roles, assignments>>

\* Bug: the scope filter is forgotten.
FoundAnywhere(p) == roles[job[p].role].exists

\* The row an operation's GetByID finds within its scope.
Found(p) == roles[job[p].role].exists /\ roles[job[p].role].scope = {job[p].scope}

\* custom_roles_scope_name_idx: one name per scope.
NameFree(r, scope, name) ==
    \A s \in Role \ {r} : ~(roles[s].exists /\ roles[s].scope = scope /\ roles[s].name = name)

Row(p) == [member |-> job[p].member, role |-> job[p].role, scope |-> job[p].scope]

-----------------------------------------------------------------------------
Init ==
    /\ roles = [r \in Role |-> NoRole]
    /\ assignments = {}
    /\ job \in [Op -> Jobs]
    /\ pc = [p \in Op |-> "idle"]
    /\ copy = [p \in Op |-> NoRole]
    /\ answer = [p \in Op |-> "none"]
    /\ mirror = [roles |-> {}, assignments |-> {}]
    /\ listed = [p \in Op |-> {}]
    /\ overlapped = {}

\* A role id is made by the registry, so a create never meets a taken id.
Start(p) ==
    /\ pc[p] = "idle"
    /\ job[p].action = "create" =>
          \A q \in Op \ {p} :
              job[q].role = job[p].role /\ job[q].action = "create" => pc[q] = "idle"
    /\ overlapped' = overlapped \cup
           {r \in {job[p].role} :
               \E q \in Op : InFlight(q) /\ {p, q} \subseteq Changing(r)}
    /\ Goto(p, CASE job[p].action \in {"create", "unassign"} -> "write"
                 [] job[p].action = "list" -> "list"
                 [] OTHER -> "read")
    /\ KeepTables /\ UNCHANGED <<job, copy, answer, mirror, listed>>

Read(p) ==
    /\ pc[p] = "read"
    /\ \/ /\ Found(p)
          /\ copy' = [copy EXCEPT ![p] = roles[job[p].role]]
          /\ Goto(p, "write")
          /\ UNCHANGED answer
       \/ ~Found(p) /\ Reply(p, "not_found")
    /\ KeepTables /\ UNCHANGED <<job, mirror, listed, overlapped>>

\* A blank name is refused before the registry is asked.
CreateRole(p) ==
    /\ pc[p] = "write" /\ job[p].action = "create"
    /\ LET free == job[p].name # {} /\ NameFree(job[p].role, {job[p].scope}, job[p].name) IN
       \/ /\ free
          /\ roles' = [roles EXCEPT ![job[p].role] =
                          [exists |-> TRUE, scope |-> {job[p].scope},
                           name |-> job[p].name, system |-> job[p].system]]
          /\ Written(p, "emit")
       \/ ~free /\ UNCHANGED roles /\ Reply(p, "refused")
    /\ UNCHANGED <<assignments, job, mirror, listed, overlapped>>

\* Bug: an update decides the system mark anew.
SystemMarkOverwritten(mine, asked) == {asked}

\* The mark is only ever set; whether the copy's FALSE is written over a
\* stored TRUE is the store's choice.
SystemMark(mine, asked) == {mine \/ asked}

\* A blank name keeps the name the copy has.
NewName(p) == IF job[p].name = {} THEN copy[p].name ELSE job[p].name

UpdateRole(p) ==
    /\ pc[p] = "write" /\ job[p].action = "update"
    /\ LET r == job[p].role
           free == NameFree(r, copy[p].scope, NewName(p)) IN
       \/ /\ roles[r].exists /\ free
          /\ \E mark \in SystemMark(copy[p].system, job[p].system) :
             \E stored \in {mark, mark \/ roles[r].system} :
                roles' = [roles EXCEPT ![r] = [copy[p] EXCEPT !.name = NewName(p),
                                                             !.system = stored]]
          /\ Written(p, "emit")
       \/ ~(roles[r].exists /\ free) /\ UNCHANGED roles /\ Reply(p, "refused")
    /\ UNCHANGED <<assignments, job, mirror, listed, overlapped>>

Cascade(r) == {a \in assignments : a.role # r}

DeleteRole(p) ==
    /\ pc[p] = "write" /\ job[p].action = "delete"
    /\ \/ copy[p].system /\ Reply(p, "system") /\ KeepTables
       \/ /\ ~copy[p].system
          /\ roles' = [roles EXCEPT ![job[p].role] = NoRole]
          /\ assignments' = Cascade(job[p].role)
          /\ Written(p, "emit")
    /\ UNCHANGED <<job, mirror, listed, overlapped>>

\* Bug: the reference to custom_roles is not enforced.
ForeignKeyNone(r) == TRUE

ForeignKey(r) == roles[r].exists

AssignRole(p) ==
    /\ pc[p] = "write" /\ job[p].action = "assign"
    /\ \/ /\ ForeignKey(job[p].role) /\ Row(p) \notin assignments
          /\ assignments' = assignments \cup {Row(p)}
          /\ Written(p, "emit")
       \/ Row(p) \in assignments /\ Reply(p, "ok") /\ UNCHANGED assignments
       \/ /\ ~ForeignKey(job[p].role) /\ Row(p) \notin assignments
          /\ Reply(p, "refused")
          /\ UNCHANGED assignments
    /\ UNCHANGED <<roles, job, mirror, listed, overlapped>>

UnassignRole(p) ==
    /\ pc[p] = "write" /\ job[p].action = "unassign"
    /\ assignments' = assignments \ {Row(p)}
    /\ Written(p, "emit")
    /\ UNCHANGED <<roles, job, mirror, listed, overlapped>>

\* Bug: a deleted role's event says nothing of its assignments.
HearRowsOnly(p) ==
    CASE job[p].action = "create" -> [mirror EXCEPT !.roles = @ \cup {job[p].role}]
      [] job[p].action = "delete" -> [mirror EXCEPT !.roles = @ \ {job[p].role}]
      [] job[p].action = "assign" -> [mirror EXCEPT !.assignments = @ \cup {Row(p)}]
      [] job[p].action = "unassign" -> [mirror EXCEPT !.assignments = @ \ {Row(p)}]
      [] OTHER -> mirror

\* What the listener makes of op p's event.
Hear(p) ==
    CASE job[p].action = "create" -> [mirror EXCEPT !.roles = @ \cup {job[p].role}]
      [] job[p].action = "delete" ->
            [roles |-> mirror.roles \ {job[p].role},
             assignments |-> {a \in mirror.assignments : a.role # job[p].role}]
      [] job[p].action = "assign" -> [mirror EXCEPT !.assignments = @ \cup {Row(p)}]
      [] job[p].action = "unassign" -> [mirror EXCEPT !.assignments = @ \ {Row(p)}]
      [] OTHER -> mirror

EmitRoleEvent(p) ==
    /\ pc[p] = "emit"
    /\ mirror' = Hear(p)
    /\ Reply(p, "ok")
    /\ KeepTables /\ UNCHANGED <<job, listed, overlapped>>

\* One assignment is asked for; a wider filter lists several such at once.
SelectAssignments(p) ==
    /\ pc[p] = "list"
    /\ listed' = [listed EXCEPT ![p] = {[row |-> a, name |-> {}] : a \in assignments \cap {Row(p)}}]
    /\ IF listed'[p] = {} THEN Reply(p, "ok") ELSE Continue(p, "names")
    /\ KeepTables /\ UNCHANGED <<job, mirror, overlapped>>

\* Bug: names come from ListRoles, which leaves out system roles.
RoleNameListed(r) == IF roles[r].system THEN {} ELSE roles[r].name

\* A role that is gone leaves the name empty.
RoleName(r) == roles[r].name

\* The names are read by a second statement.
LoadRoleNames(p) ==
    /\ pc[p] = "names"
    /\ listed' = [listed EXCEPT ![p] = {[l EXCEPT !.name = RoleName(l.row.role)] : l \in @}]
    /\ Reply(p, "ok")
    /\ KeepTables /\ UNCHANGED <<job, mirror, overlapped>>

\* A statement may fail without effect; a crash may swallow the event.
Fail(p) ==
    /\ pc[p] \in {"read", "write", "list", "names"}
    /\ "error" \in Faults
    /\ Reply(p, "error")
    /\ KeepTables /\ UNCHANGED <<job, mirror, listed, overlapped>>

Crash(p) ==
    /\ InFlight(p)
    /\ "crash" \in Faults
    /\ Continue(p, "crashed")
    /\ KeepTables /\ UNCHANGED <<job, mirror, listed, overlapped>>

Next ==
    \E p \in Op :
        \/ Start(p) \/ Read(p) \/ CreateRole(p) \/ UpdateRole(p) \/ DeleteRole(p)
        \/ AssignRole(p) \/ UnassignRole(p) \/ EmitRoleEvent(p)
        \/ SelectAssignments(p) \/ LoadRoleNames(p) \/ Fail(p) \/ Crash(p)

Spec == Init /\ [][Next]_vars

-----------------------------------------------------------------------------
(* Properties *)

\* Every variable keeps the shape the code gives it; a stored role has a name
\* and a scope.
TypeOK ==
    /\ roles \in [Role -> RoleRecord]
    /\ \A r \in Role : roles[r].exists =>
           Cardinality(roles[r].name) = 1 /\ Cardinality(roles[r].scope) = 1
    /\ assignments \subseteq Assignment
    /\ job \in [Op -> Jobs]
    /\ pc \in [Op -> {"idle", "read", "write", "emit", "list", "names",
                      "done", "crashed"}]
    /\ copy \in [Op -> RoleRecord]
    /\ answer \in [Op -> {"none", "ok", "error", "not_found", "refused",
                          "system"}]
    /\ mirror \in [roles : SUBSET Role, assignments : SUBSET Assignment]
    /\ listed \in [Op -> SUBSET [row : Assignment, name : SUBSET Name]]
    /\ overlapped \subseteq Role

\* An assignment always names a role of its own scope, also when the role is
\* deleted between AssignRole's check and its insert; and a listing that shows an
\* assignment without the name of its role shows one that has been removed since.
AssignmentsHaveRoles ==
    /\ \A a \in assignments : roles[a.role].exists /\ roles[a.role].scope = {a.scope}
    /\ \A p \in Op : pc[p] = "done" /\ answer[p] = "ok" =>
           \A l \in listed[p] : l.name = {} => l.row \notin assignments

\* A role marked as system stays and stays marked, unless operations on it
\* ever overlapped: DeleteRole and UpdateRole decide on a copy.
SystemRolesStay ==
    [][\A r \in Role \ overlapped :
          roles[r].system => roles'[r].exists /\ roles'[r].system]_vars

\* A listener that applied the role events agrees with the registry on every
\* role whose operations ran one after the other and ended without an error,
\* although a deletion removes assignments without an event of their own.
MirrorAgrees ==
    \A r \in Role \ overlapped :
        (\A p \in Changing(r) :
              pc[p] = "idle" \/ (pc[p] = "done" /\ answer[p] # "error"))
        => /\ r \in mirror.roles <=> roles[r].exists
           /\ {a \in mirror.assignments : a.role = r} = {a \in assignments : a.role = r}

-----------------------------------------------------------------------------
(* What the registry promises *)

\* The id of a role was used: its create has come to an end.
Used(r) ==
    \E c \in Op : job[c].role = r /\ job[c].action = "create" /\ pc[c] \notin {"idle", "write"}

LifeOf(r) == IF roles[r].exists THEN "live" ELSE IF Used(r) THEN "gone" ELSE "fresh"

EntryOf(row) ==
    IF row.exists THEN [scope |-> row.scope, name |-> row.name] ELSE [scope |-> {}, name |-> {}]

StageOf(p) ==
    CASE pc[p] = "idle" -> "out"
      [] pc[p] \in {"read", "write", "list", "names"} -> "in"
      [] pc[p] = "emit" -> "did"
      [] pc[p] = "crashed" -> "no"
      [] pc[p] = "done" -> IF answer[p] = "ok" THEN "yes" ELSE "no"

AskOf(p) ==
    [action |-> job[p].action, role |-> job[p].role, member |-> job[p].member,
     scope |-> job[p].scope, name |-> job[p].name]

Promise == INSTANCE NamedRoles WITH
    life <- [r \in Role |-> LifeOf(r)],
    entry <- [r \in Role |-> EntryOf(roles[r])],
    holders <- assignments,
    stage <- [p \in Op |-> StageOf(p)],
    ask <- [p \in Op |-> AskOf(p)]

\* Reads, statements and hook calls, however they interleave, keep the promise of
\* NamedRoles: a role lives once and keeps its scope, names differ, and a caller
\* is told "ok" only of a change that took effect while it waited.
RolePromiseKept == Promise!Spec
=============================================================================
