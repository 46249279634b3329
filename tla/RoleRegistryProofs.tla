-------------------------- MODULE RoleRegistryProofs --------------------------
(* Proofs about RoleRegistry, for every set of operations, roles, members,     *)
(* scopes and names, and every combination of faults.                          *)
EXTENDS RoleRegistry, FiniteSetTheorems, TLAPS

-----------------------------------------------------------------------------
(* Types *)

Places == {"idle", "read", "write", "emit", "list", "names", "done", "crashed"}
Answers == {"none", "ok", "error", "not_found", "refused", "system"}
Listing == [row : Assignment, name : SUBSET Name]

\* A stored role has one scope and one name; {} is not a name.
Named(row) == row.exists =>
    (\E n \in Name : row.name = {n}) /\ (\E s \in Scope : row.scope = {s})

LocalType ==
    /\ job \in [Op -> Jobs]
    /\ pc \in [Op -> Places]
    /\ copy \in [Op -> RoleRecord]
    /\ answer \in [Op -> Answers]
    /\ listed \in [Op -> SUBSET Listing]

TableType ==
    /\ roles \in [Role -> RoleRecord]
    /\ assignments \subseteq Assignment
    /\ mirror \in [roles : SUBSET Role, assignments : SUBSET Assignment]
    /\ overlapped \subseteq Role

\* Types, with the shape of a stored role told without counting.
TypeInv ==
    /\ LocalType /\ TableType
    /\ \A r \in Role : Named(roles[r])
    /\ \A p \in Op : Named(copy[p])

LEMMA NoRoleType == NoRole \in RoleRecord /\ Named(NoRole) /\ ~NoRole.exists /\ ~NoRole.system
  BY DEF NoRole, RoleRecord, Named

LEMMA JobType ==
    ASSUME LocalType, NEW p \in Op
    PROVE  /\ job[p] \in Jobs /\ job[p].action \in Actions
           /\ job[p].role \in Role /\ job[p].member \in Member /\ job[p].scope \in Scope
           /\ job[p].name \in SUBSET Name /\ job[p].system \in BOOLEAN
           /\ job[p].name # {} => \E n \in Name : job[p].name = {n}
           /\ Row(p) \in Assignment /\ Row(p).role = job[p].role
  BY DEF LocalType, Jobs, Row, Assignment

\* One step of one operation.
Step(p) ==
    \/ Start(p) \/ Read(p) \/ CreateRole(p) \/ UpdateRole(p) \/ DeleteRole(p)
    \/ AssignRole(p) \/ UnassignRole(p) \/ EmitRoleEvent(p)
    \/ SelectAssignments(p) \/ LoadRoleNames(p) \/ Fail(p) \/ Crash(p)

LEMMA NextIsStep == Next <=> \E p \in Op : Step(p)
  BY DEF Next, Step

-----------------------------------------------------------------------------
(* What a step does to the operation that takes it *)

Stays(p) == UNCHANGED <<pc[p], copy[p], answer[p], listed[p]>>
Goes(p, from, to) ==
    /\ pc[p] = from /\ pc'[p] = to
    /\ UNCHANGED <<answer[p], copy[p]>>
Ends(p) ==
    /\ InFlight(p) /\ pc'[p] = "done" /\ copy'[p] = NoRole
    /\ answer'[p] \in Answers \ {"none"}

Starts(p) ==
    /\ UNCHANGED listed[p]
    /\ \/ Goes(p, "idle", "write") /\ job[p].action \in {"create", "unassign"}
       \/ Goes(p, "idle", "list") /\ job[p].action = "list"
       \/ Goes(p, "idle", "read") /\ job[p].action \in {"update", "delete", "assign"}
Reads(p) ==
    /\ pc[p] = "read" /\ pc'[p] = "write"
    /\ Found(p) /\ copy'[p] = roles[job[p].role]
    /\ UNCHANGED <<answer[p], listed[p]>>
Lists(p) ==
    /\ pc[p] = "list"
    /\ listed'[p] = {[row |-> a, name |-> {}] : a \in assignments \cap {Row(p)}}
    /\ (listed'[p] = {} /\ Ends(p)) \/ Goes(p, "list", "names")
Names(p) ==
    /\ pc[p] = "names" /\ Ends(p) /\ answer'[p] = "ok"
    /\ listed'[p] = {[l EXCEPT !.name = RoleName(l.row.role)] : l \in listed[p]}

OpMove(p) ==
    \/ Stays(p) \/ Starts(p) \/ Reads(p) \/ Lists(p) \/ Names(p)
    \/ Goes(p, "write", "emit") /\ UNCHANGED listed[p]
    \/ Ends(p) /\ UNCHANGED listed[p] /\ (pc[p] \in {"list", "names"} => answer'[p] = "error")
    \/ InFlight(p) /\ pc'[p] = "crashed" /\ UNCHANGED <<copy[p], answer[p], listed[p]>>

\* The helpers of the actions, for the operation that takes the step.
LEMMA Moves ==
    ASSUME LocalType, NEW p \in Op
    PROVE  /\ \A place \in Places : Goto(p, place) => pc' = [pc EXCEPT ![p] = place] /\ pc'[p] = place
           /\ \A what \in Answers : Reply(p, what) =>
                  /\ pc'[p] = "done" /\ copy'[p] = NoRole /\ answer'[p] = what
           /\ \A place \in Places : Continue(p, place) =>
                  pc'[p] = place /\ UNCHANGED <<answer[p], copy[p]>>
  BY DEF LocalType, Goto, Reply, Continue

\* A step is one of these moves for the operation that takes it.
LEMMA OwnMove ==
    ASSUME LocalType, NEW p \in Op, Step(p)
    PROVE  OpMove(p)
<1>1. /\ {"idle", "read", "write", "emit", "list", "names", "done", "crashed"} \subseteq Places
      /\ {"ok", "error", "not_found", "refused", "system"} \subseteq Answers \ {"none"}
  BY DEF Places, Answers
<1>2. pc[p] \in {"read", "write", "emit", "list", "names"} => InFlight(p)
  BY DEF InFlight
<1>3. job[p].action \in Actions
  BY JobType
<1> USE <1>1, <1>2, Moves DEF Goes, Ends, OpMove
<1>4. CASE Start(p)
  <2>1. Goto(p, "write") \/ Goto(p, "list") \/ Goto(p, "read")
    BY <1>4 DEF Start
  <2>2. /\ job[p].action \in {"create", "unassign"} => Goto(p, "write")
        /\ job[p].action = "list" => Goto(p, "list")
        /\ job[p].action \in {"update", "delete", "assign"} => Goto(p, "read")
    BY <1>4 DEF Start
  <2>3. pc[p] = "idle" /\ UNCHANGED <<copy, answer, listed>>
    BY <1>4 DEF Start
  <2> QED
    BY <1>3, <2>2, <2>3 DEF Starts, Actions
<1>5. CASE Read(p)
  <2>1. UNCHANGED listed /\ pc[p] = "read"
    BY <1>5 DEF Read
  <2>2. CASE Reply(p, "not_found")
    BY <2>1, <2>2
  <2>3. CASE Found(p) /\ copy' = [copy EXCEPT ![p] = roles[job[p].role]] /\ Goto(p, "write") /\ UNCHANGED answer
    BY <2>1, <2>3 DEF Reads, LocalType
  <2> QED
    BY <1>5, <2>2, <2>3 DEF Read
<1>6. Written(p, "emit") => Continue(p, "emit") \/ Reply(p, "error")
  BY DEF Written
<1>7. CASE CreateRole(p)
  <2>1. UNCHANGED listed /\ pc[p] = "write" /\ (Written(p, "emit") \/ Reply(p, "refused"))
    BY <1>7 DEF CreateRole
  <2> QED
    BY <1>6, <2>1
<1>8. CASE UpdateRole(p)
  <2>1. UNCHANGED listed /\ pc[p] = "write" /\ (Written(p, "emit") \/ Reply(p, "refused"))
    BY <1>8 DEF UpdateRole
  <2> QED
    BY <1>6, <2>1
<1>9. CASE DeleteRole(p)
  <2>1. UNCHANGED listed /\ pc[p] = "write" /\ (Written(p, "emit") \/ Reply(p, "system"))
    BY <1>9 DEF DeleteRole
  <2> QED
    BY <1>6, <2>1
<1>10. CASE AssignRole(p)
  <2>1. UNCHANGED listed /\ pc[p] = "write" /\ (Written(p, "emit") \/ Reply(p, "ok") \/ Reply(p, "refused"))
    BY <1>10 DEF AssignRole
  <2> QED
    BY <1>6, <2>1
<1>11. CASE UnassignRole(p)
  <2>1. UNCHANGED listed /\ pc[p] = "write" /\ Written(p, "emit")
    BY <1>11 DEF UnassignRole
  <2> QED
    BY <1>6, <2>1
<1>12. CASE EmitRoleEvent(p)
  BY <1>12 DEF EmitRoleEvent
<1>13. CASE SelectAssignments(p)
  <2>1. /\ pc[p] = "list"
        /\ listed'[p] = {[row |-> a, name |-> {}] : a \in assignments \cap {Row(p)}}
    BY <1>13 DEF SelectAssignments, LocalType
  <2>2. CASE listed'[p] = {} /\ Reply(p, "ok")
    BY <2>1, <2>2 DEF Lists
  <2>3. CASE Continue(p, "names")
    BY <2>1, <2>3 DEF Lists
  <2> QED
    BY <1>13, <2>2, <2>3 DEF SelectAssignments
<1>14. CASE LoadRoleNames(p)
  BY <1>14 DEF LoadRoleNames, Names, LocalType
<1>15. CASE Fail(p)
  BY <1>15 DEF Fail
<1>16. CASE Crash(p)
  BY <1>16 DEF Crash
<1> QED
  BY <1>4, <1>5, <1>7, <1>8, <1>9, <1>10, <1>11, <1>12, <1>13, <1>14, <1>15, <1>16 DEF Step

\* The others keep their place and what they hold.
LEMMA OthersStay ==
    ASSUME LocalType, NEW p \in Op, Step(p), NEW q \in Op, q # p
    PROVE  Stays(q)
<1>1. \A place, what : /\ Goto(p, place) => pc'[q] = pc[q]
                       /\ Reply(p, what) => UNCHANGED <<pc[q], copy[q], answer[q]>>
                       /\ Continue(p, place) => UNCHANGED <<pc[q], copy[q], answer[q]>>
  BY DEF LocalType, Goto, Reply, Continue
<1>2. Written(p, "emit") => UNCHANGED <<pc[q], copy[q], answer[q]>>
  BY <1>1 DEF Written
<1> USE <1>1, <1>2 DEF LocalType, Stays
<1>3. CASE Start(p)
  <2>1. Goto(p, "write") \/ Goto(p, "list") \/ Goto(p, "read")
    BY <1>3 DEF Start
  <2> QED
    BY <1>3, <2>1 DEF Start
<1>4. CASE Read(p)
  BY <1>4 DEF Read
<1>5. CASE CreateRole(p)
  BY <1>5 DEF CreateRole
<1>6. CASE UpdateRole(p)
  BY <1>6 DEF UpdateRole
<1>7. CASE DeleteRole(p)
  BY <1>7 DEF DeleteRole
<1>8. CASE AssignRole(p) \/ UnassignRole(p)
  BY <1>8 DEF AssignRole, UnassignRole
<1>9. CASE EmitRoleEvent(p) \/ Fail(p) \/ Crash(p)
  BY <1>9 DEF EmitRoleEvent, Fail, Crash
<1>10. CASE SelectAssignments(p)
  BY <1>10 DEF SelectAssignments
<1>11. CASE LoadRoleNames(p)
  BY <1>11 DEF LoadRoleNames
<1> QED
  BY <1>3, <1>4, <1>5, <1>6, <1>7, <1>8, <1>9, <1>10, <1>11 DEF Step

-----------------------------------------------------------------------------
(* What a step does to the tables, the mirror and the record of overlaps *)

Stores(p, row) == roles' = [roles EXCEPT ![job[p].role] = row]

Creates(p) ==
    /\ job[p].action = "create" /\ job[p].name # {}
    /\ Stores(p, [exists |-> TRUE, scope |-> {job[p].scope}, name |-> job[p].name,
                  system |-> job[p].system])
    /\ UNCHANGED assignments
Updates(p) ==
    /\ job[p].action = "update" /\ roles[job[p].role].exists
    /\ \E mark \in SystemMark(copy[p].system, job[p].system) :
       \E stored \in {mark, mark \/ roles[job[p].role].system} :
           Stores(p, [copy[p] EXCEPT !.name = NewName(p), !.system = stored])
    /\ UNCHANGED assignments
Deletes(p) ==
    /\ job[p].action = "delete" /\ ~copy[p].system
    /\ Stores(p, NoRole)
    /\ assignments' = Cascade(job[p].role)
Assigns(p) ==
    /\ job[p].action = "assign" /\ ForeignKey(job[p].role)
    /\ assignments' = assignments \cup {Row(p)}
    /\ UNCHANGED roles
Unassigns(p) ==
    /\ job[p].action = "unassign"
    /\ assignments' = assignments \ {Row(p)}
    /\ UNCHANGED roles

\* A statement took effect: the operation goes on to its event, or its reply is lost.
Writes(p) ==
    /\ pc[p] = "write" /\ UNCHANGED <<mirror, overlapped>>
    /\ Creates(p) \/ Updates(p) \/ Deletes(p) \/ Assigns(p) \/ Unassigns(p)
    /\ pc'[p] = "emit" \/ (pc'[p] = "done" /\ answer'[p] = "error")

Emits(p) ==
    /\ pc[p] = "emit" /\ pc'[p] = "done" /\ answer'[p] = "ok"
    /\ mirror' = Hear(p) /\ KeepTables /\ UNCHANGED overlapped

Keeps(p) == KeepTables /\ UNCHANGED <<mirror, overlapped>> /\ pc'[p] # "emit" /\ pc[p] # "idle"

LEMMA TableMove ==
    ASSUME LocalType, NEW p \in Op, Step(p)
    PROVE  /\ UNCHANGED job
           /\ \/ Start(p) \/ Writes(p) \/ Emits(p)
              \/ Keeps(p) /\ (pc[p] = "emit" => pc'[p] = "crashed")
<1>1. /\ {"read", "write", "emit", "list", "names", "done", "crashed"} \subseteq Places
      /\ {"ok", "error", "not_found", "refused", "system"} \subseteq Answers
  BY DEF Places, Answers
<1>2. UNCHANGED job
  BY DEF Step, Start, Read, CreateRole, UpdateRole, DeleteRole, AssignRole, UnassignRole,
         EmitRoleEvent, SelectAssignments, LoadRoleNames, Fail, Crash
<1>3. Written(p, "emit") => pc'[p] = "emit" \/ (pc'[p] = "done" /\ answer'[p] = "error")
  BY <1>1, Moves DEF Written
<1>4. \A what \in Answers : Reply(p, what) => pc'[p] = "done" /\ answer'[p] = what
  BY Moves
<1> USE <1>1, <1>3, <1>4
<1>5. CASE Start(p)
  BY <1>2, <1>5
<1>6. CASE CreateRole(p)
  <2>1. pc[p] = "write" /\ job[p].action = "create" /\ UNCHANGED <<assignments, mirror, overlapped>>
    BY <1>6 DEF CreateRole
  <2>2. CASE UNCHANGED roles /\ Reply(p, "refused")
    BY <1>2, <2>1, <2>2 DEF Keeps, KeepTables
  <2>3. CASE /\ job[p].name # {} /\ Written(p, "emit")
             /\ roles' = [roles EXCEPT ![job[p].role] =
                             [exists |-> TRUE, scope |-> {job[p].scope},
                              name |-> job[p].name, system |-> job[p].system]]
    BY <1>2, <2>1, <2>3 DEF Writes, Creates, Stores
  <2> QED
    BY <1>6, <2>2, <2>3 DEF CreateRole
<1>7. CASE UpdateRole(p)
  <2>1. pc[p] = "write" /\ job[p].action = "update" /\ UNCHANGED <<assignments, mirror, overlapped>>
    BY <1>7 DEF UpdateRole
  <2>2. CASE UNCHANGED roles /\ Reply(p, "refused")
    BY <1>2, <2>1, <2>2 DEF Keeps, KeepTables
  <2>3. CASE /\ roles[job[p].role].exists /\ Written(p, "emit")
             /\ \E mark \in SystemMark(copy[p].system, job[p].system) :
                \E stored \in {mark, mark \/ roles[job[p].role].system} :
                   roles' = [roles EXCEPT ![job[p].role] = [copy[p] EXCEPT !.name = NewName(p),
                                                                          !.system = stored]]
    BY <1>2, <2>1, <2>3 DEF Writes, Updates, Stores
  <2> QED
    BY <1>7, <2>2, <2>3 DEF UpdateRole
<1>8. CASE DeleteRole(p)
  BY <1>2, <1>8 DEF DeleteRole, Writes, Deletes, Stores, Keeps, KeepTables
<1>9. CASE AssignRole(p)
  BY <1>2, <1>9 DEF AssignRole, Writes, Assigns, Keeps, KeepTables
<1>10. CASE UnassignRole(p)
  BY <1>2, <1>10 DEF UnassignRole, Writes, Unassigns
<1>11. CASE EmitRoleEvent(p)
  BY <1>2, <1>11 DEF EmitRoleEvent, Emits
<1>12. CASE Read(p) \/ SelectAssignments(p) \/ LoadRoleNames(p) \/ Fail(p) \/ Crash(p)
  BY <1>2, <1>12, Moves DEF Read, SelectAssignments, LoadRoleNames, Fail, Crash, Keeps, KeepTables, InFlight
<1> QED
  BY <1>5, <1>6, <1>7, <1>8, <1>9, <1>10, <1>11, <1>12 DEF Step

-----------------------------------------------------------------------------
(* Types are kept *)

LEMMA HearType ==
    ASSUME LocalType, TableType, NEW p \in Op
    PROVE  Hear(p) \in [roles : SUBSET Role, assignments : SUBSET Assignment]
<1>1. job[p].role \in Role /\ Row(p) \in Assignment
  BY JobType
<1>2. mirror \in [roles : SUBSET Role, assignments : SUBSET Assignment]
  BY DEF TableType
<1> QED
  BY <1>1, <1>2 DEF Hear

\* The row a statement stores is a record, and named if it exists.
LEMMA StoredType ==
    ASSUME TypeInv, NEW p \in Op, Writes(p)
    PROVE  /\ \/ UNCHANGED roles
              \/ \E row \in RoleRecord : Stores(p, row) /\ Named(row)
           /\ assignments' \subseteq Assignment
<1>1. LocalType /\ TableType /\ copy[p] \in RoleRecord /\ Named(copy[p]) /\ assignments \subseteq Assignment
  BY DEF TypeInv, LocalType, TableType
<1>2. /\ job[p].role \in Role /\ job[p].scope \in Scope /\ job[p].name \in SUBSET Name
      /\ job[p].system \in BOOLEAN /\ Row(p) \in Assignment
      /\ job[p].name # {} => \E n \in Name : job[p].name = {n}
  BY <1>1, JobType
<1>3. CASE Creates(p)
  <2> DEFINE row == [exists |-> TRUE, scope |-> {job[p].scope}, name |-> job[p].name,
                     system |-> job[p].system]
  <2>1. row \in RoleRecord
    BY <1>2 DEF RoleRecord
  <2>2. Named(row)
    BY <1>2, <1>3 DEF Named, Creates
  <2> QED
    BY <1>1, <1>3, <2>1, <2>2 DEF Creates
<1>4. CASE Updates(p)
  <2>1. PICK mark \in SystemMark(copy[p].system, job[p].system) :
        \E stored \in {mark, mark \/ roles[job[p].role].system} :
            Stores(p, [copy[p] EXCEPT !.name = NewName(p), !.system = stored])
    BY <1>4 DEF Updates
  <2>2. PICK stored \in {mark, mark \/ roles[job[p].role].system} :
            Stores(p, [copy[p] EXCEPT !.name = NewName(p), !.system = stored])
    BY <2>1
  <2>3. roles[job[p].role].system \in BOOLEAN /\ copy[p].system \in BOOLEAN
    BY <1>1, <1>2 DEF TableType, RoleRecord
  <2>4. mark \in BOOLEAN /\ stored \in BOOLEAN
    BY <1>2, <2>3 DEF SystemMark
  <2>5. NewName(p) \in SUBSET Name /\ (copy[p].exists => \E n \in Name : NewName(p) = {n})
    BY <1>1, <1>2 DEF NewName, RoleRecord, Named
  <2> DEFINE row == [copy[p] EXCEPT !.name = NewName(p), !.system = stored]
  <2>6. row \in RoleRecord
    BY <1>1, <2>4, <2>5 DEF RoleRecord
  <2>7. Named(row)
    BY <1>1, <2>5 DEF Named, RoleRecord
  <2> QED
    BY <1>1, <1>4, <2>2, <2>6, <2>7 DEF Updates
<1>5. CASE Deletes(p)
  BY <1>1, <1>5, NoRoleType DEF Deletes, Cascade
<1>6. CASE Assigns(p) \/ Unassigns(p)
  BY <1>1, <1>2, <1>6 DEF Assigns, Unassigns
<1> QED
  BY <1>3, <1>4, <1>5, <1>6 DEF Writes

LEMMA LocalTypeStep ==
    ASSUME TypeInv, NEW p \in Op, Step(p)
    PROVE  LocalType' /\ Named(copy'[p])
<1>1. LocalType /\ TableType
  BY DEF TypeInv
<1>2. OpMove(p) /\ UNCHANGED job /\ \A q \in Op : q # p => Stays(q)
  BY <1>1, OwnMove, OthersStay, TableMove
<1>3. /\ pc' = [pc EXCEPT ![p] = pc'[p]] /\ copy' = [copy EXCEPT ![p] = copy'[p]]
      /\ answer' = [answer EXCEPT ![p] = answer'[p]] /\ listed' = [listed EXCEPT ![p] = listed'[p]]
  <2>1. /\ \A place, what : /\ Goto(p, place) => pc' = [pc EXCEPT ![p] = pc'[p]]
                            /\ Reply(p, what) => /\ pc' = [pc EXCEPT ![p] = pc'[p]]
                                                 /\ copy' = [copy EXCEPT ![p] = copy'[p]]
                                                 /\ answer' = [answer EXCEPT ![p] = answer'[p]]
        /\ UNCHANGED pc => pc' = [pc EXCEPT ![p] = pc'[p]]
        /\ UNCHANGED copy => copy' = [copy EXCEPT ![p] = copy'[p]]
        /\ UNCHANGED answer => answer' = [answer EXCEPT ![p] = answer'[p]]
        /\ UNCHANGED listed => listed' = [listed EXCEPT ![p] = listed'[p]]
    BY <1>1 DEF LocalType, Goto, Reply
  <2> USE <2>1 DEF Continue, Written
  <2>2. CASE Start(p)
    BY <2>2 DEF Start
  <2>3. CASE Read(p)
    BY <1>1, <2>3 DEF Read, LocalType
  <2>4. CASE CreateRole(p)
    BY <2>4 DEF CreateRole
  <2>5. CASE UpdateRole(p)
    BY <2>5 DEF UpdateRole
  <2>6. CASE DeleteRole(p)
    BY <2>6 DEF DeleteRole
  <2>7. CASE AssignRole(p) \/ UnassignRole(p)
    BY <2>7 DEF AssignRole, UnassignRole
  <2>8. CASE EmitRoleEvent(p) \/ Fail(p) \/ Crash(p)
    BY <2>8 DEF EmitRoleEvent, Fail, Crash
  <2>9. CASE SelectAssignments(p)
    BY <1>1, <2>9 DEF SelectAssignments, LocalType
  <2>10. CASE LoadRoleNames(p)
    BY <1>1, <2>10 DEF LoadRoleNames, LocalType
  <2> QED
    BY <2>2, <2>3, <2>4, <2>5, <2>6, <2>7, <2>8, <2>9, <2>10 DEF Step
<1>4. pc'[p] \in Places /\ answer'[p] \in Answers
  BY <1>1, <1>2 DEF LocalType, OpMove, Stays, Starts, Reads, Lists, Names, Goes, Ends, Places
<1>5. copy'[p] \in RoleRecord /\ Named(copy'[p])
  <2>1. copy[p] \in RoleRecord /\ Named(copy[p])
    BY <1>1 DEF LocalType, TypeInv
  <2>2. roles[job[p].role] \in RoleRecord /\ Named(roles[job[p].role])
    BY <1>1, JobType DEF TypeInv, TableType
  <2> QED
    BY <1>2, <2>1, <2>2, NoRoleType DEF OpMove, Stays, Starts, Reads, Lists, Names, Goes, Ends
<1>6. listed'[p] \in SUBSET Listing
  <2>1. listed[p] \in SUBSET Listing /\ Row(p) \in Assignment
    BY <1>1, JobType DEF LocalType
  <2>2. {[row |-> a, name |-> {}] : a \in assignments \cap {Row(p)}} \in SUBSET Listing
    BY <2>1 DEF Listing
  <2>3. {[l EXCEPT !.name = RoleName(l.row.role)] : l \in listed[p]} \in SUBSET Listing
    <3>1. ASSUME NEW l \in listed[p] PROVE [l EXCEPT !.name = RoleName(l.row.role)] \in Listing
      <4>1. l \in Listing /\ l.row.role \in Role
        BY <2>1 DEF Listing, Assignment
      <4>2. RoleName(l.row.role) \in SUBSET Name
        BY <1>1, <4>1 DEF RoleName, TableType, RoleRecord
      <4> QED
        BY <4>1, <4>2 DEF Listing
    <3> QED
      BY <3>1
  <2> QED
    BY <1>2, <2>1, <2>2, <2>3 DEF OpMove, Stays, Starts, Reads, Lists, Names
<1> QED
  BY <1>1, <1>2, <1>3, <1>4, <1>5, <1>6 DEF LocalType

LEMMA TypeInvStep ==
    ASSUME TypeInv, NEW p \in Op, Step(p)
    PROVE  TypeInv'
<1>1. LocalType /\ TableType
  BY DEF TypeInv
<1>2. LocalType' /\ \A q \in Op : Named(copy'[q])
  BY <1>1, LocalTypeStep, OthersStay DEF TypeInv, Stays
<1>3. job[p].role \in Role
  BY <1>1, JobType
<1>4. CASE Writes(p)
  <2>1. roles' \in [Role -> RoleRecord] /\ \A r \in Role : Named(roles'[r])
    <3>1. CASE UNCHANGED roles
      BY <1>1, <3>1 DEF TypeInv, TableType
    <3>2. ASSUME NEW row \in RoleRecord, Stores(p, row), Named(row)
          PROVE  roles' \in [Role -> RoleRecord] /\ \A r \in Role : Named(roles'[r])
      <4>1. \A r \in Role : roles'[r] = IF r = job[p].role THEN row ELSE roles[r]
        BY <1>1, <3>2 DEF Stores, TableType
      <4>2. roles' \in [Role -> RoleRecord]
        BY <1>1, <3>2 DEF Stores, TableType
      <4> QED
        BY <3>2, <4>1, <4>2 DEF TypeInv
    <3> QED
      BY <1>4, <3>1, <3>2, StoredType
  <2>2. assignments' \subseteq Assignment
    BY <1>4, StoredType
  <2> QED
    BY <1>1, <1>2, <1>4, <2>1, <2>2 DEF TypeInv, TableType, Writes
<1>5. CASE Emits(p)
  BY <1>1, <1>2, <1>5, HearType DEF TypeInv, TableType, Emits, KeepTables
<1>6. CASE Start(p)
  <2>1. overlapped' \subseteq Role
    BY <1>1, <1>3, <1>6 DEF Start, TableType
  <2> QED
    BY <1>1, <1>2, <1>6, <2>1 DEF TypeInv, TableType, Start, KeepTables
<1>7. CASE Keeps(p)
  BY <1>1, <1>2, <1>7 DEF TypeInv, TableType, Keeps, KeepTables
<1> QED
  BY <1>1, <1>4, <1>5, <1>6, <1>7, TableMove

LEMMA NamedOnce ==
    ASSUME NEW row \in RoleRecord, Named(row), row.exists
    PROVE  Cardinality(row.name) = 1 /\ Cardinality(row.scope) = 1
  BY FS_Singleton DEF Named

\* Every variable of RoleRegistry keeps its shape, and a stored role its name.
THEOREM TypeCorrect == Spec => []TypeOK
<1>1. Init => TypeInv
  BY NoRoleType DEF Init, TypeInv, LocalType, TableType, Places, Answers
<1>2. TypeInv /\ [Next]_vars => TypeInv'
  <2> SUFFICES ASSUME TypeInv, [Next]_vars PROVE TypeInv'
    OBVIOUS
  <2>1. CASE UNCHANGED vars
    BY <2>1 DEF vars, TypeInv, LocalType, TableType
  <2> QED
    BY <2>1, NextIsStep, TypeInvStep
<1>3. TypeInv => TypeOK
  <2> SUFFICES ASSUME TypeInv PROVE TypeOK
    OBVIOUS
  <2>1. \A r \in Role : roles[r].exists =>
           Cardinality(roles[r].name) = 1 /\ Cardinality(roles[r].scope) = 1
    BY NamedOnce DEF TypeInv, TableType
  <2> QED
    BY <2>1 DEF TypeInv, LocalType, TableType, TypeOK, Places, Answers, Listing
<1> QED
  BY <1>1, <1>2, <1>3, PTL DEF Spec

-----------------------------------------------------------------------------
(* The inductive invariant *)

\* The place of an operation tells what it does.
PlaceFits ==
    \A p \in Op :
        /\ pc[p] = "read" => job[p].action \in {"update", "delete", "assign"}
        /\ pc[p] \in {"write", "emit"} => job[p].action # "list"
        /\ pc[p] \in {"list", "names"} => job[p].action = "list"
        /\ listed[p] # {} => job[p].action = "list"

\* A create of role r that has begun, and one whose statement is behind it.
Creator(c, r) == job[c].action = "create" /\ job[c].role = r /\ pc[c] # "idle"
Created(r) == \E c \in Op : Creator(c, r) /\ pc[c] # "write"

\* The registry makes the ids: a role is created once.
CreatedOnce ==
    \A r \in Role : \A c, d \in Op : Creator(c, r) /\ Creator(d, r) => c = d

\* A row, or a copy of one, exists because of a create and has its scope.
Original(row, r) == row.exists =>
    Created(r) /\ \A c \in Op : Creator(c, r) => row.scope = {job[c].scope}
RowsOriginal == \A r \in Role : Original(roles[r], r)
CopiesOriginal == \A p \in Op : Original(copy[p], job[p].role)

\* Who writes after a read holds a row of its own scope.
HoldsCopy ==
    \A p \in Op : pc[p] = "write" /\ job[p].action \in {"update", "delete", "assign"} =>
        copy[p].exists /\ copy[p].scope = {job[p].scope}

\* Only a stored role is a system role.
SystemExists == \A r \in Role : roles[r].system => roles[r].exists

\* An assignment has a role, of its own scope.
AssignedToRole ==
    \A a \in assignments : roles[a.role].exists /\ roles[a.role].scope = {a.scope}

\* What is listed was assigned, so its role was created; listed without a name,
\* the role is gone for good.
ListedOnce ==
    \A p \in Op : \A l \in listed[p] :
        /\ Created(l.row.role)
        /\ pc[p] = "done" /\ answer[p] = "ok" /\ l.name = {} => ~roles[l.row.role].exists

\* Changes of a role that never overlapped are in flight one at a time, and the
\* copy of the one that writes is the row.
Alone ==
    \A r \in Role \ overlapped : \A p, q \in Changing(r) :
        InFlight(p) /\ InFlight(q) => p = q
CopyFresh ==
    \A p \in Op : pc[p] = "write" /\ job[p].action \in {"update", "delete", "assign"}
                      /\ job[p].role \notin overlapped
        => copy[p] = roles[job[p].role]

SafeInv ==
    /\ TypeInv /\ PlaceFits /\ CreatedOnce /\ RowsOriginal /\ CopiesOriginal /\ HoldsCopy
    /\ SystemExists /\ AssignedToRole /\ ListedOnce /\ Alone /\ CopyFresh

\* Of one role: what the listener believes of its assignments, and the truth.
Believed(r) == {a \in mirror.assignments : a.role = r}
Held(r) == {a \in assignments : a.role = r}
Agrees(r) == (r \in mirror.roles <=> roles[r].exists) /\ Believed(r) = Held(r)

\* What is missing until p's event is heard.
AgreesAfter(p, r) ==
    /\ job[p].action = "create" => roles[r].exists /\ Believed(r) = Held(r)
    /\ job[p].action = "update" => Agrees(r)
    /\ job[p].action = "delete" => ~roles[r].exists /\ Held(r) = {}
    /\ job[p].action = "assign" =>
           (r \in mirror.roles <=> roles[r].exists) /\ Believed(r) \cup {Row(p)} = Held(r)
    /\ job[p].action = "unassign" =>
           (r \in mirror.roles <=> roles[r].exists) /\ Believed(r) \ {Row(p)} = Held(r)

\* A change that crashed, or whose outcome its caller does not know.
Lost(p) == pc[p] = "crashed" \/ (pc[p] = "done" /\ answer[p] = "error")

MirrorInv ==
    \A r \in Role \ overlapped :
        (\A p \in Changing(r) : ~Lost(p)) =>
            /\ \A p \in Changing(r) : pc[p] = "emit" => AgreesAfter(p, r)
            /\ (\A p \in Changing(r) : pc[p] # "emit") => Agrees(r)

-----------------------------------------------------------------------------
(* Each conjunct is kept by a step of an operation *)

LEMMA PlaceFitsStep ==
    ASSUME TypeInv, PlaceFits, NEW p \in Op, Step(p)
    PROVE  PlaceFits'
<1>1. LocalType
  BY DEF TypeInv
<1>2. OpMove(p) /\ UNCHANGED job /\ \A q \in Op : q # p => Stays(q)
  BY <1>1, OwnMove, OthersStay, TableMove
<1> QED
  BY <1>2 DEF PlaceFits, OpMove, Stays, Starts, Reads, Lists, Names, Goes, Ends

\* A creator stays one, and is behind its statement for good.
LEMMA CreatorStays ==
    ASSUME TypeInv, PlaceFits, NEW p \in Op, Step(p)
    PROVE  /\ \A c \in Op, r \in Role : Creator(c, r) => Creator(c, r)'
           /\ \A r \in Role : Created(r) => Created(r)'
           /\ \A c \in Op, r \in Role : Creator(c, r)' => Creator(c, r) \/ (c = p /\ Start(p))
<1>1. LocalType
  BY DEF TypeInv
<1>2. OpMove(p) /\ UNCHANGED job /\ \A q \in Op : q # p => Stays(q)
  BY <1>1, OwnMove, OthersStay, TableMove
<1>3. \A q \in Op : pc[q] # "idle" => pc'[q] # "idle"
  BY <1>2 DEF OpMove, Stays, Starts, Reads, Lists, Names, Goes, Ends
<1>4. \A q \in Op : pc[q] \notin {"idle", "write"} /\ job[q].action = "create" => pc'[q] # "write"
  BY <1>2 DEF OpMove, Stays, Starts, Reads, Lists, Names, Goes, Ends, PlaceFits
<1>5. \A q \in Op : pc[q] = "idle" /\ pc'[q] # "idle" => q = p /\ Start(p)
  <2>1. pc[p] = "idle" => Start(p)
    BY DEF Step, Read, CreateRole, UpdateRole, DeleteRole, AssignRole, UnassignRole,
           EmitRoleEvent, SelectAssignments, LoadRoleNames, Fail, Crash, InFlight
  <2> QED
    BY <1>2, <2>1 DEF Stays
<1> QED
  BY <1>2, <1>3, <1>4, <1>5 DEF Creator, Created

LEMMA CreatedOnceStep ==
    ASSUME TypeInv, PlaceFits, CreatedOnce, NEW p \in Op, Step(p)
    PROVE  CreatedOnce'
<1> SUFFICES ASSUME NEW r \in Role, NEW c \in Op, NEW d \in Op, Creator(c, r)', Creator(d, r)'
             PROVE  c = d
  BY DEF CreatedOnce
<1>1. UNCHANGED job
  BY TableMove DEF TypeInv
<1>2. ASSUME Start(p), Creator(p, r)'
      PROVE  \A q \in Op : Creator(q, r) => q = p
  BY <1>1, <1>2 DEF Start, Creator
<1> QED
  BY <1>2, CreatorStays DEF CreatedOnce

\* A statement that stores a row stores one of the creator's scope.
LEMMA RowChange ==
    ASSUME SafeInv, NEW p \in Op, Step(p), NEW r \in Role
    PROVE  \/ roles'[r] = roles[r]
           \/ Writes(p) /\ r = job[p].role /\ Creates(p)
           \/ Writes(p) /\ r = job[p].role /\ Updates(p)
           \/ Writes(p) /\ r = job[p].role /\ Deletes(p) /\ roles'[r] = NoRole
<1>1. LocalType /\ roles \in [Role -> RoleRecord]
  BY DEF SafeInv, TypeInv, TableType
<1>2. \A row : Stores(p, row) => roles'[r] = IF r = job[p].role THEN row ELSE roles[r]
  BY <1>1 DEF Stores
<1>3. UNCHANGED roles => roles'[r] = roles[r]
  OBVIOUS
<1>4. CASE Writes(p) /\ r # job[p].role
  BY <1>2, <1>3, <1>4 DEF Writes, Creates, Updates, Deletes, Assigns, Unassigns
<1>5. CASE Writes(p) /\ r = job[p].role
  BY <1>2, <1>3, <1>5 DEF Writes, Deletes, Assigns, Unassigns
<1>6. CASE Start(p) \/ Emits(p) \/ Keeps(p)
  BY <1>3, <1>6 DEF Start, Emits, Keeps, KeepTables
<1> QED
  BY <1>1, <1>4, <1>5, <1>6, TableMove

\* Two rows that are original to the same role have the same scope.
LEMMA SameScope ==
    ASSUME NEW r \in Role, NEW row, NEW other, Original(row, r), Original(other, r),
           row.exists, other.exists
    PROVE  row.scope = other.scope
  BY DEF Original, Created

\* An original row stays so: no create of its role begins any more.
LEMMA OriginalStays ==
    ASSUME TypeInv, PlaceFits, NEW p \in Op, Step(p), NEW r \in Role, NEW row,
           Original(row, r), row.exists
    PROVE  Created(r)' /\ \A c \in Op : Creator(c, r)' => row.scope = {job[c].scope}
<1>1. UNCHANGED job
  BY TableMove DEF TypeInv
<1>2. ASSUME Start(p), Creator(p, r)', pc[p] = "idle"
      PROVE  ~Created(r)
  BY <1>1, <1>2 DEF Start, Creator, Created
<1>3. Start(p) => pc[p] = "idle"
  BY DEF Start
<1>4. Created(r) => Created(r)'
  BY CreatorStays
<1>5. ASSUME NEW c \in Op, Creator(c, r)' PROVE row.scope = {job[c].scope}
  BY <1>2, <1>3, <1>5, CreatorStays DEF Original
<1> QED
  BY <1>4, <1>5 DEF Original

\* Who is past its statement has created the role.
LEMMA CreatesRow ==
    ASSUME SafeInv, NEW p \in Op, Step(p), Writes(p), Creates(p), NEW r \in Role, r = job[p].role
    PROVE  Original(roles[r], r)' /\ Created(r)' /\ ~Created(r) /\ ~roles[r].exists
<1>1. LocalType /\ TableType /\ UNCHANGED job /\ PlaceFits
  BY TableMove DEF SafeInv, TypeInv
<1>2. r = job[p].role
  OBVIOUS
<1>3. Creator(p, r) /\ Creator(p, r)' /\ pc'[p] # "write" /\ pc[p] = "write"
  BY <1>1, <1>2 DEF Writes, Creates, Creator
<1>4. roles'[r].scope = {job[p].scope}
  BY <1>1, <1>2 DEF Creates, Stores, TableType
<1>5. \A c \in Op : Creator(c, r)' => c = p
  BY <1>1, <1>3, CreatedOnceStep DEF SafeInv, CreatedOnce
<1>6. ~Created(r)
  BY <1>3 DEF Created, SafeInv, CreatedOnce
<1>7. Created(r)'
  BY <1>3 DEF Created
<1>8. Original(roles[r], r)'
  BY <1>1, <1>4, <1>5, <1>7 DEF Original
<1>9. ~roles[r].exists
  BY <1>6 DEF Original, SafeInv, RowsOriginal
<1> QED
  BY <1>2, <1>6, <1>7, <1>8, <1>9

\* An update stores its copy's scope and a role that exists.
LEMMA UpdatesRow ==
    ASSUME SafeInv, NEW p \in Op, Writes(p), Updates(p)
    PROVE  LET r == job[p].role IN
           /\ roles[r].exists /\ roles'[r].exists
           /\ roles'[r].scope = copy[p].scope /\ copy[p].exists
           /\ copy[p].system => roles'[r].system
           /\ copy[p].scope = roles[r].scope
<1>1. LocalType /\ TableType
  BY DEF SafeInv, TypeInv
<1>2. job[p].role \in Role /\ job[p].system \in BOOLEAN /\ copy[p] \in RoleRecord
  BY <1>1, JobType DEF LocalType
<1>3. pc[p] = "write" /\ job[p].action = "update" /\ roles[job[p].role].exists
  BY DEF Writes, Updates
<1>4. copy[p].exists
  BY <1>3 DEF SafeInv, HoldsCopy
<1>5. PICK mark \in SystemMark(copy[p].system, job[p].system) :
      \E stored \in {mark, mark \/ roles[job[p].role].system} :
          Stores(p, [copy[p] EXCEPT !.name = NewName(p), !.system = stored])
  BY DEF Updates
<1>6. PICK stored \in {mark, mark \/ roles[job[p].role].system} :
          Stores(p, [copy[p] EXCEPT !.name = NewName(p), !.system = stored])
  BY <1>5
<1>7. roles'[job[p].role] = [copy[p] EXCEPT !.name = NewName(p), !.system = stored]
  BY <1>1, <1>2, <1>6 DEF Stores, TableType
<1>8. /\ roles'[job[p].role].exists = copy[p].exists
      /\ roles'[job[p].role].scope = copy[p].scope
      /\ roles'[job[p].role].system = stored
  BY <1>2, <1>7 DEF RoleRecord
<1>9. copy[p].system => stored
  BY <1>2 DEF SystemMark, RoleRecord
<1>10. copy[p].scope = roles[job[p].role].scope
  BY <1>2, <1>3, <1>4, SameScope DEF SafeInv, RowsOriginal, CopiesOriginal
<1> QED
  BY <1>3, <1>4, <1>8, <1>9, <1>10

LEMMA RowsOriginalStep ==
    ASSUME SafeInv, NEW p \in Op, Step(p)
    PROVE  RowsOriginal'
<1> SUFFICES ASSUME NEW r \in Role PROVE Original(roles[r], r)'
  BY DEF RowsOriginal
<1>1. Original(roles[r], r) /\ TypeInv /\ PlaceFits /\ UNCHANGED job
  BY TableMove DEF SafeInv, RowsOriginal, TypeInv
<1>2. CASE roles'[r] = roles[r]
  BY <1>1, <1>2, OriginalStays DEF Original
<1>3. CASE Writes(p) /\ Creates(p) /\ r = job[p].role
  BY <1>3, CreatesRow
<1>4. CASE Writes(p) /\ Updates(p) /\ r = job[p].role
  <2>1. roles'[r].scope = roles[r].scope /\ roles[r].exists
    BY <1>4, UpdatesRow
  <2> QED
    BY <1>1, <2>1, OriginalStays DEF Original
<1>5. CASE roles'[r] = NoRole
  BY <1>5, NoRoleType DEF Original
<1> QED
  BY <1>2, <1>3, <1>4, <1>5, RowChange

LEMMA CopiesOriginalStep ==
    ASSUME SafeInv, NEW p \in Op, Step(p)
    PROVE  CopiesOriginal'
<1> SUFFICES ASSUME NEW q \in Op PROVE Original(copy[q], job[q].role)'
  BY DEF CopiesOriginal
<1>1. LocalType /\ TypeInv /\ PlaceFits /\ UNCHANGED job
  BY TableMove DEF SafeInv, TypeInv
<1>2. PICK r \in Role : r = job[q].role
  BY <1>1, JobType
<1>3. Original(copy[q], r) /\ Original(roles[r], r)
  BY <1>2 DEF SafeInv, CopiesOriginal, RowsOriginal
<1>4. copy'[q] \in {copy[q], roles[r], NoRole}
  <2>1. CASE q = p
    BY <1>1, <1>2, <2>1, OwnMove DEF OpMove, Stays, Starts, Reads, Lists, Names, Goes, Ends
  <2>2. CASE q # p
    BY <1>1, <2>2, OthersStay DEF Stays
  <2> QED
    BY <2>1, <2>2
<1>5. Original(NoRole, r)
  BY NoRoleType DEF Original
<1> QED
  BY <1>1, <1>2, <1>3, <1>4, <1>5, OriginalStays DEF Original

LEMMA HoldsCopyStep ==
    ASSUME SafeInv, NEW p \in Op, Step(p)
    PROVE  HoldsCopy'
<1>1. LocalType /\ UNCHANGED job
  BY TableMove DEF SafeInv, TypeInv
<1>2. OpMove(p) /\ \A q \in Op : q # p => Stays(q)
  BY <1>1, OwnMove, OthersStay
<1>3. Reads(p) => copy'[p].exists /\ copy'[p].scope = {job[p].scope}
  BY DEF Reads, Found
<1> QED
  BY <1>1, <1>2, <1>3 DEF SafeInv, HoldsCopy, OpMove, Stays, Starts, Reads, Lists, Names, Goes, Ends

LEMMA SystemExistsStep ==
    ASSUME SafeInv, NEW p \in Op, Step(p)
    PROVE  SystemExists'
<1> SUFFICES ASSUME NEW r \in Role PROVE roles'[r].system => roles'[r].exists
  BY DEF SystemExists
<1>1. CASE Writes(p) /\ Creates(p) /\ r = job[p].role
  BY <1>1, CreatesRow DEF Creates, Stores, SafeInv, TypeInv, TableType
<1>2. CASE Writes(p) /\ Updates(p) /\ r = job[p].role
  BY <1>2, UpdatesRow
<1> QED
  BY <1>1, <1>2, RowChange, NoRoleType DEF SafeInv, SystemExists

\* A deleted role never comes back.
LEMMA GoneStays ==
    ASSUME SafeInv, NEW p \in Op, Step(p), NEW r \in Role, Created(r), ~roles[r].exists
    PROVE  ~roles'[r].exists
<1>1. ~(Writes(p) /\ Creates(p) /\ r = job[p].role)
  BY CreatesRow
<1>2. ~(Writes(p) /\ Updates(p) /\ r = job[p].role)
  BY UpdatesRow
<1> QED
  BY <1>1, <1>2, RowChange, NoRoleType

\* A step keeps a role together with its scope, or takes its assignments away.
LEMMA AssignedStay ==
    ASSUME SafeInv, NEW p \in Op, Step(p), NEW a \in assignments
    PROVE  a \in assignments' => roles'[a.role].exists /\ roles'[a.role].scope = {a.scope}
<1>1. a.role \in Role /\ roles[a.role].exists /\ roles[a.role].scope = {a.scope}
  BY DEF SafeInv, TypeInv, TableType, Assignment, AssignedToRole
<1>2. ~(Writes(p) /\ Creates(p) /\ a.role = job[p].role)
  BY <1>1, CreatesRow
<1>3. CASE Writes(p) /\ Updates(p) /\ a.role = job[p].role
  BY <1>1, <1>3, UpdatesRow
<1>4. CASE Writes(p) /\ Deletes(p) /\ a.role = job[p].role
  BY <1>4 DEF Deletes, Cascade
<1> QED
  BY <1>1, <1>2, <1>3, <1>4, RowChange

LEMMA AssignmentChange ==
    ASSUME LocalType, NEW p \in Op, Step(p)
    PROVE  \/ assignments' = assignments
           \/ Writes(p) /\ (Deletes(p) \/ Assigns(p) \/ Unassigns(p))
  BY TableMove DEF Start, Writes, Creates, Updates, Emits, Keeps, KeepTables

LEMMA AssignedToRoleStep ==
    ASSUME SafeInv, NEW p \in Op, Step(p)
    PROVE  AssignedToRole'
<1>1. LocalType /\ job[p].role \in Role
  BY JobType DEF SafeInv, TypeInv
<1>2. CASE Writes(p) /\ Assigns(p)
  <2>1. roles[job[p].role].exists /\ UNCHANGED roles /\ assignments' = assignments \cup {Row(p)}
    BY <1>2 DEF Assigns, ForeignKey
  <2>2. copy[p].exists /\ copy[p].scope = {job[p].scope}
    BY <1>2 DEF SafeInv, HoldsCopy, Writes, Assigns
  <2>3. roles[job[p].role].scope = {job[p].scope}
    BY <1>1, <2>1, <2>2, SameScope DEF SafeInv, RowsOriginal, CopiesOriginal
  <2> QED
    BY <2>1, <2>3 DEF SafeInv, AssignedToRole, Row
<1>3. CASE assignments' \subseteq assignments
  BY <1>3, AssignedStay DEF AssignedToRole
<1>4. CASE Writes(p) /\ (Deletes(p) \/ Unassigns(p))
  BY <1>3, <1>4 DEF Deletes, Unassigns, Cascade
<1> QED
  BY <1>1, <1>2, <1>3, <1>4, AssignmentChange

LEMMA ListedOnceStep ==
    ASSUME SafeInv, NEW p \in Op, Step(p)
    PROVE  ListedOnce'
<1> SUFFICES ASSUME NEW q \in Op, NEW l \in listed'[q]
             PROVE  /\ Created(l.row.role)'
                    /\ pc'[q] = "done" /\ answer'[q] = "ok" /\ l.name = {} => ~roles'[l.row.role].exists
  BY DEF ListedOnce
<1>1. LocalType /\ TableType /\ TypeInv /\ PlaceFits /\ UNCHANGED job
  BY TableMove DEF SafeInv, TypeInv
<1>2. LocalType'
  BY <1>1, LocalTypeStep
<1>3. l \in Listing /\ l.row.role \in Role
  BY <1>2 DEF LocalType, Listing, Assignment
<1>4. Created(l.row.role) => Created(l.row.role)'
  BY <1>1, <1>3, CreatorStays
<1>5. CASE listed'[q] = listed[q] /\ ~(q = p /\ (Lists(p) \/ Names(p)))
  <2>1. Created(l.row.role)
    BY <1>5 DEF SafeInv, ListedOnce
  <2>2. CASE UNCHANGED <<pc[q], answer[q]>>
    BY <1>3, <1>4, <1>5, <2>1, <2>2, GoneStays DEF SafeInv, ListedOnce
  <2>3. CASE q = p /\ ~UNCHANGED <<pc[q], answer[q]>>
    <3>1. job[q].action = "list"
      BY <1>1, <1>5 DEF PlaceFits
    <3>2. pc'[q] = "done" => answer'[q] = "error"
      BY <1>1, <1>5, <2>3, <3>1, OwnMove DEF PlaceFits, OpMove, Stays, Starts, Reads, Lists, Names, Goes, Ends,
         InFlight, LocalType, Places
    <3> QED
      BY <1>4, <2>1, <3>2
  <2>4. CASE q # p
    BY <1>1, <2>2, <2>4, OthersStay DEF Stays
  <2> QED
    BY <2>2, <2>3, <2>4
<1>6. CASE q = p /\ Lists(p)
  <2>1. PICK a \in assignments : l = [row |-> a, name |-> {}]
    BY <1>6 DEF Lists
  <2>2. roles[a.role].exists
    BY <2>1 DEF SafeInv, AssignedToRole
  <2>3. Created(l.row.role)
    BY <1>3, <2>1, <2>2 DEF SafeInv, RowsOriginal, Original
  <2>4. pc'[q] # "done"
    BY <1>6 DEF Lists, Goes
  <2> QED
    BY <1>4, <2>3, <2>4
<1>7. CASE q = p /\ Names(p)
  <2>1. PICK k \in listed[p] : l = [k EXCEPT !.name = RoleName(k.row.role)]
    BY <1>7 DEF Names
  <2>2. k \in Listing
    BY <1>1, <2>1 DEF LocalType
  <2>3. l.row = k.row /\ l.name = RoleName(k.row.role)
    BY <2>1, <2>2 DEF Listing
  <2>4. Created(l.row.role)
    BY <2>1, <2>3 DEF SafeInv, ListedOnce
  <2>5. l.name = {} => ~roles[l.row.role].exists
    BY <1>1, <1>3, <2>3 DEF RoleName, TypeInv, Named
  <2> QED
    BY <1>3, <1>4, <2>4, <2>5, GoneStays
<1>8. q # p => listed'[q] = listed[q]
  BY <1>1, OthersStay DEF Stays
<1>9. q = p => listed'[q] = listed[q] \/ Lists(p) \/ Names(p)
  BY <1>1, OwnMove DEF OpMove, Stays, Starts, Reads, Goes
<1> QED
  BY <1>5, <1>6, <1>7, <1>8, <1>9

LEMMA OverlapGrows ==
    ASSUME LocalType, NEW p \in Op, Step(p)
    PROVE  overlapped \subseteq overlapped'
  BY TableMove DEF Start, Writes, Emits, Keeps

\* A change that begins finds no other in flight, or the role overlaps from now on.
LEMMA AloneStep ==
    ASSUME SafeInv, NEW p \in Op, Step(p)
    PROVE  Alone'
<1>1. LocalType /\ UNCHANGED job
  BY TableMove DEF SafeInv, TypeInv
<1>2. OpMove(p) /\ \A q \in Op : q # p => Stays(q)
  BY <1>1, OwnMove, OthersStay
<1>3. \A r : Changing(r)' = Changing(r)
  BY <1>1 DEF Changing
<1>4. ASSUME NEW q \in Op, InFlight(q)' PROVE InFlight(q) \/ (q = p /\ Start(p))
  <2>1. pc[p] = "idle" => Start(p)
    BY DEF Step, Read, CreateRole, UpdateRole, DeleteRole, AssignRole, UnassignRole,
           EmitRoleEvent, SelectAssignments, LoadRoleNames, Fail, Crash, InFlight
  <2> QED
    BY <1>2, <1>4, <2>1 DEF InFlight, OpMove, Stays, Starts, Reads, Lists, Names, Goes, Ends
<1>5. ASSUME NEW r \in Role \ overlapped', NEW q \in Changing(r), InFlight(q), q # p,
             p \in Changing(r), Start(p)
      PROVE  FALSE
  <2>1. r = job[p].role /\ q \in Op
    BY <1>5 DEF Changing
  <2>2. r \in overlapped'
    BY <1>5, <2>1 DEF Start
  <2> QED
    BY <1>5, <2>2
<1>6. ASSUME NEW r \in Role \ overlapped', NEW q \in Changing(r), NEW s \in Changing(r),
             InFlight(q)', InFlight(s)', q # s
      PROVE  FALSE
  <2>1. r \notin overlapped /\ q \in Op /\ s \in Op
    BY <1>1, <1>6, OverlapGrows DEF Changing
  <2>2. CASE InFlight(q) /\ InFlight(s)
    BY <1>6, <2>1, <2>2 DEF SafeInv, Alone
  <2>3. CASE ~InFlight(q)
    BY <1>4, <1>5, <1>6, <2>1, <2>3
  <2>4. CASE ~InFlight(s)
    BY <1>4, <1>5, <1>6, <2>1, <2>4
  <2> QED
    BY <2>2, <2>3, <2>4
<1> QED
  BY <1>3, <1>6 DEF Alone

\* Only an operation that writes changes its own role's row: the copy of another
\* one that is about to write stays the row, or they overlapped.
LEMMA CopyFreshStep ==
    ASSUME SafeInv, NEW p \in Op, Step(p)
    PROVE  CopyFresh'
<1> SUFFICES ASSUME NEW q \in Op, pc'[q] = "write", job'[q].action \in {"update", "delete", "assign"},
                    job'[q].role \notin overlapped'
             PROVE  copy'[q] = roles'[job'[q].role]
  BY DEF CopyFresh
<1>1. LocalType /\ TypeInv /\ UNCHANGED job /\ overlapped \subseteq overlapped'
  BY TableMove, OverlapGrows DEF SafeInv, TypeInv
<1>2. PICK r \in Role : r = job[q].role
  BY <1>1, JobType
<1>3. OpMove(p) /\ (q # p => Stays(q))
  BY <1>1, OwnMove, OthersStay
<1>4. CASE q = p
  <2>1. Reads(p) \/ Stays(p)
    BY <1>1, <1>3, <1>4 DEF OpMove, Starts, Lists, Names, Goes, Ends
  <2>2. ~Writes(p)
    BY <1>4, <2>1 DEF Writes, Reads, Stays
  <2>3. roles'[r] = roles[r]
    BY <1>1, <2>2, TableMove DEF Start, Emits, Keeps, KeepTables
  <2> QED
    BY <1>1, <1>2, <1>4, <2>1, <2>3 DEF Reads, Stays, SafeInv, CopyFresh
<1>5. CASE q # p
  <2>1. pc[q] = "write" /\ copy'[q] = copy[q]
    BY <1>3, <1>5 DEF Stays
  <2>2. copy[q] = roles[r]
    BY <1>1, <1>2, <2>1 DEF SafeInv, CopyFresh
  <2>3. ASSUME Writes(p), r = job[p].role PROVE FALSE
    <3>1. {p, q} \subseteq Changing(r) /\ InFlight(p) /\ InFlight(q)
      BY <1>1, <1>2, <2>1, <2>3 DEF Changing, InFlight, Writes, SafeInv, PlaceFits
    <3> QED
      BY <1>1, <1>2, <1>5, <3>1 DEF SafeInv, Alone
  <2>4. roles'[r] = roles[r]
    BY <2>3, RowChange
  <2> QED
    BY <1>1, <1>2, <2>1, <2>2, <2>4
<1> QED
  BY <1>4, <1>5

LEMMA SafeInvInit == Init => SafeInv
<1> SUFFICES ASSUME Init PROVE SafeInv
  OBVIOUS
<1>1. TypeInv
  BY NoRoleType DEF Init, TypeInv, LocalType, TableType, Places, Answers
<1>2. /\ \A r \in Role : roles[r] = NoRole
      /\ \A p \in Op : pc[p] = "idle" /\ copy[p] = NoRole /\ listed[p] = {}
      /\ assignments = {}
  BY DEF Init
<1>3. PlaceFits /\ CreatedOnce /\ HoldsCopy /\ CopyFresh
  BY <1>2 DEF PlaceFits, CreatedOnce, Creator, HoldsCopy, CopyFresh
<1>4. RowsOriginal /\ CopiesOriginal /\ SystemExists
  BY <1>2, NoRoleType DEF RowsOriginal, CopiesOriginal, Original, SystemExists
<1>5. AssignedToRole /\ ListedOnce /\ Alone
  BY <1>2 DEF AssignedToRole, ListedOnce, Alone, Changing, InFlight
<1> QED
  BY <1>1, <1>3, <1>4, <1>5 DEF SafeInv

LEMMA SafeInvStep == SafeInv /\ [Next]_vars => SafeInv'
<1> SUFFICES ASSUME SafeInv, [Next]_vars PROVE SafeInv'
  OBVIOUS
<1>1. CASE UNCHANGED vars
  BY <1>1 DEF vars, SafeInv, TypeInv, LocalType, TableType, PlaceFits, CreatedOnce, Creator,
     RowsOriginal, CopiesOriginal, Original, Created, HoldsCopy, SystemExists, AssignedToRole,
     ListedOnce, Alone, CopyFresh, InFlight, Changing
<1>2. ASSUME NEW p \in Op, Step(p) PROVE SafeInv'
  <2>1. TypeInv /\ PlaceFits /\ CreatedOnce
    BY DEF SafeInv
  <2>2. TypeInv' /\ PlaceFits' /\ CreatedOnce'
    BY <1>2, <2>1, TypeInvStep, PlaceFitsStep, CreatedOnceStep
  <2> QED
    BY <1>2, <2>2, RowsOriginalStep, CopiesOriginalStep, HoldsCopyStep, SystemExistsStep,
       AssignedToRoleStep, ListedOnceStep, AloneStep, CopyFreshStep DEF SafeInv
<1> QED
  BY <1>1, <1>2, NextIsStep

LEMMA Safe == Spec => []SafeInv
  BY SafeInvInit, SafeInvStep, PTL DEF Spec

\* Assignments name a role of their own scope, whatever is deleted meanwhile, and
\* a listing leaves the name out only of an assignment that is gone.
THEOREM AssignmentsHaveRolesHolds == Spec => []AssignmentsHaveRoles
<1>1. SafeInv => AssignmentsHaveRoles
  BY DEF SafeInv, AssignedToRole, ListedOnce, AssignmentsHaveRoles
<1> QED
  BY <1>1, Safe, PTL

\* A system role that never met overlapping changes stays and stays marked.
THEOREM SystemRolesStayHolds == Spec => SystemRolesStay
<1>1. ASSUME SafeInv, NEW p \in Op, Step(p), NEW r \in Role \ overlapped, roles[r].system
      PROVE  roles'[r].exists /\ roles'[r].system
  <2>1. roles[r].exists
    BY <1>1 DEF SafeInv, SystemExists
  <2>2. ~(Writes(p) /\ Creates(p) /\ r = job[p].role)
    BY <1>1, <2>1, CreatesRow
  <2>3. Writes(p) /\ r = job[p].role /\ (Updates(p) \/ Deletes(p)) => copy[p] = roles[r]
    BY <1>1 DEF Writes, Updates, Deletes, SafeInv, CopyFresh
  <2>4. CASE Writes(p) /\ Updates(p) /\ r = job[p].role
    BY <1>1, <2>3, <2>4, UpdatesRow
  <2>5. ~(Writes(p) /\ Deletes(p) /\ r = job[p].role)
    BY <1>1, <2>3 DEF Deletes
  <2> QED
    BY <1>1, <2>1, <2>2, <2>4, <2>5, RowChange
<1>2. SafeInv /\ [Next]_vars =>
          [\A r \in Role \ overlapped :
               roles[r].system => roles'[r].exists /\ roles'[r].system]_vars
  BY <1>1, NextIsStep
<1> QED
  BY <1>2, Safe, PTL DEF Spec, SystemRolesStay

-----------------------------------------------------------------------------
(* The mirror of a listener *)

\* A statement on a role that nobody else changes leaves exactly its event to hear.
LEMMA WritesOwe ==
    ASSUME SafeInv, NEW p \in Op, Step(p), Writes(p), NEW r \in Role, r = job[p].role, Agrees(r)
    PROVE  AgreesAfter(p, r)'
<1>1. LocalType /\ TableType /\ UNCHANGED <<job, mirror>>
  BY TableMove DEF SafeInv, TypeInv, Writes
<1>2. Row(p)' = Row(p) /\ Believed(r)' = Believed(r) /\ Row(p).role = r
  BY <1>1, JobType DEF Row, Believed
<1>3. CASE Creates(p)
  <2>1. roles'[r].exists /\ Held(r)' = Held(r) /\ job'[p].action = "create"
    BY <1>1, <1>3 DEF Creates, Stores, TableType, Held
  <2> QED
    BY <1>2, <2>1 DEF AgreesAfter, Agrees
<1>4. CASE Updates(p)
  <2>1. roles[r].exists /\ roles'[r].exists
    BY <1>4, UpdatesRow
  <2>2. Held(r)' = Held(r) /\ job'[p].action = "update"
    BY <1>1, <1>4 DEF Updates, Held
  <2> QED
    BY <1>1, <1>2, <2>1, <2>2 DEF AgreesAfter, Agrees
<1>5. CASE Deletes(p)
  <2>1. ~roles'[r].exists /\ Held(r)' = {} /\ job'[p].action = "delete"
    BY <1>1, <1>5, NoRoleType DEF Deletes, Stores, TableType, Held, Cascade
  <2> QED
    BY <2>1 DEF AgreesAfter
<1>6. CASE Assigns(p)
  <2>1. UNCHANGED roles /\ Held(r)' = Held(r) \cup {Row(p)} /\ job'[p].action = "assign"
    BY <1>1, <1>2, <1>6 DEF Assigns, Held
  <2> QED
    BY <1>1, <1>2, <2>1 DEF AgreesAfter, Agrees
<1>7. CASE Unassigns(p)
  <2>1. UNCHANGED roles /\ Held(r)' = Held(r) \ {Row(p)} /\ job'[p].action = "unassign"
    BY <1>1, <1>2, <1>7 DEF Unassigns, Held
  <2> QED
    BY <1>1, <1>2, <2>1 DEF AgreesAfter, Agrees
<1> QED
  BY <1>3, <1>4, <1>5, <1>6, <1>7 DEF Writes

\* Hearing the event settles what was owed.
LEMMA EmitsSettle ==
    ASSUME SafeInv, NEW p \in Op, Step(p), Emits(p), NEW r \in Role, r = job[p].role, AgreesAfter(p, r)
    PROVE  Agrees(r)'
<1>1. LocalType /\ TableType /\ UNCHANGED <<job, roles, assignments>> /\ mirror' = Hear(p)
  BY TableMove DEF SafeInv, TypeInv, Emits, KeepTables
<1>2. Held(r)' = Held(r) /\ Row(p).role = r
  BY <1>1, JobType DEF Held
<1>3. mirror \in [roles : SUBSET Role, assignments : SUBSET Assignment]
  BY <1>1 DEF TableType
<1>4. job[p].action \in {"create", "update", "delete", "assign", "unassign"}
  BY <1>1, JobType DEF Actions, Emits, SafeInv, PlaceFits
<1> USE <1>1, <1>2, <1>3 DEF Hear, Believed, Agrees, AgreesAfter
<1>5. CASE job[p].action = "create"
  <2>1. mirror'.roles = mirror.roles \cup {r} /\ mirror'.assignments = mirror.assignments
    BY <1>5
  <2> QED
    BY <1>5, <2>1
<1>6. CASE job[p].action = "update"
  BY <1>6
<1>7. CASE job[p].action = "delete"
  <2>1. mirror'.roles = mirror.roles \ {r}
        /\ mirror'.assignments = {a \in mirror.assignments : a.role # r}
    BY <1>7
  <2> QED
    BY <1>7, <2>1
<1>8. CASE job[p].action = "assign"
  <2>1. mirror'.roles = mirror.roles /\ mirror'.assignments = mirror.assignments \cup {Row(p)}
    BY <1>8
  <2> QED
    BY <1>8, <2>1
<1>9. CASE job[p].action = "unassign"
  <2>1. mirror'.roles = mirror.roles /\ mirror'.assignments = mirror.assignments \ {Row(p)}
    BY <1>9
  <2> QED
    BY <1>9, <2>1
<1> QED
  BY <1>4, <1>5, <1>6, <1>7, <1>8, <1>9

\* Operations on other roles, and listings, do not touch the role or what is believed of it.
LEMMA OthersKeepMirror ==
    ASSUME SafeInv, NEW p \in Op, Step(p), NEW r \in Role, p \notin Changing(r)
    PROVE  /\ roles'[r].exists = roles[r].exists /\ Held(r)' = Held(r)
           /\ Believed(r)' = Believed(r) /\ (r \in mirror'.roles <=> r \in mirror.roles)
<1>1. LocalType /\ TableType
  BY DEF SafeInv, TypeInv
<1>2. CASE Writes(p)
  <2>1. job[p].role # r
    BY <1>2 DEF Changing, Writes, SafeInv, PlaceFits
  <2>2. roles'[r] = roles[r] /\ UNCHANGED mirror
    BY <1>2, <2>1, RowChange DEF Writes
  <2>3. Row(p).role = job[p].role
    BY <1>1, JobType
  <2>4. Held(r)' = Held(r)
    BY <1>2, <2>1, <2>3 DEF Writes, Creates, Updates, Deletes, Assigns, Unassigns, Held, Cascade
  <2> QED
    BY <2>2, <2>4 DEF Believed
<1>3. CASE Emits(p)
  <2>1. job[p].role # r
    BY <1>3 DEF Changing, Emits, SafeInv, PlaceFits
  <2>2. UNCHANGED <<roles, assignments>> /\ mirror' = Hear(p) /\ Row(p).role = job[p].role
    BY <1>1, <1>3, JobType DEF Emits, KeepTables
  <2>3. mirror \in [roles : SUBSET Role, assignments : SUBSET Assignment]
    BY <1>1 DEF TableType
  <2>4. (r \in mirror'.roles <=> r \in mirror.roles)
    BY <2>1, <2>2, <2>3 DEF Hear
  <2>5. Believed(r)' = Believed(r)
    BY <2>1, <2>2, <2>3 DEF Hear, Believed
  <2> QED
    BY <2>2, <2>4, <2>5 DEF Held
<1>4. CASE Start(p) \/ Keeps(p)
  BY <1>4 DEF Start, Keeps, KeepTables, Held, Believed
<1> QED
  BY <1>1, <1>2, <1>3, <1>4, TableMove

LEMMA LostStays ==
    ASSUME LocalType, NEW p \in Op, Step(p), NEW q \in Op, Lost(q)
    PROVE  Lost(q)'
<1>1. CASE q = p
  BY <1>1, OwnMove DEF OpMove, Stays, Starts, Reads, Lists, Names, Goes, Ends, InFlight, Lost
<1>2. CASE q # p
  BY <1>2, OthersStay DEF Stays, Lost
<1> QED
  BY <1>1, <1>2

LEMMA MirrorInvStep ==
    ASSUME SafeInv, MirrorInv, NEW p \in Op, Step(p)
    PROVE  MirrorInv'
<1>1. LocalType /\ UNCHANGED job /\ overlapped \subseteq overlapped'
  BY TableMove, OverlapGrows DEF SafeInv, TypeInv
<1> SUFFICES ASSUME NEW r \in Role \ overlapped', \A q \in Changing(r) : ~Lost(q)'
             PROVE  /\ \A q \in Changing(r) : pc'[q] = "emit" => AgreesAfter(q, r)'
                    /\ (\A q \in Changing(r) : pc'[q] # "emit") => Agrees(r)'
  BY <1>1 DEF MirrorInv, Changing
<1>2. r \in Role \ overlapped /\ Changing(r) \subseteq Op
  BY <1>1 DEF Changing
<1>3. /\ \A q \in Changing(r) : pc[q] = "emit" => AgreesAfter(q, r)
      /\ (\A q \in Changing(r) : pc[q] # "emit") => Agrees(r)
  BY <1>1, <1>2, LostStays DEF MirrorInv
<1>4. \A q \in Changing(r) : q # p => pc'[q] = pc[q]
  BY <1>1, <1>2, OthersStay DEF Stays
<1>5. \A q \in Op : Row(q)' = Row(q)
  BY <1>1 DEF Row
<1>6. CASE /\ roles'[r].exists = roles[r].exists /\ Held(r)' = Held(r)
           /\ Believed(r)' = Believed(r) /\ (r \in mirror'.roles <=> r \in mirror.roles)
           /\ \A q \in Changing(r) : pc'[q] = "emit" <=> pc[q] = "emit"
  BY <1>1, <1>2, <1>3, <1>5, <1>6 DEF AgreesAfter, Agrees
<1>7. CASE p \notin Changing(r)
  BY <1>2, <1>4, <1>6, <1>7, OthersKeepMirror
<1>8. CASE p \in Changing(r) /\ (Start(p) \/ (Keeps(p) /\ (pc[p] = "emit" => pc'[p] = "crashed")))
  <2>1. UNCHANGED <<roles, assignments, mirror>>
    BY <1>8 DEF Start, Keeps, KeepTables
  <2>2. pc'[p] = "emit" <=> pc[p] = "emit"
    <3>1. CASE Start(p)
      BY <1>1, <3>1, OwnMove DEF Start, OpMove, Stays, Starts, Reads, Lists, Names, Goes, Ends, InFlight
    <3>2. CASE Keeps(p) /\ (pc[p] = "emit" => pc'[p] = "crashed")
      BY <1>1, <1>8, <3>2 DEF Keeps, Lost
    <3> QED
      BY <1>8, <3>1, <3>2
  <2> QED
    BY <1>4, <1>6, <2>1, <2>2 DEF Held, Believed
<1>9. ASSUME p \in Changing(r), InFlight(p)
      PROVE  r = job[p].role /\ \A q \in Changing(r) : q # p => pc[q] # "emit"
  BY <1>2, <1>9 DEF SafeInv, Alone, InFlight, Changing
<1>10. CASE p \in Changing(r) /\ Emits(p)
  <2>1. InFlight(p) /\ pc[p] = "emit" /\ pc'[p] = "done"
    BY <1>10 DEF Emits, InFlight
  <2>2. Agrees(r)'
    BY <1>2, <1>3, <1>9, <1>10, <2>1, EmitsSettle
  <2> QED
    BY <1>4, <1>9, <1>10, <2>1, <2>2
<1>11. CASE p \in Changing(r) /\ Writes(p)
  <2>1. InFlight(p) /\ pc[p] = "write" /\ pc'[p] = "emit"
    BY <1>11 DEF Writes, InFlight, Lost
  <2>2. Agrees(r)
    BY <1>3, <1>9, <1>11, <2>1
  <2>3. AgreesAfter(p, r)'
    BY <1>2, <1>9, <1>11, <2>1, <2>2, WritesOwe
  <2> QED
    BY <1>4, <1>9, <1>11, <2>1, <2>3
<1> QED
  BY <1>1, <1>7, <1>8, <1>10, <1>11, TableMove

\* A listener that applied the role events agrees with the registry on every role
\* whose changes ran one after the other and ended well.
THEOREM MirrorAgreesHolds == Spec => []MirrorAgrees
<1>1. Init => MirrorInv
  BY NoRoleType DEF Init, MirrorInv, Agrees, AgreesAfter, Believed, Held, Changing
<1>2. SafeInv /\ MirrorInv /\ [Next]_vars => MirrorInv'
  <2> SUFFICES ASSUME SafeInv, MirrorInv, [Next]_vars PROVE MirrorInv'
    OBVIOUS
  <2>1. CASE UNCHANGED vars
    BY <2>1 DEF vars, MirrorInv, Agrees, AgreesAfter, Believed, Held, Changing, Lost, Row
  <2> QED
    BY <2>1, MirrorInvStep, NextIsStep
<1>3. MirrorInv => MirrorAgrees
  BY DEF MirrorInv, MirrorAgrees, Agrees, Believed, Held, Lost, Changing
<1> QED
  BY <1>1, <1>2, <1>3, Safe, PTL DEF Spec

-----------------------------------------------------------------------------
(* The promise: RoleRegistry implements NamedRoles *)

LifeMap == [r \in Role |-> LifeOf(r)]
EntryMap == [r \in Role |-> EntryOf(roles[r])]
StageMap == [p \in Op |-> StageOf(p)]
AskMap == [p \in Op |-> AskOf(p)]

LEMMA PromiseVars ==
    /\ Promise!vars = <<LifeMap, EntryMap, assignments, StageMap, AskMap>>
    /\ Promise!vars' = <<LifeMap', EntryMap', assignments', StageMap', AskMap'>>
  BY DEF Promise!vars, LifeMap, EntryMap, StageMap, AskMap

\* An id was used if its create is behind its statement.
LEMMA UsedIs == \A r \in Role : (Used(r) <=> Created(r)) /\ (Used(r)' <=> Created(r)')
  BY DEF Used, Created, Creator

\* Where the operation that takes the step goes, and that nobody else moves.
LEMMA StageGoes ==
    ASSUME TypeInv, NEW p \in Op, Step(p)
    PROVE  /\ StageMap' = [StageMap EXCEPT ![p] = StageOf(p)']
           /\ AskMap' = AskMap
           /\ pc'[p] \in {"read", "write", "list", "names"} => StageOf(p)' = "in"
           /\ pc'[p] = "emit" => StageOf(p)' = "did"
           /\ pc'[p] = "crashed" => StageOf(p)' = "no"
           /\ pc'[p] = "done" /\ answer'[p] = "ok" => StageOf(p)' = "yes"
           /\ pc'[p] = "done" /\ answer'[p] # "ok" => StageOf(p)' = "no"
<1>1. UNCHANGED job
  BY TableMove DEF TypeInv
<1>2. ASSUME NEW q \in Op, q # p PROVE StageOf(q)' = StageOf(q)
  <2>1. Stays(q)
    BY <1>2, OthersStay DEF TypeInv
  <2> QED
    BY <2>1 DEF Stays, StageOf
<1>3. StageMap' = [StageMap EXCEPT ![p] = StageOf(p)']
  BY <1>2 DEF StageMap
<1>4. AskMap' = AskMap
  BY <1>1 DEF AskMap, AskOf
<1>5. /\ pc'[p] \in {"read", "write", "list", "names"} => StageOf(p)' = "in"
      /\ pc'[p] = "emit" => StageOf(p)' = "did"
      /\ pc'[p] = "crashed" => StageOf(p)' = "no"
      /\ pc'[p] = "done" /\ answer'[p] = "ok" => StageOf(p)' = "yes"
      /\ pc'[p] = "done" /\ answer'[p] # "ok" => StageOf(p)' = "no"
  BY DEF StageOf
<1> QED
  BY <1>3, <1>4, <1>5

LEMMA StageIs ==
    ASSUME NEW p \in Op
    PROVE  /\ pc[p] = "idle" => StageOf(p) = "out"
           /\ pc[p] \in {"read", "write", "list", "names"} => StageOf(p) = "in"
           /\ pc[p] = "emit" => StageOf(p) = "did"
  BY DEF StageOf

\* Whether an id was used changes only when its own create leaves its statement.
LEMMA UsedStays ==
    ASSUME TypeInv, PlaceFits, NEW p \in Op, Step(p), NEW r \in Role,
           \/ r # job[p].role \/ job[p].action # "create"
           \/ pc[p] # "write" \/ pc'[p] = "write"
    PROVE  Created(r)' <=> Created(r)
<1>1. OpMove(p) /\ UNCHANGED job /\ \A q \in Op : q # p => Stays(q)
  BY OwnMove, OthersStay, TableMove DEF TypeInv
<1>2. Created(r) => Created(r)'
  BY CreatorStays
<1>3. ASSUME NEW c \in Op, Creator(c, r)', pc'[c] # "write" PROVE Created(r)
  <2>1. CASE c # p
    BY <1>1, <1>3, <2>1 DEF Creator, Created, Stays
  <2>2. CASE c = p
    <3>1. job[p].action = "create" /\ job[p].role = r
      BY <1>1, <1>3, <2>2 DEF Creator
    <3>2. pc[p] # "write"
      BY <1>3, <2>2, <3>1
    <3>3. pc[p] # "idle"
      <4>1. pc'[p] # "idle" /\ pc'[p] # "write"
        BY <1>3, <2>2 DEF Creator
      <4> QED
        BY <1>1, <3>1, <4>1 DEF OpMove, Stays, Starts, Reads, Lists, Names, Goes, Ends, InFlight
    <3> QED
      BY <3>1, <3>2, <3>3 DEF Creator, Created
  <2> QED
    BY <2>1, <2>2
<1> QED
  BY <1>2, <1>3 DEF Created

\* A role keeps its life and its entry with its row, while no id is used.
LEMMA EntryStays ==
    ASSUME NEW r \in Role, roles'[r] = roles[r], Created(r)' <=> Created(r)
    PROVE  LifeMap'[r] = LifeMap[r] /\ EntryMap'[r] = EntryMap[r]
  BY UsedIs DEF LifeMap, EntryMap, LifeOf

\* What a row is on the other side.
LEMMA EntryIs ==
    ASSUME NEW r \in Role
    PROVE  /\ LifeMap[r] = "live" <=> roles[r].exists
           /\ LifeMap[r] = "fresh" <=> ~roles[r].exists /\ ~Created(r)
           /\ roles[r].exists =>
                 EntryMap[r] = [scope |-> roles[r].scope, name |-> roles[r].name]
           /\ ~roles[r].exists => EntryMap[r] = Promise!Nothing
  BY UsedIs DEF LifeMap, EntryMap, LifeOf, EntryOf, Promise!Nothing

LEMMA EntryIsNext ==
    ASSUME NEW r \in Role
    PROVE  /\ roles'[r].exists =>
                 /\ LifeMap'[r] = "live"
                 /\ EntryMap'[r] = [scope |-> roles'[r].scope, name |-> roles'[r].name]
           /\ ~roles'[r].exists =>
                 /\ EntryMap'[r] = Promise!Nothing
                 /\ LifeMap'[r] = IF Created(r)' THEN "gone" ELSE "fresh"
  BY UsedIs DEF LifeMap, EntryMap, LifeOf, EntryOf, Promise!Nothing

\* A name that is free in the table is free in the register.
LEMMA NameFreeMaps ==
    ASSUME TypeInv, NEW r \in Role, NEW scope, NEW name, scope # {}, NameFree(r, scope, name)
    PROVE  Promise!Free(r, scope, name)
<1> SUFFICES ASSUME NEW s \in Role \ {r}
             PROVE  EntryMap[s] # [scope |-> scope, name |-> name]
  BY DEF Promise!Free, EntryMap
<1>0. s \in Role
  OBVIOUS
<1> DEFINE asked == [scope |-> scope, name |-> name]
<1>1. asked.scope = scope /\ asked.name = name
  OBVIOUS
<1>2. CASE roles[s].exists
  <2>1. EntryMap[s].scope = roles[s].scope /\ EntryMap[s].name = roles[s].name
    <3>1. EntryMap[s] = [scope |-> roles[s].scope, name |-> roles[s].name]
      BY <1>0, <1>2, EntryIs
    <3> QED
      BY <3>1
  <2>2. ~(roles[s].scope = scope /\ roles[s].name = name)
    BY <1>2 DEF NameFree
  <2> QED
    BY <1>1, <2>1, <2>2
<1>3. CASE ~roles[s].exists
  <2>1. EntryMap[s].scope = {}
    <3>1. EntryMap[s] = Promise!Nothing
      BY <1>0, <1>3, EntryIs
    <3> QED
      BY <3>1 DEF Promise!Nothing
  <2> QED
    BY <1>1, <2>1
<1> QED
  BY <1>2, <1>3

LEMMA AskIs ==
    ASSUME NEW p \in Op
    PROVE  /\ AskMap[p].action = job[p].action /\ AskMap[p].role = job[p].role
           /\ AskMap[p].scope = job[p].scope /\ AskMap[p].name = job[p].name
           /\ Promise!Holding(p) = Row(p)
  BY DEF AskMap, AskOf, Promise!Holding, Row

\* A step that leaves the tables as they are, and uses no id.
LEMMA TellsMap ==
    ASSUME SafeInv, NEW p \in Op, Step(p), KeepTables,
           \A r \in Role : Created(r)' <=> Created(r),
           LET to == StageOf(p)' IN
             \/ StageOf(p) = to
             \/ StageOf(p) = "out" /\ to = "in"
             \/ StageOf(p) = "did" /\ to = "yes"
             \/ StageOf(p) \in {"in", "did"} /\ to = "no"
             \/ StageOf(p) = "in" /\ to = "yes" /\
                    (job[p].action = "list" \/ (job[p].action = "assign" /\ Row(p) \in assignments))
    PROVE  [Promise!Next]_(Promise!vars)
<1>1. \A r \in Role : LifeMap'[r] = LifeMap[r] /\ EntryMap'[r] = EntryMap[r]
  BY EntryStays DEF KeepTables
<1>2. LifeMap' = LifeMap /\ EntryMap' = EntryMap /\ UNCHANGED assignments
  BY <1>1 DEF LifeMap, EntryMap, KeepTables
<1>3. StageMap' = [StageMap EXCEPT ![p] = StageOf(p)'] /\ AskMap' = AskMap
  BY StageGoes DEF SafeInv
<1>4. StageMap[p] = StageOf(p)
  BY DEF StageMap
<1>5. CASE StageOf(p) = StageOf(p)'
  <2>1. StageMap' = StageMap
    BY <1>3, <1>5 DEF StageMap
  <2> QED
    BY <1>2, <1>3, <2>1, PromiseVars
<1>6. CASE StageOf(p) = "out" /\ StageOf(p)' = "in"
  <2>1. Promise!Call(p)
    BY <1>2, <1>3, <1>4, <1>6 DEF Promise!Call, Promise!Goes, LifeMap, EntryMap, StageMap, AskMap
  <2> QED
    BY <2>1 DEF Promise!Next
<1>7. CASE \/ StageOf(p) = "did" /\ StageOf(p)' = "yes"
           \/ StageOf(p) \in {"in", "did"} /\ StageOf(p)' = "no"
           \/ StageOf(p) = "in" /\ StageOf(p)' = "yes" /\
                    (job[p].action = "list" \/ (job[p].action = "assign" /\ Row(p) \in assignments))
  <2>1. Promise!Tell(p)
    BY <1>2, <1>3, <1>4, <1>7, AskIs
    DEF Promise!Tell, Promise!Goes, LifeMap, EntryMap, StageMap, AskMap
  <2> QED
    BY <2>1 DEF Promise!Next
<1> QED
  BY <1>5, <1>6, <1>7

\* A statement that took effect, answered or not.
LEMMA TookIs ==
    ASSUME SafeInv, NEW p \in Op, Step(p), pc[p] = "write", Written(p, "emit")
    PROVE  Promise!Took(p) /\ pc'[p] # "write" /\ AskMap' = AskMap
<1>1. LocalType /\ {"emit", "error"} \subseteq Places \cup Answers /\ "emit" \in Places
      /\ "error" \in Answers
  BY DEF SafeInv, TypeInv, Places, Answers
<1>2. pc'[p] = "emit" \/ (pc'[p] = "done" /\ answer'[p] = "error")
  BY <1>1, Moves DEF Written
<1>3. StageOf(p)' \in {"did", "no"} /\ StageMap' = [StageMap EXCEPT ![p] = StageOf(p)']
      /\ AskMap' = AskMap
  BY <1>2, StageGoes DEF SafeInv
<1>4. StageMap[p] = "in"
  BY StageIs DEF StageMap
<1> QED
  BY <1>2, <1>3, <1>4 DEF Promise!Took, Promise!Goes, StageMap

\* One row changes, and with it one life and one entry.
LEMMA OneEntry ==
    ASSUME TypeInv, PlaceFits, NEW p \in Op, Step(p), NEW row, Stores(p, row)
    PROVE  LET r == job[p].role IN
           /\ r \in Role /\ roles'[r] = row
           /\ LifeMap' = [LifeMap EXCEPT ![r] = LifeMap'[r]]
           /\ EntryMap' = [EntryMap EXCEPT ![r] = EntryMap'[r]]
<1>1. PICK r \in Role : job[p].role = r
  BY JobType DEF TypeInv
<1>2. roles'[r] = row /\ \A s \in Role \ {r} : roles'[s] = roles[s]
  BY <1>1 DEF Stores, TypeInv, TableType
<1>3. \A s \in Role \ {r} : LifeMap'[s] = LifeMap[s] /\ EntryMap'[s] = EntryMap[s]
  BY <1>1, <1>2, UsedStays, EntryStays
<1>4. LifeMap' = [LifeMap EXCEPT ![r] = LifeMap'[r]]
  BY <1>3 DEF LifeMap
<1>5. EntryMap' = [EntryMap EXCEPT ![r] = EntryMap'[r]]
  BY <1>3 DEF EntryMap
<1> QED
  BY <1>1, <1>2, <1>4, <1>5

LEMMA CreateMaps ==
    ASSUME SafeInv, NEW p \in Op, CreateRole(p)
    PROVE  [Promise!Next]_(Promise!vars)
<1>1. PICK r \in Role : job[p].role = r
  BY JobType DEF SafeInv, TypeInv
<1>2. Step(p) /\ TypeInv /\ PlaceFits /\ LocalType /\ pc[p] = "write" /\ job[p].action = "create"
      /\ UNCHANGED assignments
  BY DEF Step, SafeInv, TypeInv, CreateRole
<1>3. CASE /\ job[p].name # {} /\ NameFree(r, {job[p].scope}, job[p].name)
           /\ Stores(p, [exists |-> TRUE, scope |-> {job[p].scope}, name |-> job[p].name,
                         system |-> job[p].system])
           /\ Written(p, "emit")
  <2>1. Creates(p) /\ Writes(p)
    <3>1. pc'[p] = "emit" \/ (pc'[p] = "done" /\ answer'[p] = "error")
      BY <1>2, <1>3, Moves DEF Written, Places, Answers
    <3> QED
      BY <1>2, <1>3, <3>1 DEF Creates, Writes, CreateRole
  <2>2. ~roles[r].exists /\ ~Created(r)
    BY <1>1, <1>2, <2>1, CreatesRow
  <2>3. roles'[r] = [exists |-> TRUE, scope |-> {job[p].scope}, name |-> job[p].name,
                     system |-> job[p].system]
        /\ LifeMap' = [LifeMap EXCEPT ![r] = LifeMap'[r]]
        /\ EntryMap' = [EntryMap EXCEPT ![r] = EntryMap'[r]]
    BY <1>1, <1>2, <1>3, OneEntry
  <2>4. LifeMap[r] = "fresh" /\ LifeMap'[r] = "live"
        /\ EntryMap'[r] = [scope |-> {job[p].scope}, name |-> job[p].name]
    <3>1. roles'[r].exists /\ roles'[r].scope = {job[p].scope} /\ roles'[r].name = job[p].name
      BY <2>3
    <3>2. EntryMap'[r] = [scope |-> roles'[r].scope, name |-> roles'[r].name]
      BY <3>1, EntryIsNext
    <3> QED
      BY <2>2, <3>1, <3>2, EntryIs, EntryIsNext
  <2>5. Promise!Free(r, {job[p].scope}, job[p].name)
    BY <1>2, <1>3, NameFreeMaps
  <2>6. Promise!Took(p) /\ AskMap' = AskMap
    BY <1>2, <1>3, TookIs
  <2>7. Promise!Create(p)
    <3>1. /\ AskMap[p].action = "create" /\ AskMap[p].role = r
          /\ AskMap[p].scope = job[p].scope /\ AskMap[p].name = job[p].name
      BY <1>1, <1>2, AskIs
    <3>2. /\ LifeMap' = [LifeMap EXCEPT ![r] = "live"]
          /\ EntryMap' = [EntryMap EXCEPT ![r] = [scope |-> {job[p].scope}, name |-> job[p].name]]
      BY <2>3, <2>4
    <3> QED
      BY <1>2, <1>3, <2>4, <2>5, <2>6, <3>1, <3>2
      DEF Promise!Create, LifeMap, EntryMap, AskMap
  <2> QED
    BY <2>7 DEF Promise!Next
<1>4. CASE UNCHANGED roles /\ Reply(p, "refused")
  <2>1. pc'[p] = "done" /\ answer'[p] = "refused"
    BY <1>2, <1>4, Moves DEF Answers
  <2>2. StageMap' = [StageMap EXCEPT ![p] = "no"] /\ AskMap' = AskMap /\ StageMap[p] = "in"
    BY <1>2, <2>1, StageGoes, StageIs DEF StageMap
  <2>3. Creator(p, r) /\ Creator(p, r)'
    BY <1>1, <1>2, <2>1, TableMove DEF Creator
  <2>4. ~Created(r) /\ Created(r)' /\ ~roles[r].exists /\ ~roles'[r].exists
    BY <1>2, <1>4, <2>1, <2>3 DEF Created, SafeInv, CreatedOnce, RowsOriginal, Original
  <2>5. LifeMap[r] = "fresh" /\ LifeMap'[r] = "gone" /\ EntryMap'[r] = EntryMap[r]
    BY <2>4, EntryIs, EntryIsNext
  <2>6. \A s \in Role \ {r} : LifeMap'[s] = LifeMap[s] /\ EntryMap'[s] = EntryMap[s]
    BY <1>1, <1>2, <1>4, UsedStays, EntryStays
  <2>7. LifeMap' = [LifeMap EXCEPT ![r] = "gone"] /\ EntryMap' = EntryMap
    BY <2>5, <2>6 DEF LifeMap, EntryMap
  <2>8. Promise!Tell(p)
    BY <1>1, <1>2, <2>2, <2>5, <2>7, AskIs
    DEF Promise!Tell, Promise!Goes, LifeMap, EntryMap, StageMap, AskMap
  <2> QED
    BY <2>8 DEF Promise!Next
<1> QED
  BY <1>1, <1>2, <1>3, <1>4 DEF CreateRole, Stores

LEMMA RenameMaps ==
    ASSUME SafeInv, NEW p \in Op, UpdateRole(p)
    PROVE  [Promise!Next]_(Promise!vars)
<1>1. PICK r \in Role : job[p].role = r
  BY JobType DEF SafeInv, TypeInv
<1>2. Step(p) /\ TypeInv /\ PlaceFits /\ LocalType /\ pc[p] = "write" /\ job[p].action = "update"
      /\ UNCHANGED assignments
  BY DEF Step, SafeInv, TypeInv, UpdateRole
<1>3. \A s \in Role : Created(s)' <=> Created(s)
  BY <1>2, UsedStays
<1>4. copy[p].exists /\ copy[p].scope = {job[p].scope} /\ copy[p] \in RoleRecord
      /\ Named(copy[p])
  BY <1>2 DEF SafeInv, HoldsCopy, LocalType, TypeInv
<1>5. CASE /\ roles[r].exists /\ NameFree(r, copy[p].scope, NewName(p))
           /\ \E mark \in SystemMark(copy[p].system, job[p].system) :
              \E stored \in {mark, mark \/ roles[r].system} :
                 Stores(p, [copy[p] EXCEPT !.name = NewName(p), !.system = stored])
           /\ Written(p, "emit")
  <2>1. PICK stored : Stores(p, [copy[p] EXCEPT !.name = NewName(p), !.system = stored])
    BY <1>5
  <2>2. /\ roles'[r] = [copy[p] EXCEPT !.name = NewName(p), !.system = stored]
        /\ LifeMap' = [LifeMap EXCEPT ![r] = LifeMap'[r]]
        /\ EntryMap' = [EntryMap EXCEPT ![r] = EntryMap'[r]]
    BY <1>1, <1>2, <2>1, OneEntry
  <2>3. roles'[r].exists /\ roles'[r].scope = copy[p].scope /\ roles'[r].name = NewName(p)
    BY <1>4, <2>2 DEF RoleRecord
  <2>4. roles[r].scope = copy[p].scope
    BY <1>1, <1>4, <1>5, SameScope DEF SafeInv, RowsOriginal, CopiesOriginal
  <2>5. PICK n \in Name : NewName(p) = {n} /\ job[p].name \in {{}, {n}}
    <3>1. CASE job[p].name = {}
      BY <1>4, <3>1 DEF NewName, Named
    <3>2. CASE job[p].name # {}
      BY <1>2, <3>2, JobType DEF NewName
    <3> QED
      BY <3>1, <3>2
  <2>6. LifeMap[r] = "live" /\ LifeMap'[r] = "live"
        /\ EntryMap[r] = [scope |-> {job[p].scope}, name |-> roles[r].name]
        /\ EntryMap'[r] = [scope |-> {job[p].scope}, name |-> {n}]
    <3>1. /\ EntryMap[r] = [scope |-> roles[r].scope, name |-> roles[r].name]
          /\ EntryMap'[r] = [scope |-> roles'[r].scope, name |-> roles'[r].name]
          /\ LifeMap[r] = "live" /\ LifeMap'[r] = "live"
      BY <1>5, <2>3, EntryIs, EntryIsNext
    <3> QED
      BY <1>4, <2>3, <2>4, <2>5, <3>1
  <2>7. LifeMap' = LifeMap /\ EntryMap' = [EntryMap EXCEPT ![r].name = {n}]
    <3>1. EntryMap'[r] = [EntryMap[r] EXCEPT !.name = {n}] /\ EntryMap[r].scope = {job[p].scope}
      BY <2>6
    <3>2. LifeMap' = LifeMap
      BY <2>2, <2>6 DEF LifeMap
    <3>3. EntryMap' = [EntryMap EXCEPT ![r].name = {n}]
      BY <2>2, <3>1 DEF EntryMap
    <3> QED
      BY <3>2, <3>3
  <2>8. Promise!Free(r, {job[p].scope}, {n})
    BY <1>2, <1>4, <1>5, <2>5, NameFreeMaps
  <2>9. Promise!Took(p) /\ AskMap' = AskMap
    BY <1>2, <1>5, TookIs
  <2>10. EntryMap[r].scope = {job[p].scope}
    BY <2>6
  <2>11. Promise!Rename(p)
    <3>1. /\ AskMap[p].action = "update" /\ AskMap[p].role = r
          /\ AskMap[p].scope = job[p].scope /\ AskMap[p].name = job[p].name
      BY <1>1, <1>2, AskIs
    <3> QED
      BY <1>2, <2>5, <2>6, <2>7, <2>8, <2>9, <2>10, <3>1
      DEF Promise!Rename, LifeMap, EntryMap, AskMap
  <2> QED
    BY <2>11 DEF Promise!Next
<1>6. CASE UNCHANGED roles /\ Reply(p, "refused")
  <2>1. pc'[p] = "done" /\ answer'[p] = "refused"
    BY <1>2, <1>6, Moves DEF Answers
  <2>2. StageOf(p) = "in" /\ StageOf(p)' = "no" /\ KeepTables
    BY <1>2, <1>6, <2>1, StageGoes, StageIs DEF KeepTables
  <2> QED
    BY <1>2, <1>3, <2>2, TellsMap
<1> QED
  BY <1>1, <1>2, <1>5, <1>6 DEF UpdateRole, Stores

LEMMA DropMaps ==
    ASSUME SafeInv, NEW p \in Op, DeleteRole(p)
    PROVE  [Promise!Next]_(Promise!vars)
<1>1. PICK r \in Role : job[p].role = r
  BY JobType DEF SafeInv, TypeInv
<1>2. Step(p) /\ TypeInv /\ PlaceFits /\ LocalType /\ pc[p] = "write" /\ job[p].action = "delete"
  BY DEF Step, SafeInv, TypeInv, DeleteRole
<1>3. \A s \in Role : Created(s)' <=> Created(s)
  BY <1>2, UsedStays
<1>4. CASE Stores(p, NoRole) /\ assignments' = Cascade(r) /\ Written(p, "emit")
  <2>1. Created(r)
    BY <1>1, <1>2 DEF SafeInv, HoldsCopy, CopiesOriginal, Original
  <2>2. /\ roles'[r] = NoRole
        /\ LifeMap' = [LifeMap EXCEPT ![r] = LifeMap'[r]]
        /\ EntryMap' = [EntryMap EXCEPT ![r] = EntryMap'[r]]
    BY <1>1, <1>2, <1>4, OneEntry
  <2>3. LifeMap[r] # "fresh" /\ LifeMap'[r] = "gone" /\ EntryMap'[r] = Promise!Nothing
    BY <1>3, <2>1, <2>2, NoRoleType, EntryIs, EntryIsNext
  <2>4. Promise!Took(p) /\ AskMap' = AskMap
    BY <1>2, <1>4, TookIs
  <2>5. AskMap[p].action = "delete" /\ AskMap[p].role = r
    BY <1>1, <1>2, AskIs
  <2>6. /\ LifeMap' = [LifeMap EXCEPT ![r] = "gone"]
        /\ EntryMap' = [EntryMap EXCEPT ![r] = Promise!Nothing]
        /\ assignments' = {h \in assignments : h.role # r}
    BY <1>4, <2>2, <2>3 DEF Cascade
  <2>7. Promise!Drop(p)
    BY <2>3, <2>4, <2>5, <2>6 DEF Promise!Drop, LifeMap, EntryMap, AskMap
  <2> QED
    BY <2>7 DEF Promise!Next
<1>5. CASE Reply(p, "system") /\ KeepTables
  <2>1. pc'[p] = "done" /\ answer'[p] = "system"
    BY <1>2, <1>5, Moves DEF Answers
  <2>2. StageOf(p) = "in" /\ StageOf(p)' = "no"
    BY <1>2, <2>1, StageGoes, StageIs
  <2> QED
    BY <1>2, <1>3, <1>5, <2>2, TellsMap
<1> QED
  BY <1>1, <1>4, <1>5 DEF DeleteRole, Stores

LEMMA GrantMaps ==
    ASSUME SafeInv, NEW p \in Op, AssignRole(p)
    PROVE  [Promise!Next]_(Promise!vars)
<1>1. PICK r \in Role : job[p].role = r
  BY JobType DEF SafeInv, TypeInv
<1>2. Step(p) /\ TypeInv /\ PlaceFits /\ LocalType /\ pc[p] = "write" /\ job[p].action = "assign"
      /\ UNCHANGED roles
  BY DEF Step, SafeInv, TypeInv, AssignRole
<1>3. \A s \in Role : Created(s)' <=> Created(s)
  BY <1>2, UsedStays
<1>4. CASE ForeignKey(r) /\ assignments' = assignments \cup {Row(p)} /\ Written(p, "emit")
  <2>1. roles[r].exists /\ roles[r].scope = {job[p].scope}
    BY <1>1, <1>2, <1>4, SameScope
    DEF ForeignKey, SafeInv, HoldsCopy, RowsOriginal, CopiesOriginal
  <2>2. LifeMap[r] = "live" /\ EntryMap[r] = [scope |-> roles[r].scope, name |-> roles[r].name]
    BY <2>1, EntryIs
  <2>3. EntryMap[r].scope = {job[p].scope}
    BY <2>1, <2>2
  <2>4. \A s \in Role : LifeMap'[s] = LifeMap[s] /\ EntryMap'[s] = EntryMap[s]
    BY <1>2, <1>3, EntryStays
  <2>5. LifeMap' = LifeMap /\ EntryMap' = EntryMap
    BY <2>4 DEF LifeMap, EntryMap
  <2>6. Promise!Took(p) /\ AskMap' = AskMap
    BY <1>2, <1>4, TookIs
  <2>7. /\ AskMap[p].action = "assign" /\ AskMap[p].role = r /\ AskMap[p].scope = job[p].scope
        /\ Promise!Holding(p) = Row(p)
    BY <1>1, <1>2, AskIs
  <2>8. Promise!Grant(p)
    BY <1>4, <2>2, <2>3, <2>5, <2>6, <2>7 DEF Promise!Grant, LifeMap, EntryMap, AskMap
  <2> QED
    BY <2>8 DEF Promise!Next
<1>5. ASSUME NEW what \in {"ok", "refused"}, Reply(p, what), UNCHANGED assignments,
             what = "ok" => Row(p) \in assignments
      PROVE  [Promise!Next]_(Promise!vars)
  <2>1. pc'[p] = "done" /\ answer'[p] = what
    BY <1>2, <1>5, Moves DEF Answers
  <2>2. StageOf(p) = "in" /\ StageOf(p)' = (IF what = "ok" THEN "yes" ELSE "no") /\ KeepTables
    BY <1>2, <1>5, <2>1, StageGoes, StageIs DEF KeepTables
  <2>3. CASE what = "ok"
    BY <1>2, <1>3, <1>5, <2>2, <2>3, TellsMap
  <2>4. CASE what # "ok"
    BY <1>2, <1>3, <2>2, <2>4, TellsMap
  <2> QED
    BY <2>3, <2>4
<1> QED
  BY <1>1, <1>4, <1>5 DEF AssignRole

LEMMA RevokeMaps ==
    ASSUME SafeInv, NEW p \in Op, UnassignRole(p)
    PROVE  [Promise!Next]_(Promise!vars)
<1>1. Step(p) /\ TypeInv /\ PlaceFits /\ pc[p] = "write" /\ job[p].action = "unassign"
      /\ UNCHANGED roles /\ assignments' = assignments \ {Row(p)} /\ Written(p, "emit")
  BY DEF Step, SafeInv, UnassignRole
<1>2. \A s \in Role : LifeMap'[s] = LifeMap[s] /\ EntryMap'[s] = EntryMap[s]
  BY <1>1, UsedStays, EntryStays
<1>3. LifeMap' = LifeMap /\ EntryMap' = EntryMap
  BY <1>2 DEF LifeMap, EntryMap
<1>4. Promise!Took(p) /\ AskMap' = AskMap
  BY <1>1, TookIs
<1>5. AskMap[p].action = "unassign" /\ Promise!Holding(p) = Row(p)
  BY <1>1, AskIs
<1>6. Promise!Revoke(p)
  BY <1>1, <1>3, <1>4, <1>5 DEF Promise!Revoke, LifeMap, EntryMap, AskMap
<1> QED
  BY <1>6 DEF Promise!Next

\* The steps that leave the tables alone; a create that fails uses its id up.
LEMMA OthersMap ==
    ASSUME SafeInv, NEW p \in Op, Step(p),
           \/ Start(p) \/ Read(p) \/ EmitRoleEvent(p) \/ SelectAssignments(p)
           \/ LoadRoleNames(p) \/ Fail(p) \/ Crash(p)
    PROVE  [Promise!Next]_(Promise!vars)
<1>1. PICK r \in Role : job[p].role = r
  BY JobType DEF SafeInv, TypeInv
<1>2. TypeInv /\ PlaceFits /\ LocalType /\ UNCHANGED job /\ OpMove(p) /\ KeepTables
  BY TableMove, OwnMove
  DEF SafeInv, TypeInv, Start, Read, EmitRoleEvent, SelectAssignments, LoadRoleNames, Fail, Crash
<1>3. {"idle", "read", "write", "emit", "list", "names", "done", "crashed"} \subseteq Places
      /\ {"ok", "error", "not_found"} \subseteq Answers
  BY DEF Places, Answers
<1>4. CASE job[p].action = "create" /\ pc[p] = "write"
  <2>1. pc'[p] = "crashed" \/ (pc'[p] = "done" /\ answer'[p] = "error")
    BY <1>2, <1>3, <1>4, Moves
    DEF Start, Read, EmitRoleEvent, SelectAssignments, LoadRoleNames, Fail, Crash
  <2>2. StageMap' = [StageMap EXCEPT ![p] = "no"] /\ AskMap' = AskMap /\ StageMap[p] = "in"
    BY <1>2, <1>4, <2>1, StageGoes, StageIs DEF StageMap
  <2>3. Creator(p, r) /\ Creator(p, r)'
    BY <1>1, <1>2, <1>4, <2>1 DEF Creator
  <2>4. ~Created(r) /\ Created(r)' /\ ~roles[r].exists /\ ~roles'[r].exists
    BY <1>2, <1>4, <2>1, <2>3 DEF Created, SafeInv, CreatedOnce, RowsOriginal, Original, KeepTables
  <2>5. LifeMap[r] = "fresh" /\ LifeMap'[r] = "gone" /\ EntryMap'[r] = EntryMap[r]
    BY <2>4, EntryIs, EntryIsNext
  <2>6. \A s \in Role \ {r} : LifeMap'[s] = LifeMap[s] /\ EntryMap'[s] = EntryMap[s]
    BY <1>1, <1>2, UsedStays, EntryStays DEF KeepTables
  <2>7. LifeMap' = [LifeMap EXCEPT ![r] = "gone"] /\ EntryMap' = EntryMap
    BY <2>5, <2>6 DEF LifeMap, EntryMap
  <2>8. Promise!Tell(p)
    BY <1>1, <1>2, <1>4, <2>2, <2>5, <2>7, AskIs
    DEF Promise!Tell, Promise!Goes, LifeMap, EntryMap, StageMap, AskMap, KeepTables
  <2> QED
    BY <2>8 DEF Promise!Next
<1>5. CASE job[p].action # "create" \/ pc[p] # "write"
  <2>1. \A s \in Role : Created(s)' <=> Created(s)
    BY <1>2, <1>5, UsedStays
  <2>2. CASE Start(p)
    <3>1. StageOf(p) = "out" /\ StageOf(p)' = "in"
      <4>1. pc[p] = "idle" /\ (Goto(p, "write") \/ Goto(p, "list") \/ Goto(p, "read"))
        BY <2>2 DEF Start
      <4>2. pc'[p] \in {"read", "write", "list"}
        BY <1>2, <1>3, <4>1, Moves
      <4> QED
        BY <1>2, <4>1, <4>2, StageGoes, StageIs
    <3> QED
      BY <1>2, <2>1, <3>1, TellsMap
  <2>3. CASE Read(p)
    <3>1. pc[p] = "read" /\ (pc'[p] = "write" \/ (pc'[p] = "done" /\ answer'[p] = "not_found"))
      BY <1>2, <1>3, <2>3, Moves DEF Read
    <3>2. StageOf(p) = "in" /\ StageOf(p)' \in {"in", "no"}
      BY <1>2, <3>1, StageGoes, StageIs
    <3> QED
      BY <1>2, <2>1, <3>2, TellsMap
  <2>4. CASE EmitRoleEvent(p)
    <3>1. pc[p] = "emit" /\ pc'[p] = "done" /\ answer'[p] = "ok"
      BY <1>2, <1>3, <2>4, Moves DEF EmitRoleEvent
    <3>2. StageOf(p) = "did" /\ StageOf(p)' = "yes"
      BY <1>2, <3>1, StageGoes, StageIs
    <3> QED
      BY <1>2, <2>1, <3>2, TellsMap
  <2>5. CASE SelectAssignments(p) \/ LoadRoleNames(p)
    <3>1. /\ pc[p] \in {"list", "names"}
          /\ pc'[p] = "names" \/ (pc'[p] = "done" /\ answer'[p] = "ok")
      BY <1>2, <1>3, <2>5, Moves DEF SelectAssignments, LoadRoleNames
    <3>2. StageOf(p) = "in" /\ StageOf(p)' \in {"in", "yes"} /\ job[p].action = "list"
      BY <1>2, <3>1, StageGoes, StageIs DEF PlaceFits
    <3> QED
      BY <1>2, <2>1, <3>2, TellsMap
  <2>6. CASE Fail(p) \/ Crash(p)
    <3>1. /\ pc[p] \in {"read", "write", "emit", "list", "names"}
          /\ pc'[p] = "crashed" \/ (pc'[p] = "done" /\ answer'[p] = "error")
      BY <1>2, <1>3, <2>6, Moves DEF Fail, Crash, InFlight, LocalType, Places
    <3>2. StageOf(p) \in {"in", "did"} /\ StageOf(p)' = "no"
      BY <1>2, <3>1, StageGoes, StageIs
    <3> QED
      BY <1>2, <2>1, <3>2, TellsMap
  <2> QED
    BY <2>2, <2>3, <2>4, <2>5, <2>6
<1> QED
  BY <1>4, <1>5

\* Operations that interleave between their reads, statements and hook calls
\* implement NamedRoles: a role lives once and keeps its scope, its name is its
\* own there, and callers are told "ok" only of what took effect.
THEOREM RolePromiseHolds == Spec => RolePromiseKept
<1>1. Init => Promise!Init
  <2> SUFFICES ASSUME Init PROVE Promise!Init
    OBVIOUS
  <2>1. SafeInv /\ \A p \in Op : pc[p] = "idle"
    BY SafeInvInit DEF Init
  <2>2. \A r \in Role : roles[r] = NoRole /\ ~Created(r)
    BY <2>1 DEF Init, Created, Creator
  <2>3. \A r \in Role : LifeMap[r] = "fresh" /\ EntryMap[r] = Promise!Nothing
    BY <2>2, NoRoleType, EntryIs
  <2>4. \A p \in Op : StageOf(p) = "out" /\ AskOf(p) \in Promise!Asks
    BY <2>1, StageIs, JobType DEF SafeInv, TypeInv, Promise!Asks, AskOf, Actions
  <2> QED
    BY <2>3, <2>4 DEF Init, Promise!Init, LifeMap, EntryMap
<1>2. SafeInv /\ [Next]_vars => [Promise!Next]_(Promise!vars)
  <2> SUFFICES ASSUME SafeInv, [Next]_vars PROVE [Promise!Next]_(Promise!vars)
    OBVIOUS
  <2>1. CASE UNCHANGED vars
    BY <2>1 DEF vars, Promise!vars, LifeOf, Used, StageOf, AskOf
  <2>2. ASSUME NEW p \in Op, Step(p) PROVE [Promise!Next]_(Promise!vars)
    BY <2>2, CreateMaps, RenameMaps, DropMaps, GrantMaps, RevokeMaps, OthersMap DEF Step
  <2> QED
    BY <2>1, <2>2, NextIsStep
<1> QED
  BY <1>1, <1>2, Safe, PTL DEF Spec, RolePromiseKept, Promise!Spec
=============================================================================
