------------------------------ MODULE NamedRoles ------------------------------
(* What the role registry promises, with no tables, copies or statements.  A    *)
(* role lives at most once, in the scope it was created in, and shares its name  *)
(* with no other living role there.  Members hold living roles of the scope      *)
(* only.  A call takes effect at one moment before it returns, or never, and is   *)
(* answered "yes" only when it did or when there was nothing to do.               *)
CONSTANTS Op, Role, Member, Scope, Name

VARIABLES
    life,       \* per role: "fresh", "live", "gone"
    entry,      \* per role: its scope and its name
    holders,    \* who holds which role in which scope
    stage,      \* per call: "out", "in", "did", "yes", "no"
    ask         \* per call: what it is to do

vars == <<life, entry, holders, stage, ask>>

Nothing == [scope |-> {}, name |-> {}]
Asks == [action : {"create", "update", "delete", "assign", "unassign", "list"},
         role : Role, member : Member, scope : Scope, name : SUBSET Name]

Init ==
    /\ life = [r \in Role |-> "fresh"]
    /\ entry = [r \in Role |-> Nothing]
    /\ holders = {}
    /\ stage = [p \in Op |-> "out"]
    /\ ask \in [Op -> Asks]

Goes(p, to) == stage' = [stage EXCEPT ![p] = to]

\* Who changes something need not learn that it did.
Took(p) == stage[p] = "in" /\ (Goes(p, "did") \/ Goes(p, "no"))

Free(r, scope, name) ==
    \A s \in Role \ {r} : entry[s] # [scope |-> scope, name |-> name]

Holding(p) == [member |-> ask[p].member, role |-> ask[p].role, scope |-> ask[p].scope]

Call(p) ==
    /\ stage[p] = "out" /\ Goes(p, "in")
    /\ UNCHANGED <<life, entry, holders, ask>>

Create(p) ==
    LET r == ask[p].role IN
    /\ ask[p].action = "create" /\ Took(p)
    /\ life[r] = "fresh" /\ ask[p].name # {}
    /\ Free(r, {ask[p].scope}, ask[p].name)
    /\ life' = [life EXCEPT ![r] = "live"]
    /\ entry' = [entry EXCEPT ![r] = [scope |-> {ask[p].scope}, name |-> ask[p].name]]
    /\ UNCHANGED <<holders, ask>>

\* A call that names nothing may bring back a name it has read.
Rename(p) ==
    LET r == ask[p].role IN
    /\ ask[p].action = "update" /\ Took(p)
    /\ life[r] = "live" /\ entry[r].scope = {ask[p].scope}
    /\ \E n \in Name : /\ ask[p].name \in {{}, {n}}
                       /\ Free(r, entry[r].scope, {n})
                       /\ entry' = [entry EXCEPT ![r].name = {n}]
    /\ UNCHANGED <<life, holders, ask>>

\* To drop a role that is gone is nothing new.
Drop(p) ==
    LET r == ask[p].role IN
    /\ ask[p].action = "delete" /\ Took(p)
    /\ life[r] # "fresh"
    /\ life' = [life EXCEPT ![r] = "gone"]
    /\ entry' = [entry EXCEPT ![r] = Nothing]
    /\ holders' = {h \in holders : h.role # r}
    /\ UNCHANGED ask

Grant(p) ==
    LET r == ask[p].role IN
    /\ ask[p].action = "assign" /\ Took(p)
    /\ life[r] = "live" /\ entry[r].scope = {ask[p].scope}
    /\ holders' = holders \cup {Holding(p)}
    /\ UNCHANGED <<life, entry, ask>>

Revoke(p) ==
    /\ ask[p].action = "unassign" /\ Took(p)
    /\ holders' = holders \ {Holding(p)}
    /\ UNCHANGED <<life, entry, ask>>

\* A create that failed leaves its id unused for good.
Tell(p) ==
    /\ \/ stage[p] = "did" /\ Goes(p, "yes") /\ UNCHANGED life
       \/ /\ stage[p] = "in" /\ Goes(p, "yes") /\ UNCHANGED life
          /\ ask[p].action = "list" \/ (ask[p].action = "assign" /\ Holding(p) \in holders)
       \/ stage[p] \in {"in", "did"} /\ Goes(p, "no") /\ UNCHANGED life
       \/ /\ stage[p] = "in" /\ Goes(p, "no")
          /\ ask[p].action = "create" /\ life[ask[p].role] = "fresh"
          /\ life' = [life EXCEPT ![ask[p].role] = "gone"]
    /\ UNCHANGED <<entry, holders, ask>>

Next ==
    \E p \in Op :
        \/ Call(p) \/ Create(p) \/ Rename(p) \/ Drop(p) \/ Grant(p) \/ Revoke(p) \/ Tell(p)

Spec == Init /\ [][Next]_vars
=============================================================================
