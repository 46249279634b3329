---------------------------- MODULE MCCrudServices ----------------------------
(* Instances of CrudServices for TLC.  Any one request, of up to MaxItems items, *)
(* runs beside a short one on the same table, by an actor who is no support      *)
(* agent.  Everyone's credentials name the first tenant; payloads, and the scope *)
(* of the bulk commands, name the other one or, in single requests, none.  A      *)
(* preference of the tenant level is asked for by single requests.                *)
EXTENDS CrudServices, TLC

CONSTANTS Beside, FirstTenant

Table(j) == IF j.op \in UserOps THEN 1 ELSE IF j.op \in RoleOps THEN 2 ELSE 3

MCItem == {item \in Item : item.tenant # {FirstTenant}}

MCItems == UNION {[1 .. n -> MCItem] : n \in 0 .. MaxItems}

MCJobs == {j \in [op : UserOps \cup RoleOps \cup PrefOps, actor : Id(User), items : MCItems,
                  keepOn : {FALSE}, dry : {FALSE}, to : {"archived"}]
                \cup [op : Bulk, actor : Id(User), items : MCItems, keepOn : BOOLEAN,
                      dry : BOOLEAN, to : {"active", "archived"}] :
              /\ IsJob(j)
              /\ j.op \in {"user.index", "role.index"} => j.items[1].id = {}
              /\ j.op \in Bulk \cup PrefOps /\ Len(j.items) > 1 =>
                     \A i \in DOMAIN j.items : j.items[i].tenant # {} /\ j.items[i].id # {}
              /\ Len(j.items) > 1 => \A i \in DOMAIN j.items : j.items[i].level # "tenant"
              /\ j.actor = {} => Len(j.items) = 1}

ShortJobs == {j \in MCJobs :
                 /\ j.op \in {"user.create", "user.delete", "user.import", "role.create",
                              "role.delete", "pref.upsert", "pref.delete"}
                 /\ Len(j.items) = 1 /\ ~j.dry /\ ~j.keepOn
                 /\ j.op \in RoleOps \cup PrefOps \cup Bulk => j.items[1].tenant # {}
                 /\ j.items[1].id # {}
                 /\ j.actor # {} /\ ~(j.actor \subseteq Support)}

MCInit ==
    /\ \E any \in MCJobs : \E short \in ShortJobs :
           /\ Table(any) = Table(short)
           /\ job = [p \in Req |-> IF p = Beside THEN short ELSE any]
           /\ IF Table(any) = 1 THEN users \in [User -> {"absent", "active"}]
              ELSE users = [u \in User |-> "active"]
           /\ roles \in SUBSET {row \in RoleRow : row.tenant # {} /\ Table(any) = 2}
           /\ prefs \in {{}, {row \in PrefRow : Table(any) = 3 /\ (row.tenant # {} \/ row = SystemRow)}}
    /\ home = [u \in User |-> {FirstTenant}]
    /\ Init

MCSpec == MCInit /\ [][Next]_vars
=============================================================================
