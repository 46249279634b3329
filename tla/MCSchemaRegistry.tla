--------------------------- MODULE MCSchemaRegistry ---------------------------
(* Instances of SchemaRegistry for TLC.  Calls are numbers; as they are treated *)
(* alike, only the initial states that number them in a fixed order of their    *)
(* jobs are explored (symmetry itself cannot be used with a liveness property).  *)
EXTENDS SchemaRegistry

Rank(j) ==
    CASE j.action = "register" -> IF j.resource = {} THEN 0 ELSE 1
      [] j.action = "subscribe" -> 2
      [] j.action = "attach" -> IF j.attaches THEN 3 ELSE 4
      [] j.action = "validate" -> 5

MCInit == Init /\ \A p, q \in Call : p < q => Rank(job[p]) <= Rank(job[q])

MCSpec == MCInit /\ [][Next]_vars /\ \A p \in Call : WF_vars(Work(p))
=============================================================================
