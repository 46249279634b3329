------------------------------ MODULE MCPreferences ------------------------------
(* Instances of Preferences for TLC; calls are interchangeable.  MaxWork bounds *)
(* the keys and levels the operations have to deal with, together: four         *)
(* are two writers beside a resolution of two levels, or beside a bulk command  *)
(* on two keys.  Operations that share no key do not disturb each other, so     *)
(* every writer is given key 1.  Levels meet, and the fields of a value matter, *)
(* only in a resolution of several levels: without one every value has all of   *)
(* its fields, and every writer is given the system level.                       *)
EXTENDS Preferences, TLC

CONSTANT MaxWork

Perms == Permutations(Call) \cup Permutations(Part)
MCDefaults == {1} \X Part

Merging == \E p \in Call : command[p].kind = "resolve" /\ Len(command[p].list) > 1

MCCommands ==
    {c \in Commands : /\ c.kind = "resolve" \/ \E i \in DOMAIN c.list : c.list[i] = 1
                      /\ c.kind = "upsert" => c.has # {}
                      /\ c.kind = "upsert" /\ c.transactional => c.has = Part}

MCInit ==
    /\ command \in [Call -> MCCommands]
    /\ MapThenSumSet(LAMBDA p : Len(command[p].list), Call) <= MaxWork
    /\ \A p \in Call :
          IF Merging THEN ~command[p].transactional
          ELSE /\ command[p].kind = "upsert" => command[p].has = Part
               /\ command[p].level = System
    /\ \E seen \in [Level -> {NoRow} \cup {row \in FirstRows : row.has # {}}] :
          /\ rows = [l \in Level |-> [k \in Key |-> seen[l]]]
          /\ \A l \in Level : seen[l] = NoRow \/
                /\ (seen[l].value = CHOOSE v \in Old : TRUE) <=> l = System
                /\ seen[l].has = Part \/ (Merging /\ l # System)
    /\ PreferenceInit

MCSpec == MCInit /\ [][PreferenceNext]_preferenceVars
=============================================================================
