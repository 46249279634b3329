------------------------------ MODULE MCProfiles ------------------------------
(* Instances of Profiles for TLC; operations, tenants, organisations and      *)
(* fields are each interchangeable.                                            *)
EXTENDS Profiles, TLC

Perms == Permutations(Op) \cup Permutations(Tenant) \cup Permutations(Org)
             \cup Permutations(Field)
=============================================================================
