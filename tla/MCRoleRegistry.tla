----------------------------- MODULE MCRoleRegistry -----------------------------
(* Instances of RoleRegistry for TLC; operations are interchangeable, and so    *)
(* are roles, members, scopes and names.                                         *)
EXTENDS RoleRegistry, TLC

Perms == Permutations(Op) \cup Permutations(Role) \cup Permutations(Member)
             \cup Permutations(Scope) \cup Permutations(Name)
=============================================================================
