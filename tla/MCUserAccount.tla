----------------------------- MODULE MCUserAccount -----------------------------
(* Instances of UserAccount for TLC; the commands are interchangeable.          *)
EXTENDS UserAccount, TLC

Perms == Permutations(Op)
=============================================================================
