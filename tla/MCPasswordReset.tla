--------------------------- MODULE MCPasswordReset ---------------------------
(* Instances of PasswordReset for TLC: the constants are given in the .cfg    *)
(* files, the requests are interchangeable.                                   *)
EXTENDS PasswordReset, TLC

Perms == Permutations(Request)
=============================================================================
