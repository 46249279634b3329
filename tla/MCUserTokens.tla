----------------------------- MODULE MCUserTokens -----------------------------
(* Instances of UserTokens for TLC; the requests are interchangeable.          *)
EXTENDS UserTokens, TLC

Perms == Permutations(Request)
=============================================================================
