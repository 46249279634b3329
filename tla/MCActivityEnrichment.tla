--------------------------- MODULE MCActivityEnrichment ---------------------------
(* Instances of ActivityEnrichment for TLC.  SafeSpec leaves fairness out, so that *)
(* runs may be taken as interchangeable where no liveness property is checked.      *)
EXTENDS ActivityEnrichment, TLC

Perms == Permutations(Run)

SafeSpec == EnrichmentInit /\ [][EnrichmentNext]_enrichmentVars
=============================================================================
