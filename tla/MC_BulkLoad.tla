----------------------------- MODULE MC_BulkLoad ----------------------------
(* Model-checking instance of BulkLoad: pages of 3 entries, counts 0..20, *)
(* so that exact multiples, remainders and the empty load all occur.      *)
EXTENDS BulkLoad

MCCounts == 0 .. 20

=============================================================================
