-------------------------- MODULE MCUpstreamGuards --------------------------
(* Two calls at a time, two routes and a map that holds one of them.       *)
EXTENDS UpstreamGuards, TLC

CONSTANTS c1, c2, k1, k2

MCCalls == {c1, c2}
MCRoutes == {k1, k2}
MCHints == {0, 3}
MCTwins == Permutations(MCCalls) \union Permutations(MCRoutes)
=============================================================================
