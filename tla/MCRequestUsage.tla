--------------------------- MODULE MCRequestUsage ---------------------------
(* An instance of RequestUsage for TLC.                                    *)
EXTENDS RequestUsage, TLC

CONSTANTS r1, r2, r3, p1, p2

MCRequests == {r1, r2, r3}
MCFallBack == {r1}
MCReplicas == {p1, p2}

Symmetric == Permutations(MCRequests \ MCFallBack) \union Permutations(MCReplicas)
=============================================================================
