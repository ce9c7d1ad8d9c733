--------------------------- MODULE MCOAuthRefresh ---------------------------
(* A small instance of OAuthRefresh: three requests, two of them on the    *)
(* same replica so that single-flight joins and row-lock waits both occur. *)
EXTENDS OAuthRefresh, TLC

CONSTANTS q1, q2, q3, r1, r2

MCReplicas == {r1, r2}
MCRequests == {q1, q2, q3}
MCTwins == Permutations({q1, q2})   \* the two requests of one replica
MCHome == (q1 :> r1) @@ (q2 :> r1) @@ (q3 :> r2)
=============================================================================
