-------------------------- MODULE MCOAuthStaleSave --------------------------
(* Two requests on two replicas and one saver.                             *)
EXTENDS OAuthStaleSave, TLC

CONSTANTS q1, q2, r1, r2, w1

MCReplicas == {r1, r2}
MCRequests == {q1, q2}
MCSavers == {w1}
MCHome == (q1 :> r1) @@ (q2 :> r2)
=============================================================================
