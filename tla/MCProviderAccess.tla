-------------------------- MODULE MCProviderAccess --------------------------
(* Two replicas: a management call on each, which may overlap, and a cache *)
(* fill; one agent exists, another one too or is created.                  *)
EXTENDS ProviderAccess, TLC

CONSTANTS r1, r2, a1, a2, w1, w2, f1

MCAgents == {a1, a2}
MCFounders == {a1}
MCWriters == {w1, w2}
MCReaders == {f1}
MCReplicas == {r1, r2}
MCHome == (w1 :> r1) @@ (w2 :> r2) @@ (f1 :> r2)
=============================================================================
