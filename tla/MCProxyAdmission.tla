-------------------------- MODULE MCProxyAdmission --------------------------
(* Two handlers that serve three tenants behind one address, and maps that *)
(* keep two entries.                                                       *)
EXTENDS ProxyAdmission, TLC

CONSTANTS q1, q2, t1, t2, t3, i1

MCRequests == {q1, q2}
MCTenants == {t1, t2, t3}
MCIps == {i1}
MCSymmetry == Permutations(MCRequests) \cup Permutations(MCTenants)
=============================================================================
