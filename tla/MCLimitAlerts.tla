--------------------------- MODULE MCLimitAlerts ---------------------------
(* Two requests on any of two replicas, and the hourly job of the second.  *)
EXTENDS LimitAlerts, TLC

CONSTANTS q1, q2, c1, r1, r2

MCReplicas == {r1, r2}
MCRequests == {q1, q2}
MCCrons == {c1}
MCHome == c1 :> r2
MCRules == {[on |-> TRUE, limit |-> 1, period |-> "hour"],
            [on |-> TRUE, limit |-> 2, period |-> "day"]}
MCFirstRules == {x \in MCRules : x.on /\ x.period = "hour"}
MCTwins == Permutations(MCRequests)

(* What follows a lost mail or a period judged by the consumption of       *)
(* another one is excused: such states are checked, and left.              *)
MCUnexcused == lost = {} /\ split = {}
=============================================================================
