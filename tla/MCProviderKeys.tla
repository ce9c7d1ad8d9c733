--------------------------- MODULE MCProviderKeys ---------------------------
(* Two dashboard requests at a time, three keys and their names.           *)
EXTENDS ProviderKeys, TLC

CONSTANTS c1, c2, l1, l2, l3

MCCallers == {c1, c2}
MCLabels == {l1, l2, l3}
MCTwins == Permutations(MCCallers) \cup Permutations({l2, l3})

\* What follows an excuse is excused too: such states are checked, and left.
MCUnexcused == raced \subseteq {Unranked}
=============================================================================
