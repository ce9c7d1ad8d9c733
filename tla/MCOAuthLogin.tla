---------------------------- MODULE MCOAuthLogin ----------------------------
(* Three logins of a provider that takes two keys, two calls at a time.     *)
EXTENDS OAuthLogin, TLC

CONSTANTS c1, c2, l1, l2, l3

MCCallers == {c1, c2}
MCLogins == {l1, l2, l3}
MCTwins == Permutations(MCCallers) \union Permutations(MCLogins)
=============================================================================
