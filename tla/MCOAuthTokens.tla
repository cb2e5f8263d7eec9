---------------------------- MODULE MCOAuthTokens ---------------------------
(* Instances of OAuthTokens for TLC.                                       *)
EXTENDS OAuthTokens, TLC

CONSTANTS c1, q1, q2, q3, q4, q5

ShortWindows == [minute |-> 1, hour |-> 2, day |-> 4, strict |-> 1]
SmallLimits == [minute |-> 2, hour |-> 4, day |-> 7, strict |-> 1]
Sym == Permutations(Reqs)
=============================================================================
