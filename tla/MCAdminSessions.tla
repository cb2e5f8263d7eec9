--------------------------- MODULE MCAdminSessions -------------------------
EXTENDS AdminSessions, TLC
CONSTANTS a1, q1, q2, q3, q4
Sym == Permutations(Reqs)
=============================================================================
