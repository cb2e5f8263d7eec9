---------------------------- MODULE MCOnboarding ----------------------------
(* Instances of Onboarding for TLC.                                        *)
EXTENDS Onboarding, TLC

CONSTANTS e1, p1, p2, p3, c1, c2

AllOps == ReviewOps \cup StatusOps \cup KybOps \cup OwnerOps
Sym == Permutations(Procs) \cup Permutations(Creators)
=============================================================================
