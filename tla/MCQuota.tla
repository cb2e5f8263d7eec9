------------------------------ MODULE MCQuota ------------------------------
(***************************************************************************)
(* Small instances of Quota.                                               *)
(***************************************************************************)
EXTENDS Quota, TLC

CONSTANTS d1, basic, pro, c1, c2

MCSymmetry == Permutations({c1, c2})
=============================================================================
