----------------------------- MODULE MCBilling -----------------------------
(***************************************************************************)
(* Small instances of Billing and the properties TLC checks on them.       *)
(***************************************************************************)
EXTENDS Billing

CONSTANTS d1, d2, trial, pro, j1, j2
=============================================================================
