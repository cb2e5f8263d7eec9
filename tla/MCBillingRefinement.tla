------------------------ MODULE MCBillingRefinement ------------------------
(***************************************************************************)
(* A small instance of the observed handlers, compared with Entitlement.   *)
(***************************************************************************)
EXTENDS BillingRefinement

CONSTANTS d1, d2, trial, pro, j1, j2
=============================================================================
