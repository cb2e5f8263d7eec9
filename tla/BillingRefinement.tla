------------------------- MODULE BillingRefinement -------------------------
(***************************************************************************)
(* As long as no two requests overlap and no call fails, the dozen steps   *)
(* of an approval look like the single decision of Entitlement.            *)
(* From the first overlap on the two are no longer compared                *)
(* (Billing's own invariants say what remains).                            *)
(*                                                                         *)
(* The step that counts is the insert of the new subscription: from then   *)
(* on the order is as good as confirmed. While the old subscription has    *)
(* been ended and the new one is not there yet, the developer still counts *)
(* as holding the old plan.                                                *)
(***************************************************************************)
EXTENDS Billing

CONSTANT NoPlan   \* what a developer without a subscription holds

VARIABLE overlapped   \* whether two requests were ever open at the same time

(* Two requests are open. *)
Overlap == \E j, k \in Jobs : j # k /\ job[j].pc # "idle" /\ job[k].pc # "idle"

Upgrading(d) == \E j \in Jobs : job[j].dev = d /\ job[j].pc \in {"endSubs", "createSub"}

(* The subscription that tells the developer's plan. *)
PlanSub(d) ==
    IF ActiveSubs(d) = {} /\ Upgrading(d)
      THEN Newest({s \in Subs : sub[s].dev = d}) ELSE Newest(ActiveSubs(d))

Held == [d \in Devs |-> IF PlanSub(d) = {} THEN NoPlan
                        ELSE sub[CHOOSE s \in PlanSub(d) : TRUE].pkg]

Confirming(o) == \E j \in Jobs : job[j].pc = "confirm" /\ job[j].ord = o

Decision == [o \in OrderIds |->
               [dev |-> order[o].dev, pkg |-> order[o].pkg,
                status |-> IF Confirming(o) THEN "confirmed" ELSE order[o].status]]

Promise == INSTANCE Entitlement WITH held <- Held, decision <- Decision

ObservedNext ==
    /\ Next
    /\ overlapped' = (overlapped \/ Overlap')

\* Billing's FairSpec, observed.
ObservedSpec ==
    /\ Init /\ overlapped = FALSE
    /\ [][ObservedNext]_<<vars, overlapped>>
    /\ \A j \in Jobs : WF_vars(Step(j))

(* Every behaviour of the handlers, up to the first overlap, is a behaviour *)
(* of Entitlement: orders are decided once and a plan changes exactly when  *)
(* an order of its developer is approved                                    *)
(* (subscription-upgrade.service.ts:29-123).                                *)
KeepsPromise == Promise!Init /\ [][Promise!Next \/ overlapped']_(Promise!vars)
=============================================================================
