---------------------------- MODULE Entitlement ----------------------------
(***************************************************************************)
(* What order handling promises a developer, one indivisible decision at a *)
(* time: an order is placed, and then either approved, which replaces the  *)
(* developer's plan by the ordered package in the same step, or rejected,  *)
(* which changes nothing else. A decision is never taken back.             *)
(***************************************************************************)
CONSTANTS Devs, Pkgs, OrderIds, NoPlan

VARIABLES
    held,      \* the plan each developer may use now
    decision   \* what became of each order: who placed it, for what, and its status

vars == <<held, decision>>

Decisions == {"absent", "pending", "confirmed", "rejected"}

TypeOK ==
    /\ held \in [Devs -> Pkgs \cup {NoPlan}]
    /\ decision \in [OrderIds -> [dev : Devs, pkg : Pkgs, status : Decisions]]

Init ==
    /\ held \in [Devs -> Pkgs \cup {NoPlan}]
    /\ decision \in [OrderIds -> [dev : Devs, pkg : Pkgs, status : {"absent"}]]

Place(o, d, p) ==
    /\ decision[o].status = "absent"
    /\ decision' = [decision EXCEPT ![o] = [dev |-> d, pkg |-> p, status |-> "pending"]]
    /\ UNCHANGED held

Approve(o) ==
    /\ decision[o].status = "pending"
    /\ decision' = [decision EXCEPT ![o].status = "confirmed"]
    /\ held' = [held EXCEPT ![decision[o].dev] = decision[o].pkg]

Reject(o) ==
    /\ decision[o].status = "pending"
    /\ decision' = [decision EXCEPT ![o].status = "rejected"]
    /\ UNCHANGED held

Next ==
    \E o \in OrderIds :
        \/ \E d \in Devs, p \in Pkgs : Place(o, d, p)
        \/ Approve(o)
        \/ Reject(o)

Spec == Init /\ [][Next]_vars
=============================================================================
