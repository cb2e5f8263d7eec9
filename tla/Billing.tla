------------------------------ MODULE Billing ------------------------------
(***************************************************************************)
(* Orders, payment proofs, payment tickets and subscription upgrades of    *)
(* the API service.                                                        *)
(*                                                                         *)
(* The tables orders, subscriptions, tickets and packages live in MySQL    *)
(* and every repository call is one statement, so a handler is a sequence  *)
(* of atomic steps, one per await; no handler of this component opens a    *)
(* transaction. A job is one request being served: an ISV submitting a     *)
(* payment proof or an administrator answering or deciding a ticket.       *)
(*                                                                         *)
(* Row ids are 1, 2, 3, ... in order of creation, so "createdAt desc" is   *)
(* "largest id first" and the row 0 stands for NULL.                       *)
(***************************************************************************)
EXTENDS Naturals, FiniteSets

CONSTANTS
    Devs,            \* developers (ISVs) with an account
    Pkgs,            \* packages of the catalogue
    Free,            \* packages whose price is zero (TRIAL)
    Deletable,       \* packages an administrator may delete
    Jobs,            \* requests that may be in progress at the same time
    MaxOrders,       \* bound: orders ever created
    MaxSubs,         \* bound: subscriptions ever created
    MaxTickets,      \* bound: tickets ever created
    MaxFaults,       \* bound: database calls that fail
    UpgradePageSize  \* page size of the active-subscription query, 10 in the code

ASSUME ConstAssumption ==
    /\ Devs # {} /\ Pkgs # {}
    /\ Free \subseteq Pkgs
    /\ Deletable \subseteq Pkgs
    /\ MaxOrders \in Nat /\ MaxSubs \in Nat /\ MaxTickets \in Nat /\ MaxFaults \in Nat
    /\ UpgradePageSize \in Nat \ {0}

VARIABLES
    pkgs,    \* packages present in the catalogue
    order,   \* orders table
    sub,     \* subscriptions table
    ticket,  \* tickets table; every ticket is of type "payment"
    job,     \* what each request in progress has read so far
    faults   \* database calls that failed so far

vars == <<pkgs, order, sub, ticket, job, faults>>

OrderIds  == 1 .. MaxOrders
SubIds    == 1 .. MaxSubs
TicketIds == 1 .. MaxTickets

OrderStatus  == {"absent", "pending", "confirmed", "rejected"}
SubStatus    == {"absent", "active", "upgraded"}
TicketStatus == {"absent", "pending", "in_progress", "resolved", "closed"}

(* "proof" is the row's proof_url being set. "of" and "credit" are history: *)
(* the order a subscription was created for (0 for the trial created with   *)
(* the account) and the subscriptions whose remaining value was added to    *)
(* its bonus days.                                                          *)
OrderRow  == [dev : Devs, pkg : Pkgs, status : OrderStatus, proof : BOOLEAN,
              sub : SubIds \cup {0}]
SubRow    == [dev : Devs, pkg : Pkgs, status : SubStatus,
              of : OrderIds \cup {0}, credit : SUBSET SubIds]
TicketRow == [dev : Devs, status : TicketStatus]

Pcs == {"idle", "writeProof", "openTicket", "writeReply", "writeStatus",
        "findOrder", "findPkg", "findSubs", "endSubs", "createSub", "confirm",
        "findRejected", "reject"}

(* The local variables of a handler: the ticket it works on, the status the *)
(* administrator asked for, the developer, the order it picked, the list of *)
(* subscriptions still to end, those credited, the subscription created.    *)
Job == [pc : Pcs, tk : TicketIds \cup {0}, to : TicketStatus, dev : Devs,
        ord : OrderIds \cup {0}, todo : SUBSET SubIds, credit : SUBSET SubIds,
        made : SubIds \cup {0}]

TypeOK ==
    /\ pkgs \subseteq Pkgs
    /\ order \in [OrderIds -> OrderRow]
    /\ sub \in [SubIds -> SubRow]
    /\ ticket \in [TicketIds -> TicketRow]
    /\ job \in [Jobs -> Job]
    /\ faults \in 0 .. MaxFaults

SomeDev == CHOOSE d \in Devs : TRUE
SomePkg == CHOOSE p \in Pkgs : TRUE

NoOrder  == [dev |-> SomeDev, pkg |-> SomePkg, status |-> "absent",
             proof |-> FALSE, sub |-> 0]
NoSub    == [dev |-> SomeDev, pkg |-> SomePkg, status |-> "absent",
             of |-> 0, credit |-> {}]
NoTicket == [dev |-> SomeDev, status |-> "absent"]
Idle     == [pc |-> "idle", tk |-> 0, to |-> "absent", dev |-> SomeDev,
             ord |-> 0, todo |-> {}, credit |-> {}, made |-> 0]

Orders  == {o \in OrderIds : order[o].status # "absent"}
Subs    == {s \in SubIds : sub[s].status # "absent"}
Tickets == {t \in TicketIds : ticket[t].status # "absent"}

(* The id the next insert gets: ids are handed out without gaps. *)
NextId(ids, used) == {i \in ids : i \notin used /\ \A j \in ids : j < i => j \in used}

PendingOrders(d) == {o \in Orders : order[o].dev = d /\ order[o].status = "pending"}
ActiveSubs(d)    == {s \in Subs : sub[s].dev = d /\ sub[s].status = "active"}

(* The first row of a page sorted by createdAt desc: one id, or none. *)
Newest(S) == {x \in S : \A y \in S : y <= x}

(* findByFilters({developerId, status: 'active'}, 1, 10): the page of the *)
(* newest active subscriptions.                                           *)
ActivePage(d) ==
    {s \in ActiveSubs(d) : Cardinality({x \in ActiveSubs(d) : x > s}) < UpgradePageSize}

-----------------------------------------------------------------------------
(***************************************************************************)
(* Faulty variants of handlers below, each with one plausible bug. They    *)
(* are not part of the specification: each shows that some property would  *)
(* notice the bug.                                                         *)
(***************************************************************************)

(* The status check of submitPaymentProof is missing. *)
ReadProofUnchecked(j, o) ==
    /\ job[j].pc = "idle"
    /\ o \in Orders
    /\ job' = [job EXCEPT ![j] = [Idle EXCEPT !.pc = "writeProof",
                                              !.dev = order[o].dev, !.ord = o]]
    /\ UNCHANGED <<pkgs, order, sub, ticket, faults>>

(* Only subscriptions to the ordered package are looked for. *)
FindSubsOfPackage(j) ==
    /\ job[j].pc = "findSubs"
    /\ job' = [job EXCEPT ![j].pc = "endSubs",
                 ![j].todo = {s \in ActivePage(job[j].dev) :
                                sub[s].pkg = order[job[j].ord].pkg}]
    /\ UNCHANGED <<pkgs, order, sub, ticket, faults>>

(* The old subscription is credited and never ended. *)
EndSubKeepsActive(j) ==
    /\ job[j].pc = "endSubs"
    /\ \E s \in Newest(job[j].todo) :
         job' = [job EXCEPT ![j].todo = @ \ {s}, ![j].credit = @ \cup {s}]
    /\ UNCHANGED <<pkgs, order, sub, ticket, faults>>

(* A status the table does not know is written. *)
EndSubExpired(j) ==
    /\ job[j].pc = "endSubs"
    /\ \E s \in Newest(job[j].todo) :
         /\ sub' = [sub EXCEPT ![s].status = "expired"]
         /\ job' = [job EXCEPT ![j].todo = @ \ {s}]
    /\ UNCHANGED <<pkgs, order, ticket, faults>>

(* The approval returns early when there is no value to carry over. *)
AllEndedNoCredit(j) ==
    /\ job[j].pc = "endSubs"
    /\ job[j].todo = {}
    /\ job' = IF job[j].credit = {} THEN [job EXCEPT ![j] = Idle]
              ELSE [job EXCEPT ![j].pc = "createSub"]
    /\ UNCHANGED <<pkgs, order, sub, ticket, faults>>

(* The order is linked and its status is forgotten. *)
ConfirmLinksOnly(j) ==
    /\ job[j].pc = "confirm"
    /\ order' = [order EXCEPT ![job[j].ord].sub = job[j].made]
    /\ job' = [job EXCEPT ![j] = Idle]
    /\ UNCHANGED <<pkgs, sub, ticket, faults>>

(* The subscription to link is looked up again instead of remembered. *)
ConfirmRereads(j) ==
    /\ job[j].pc = "confirm"
    /\ order' = [order EXCEPT ![job[j].ord].status = "confirmed",
                    ![job[j].ord].sub = IF ActiveSubs(job[j].dev) = {} THEN 0
                                        ELSE CHOOSE s \in ActiveSubs(job[j].dev) : TRUE]
    /\ job' = [job EXCEPT ![j] = Idle]
    /\ UNCHANGED <<pkgs, sub, ticket, faults>>

-----------------------------------------------------------------------------

(* Some accounts were approved while a TRIAL package was active and hold *)
(* one trial subscription; the others hold none.                         *)
TrialRow(d, p) == [NoSub EXCEPT !.dev = d, !.pkg = p, !.status = "active"]

TrialTables ==
    {f \in [SubIds -> {NoSub} \cup {TrialRow(d, p) : d \in Devs, p \in Free}] :
        \A s \in SubIds : f[s] # NoSub =>
            \A x \in SubIds : x < s => f[x] # NoSub /\ f[x].dev # f[s].dev}

Init ==
    /\ pkgs = Pkgs
    /\ order = [o \in OrderIds |-> NoOrder]
    /\ sub \in TrialTables
    /\ ticket = [t \in TicketIds |-> NoTicket]
    /\ job = [j \in Jobs |-> Idle]
    /\ faults = 0

(* The bounds stop a request before it starts, never halfway. *)
RoomForTicket ==
    Cardinality(Tickets) +
      Cardinality({j \in Jobs : job[j].pc \in {"writeProof", "openTicket"}}) < MaxTickets
RoomForSub ==
    Cardinality(Subs) +
      Cardinality({j \in Jobs : job[j].to = "resolved"}) < MaxSubs

(* POST /isv/orders: the package must exist; the row is pending. *)
CreateOrder(d, p) ==
    /\ p \in pkgs
    /\ \E o \in NextId(OrderIds, Orders) :
         order' = [order EXCEPT ![o] = [NoOrder EXCEPT !.dev = d, !.pkg = p,
                                                       !.status = "pending"]]
    /\ UNCHANGED <<pkgs, sub, ticket, job, faults>>

(* DELETE /admin/packages/:id: the foreign key of subscriptions refuses a *)
(* package in use; orders carry no foreign key to it.                     *)
DeletePackage(p) ==
    /\ p \in pkgs \cap Deletable
    /\ \A s \in Subs : sub[s].pkg # p
    /\ pkgs' = pkgs \ {p}
    /\ UNCHANGED <<order, sub, ticket, job, faults>>

(* submitPaymentProof: the order is read and must be the caller's and pending. *)
ReadProof(j, o) ==
    /\ job[j].pc = "idle"
    /\ o \in Orders /\ order[o].status = "pending"
    /\ RoomForTicket
    /\ job' = [job EXCEPT ![j] = [Idle EXCEPT !.pc = "writeProof",
                                              !.dev = order[o].dev, !.ord = o]]
    /\ UNCHANGED <<pkgs, order, sub, ticket, faults>>

(* The proof and the status 'pending' are written whatever the row holds now. *)
WriteProof(j) ==
    /\ job[j].pc = "writeProof"
    /\ order' = [order EXCEPT ![job[j].ord].proof = TRUE,
                              ![job[j].ord].status = "pending"]
    /\ job' = [job EXCEPT ![j].pc = "openTicket"]
    /\ UNCHANGED <<pkgs, sub, ticket, faults>>

(* The review ticket names its developer; the order is only in its prose. *)
OpenTicket(j) ==
    /\ job[j].pc = "openTicket"
    /\ \E t \in NextId(TicketIds, Tickets) :
         ticket' = [ticket EXCEPT ![t] = [dev |-> job[j].dev, status |-> "pending"]]
    /\ job' = [job EXCEPT ![j] = Idle]
    /\ UNCHANGED <<pkgs, order, sub, faults>>

(* addTicketReply: the reply is stored; only a ticket read as pending is *)
(* then moved to in_progress.                                            *)
ReadReply(j, t) ==
    /\ job[j].pc = "idle"
    /\ t \in Tickets /\ ticket[t].status = "pending"
    /\ job' = [job EXCEPT ![j] = [Idle EXCEPT !.pc = "writeReply", !.tk = t]]
    /\ UNCHANGED <<pkgs, order, sub, ticket, faults>>

WriteReply(j) ==
    /\ job[j].pc = "writeReply"
    /\ ticket' = [ticket EXCEPT ![job[j].tk].status = "in_progress"]
    /\ job' = [job EXCEPT ![j] = Idle]
    /\ UNCHANGED <<pkgs, order, sub, faults>>

(* updateTicketStatus: any status may follow any other. *)
ReadTicket(j, t, s) ==
    /\ job[j].pc = "idle"
    /\ t \in Tickets
    /\ s = "resolved" => RoomForSub
    /\ job' = [job EXCEPT ![j] = [Idle EXCEPT !.pc = "writeStatus", !.tk = t,
                                              !.to = s, !.dev = ticket[t].dev]]
    /\ UNCHANGED <<pkgs, order, sub, ticket, faults>>

(* handlePaymentTicket: resolved approves the payment, closed rejects it. *)
WriteStatus(j) ==
    /\ job[j].pc = "writeStatus"
    /\ ticket' = [ticket EXCEPT ![job[j].tk].status = job[j].to]
    /\ job' = CASE job[j].to = "resolved" -> [job EXCEPT ![j].pc = "findOrder"]
                [] job[j].to = "closed"   -> [job EXCEPT ![j].pc = "findRejected"]
                [] OTHER                  -> [job EXCEPT ![j] = Idle]
    /\ UNCHANGED <<pkgs, order, sub, faults>>

(* processPaymentApproval: the developer's newest pending order, if any. *)
FindOrder(j) ==
    /\ job[j].pc = "findOrder"
    /\ \/ /\ PendingOrders(job[j].dev) = {}
          /\ job' = [job EXCEPT ![j] = Idle]
       \/ \E o \in Newest(PendingOrders(job[j].dev)) :
            job' = [job EXCEPT ![j].pc = "findPkg", ![j].ord = o]
    /\ UNCHANGED <<pkgs, order, sub, ticket, faults>>

FindPkg(j) ==
    /\ job[j].pc = "findPkg"
    /\ job' = IF order[job[j].ord].pkg \in pkgs
                THEN [job EXCEPT ![j].pc = "findSubs"] ELSE [job EXCEPT ![j] = Idle]
    /\ UNCHANGED <<pkgs, order, sub, ticket, faults>>

FindSubs(j) ==
    /\ job[j].pc = "findSubs"
    /\ job' = [job EXCEPT ![j].pc = "endSubs", ![j].todo = ActivePage(job[j].dev)]
    /\ UNCHANGED <<pkgs, order, sub, ticket, faults>>

(* A subscription is credited when neither package is free; a row whose *)
(* package is gone is skipped.                                          *)
Credits(s, p) == IF sub[s].pkg \notin Free /\ p \notin Free THEN {s} ELSE {}

EndSub(j) ==
    /\ job[j].pc = "endSubs"
    /\ \E s \in Newest(job[j].todo) :
         LET known == sub[s].pkg \in pkgs
         IN  /\ sub' = IF known THEN [sub EXCEPT ![s].status = "upgraded"] ELSE sub
             /\ job' = [job EXCEPT ![j].todo = @ \ {s},
                          ![j].credit = IF known THEN @ \cup Credits(s, order[job[j].ord].pkg)
                                        ELSE @]
    /\ UNCHANGED <<pkgs, order, ticket, faults>>

AllEnded(j) ==
    /\ job[j].pc = "endSubs"
    /\ job[j].todo = {}
    /\ job' = [job EXCEPT ![j].pc = "createSub"]
    /\ UNCHANGED <<pkgs, order, sub, ticket, faults>>

(* The insert fails on its foreign key when the package has been deleted *)
(* since it was read; handleTicketBusinessLogic swallows the error.      *)
CreateSub(j) ==
    /\ job[j].pc = "createSub"
    /\ LET p == order[job[j].ord].pkg
       IN  \/ /\ p \in pkgs
              /\ \E s \in NextId(SubIds, Subs) :
                   /\ sub' = [sub EXCEPT ![s] =
                                [dev |-> job[j].dev, pkg |-> p, status |-> "active",
                                 of |-> job[j].ord, credit |-> job[j].credit]]
                   /\ job' = [job EXCEPT ![j].pc = "confirm", ![j].made = s]
           \/ /\ p \notin pkgs
              /\ job' = [job EXCEPT ![j] = Idle]
              /\ UNCHANGED sub
    /\ UNCHANGED <<pkgs, order, ticket, faults>>

Confirm(j) ==
    /\ job[j].pc = "confirm"
    /\ order' = [order EXCEPT ![job[j].ord].status = "confirmed",
                              ![job[j].ord].sub = job[j].made]
    /\ job' = [job EXCEPT ![j] = Idle]
    /\ UNCHANGED <<pkgs, sub, ticket, faults>>

(* processPaymentRejection: the newest pending order, if any, is rejected. *)
FindRejected(j) ==
    /\ job[j].pc = "findRejected"
    /\ \/ /\ PendingOrders(job[j].dev) = {}
          /\ job' = [job EXCEPT ![j] = Idle]
       \/ \E o \in Newest(PendingOrders(job[j].dev)) :
            job' = [job EXCEPT ![j].pc = "reject", ![j].ord = o]
    /\ UNCHANGED <<pkgs, order, sub, ticket, faults>>

Reject(j) ==
    /\ job[j].pc = "reject"
    /\ order' = [order EXCEPT ![job[j].ord].status = "rejected"]
    /\ job' = [job EXCEPT ![j] = Idle]
    /\ UNCHANGED <<pkgs, sub, ticket, faults>>

(* A database call of the handler fails, or the process serving it stops: *)
(* the rest of the handler never runs and nothing is undone.              *)
Fail(j) ==
    /\ job[j].pc # "idle"
    /\ faults < MaxFaults
    /\ faults' = faults + 1
    /\ job' = [job EXCEPT ![j] = Idle]
    /\ UNCHANGED <<pkgs, order, sub, ticket>>

(* The steps a request in progress takes by itself. *)
Step(j) ==
    \/ WriteProof(j) \/ OpenTicket(j) \/ WriteReply(j) \/ WriteStatus(j)
    \/ FindOrder(j) \/ FindPkg(j) \/ FindSubs(j) \/ EndSub(j) \/ AllEnded(j)
    \/ CreateSub(j) \/ Confirm(j) \/ FindRejected(j) \/ Reject(j)

Next ==
    \/ \E d \in Devs, p \in Pkgs : CreateOrder(d, p)
    \/ \E p \in Pkgs : DeletePackage(p)
    \/ \E j \in Jobs, o \in OrderIds : ReadProof(j, o)
    \/ \E j \in Jobs, t \in TicketIds : ReadReply(j, t)
    \/ \E j \in Jobs, t \in TicketIds, s \in TicketStatus \ {"absent"} : ReadTicket(j, t, s)
    \/ \E j \in Jobs : Step(j)
    \/ \E j \in Jobs : Fail(j)

Spec == Init /\ [][Next]_vars

(* Node's event loop runs every continuation whose database call returned, *)
(* and the driver answers or rejects every call.                           *)
FairSpec == Spec /\ \A j \in Jobs : WF_vars(Step(j))
-----------------------------------------------------------------------------
(***************************************************************************)
(* Properties that hold however requests interleave and fail.              *)
(***************************************************************************)

(* A confirmed order is linked to a subscription, and an order is only ever *)
(* linked to a subscription created for it, of its developer and package;   *)
(* so no two orders share one (subscription-upgrade.service.ts:89-103).     *)
OrderOwnsItsSubscription ==
    \A o \in Orders :
        /\ order[o].status = "confirmed" => order[o].sub # 0
        /\ order[o].sub # 0 =>
              LET s == sub[order[o].sub]
              IN  s.status # "absent" /\ s.of = o /\ s.dev = order[o].dev /\ s.pkg = order[o].pkg

(***************************************************************************)
(* Properties that hold while no database call fails and no ordered        *)
(* package is deleted (MaxFaults = 0, Deletable = {}), however requests    *)
(* interleave.                                                             *)
(***************************************************************************)

(* A developer who ever had a subscription has an active one, except while  *)
(* an approval that ended the old one is about to create the new one: no    *)
(* interleaving of approvals makes each end what the other created.         *)
NoCoverageGap ==
    \A d \in Devs :
        (\E s \in Subs : sub[s].dev = d)
          => \/ ActiveSubs(d) # {}
             \/ \E j \in Jobs : job[j].dev = d /\ job[j].pc \in {"endSubs", "createSub"}

(* The order an approval picked becomes confirmed. *)
ApprovalConfirmsItsOrder ==
    \A o \in OrderIds :
        (\E j \in Jobs : job[j].pc = "findPkg" /\ job[j].ord = o)
          ~> order[o].status = "confirmed"

(***************************************************************************)
(* Properties that hold when requests are served one at a time (one job),  *)
(* whatever calls fail.                                                    *)
(***************************************************************************)

(* A developer never holds two active subscriptions. *)
AtMostOneActive ==
    \A d \in Devs : \A s1, s2 \in ActiveSubs(d) : s1 = s2

(* The remaining value of a subscription is turned into bonus days of at    *)
(* most one later subscription, even when an approval fails halfway and the *)
(* ticket is resolved again.                                                *)
CreditedOnce ==
    \A s1, s2 \in Subs : s1 # s2 => sub[s1].credit \cap sub[s2].credit = {}

(* An order is granted a second subscription only when a database call      *)
(* failed: each further grant needs one more failed confirmation.           *)
ExtraGrantsNeedFaults ==
    \A o \in Orders : Cardinality({s \in Subs : sub[s].of = o}) <= 1 + faults

(* An order that was confirmed or rejected never changes its status again.  *)
DecisionIsFinal ==
    [][\A o \in OrderIds : order[o].status \in {"confirmed", "rejected"}
                             => order'[o].status = order[o].status]_vars

(***************************************************************************)
(* Statements of comments of the code that its behaviour contradicts.      *)
(***************************************************************************)

(* "When resolved: approve payment" (ticket.controller.ts:237): an order    *)
(* that is confirmed is one for which a payment proof was submitted.        *)
ApprovedWasPaid ==
    \A o \in Orders : order[o].status = "confirmed" => order[o].proof
=============================================================================
