--------------------------- MODULE BillingProofs ---------------------------
(***************************************************************************)
(* Theorems about Billing, for any number of developers, packages,         *)
(* requests in progress, rows and failing calls.                           *)
(***************************************************************************)
EXTENDS BillingRefinement, FiniteSetTheorems, TLAPS

(* Rows a table starts with are rows of that table. *)
LEMMA DefaultRows ==
    /\ NoOrder \in OrderRow
    /\ NoSub \in SubRow
    /\ NoTicket \in TicketRow
    /\ Idle \in Job
  <1>1. SomeDev \in Devs /\ SomePkg \in Pkgs
    BY ConstAssumption DEF SomeDev, SomePkg
  <1>2. QED
    BY <1>1 DEF NoOrder, OrderRow, OrderStatus, NoSub, SubRow, SubStatus,
                NoTicket, TicketRow, TicketStatus, Idle, Job, Pcs

LEMMA InitTypeOK == Init => TypeOK
  <1> SUFFICES ASSUME Init PROVE TypeOK
    OBVIOUS
  <1>1. sub \in [SubIds -> SubRow]
    <2>1. ASSUME NEW d \in Devs, NEW p \in Free PROVE TrialRow(d, p) \in SubRow
      BY DefaultRows, ConstAssumption DEF TrialRow, SubRow, SubStatus
    <2>2. QED
      BY <2>1, DefaultRows DEF Init, TrialTables
  <1>2. QED
    BY <1>1, DefaultRows, ConstAssumption DEF Init, TypeOK

(* One action at a time, the tables and the jobs keep their shape. *)
LEMMA NextTypeOK == TypeOK /\ [Next]_vars => TypeOK'
  <1> SUFFICES ASSUME TypeOK, [Next]_vars PROVE TypeOK'
    OBVIOUS
  <1> USE DefaultRows, ConstAssumption
  <1>1. ASSUME NEW d \in Devs, NEW p \in Pkgs, CreateOrder(d, p) PROVE TypeOK'
    <2>1. PICK o \in OrderIds :
            order' = [order EXCEPT ![o] = [NoOrder EXCEPT !.dev = d, !.pkg = p,
                                                          !.status = "pending"]]
      BY <1>1 DEF CreateOrder, NextId
    <2>2. [NoOrder EXCEPT !.dev = d, !.pkg = p, !.status = "pending"] \in OrderRow
      BY DEF OrderRow, OrderStatus
    <2>3. QED
      BY <1>1, <2>1, <2>2 DEF CreateOrder, TypeOK
  <1>2. ASSUME NEW p \in Pkgs, DeletePackage(p) PROVE TypeOK'
    BY <1>2 DEF DeletePackage, TypeOK
  <1>3. ASSUME NEW j \in Jobs, NEW o \in OrderIds, ReadProof(j, o) PROVE TypeOK'
    BY <1>3 DEF ReadProof, TypeOK, Job, Pcs, OrderRow
  <1>4. ASSUME NEW j \in Jobs, NEW t \in TicketIds, ReadReply(j, t) PROVE TypeOK'
    BY <1>4 DEF ReadReply, TypeOK, Job, Pcs
  <1>5. ASSUME NEW j \in Jobs, NEW t \in TicketIds, NEW s \in TicketStatus \ {"absent"},
               ReadTicket(j, t, s)
        PROVE TypeOK'
    BY <1>5 DEF ReadTicket, TypeOK, Job, Pcs, TicketRow
  <1>6. ASSUME NEW j \in Jobs, Step(j) PROVE TypeOK'
    <2>1. CASE WriteProof(j)
      BY <2>1 DEF WriteProof, TypeOK, Job, Pcs, OrderRow, OrderStatus
    <2>2. CASE OpenTicket(j)
      BY <2>2 DEF OpenTicket, TypeOK, Job, TicketRow, TicketStatus, NextId
    <2>3. CASE WriteReply(j)
      BY <2>3 DEF WriteReply, TypeOK, Job, TicketRow, TicketStatus
    <2>4. CASE WriteStatus(j)
      BY <2>4 DEF WriteStatus, TypeOK, Job, Pcs, TicketRow, TicketStatus
    <2>5. CASE FindOrder(j)
      <3>1. CASE job' = [job EXCEPT ![j] = Idle]
        BY <2>5, <3>1 DEF FindOrder, TypeOK
      <3>2. ASSUME NEW o \in OrderIds,
                   job' = [job EXCEPT ![j].pc = "findPkg", ![j].ord = o]
            PROVE TypeOK'
        BY <2>5, <3>2 DEF FindOrder, TypeOK, Job, Pcs
      <3>3. QED
        BY <2>5, <3>1, <3>2 DEF FindOrder, Newest, PendingOrders, Orders
    <2>6. CASE FindPkg(j)
      BY <2>6 DEF FindPkg, TypeOK, Job, Pcs
    <2>7. CASE FindSubs(j)
      BY <2>7 DEF FindSubs, TypeOK, Job, Pcs, ActivePage, ActiveSubs, Subs
    <2>8. CASE EndSub(j)
      <3>1. PICK s \in Newest(job[j].todo) :
              LET known == sub[s].pkg \in pkgs
              IN  /\ sub' = IF known THEN [sub EXCEPT ![s].status = "upgraded"] ELSE sub
                  /\ job' = [job EXCEPT ![j].todo = @ \ {s},
                       ![j].credit = IF known THEN @ \cup Credits(s, order[job[j].ord].pkg)
                                     ELSE @]
        BY <2>8 DEF EndSub
      <3>2. s \in SubIds
        BY <3>1 DEF Newest, TypeOK, Job
      <3>3. sub' \in [SubIds -> SubRow]
        BY <3>1, <3>2 DEF TypeOK, SubRow, SubStatus
      <3>4. Credits(s, order[job[j].ord].pkg) \subseteq SubIds
        BY <3>2 DEF Credits
      <3>5. job' \in [Jobs -> Job]
        BY <3>1, <3>2, <3>4 DEF TypeOK, Job
      <3>6. QED
        BY <2>8, <3>3, <3>5 DEF EndSub, TypeOK
    <2>9. CASE AllEnded(j)
      BY <2>9 DEF AllEnded, TypeOK, Job, Pcs
    <2>10. CASE CreateSub(j)
      <3>1. CASE job' = [job EXCEPT ![j] = Idle] /\ UNCHANGED sub
        BY <2>10, <3>1 DEF CreateSub, TypeOK
      <3>2. ASSUME NEW s \in SubIds, order[job[j].ord].pkg \in pkgs,
                   sub' = [sub EXCEPT ![s] =
                             [dev |-> job[j].dev, pkg |-> order[job[j].ord].pkg,
                              status |-> "active", of |-> job[j].ord,
                              credit |-> job[j].credit]],
                   job' = [job EXCEPT ![j].pc = "confirm", ![j].made = s]
            PROVE TypeOK'
        <4>1. sub' \in [SubIds -> SubRow]
          BY <3>2 DEF TypeOK, Job, SubRow, SubStatus
        <4>2. job' \in [Jobs -> Job]
          BY <3>2 DEF TypeOK, Job, Pcs
        <4>3. QED
          BY <2>10, <4>1, <4>2 DEF CreateSub, TypeOK
      <3>3. QED
        BY <2>10, <3>1, <3>2 DEF CreateSub, NextId
    <2>11. CASE Confirm(j)
      BY <2>11 DEF Confirm, TypeOK, Job, OrderRow, OrderStatus
    <2>12. CASE FindRejected(j)
      <3>1. CASE job' = [job EXCEPT ![j] = Idle]
        BY <2>12, <3>1 DEF FindRejected, TypeOK
      <3>2. ASSUME NEW o \in OrderIds,
                   job' = [job EXCEPT ![j].pc = "reject", ![j].ord = o]
            PROVE TypeOK'
        BY <2>12, <3>2 DEF FindRejected, TypeOK, Job, Pcs
      <3>3. QED
        BY <2>12, <3>1, <3>2 DEF FindRejected, Newest, PendingOrders, Orders
    <2>13. CASE Reject(j)
      BY <2>13 DEF Reject, TypeOK, OrderRow, OrderStatus
    <2>14. QED
      BY <1>6, <2>1, <2>2, <2>3, <2>4, <2>5, <2>6, <2>7, <2>8, <2>9, <2>10, <2>11, <2>12, <2>13
         DEF Step
  <1>7. ASSUME NEW j \in Jobs, Fail(j) PROVE TypeOK'
    BY <1>7 DEF Fail, TypeOK
  <1>8. CASE UNCHANGED vars
    BY <1>8 DEF vars, TypeOK
  <1>9. QED
    BY <1>1, <1>2, <1>3, <1>4, <1>5, <1>6, <1>7, <1>8 DEF Next

(* The tables hold well-formed rows in every reachable state. *)
THEOREM TypeCorrect == Spec => []TypeOK
  <1>1. QED
    BY InitTypeOK, NextTypeOK, PTL DEF Spec
-----------------------------------------------------------------------------
(***************************************************************************)
(* Rows are never deleted and keep what identifies them, and a handler     *)
(* that has picked an order works on an existing order of its developer.   *)
(***************************************************************************)

Approving == {"findPkg", "findSubs", "endSubs", "createSub", "confirm"}

JobsHoldOrders ==
    \A j \in Jobs :
        /\ job[j].pc \in Approving \cup {"writeProof", "reject"} => job[j].ord \in Orders
        /\ job[j].pc \in Approving => order[job[j].ord].dev = job[j].dev

RowsKept ==
    /\ \A o \in Orders : o \in Orders' /\ order'[o].dev = order[o].dev
                                       /\ order'[o].pkg = order[o].pkg
    /\ \A s \in Subs : s \in Subs' /\ sub'[s].dev = sub[s].dev
                                   /\ sub'[s].pkg = sub[s].pkg /\ sub'[s].of = sub[s].of

LEMMA NextRowsKept == TypeOK /\ JobsHoldOrders /\ [Next]_vars => RowsKept
  <1> SUFFICES ASSUME TypeOK, JobsHoldOrders, [Next]_vars PROVE RowsKept
    OBVIOUS
  <1>1. CASE UNCHANGED <<order, sub>>
    BY <1>1 DEF RowsKept, Orders, Subs
  <1>2. ASSUME NEW d \in Devs, NEW p \in Pkgs, CreateOrder(d, p) PROVE RowsKept
    BY <1>2 DEF CreateOrder, NextId, RowsKept, Orders, Subs, TypeOK
  <1>3. ASSUME NEW j \in Jobs, WriteProof(j) PROVE RowsKept
    BY <1>3 DEF WriteProof, RowsKept, Orders, Subs, TypeOK, OrderRow
  <1>4. ASSUME NEW j \in Jobs, EndSub(j) PROVE RowsKept
    <2>1. PICK s \in Newest(job[j].todo) :
            sub' = IF sub[s].pkg \in pkgs THEN [sub EXCEPT ![s].status = "upgraded"] ELSE sub
      BY <1>4 DEF EndSub
    <2>2. QED
      BY <1>4, <2>1 DEF EndSub, RowsKept, Orders, Subs, TypeOK, SubRow
  <1>5. ASSUME NEW j \in Jobs, CreateSub(j) PROVE RowsKept
    <2>1. CASE UNCHANGED sub
      BY <1>5, <2>1 DEF CreateSub, RowsKept, Orders, Subs
    <2>2. ASSUME NEW s \in NextId(SubIds, Subs), NEW r, sub' = [sub EXCEPT ![s] = r]
          PROVE RowsKept
      BY <1>5, <2>2 DEF CreateSub, NextId, RowsKept, Orders, Subs, TypeOK
    <2>3. QED
      BY <1>5, <2>1, <2>2 DEF CreateSub
  <1>6. ASSUME NEW j \in Jobs, Confirm(j) PROVE RowsKept
    BY <1>6 DEF Confirm, RowsKept, Orders, Subs, TypeOK, OrderRow
  <1>7. ASSUME NEW j \in Jobs, Reject(j) PROVE RowsKept
    BY <1>7 DEF Reject, RowsKept, Orders, Subs, TypeOK, OrderRow
  <1>8. ASSUME NEW j \in Jobs, Step(j) PROVE RowsKept
    BY <1>1, <1>3, <1>4, <1>5, <1>6, <1>7, <1>8
       DEF Step, OpenTicket, WriteReply, WriteStatus, FindOrder, FindPkg, FindSubs,
           AllEnded, FindRejected
  <1>9. QED
    BY <1>1, <1>2, <1>8
       DEF Next, vars, DeletePackage, ReadProof, ReadReply, ReadTicket, Fail

(* Only a job's own step, or its start, changes what it holds. *)
LEMMA NextJobsHoldOrders == TypeOK /\ JobsHoldOrders /\ [Next]_vars => JobsHoldOrders'
  <1> SUFFICES ASSUME TypeOK, JobsHoldOrders, [Next]_vars, RowsKept,
                      NEW k \in Jobs
               PROVE  /\ job'[k].pc \in Approving \cup {"writeProof", "reject"}
                            => job'[k].ord \in Orders'
                      /\ job'[k].pc \in Approving => order'[job'[k].ord].dev = job'[k].dev
    BY NextRowsKept DEF JobsHoldOrders
  <1> USE DEF Approving
  <1>1. CASE job'[k] = job[k]
    BY <1>1 DEF JobsHoldOrders, RowsKept
  <1>2. CASE job'[k].pc \notin Approving \cup {"writeProof", "reject"}
    BY <1>2
  <1>3. CASE /\ job[k].pc \in Approving /\ job'[k].ord = job[k].ord
             /\ job'[k].dev = job[k].dev
    BY <1>3 DEF JobsHoldOrders, RowsKept
  <1>4. ASSUME NEW j \in Jobs, NEW o \in OrderIds, ReadProof(j, o)
        PROVE  job'[k] = job[k] \/ (job'[k].pc = "writeProof" /\ job'[k].ord \in Orders')
    BY <1>4 DEF ReadProof, TypeOK, RowsKept, Idle
  <1>5. ASSUME NEW j \in Jobs, FindOrder(j)
        PROVE  \/ job'[k] = job[k] \/ job'[k].pc = "idle"
               \/ job'[k].ord \in Orders' /\ order'[job'[k].ord].dev = job'[k].dev
    <2>1. CASE job' = [job EXCEPT ![j] = Idle]
      BY <2>1 DEF TypeOK, Idle
    <2>2. ASSUME NEW o \in PendingOrders(job[j].dev),
                 job' = [job EXCEPT ![j].pc = "findPkg", ![j].ord = o]
          PROVE  \/ job'[k] = job[k]
                 \/ job'[k].ord \in Orders' /\ order'[job'[k].ord].dev = job'[k].dev
      BY <2>2 DEF TypeOK, Job, PendingOrders, RowsKept
    <2>3. QED
      BY <1>5, <2>1, <2>2 DEF FindOrder, Newest
  <1>6. ASSUME NEW j \in Jobs, FindRejected(j)
        PROVE  \/ job'[k] = job[k] \/ job'[k].pc = "idle"
               \/ job'[k].pc = "reject" /\ job'[k].ord \in Orders'
    <2>1. CASE job' = [job EXCEPT ![j] = Idle]
      BY <2>1 DEF TypeOK, Idle
    <2>2. ASSUME NEW o \in PendingOrders(job[j].dev),
                 job' = [job EXCEPT ![j].pc = "reject", ![j].ord = o]
          PROVE  \/ job'[k] = job[k] \/ (job'[k].pc = "reject" /\ job'[k].ord \in Orders')
      BY <2>2 DEF TypeOK, Job, PendingOrders, RowsKept
    <2>3. QED
      BY <1>6, <2>1, <2>2 DEF FindRejected, Newest
  <1>7. ASSUME NEW j \in Jobs, FindPkg(j) \/ FindSubs(j) \/ EndSub(j) \/ AllEnded(j)
        PROVE  \/ job'[k] = job[k] \/ job'[k].pc = "idle"
               \/ /\ job[k].pc \in Approving /\ job'[k].ord = job[k].ord
                  /\ job'[k].dev = job[k].dev
    <2>1. CASE FindPkg(j)
      BY <2>1 DEF FindPkg, TypeOK, Job, Idle
    <2>2. CASE FindSubs(j)
      BY <2>2 DEF FindSubs, TypeOK, Job
    <2>3. CASE EndSub(j)
      BY <2>3 DEF EndSub, TypeOK, Job
    <2>4. CASE AllEnded(j)
      BY <2>4 DEF AllEnded, TypeOK, Job
    <2>5. QED
      BY <1>7, <2>1, <2>2, <2>3, <2>4
  <1>8. ASSUME NEW j \in Jobs, CreateSub(j)
        PROVE  \/ job'[k] = job[k] \/ job'[k].pc = "idle"
               \/ /\ job[k].pc \in Approving /\ job'[k].ord = job[k].ord
                  /\ job'[k].dev = job[k].dev
    BY <1>8 DEF CreateSub, TypeOK, Job, Idle
  <1>9. ASSUME NEW j \in Jobs,
               \/ WriteProof(j) \/ OpenTicket(j) \/ WriteReply(j) \/ WriteStatus(j)
               \/ Confirm(j) \/ Reject(j) \/ Fail(j)
        PROVE  job'[k] = job[k] \/ job'[k].pc \notin Approving \cup {"writeProof", "reject"}
    BY <1>9 DEF WriteProof, OpenTicket, WriteReply, WriteStatus, Confirm, Reject, Fail,
                TypeOK, Job, Idle
  <1>10. ASSUME NEW j \in Jobs, NEW t \in TicketIds, NEW s,
                ReadReply(j, t) \/ ReadTicket(j, t, s)
         PROVE  job'[k] = job[k] \/ job'[k].pc \notin Approving \cup {"writeProof", "reject"}
    BY <1>10 DEF ReadReply, ReadTicket, TypeOK, Idle
  <1>11. ASSUME NEW j \in Jobs, Step(j) PROVE
            \/ job'[k] = job[k]
            \/ job'[k].pc \notin Approving \cup {"writeProof", "reject"}
            \/ job[k].pc \in Approving /\ job'[k].ord = job[k].ord /\ job'[k].dev = job[k].dev
            \/ job'[k].pc = "reject" /\ job'[k].ord \in Orders'
            \/ job'[k].ord \in Orders' /\ order'[job'[k].ord].dev = job'[k].dev
    BY <1>5, <1>6, <1>7, <1>8, <1>9, <1>11 DEF Step
  <1>12. QED
    BY <1>1, <1>2, <1>3, <1>4, <1>9, <1>10, <1>11
       DEF Next, vars, CreateOrder, DeletePackage
-----------------------------------------------------------------------------
(***************************************************************************)
(* An order owns its subscription. The property is not inductive: Confirm  *)
(* writes the link from what the job remembers, so what the job remembers  *)
(* between the insert and the confirmation has to be part of the invariant. *)
(***************************************************************************)

MadeForOrder ==
    \A j \in Jobs : job[j].pc = "confirm" =>
        /\ job[j].made \in Subs
        /\ sub[job[j].made].of = job[j].ord
        /\ sub[job[j].made].dev = order[job[j].ord].dev
        /\ sub[job[j].made].pkg = order[job[j].ord].pkg

OwnInv == TypeOK /\ JobsHoldOrders /\ MadeForOrder /\ OrderOwnsItsSubscription

LEMMA NextMadeForOrder == OwnInv /\ [Next]_vars => MadeForOrder'
  <1> SUFFICES ASSUME OwnInv, [Next]_vars, RowsKept, NEW k \in Jobs, job'[k].pc = "confirm"
               PROVE  /\ job'[k].made \in Subs'
                      /\ sub'[job'[k].made].of = job'[k].ord
                      /\ sub'[job'[k].made].dev = order'[job'[k].ord].dev
                      /\ sub'[job'[k].made].pkg = order'[job'[k].ord].pkg
    BY NextRowsKept DEF MadeForOrder, OwnInv
  <1>1. CASE job'[k] = job[k]
    BY <1>1 DEF OwnInv, MadeForOrder, JobsHoldOrders, Approving, RowsKept
  <1>2. ASSUME NEW j \in Jobs, CreateSub(j), job'[k] # job[k]
        PROVE  /\ job'[k].made \in Subs'
               /\ sub'[job'[k].made].of = job'[k].ord
               /\ sub'[job'[k].made].dev = order'[job'[k].ord].dev
               /\ sub'[job'[k].made].pkg = order'[job'[k].ord].pkg
    <2>1. job' # [job EXCEPT ![j] = Idle]
      BY <1>2 DEF OwnInv, TypeOK, Idle
    <2>2. PICK s \in SubIds :
            /\ sub' = [sub EXCEPT ![s] =
                         [dev |-> job[j].dev, pkg |-> order[job[j].ord].pkg,
                          status |-> "active", of |-> job[j].ord, credit |-> job[j].credit]]
            /\ job' = [job EXCEPT ![j].pc = "confirm", ![j].made = s]
      BY <1>2, <2>1 DEF CreateSub, NextId
    <2>3. k = j /\ job'[j].made = s /\ job'[j].ord = job[j].ord
      BY <1>2, <2>2 DEF OwnInv, TypeOK, Job
    <2>4. /\ sub'[s].status = "active" /\ sub'[s].of = job[j].ord
          /\ sub'[s].dev = job[j].dev /\ sub'[s].pkg = order[job[j].ord].pkg
      BY <2>2 DEF OwnInv, TypeOK
    <2>5. order[job[j].ord].dev = job[j].dev /\ order' = order
      BY <1>2 DEF CreateSub, OwnInv, JobsHoldOrders, Approving
    <2>6. QED
      BY <2>3, <2>4, <2>5 DEF Subs
  <1>3. ASSUME NEW j \in Jobs,
               \/ WriteProof(j) \/ OpenTicket(j) \/ WriteReply(j) \/ WriteStatus(j)
               \/ FindPkg(j) \/ FindSubs(j) \/ AllEnded(j)
               \/ Confirm(j) \/ Reject(j) \/ Fail(j)
        PROVE  job'[k] = job[k]
    BY <1>3 DEF WriteProof, OpenTicket, WriteReply, WriteStatus, FindPkg, FindSubs, AllEnded,
                Confirm, Reject, Fail, OwnInv, TypeOK, Job, Idle
  <1>4. ASSUME NEW j \in Jobs, EndSub(j) PROVE job'[k] = job[k]
    BY <1>4 DEF EndSub, OwnInv, TypeOK, Job
  <1>5. ASSUME NEW j \in Jobs, FindOrder(j) \/ FindRejected(j) PROVE job'[k] = job[k]
    <2>1. ASSUME NEW o, NEW c \in {"findPkg", "reject"},
                 job' = [job EXCEPT ![j].pc = c, ![j].ord = o]
          PROVE  job'[k] = job[k]
      BY <2>1 DEF OwnInv, TypeOK, Job
    <2>2. CASE job' = [job EXCEPT ![j] = Idle]
      BY <2>2 DEF OwnInv, TypeOK, Idle
    <2>3. QED
      BY <1>5, <2>1, <2>2 DEF FindOrder, FindRejected
  <1>6. ASSUME NEW j \in Jobs, NEW x, NEW s,
               ReadProof(j, x) \/ ReadReply(j, x) \/ ReadTicket(j, x, s)
        PROVE  job'[k] = job[k]
    BY <1>6 DEF ReadProof, ReadReply, ReadTicket, OwnInv, TypeOK, Idle
  <1>7. QED
    BY <1>1, <1>2, <1>3, <1>4, <1>5, <1>6
       DEF Next, vars, Step, CreateOrder, DeletePackage

LEMMA NextOrderOwns == OwnInv /\ [Next]_vars => OrderOwnsItsSubscription'
  <1> SUFFICES ASSUME OwnInv, [Next]_vars, RowsKept, NEW o \in Orders'
               PROVE  /\ order'[o].status = "confirmed" => order'[o].sub # 0
                      /\ order'[o].sub # 0 =>
                           /\ order'[o].sub \in Subs'
                           /\ sub'[order'[o].sub].of = o
                           /\ sub'[order'[o].sub].dev = order'[o].dev
                           /\ sub'[order'[o].sub].pkg = order'[o].pkg
    BY NextRowsKept DEF OrderOwnsItsSubscription, OwnInv, Subs
  <1>0. o \in OrderIds
    BY DEF Orders
  <1>1. CASE /\ o \in Orders /\ order'[o].sub = order[o].sub
             /\ order'[o].status = "confirmed" => order[o].status = "confirmed"
    <2>1. order[o].sub # 0 => order[o].sub \in Subs
      BY <1>0, <1>1 DEF OwnInv, TypeOK, OrderRow, OrderOwnsItsSubscription, Subs
    <2>2. QED
      BY <1>1, <2>1 DEF OwnInv, OrderOwnsItsSubscription, RowsKept
  <1>2. CASE UNCHANGED order
    BY <1>1, <1>2 DEF Orders
  <1>3. ASSUME NEW d \in Devs, NEW p \in Pkgs, CreateOrder(d, p), o \notin Orders
        PROVE  order'[o].sub = 0 /\ order'[o].status # "confirmed"
    BY <1>0, <1>3 DEF CreateOrder, NextId, OwnInv, TypeOK, Orders, NoOrder
  <1>4. ASSUME NEW d \in Devs, NEW p \in Pkgs, CreateOrder(d, p), o \in Orders
        PROVE  order'[o] = order[o]
    BY <1>0, <1>4 DEF CreateOrder, NextId, OwnInv, TypeOK
  <1>5. ASSUME NEW j \in Jobs, WriteProof(j) \/ Reject(j)
        PROVE  o \in Orders /\ order'[o].sub = order[o].sub
               /\ (order'[o].status = "confirmed" => order[o].status = "confirmed")
    BY <1>0, <1>5 DEF WriteProof, Reject, OwnInv, TypeOK, OrderRow, Orders, JobsHoldOrders
  <1>6. ASSUME NEW j \in Jobs, Confirm(j)
        PROVE  \/ o \in Orders /\ order'[o] = order[o]
               \/ /\ order'[o].sub \in Subs'
                  /\ sub'[order'[o].sub].of = o
                  /\ sub'[order'[o].sub].dev = order'[o].dev
                  /\ sub'[order'[o].sub].pkg = order'[o].pkg
    <2>1. CASE o # job[j].ord
      BY <1>0, <1>6, <2>1 DEF Confirm, OwnInv, TypeOK, Orders
    <2>2. CASE o = job[j].ord
      <3>1. order'[o].sub = job[j].made /\ order'[o].dev = order[o].dev
            /\ order'[o].pkg = order[o].pkg /\ sub' = sub
        BY <1>0, <1>6, <2>2 DEF Confirm, OwnInv, TypeOK, OrderRow
      <3>2. QED
        BY <1>6, <2>2, <3>1 DEF Confirm, OwnInv, MadeForOrder, Subs
    <2>3. QED
      BY <2>1, <2>2
  <1>7. 0 \notin Subs'
    BY ConstAssumption DEF Subs, SubIds
  <1>8. QED
    BY <1>1, <1>2, <1>3, <1>4, <1>5, <1>6, <1>7
       DEF Next, vars, Step, DeletePackage, ReadProof, ReadReply, ReadTicket, Fail,
           OpenTicket, WriteReply, WriteStatus, FindOrder, FindPkg, FindSubs, EndSub,
           AllEnded, CreateSub, FindRejected

(* However approvals, rejections and proof submissions interleave and fail, *)
(* a confirmed order is linked to a subscription of its own, for its        *)
(* developer and package (subscription-upgrade.service.ts:89-103).          *)
THEOREM OrderOwnership == Spec => []OrderOwnsItsSubscription
  <1>1. Init => OwnInv
    BY InitTypeOK DEF Init, OwnInv, JobsHoldOrders, MadeForOrder, OrderOwnsItsSubscription,
                      Orders, NoOrder, Idle, Approving
  <1>2. OwnInv /\ [Next]_vars => OwnInv'
    BY NextTypeOK, NextJobsHoldOrders, NextMadeForOrder, NextOrderOwns DEF OwnInv
  <1>3. OwnInv => OrderOwnsItsSubscription
    BY DEF OwnInv
  <1>4. QED
    BY <1>1, <1>2, <1>3, PTL DEF Spec
-----------------------------------------------------------------------------
(***************************************************************************)
(* How the steps that write subscriptions change the active ones.          *)
(***************************************************************************)

(* Subscriptions reference packages that exist: the foreign key refuses    *)
(* both to delete a package in use and to insert a row for a missing one.  *)
PackagesExist == \A s \in Subs : sub[s].pkg \in pkgs

(* What a job ends are subscriptions of its developer. *)
EndsOwnSubs ==
    \A j \in Jobs : job[j].pc = "endSubs" =>
        \A s \in job[j].todo : s \in Subs /\ sub[s].dev = job[j].dev

LEMMA NextPackagesExist ==
    TypeOK /\ JobsHoldOrders /\ EndsOwnSubs /\ PackagesExist /\ [Next]_vars => PackagesExist'
  <1> SUFFICES ASSUME TypeOK, JobsHoldOrders, EndsOwnSubs, PackagesExist, [Next]_vars, RowsKept,
                      NEW s \in Subs'
               PROVE  sub'[s].pkg \in pkgs'
    BY NextRowsKept DEF PackagesExist
  <1>1. CASE s \in Subs /\ pkgs' = pkgs
    BY <1>1 DEF PackagesExist, RowsKept
  <1>2. CASE UNCHANGED <<pkgs, sub>>
    BY <1>1, <1>2 DEF Subs
  <1>3. ASSUME NEW p \in Pkgs, DeletePackage(p) PROVE sub'[s].pkg \in pkgs'
    BY <1>3 DEF DeletePackage, PackagesExist, Subs
  <1>4. ASSUME NEW j \in Jobs, EndSub(j) PROVE s \in Subs /\ pkgs' = pkgs
    <2>1. PICK x \in Newest(job[j].todo) :
            sub' = IF sub[x].pkg \in pkgs THEN [sub EXCEPT ![x].status = "upgraded"] ELSE sub
      BY <1>4 DEF EndSub
    <2>2. x \in Subs
      BY <1>4, <2>1 DEF EndSub, EndsOwnSubs, Newest
    <2>3. QED
      BY <1>4, <2>1, <2>2 DEF EndSub, Subs, TypeOK
  <1>5. ASSUME NEW j \in Jobs, CreateSub(j) PROVE sub'[s].pkg \in pkgs'
    <2>1. CASE UNCHANGED sub
      BY <1>2, <1>5, <2>1 DEF CreateSub
    <2>2. ASSUME NEW x \in SubIds, order[job[j].ord].pkg \in pkgs,
                 sub' = [sub EXCEPT ![x] =
                           [dev |-> job[j].dev, pkg |-> order[job[j].ord].pkg,
                            status |-> "active", of |-> job[j].ord,
                            credit |-> job[j].credit]]
          PROVE  sub'[s].pkg \in pkgs'
      BY <1>1, <1>5, <2>2 DEF CreateSub, Subs, TypeOK
    <2>3. QED
      BY <1>5, <2>1, <2>2 DEF CreateSub, NextId
  <1>6. QED
    BY <1>1, <1>2, <1>3, <1>4, <1>5
       DEF Next, vars, Step, CreateOrder, ReadProof, ReadReply, ReadTicket, Fail, WriteProof,
           OpenTicket, WriteReply, WriteStatus, FindOrder, FindPkg, FindSubs,
           AllEnded, Confirm, FindRejected, Reject

(* EndSub ends one active subscription of the job's developer. *)
LEMMA EndSubEnds ==
    ASSUME TypeOK, PackagesExist, EndsOwnSubs, NEW j \in Jobs, EndSub(j)
    PROVE  \E s \in job[j].todo :
              /\ s \in SubIds /\ sub[s].dev = job[j].dev
              /\ sub' = [sub EXCEPT ![s].status = "upgraded"]
              /\ \A d \in Devs : ActiveSubs(d)' = ActiveSubs(d) \ {s}
              /\ \A k \in Jobs : job'[k].pc = job[k].pc /\ job'[k].dev = job[k].dev
              /\ job'[j].todo = job[j].todo \ {s}
              /\ \A k \in Jobs \ {j} : job'[k] = job[k]
  <1>1. job[j].pc = "endSubs"
    BY DEF EndSub
  <1>2. PICK s \in Newest(job[j].todo) :
          LET known == sub[s].pkg \in pkgs
          IN  /\ sub' = IF known THEN [sub EXCEPT ![s].status = "upgraded"] ELSE sub
              /\ job' = [job EXCEPT ![j].todo = @ \ {s},
                   ![j].credit = IF known THEN @ \cup Credits(s, order[job[j].ord].pkg) ELSE @]
    BY DEF EndSub
  <1>3. s \in job[j].todo /\ s \in Subs /\ s \in SubIds /\ sub[s].dev = job[j].dev
    BY <1>1, <1>2 DEF Newest, EndsOwnSubs, Subs
  <1>4. sub' = [sub EXCEPT ![s].status = "upgraded"]
    BY <1>2, <1>3 DEF PackagesExist
  <1>5. ASSUME NEW d \in Devs PROVE ActiveSubs(d)' = ActiveSubs(d) \ {s}
    BY <1>3, <1>4 DEF ActiveSubs, Subs, TypeOK, SubRow
  <1>6. /\ \A k \in Jobs : job'[k].pc = job[k].pc /\ job'[k].dev = job[k].dev
        /\ job'[j].todo = job[j].todo \ {s}
        /\ \A k \in Jobs \ {j} : job'[k] = job[k]
    BY <1>2 DEF TypeOK, Job
  <1>7. QED
    BY <1>3, <1>4, <1>5, <1>6

(* CreateSub either gives the developer one more active subscription or,   *)
(* when the package is gone, gives up.                                     *)
LEMMA CreateSubCreates ==
    ASSUME TypeOK, NEW j \in Jobs, CreateSub(j)
    PROVE  \/ /\ order[job[j].ord].pkg \notin pkgs
              /\ job' = [job EXCEPT ![j] = Idle]
              /\ UNCHANGED sub
           \/ \E s \in SubIds :
                /\ s \notin Subs /\ Subs' = Subs \cup {s}
                /\ job' = [job EXCEPT ![j].pc = "confirm", ![j].made = s]
                /\ \A x \in Subs : sub'[x] = sub[x]
                /\ sub'[s].dev = job[j].dev
                /\ \A d \in Devs : ActiveSubs(d)' = IF d = job[j].dev
                                     THEN ActiveSubs(d) \cup {s} ELSE ActiveSubs(d)
  <1>1. ASSUME NEW s \in NextId(SubIds, Subs),
               sub' = [sub EXCEPT ![s] =
                         [dev |-> job[j].dev, pkg |-> order[job[j].ord].pkg,
                          status |-> "active", of |-> job[j].ord, credit |-> job[j].credit]]
        PROVE  /\ s \notin Subs /\ Subs' = Subs \cup {s}
               /\ \A x \in Subs : sub'[x] = sub[x]
               /\ sub'[s].dev = job[j].dev
               /\ \A d \in Devs : ActiveSubs(d)' = IF d = job[j].dev
                                    THEN ActiveSubs(d) \cup {s} ELSE ActiveSubs(d)
    <2>1. s \in SubIds /\ s \notin Subs
      BY DEF NextId
    <2>2. /\ sub'[s].dev = job[j].dev /\ sub'[s].status = "active"
          /\ \A x \in SubIds : x # s => sub'[x] = sub[x]
      BY <1>1, <2>1 DEF TypeOK
    <2>3. Subs' = Subs \cup {s}
      BY <2>1, <2>2 DEF Subs
    <2>4. ASSUME NEW d \in Devs
          PROVE  ActiveSubs(d)' = IF d = job[j].dev THEN ActiveSubs(d) \cup {s}
                                  ELSE ActiveSubs(d)
      BY <2>1, <2>2, <2>3 DEF ActiveSubs, Subs
    <2>5. QED
      BY <2>1, <2>2, <2>3, <2>4 DEF Subs
  <1>2. QED
    BY <1>1 DEF CreateSub, NextId

(* EndsOwnSubs is inductive: the list is read from the table by developer. *)
LEMMA NextEndsOwnSubs ==
    TypeOK /\ JobsHoldOrders /\ EndsOwnSubs /\ [Next]_vars => EndsOwnSubs'
  <1> SUFFICES ASSUME TypeOK, JobsHoldOrders, EndsOwnSubs, [Next]_vars, RowsKept,
                      NEW k \in Jobs, job'[k].pc = "endSubs", NEW s \in job'[k].todo
               PROVE  s \in Subs' /\ sub'[s].dev = job'[k].dev
    BY NextRowsKept DEF EndsOwnSubs
  <1>1. CASE /\ job[k].pc = "endSubs" /\ job'[k].dev = job[k].dev
             /\ job'[k].todo \subseteq job[k].todo
    BY <1>1 DEF EndsOwnSubs, RowsKept
  <1>2. CASE job'[k] = job[k]
    BY <1>1, <1>2
  <1>3. ASSUME NEW j \in Jobs, FindSubs(j), job'[k] # job[k]
        PROVE  s \in Subs' /\ sub'[s].dev = job'[k].dev
    <2>1. k = j /\ job'[k].todo = ActivePage(job[k].dev) /\ job'[k].dev = job[k].dev
      BY <1>3 DEF FindSubs, TypeOK, Job
    <2>2. QED
      BY <2>1 DEF ActivePage, ActiveSubs, RowsKept
  <1>4. ASSUME NEW j \in Jobs, EndSub(j)
        PROVE  /\ job[k].pc = "endSubs" /\ job'[k].dev = job[k].dev
               /\ job'[k].todo \subseteq job[k].todo
    BY <1>4 DEF EndSub, TypeOK, Job
  <1>5. ASSUME NEW j \in Jobs,
               \/ WriteProof(j) \/ OpenTicket(j) \/ WriteReply(j) \/ WriteStatus(j)
               \/ FindPkg(j) \/ AllEnded(j) \/ Confirm(j) \/ Reject(j) \/ Fail(j)
        PROVE  job'[k] = job[k]
    BY <1>5 DEF WriteProof, OpenTicket, WriteReply, WriteStatus, FindPkg, AllEnded,
                Confirm, Reject, Fail, TypeOK, Job, Idle
  <1>6. ASSUME NEW j \in Jobs, CreateSub(j) PROVE job'[k] = job[k]
    BY <1>6 DEF CreateSub, TypeOK, Job, Idle
  <1>7. ASSUME NEW j \in Jobs, FindOrder(j) \/ FindRejected(j) PROVE job'[k] = job[k]
    <2>1. ASSUME NEW o, NEW c \in {"findPkg", "reject"},
                 job' = [job EXCEPT ![j].pc = c, ![j].ord = o]
          PROVE  job'[k] = job[k]
      BY <2>1 DEF TypeOK, Job
    <2>2. CASE job' = [job EXCEPT ![j] = Idle]
      BY <2>2 DEF TypeOK, Idle
    <2>3. QED
      BY <1>7, <2>1, <2>2 DEF FindOrder, FindRejected
  <1>8. ASSUME NEW j \in Jobs, NEW x, NEW t,
               ReadProof(j, x) \/ ReadReply(j, x) \/ ReadTicket(j, x, t)
        PROVE  job'[k] = job[k]
    BY <1>8 DEF ReadProof, ReadReply, ReadTicket, TypeOK, Idle
  <1>9. QED
    BY <1>1, <1>2, <1>3, <1>4, <1>5, <1>6, <1>7, <1>8
       DEF Next, vars, Step, CreateOrder, DeletePackage

(* The steps that leave the subscriptions alone. *)
OtherStep(j) ==
    \/ WriteProof(j) \/ OpenTicket(j) \/ WriteReply(j) \/ WriteStatus(j) \/ FindOrder(j)
    \/ FindPkg(j) \/ Confirm(j) \/ FindRejected(j) \/ Reject(j) \/ Fail(j)

(* None of them brings a job to the stretch between ending the old          *)
(* subscriptions and creating the new one, or moves a job that is there     *)
(* unless its call fails.                                                   *)
LEMMA OtherSteps ==
    ASSUME TypeOK, NEW j \in Jobs,
           \/ OtherStep(j)
           \/ \E x : \E s : ReadProof(j, x) \/ ReadReply(j, x) \/ ReadTicket(j, x, s)
    PROVE  /\ sub' = sub
           /\ \A k \in Jobs :
                \/ job'[k] = job[k]
                \/ /\ job'[k].pc \notin {"endSubs", "createSub"}
                   /\ job[k].pc \in {"endSubs", "createSub"} => Fail(j)
  <1> SUFFICES ASSUME NEW k \in Jobs
               PROVE  /\ sub' = sub
                      /\ \/ job'[k] = job[k]
                         \/ /\ job'[k].pc \notin {"endSubs", "createSub"}
                            /\ job[k].pc \in {"endSubs", "createSub"} => Fail(j)
    OBVIOUS
  <1>1. CASE WriteProof(j) \/ OpenTicket(j) \/ WriteReply(j)
    BY <1>1 DEF WriteProof, OpenTicket, WriteReply, TypeOK, Job, Idle
  <1>6. CASE WriteStatus(j)
    BY <1>6 DEF WriteStatus, TypeOK, Job, Idle
  <1>2. CASE FindPkg(j) \/ Confirm(j) \/ Reject(j) \/ Fail(j)
    BY <1>2 DEF FindPkg, Confirm, Reject, Fail, TypeOK, Job, Idle
  <1>3. CASE FindOrder(j) \/ FindRejected(j)
    <2>1. ASSUME NEW o, NEW c \in {"findPkg", "reject"},
                 job' = [job EXCEPT ![j].pc = c, ![j].ord = o]
          PROVE  job'[k] = job[k] \/ (k = j /\ job'[k].pc \notin {"endSubs", "createSub"})
      BY <2>1 DEF TypeOK, Job
    <2>2. CASE job' = [job EXCEPT ![j] = Idle]
      BY <1>3, <2>2 DEF FindOrder, FindRejected, TypeOK, Idle
    <2>3. QED
      BY <1>3, <2>1, <2>2 DEF FindOrder, FindRejected
  <1>4. ASSUME NEW x, NEW s, ReadProof(j, x) \/ ReadReply(j, x) \/ ReadTicket(j, x, s)
        PROVE  /\ sub' = sub
               /\ \/ job'[k] = job[k]
                  \/ /\ job'[k].pc \notin {"endSubs", "createSub"}
                     /\ job[k].pc \notin {"endSubs", "createSub"}
    <2>1. CASE ReadProof(j, x)
      BY <2>1 DEF ReadProof, TypeOK, Idle
    <2>2. CASE ReadReply(j, x)
      BY <2>2 DEF ReadReply, TypeOK, Idle
    <2>3. CASE ReadTicket(j, x, s)
      BY <2>3 DEF ReadTicket, TypeOK, Idle
    <2>4. QED
      BY <1>4, <2>1, <2>2, <2>3
  <1>7. QED
    BY <1>1, <1>2, <1>3, <1>4, <1>6 DEF OtherStep
-----------------------------------------------------------------------------
(***************************************************************************)
(* No gap in coverage while no call fails and no ordered package is        *)
(* deleted, for any number of concurrent requests. The invariant is        *)
(* inductive once one knows whose subscriptions a job ends.                *)
(***************************************************************************)

BaseInv == TypeOK /\ JobsHoldOrders /\ EndsOwnSubs /\ PackagesExist

LEMMA InitBaseInv == Init => BaseInv
  <1> SUFFICES ASSUME Init PROVE BaseInv
    OBVIOUS
  <1>1. PackagesExist
    <2> SUFFICES ASSUME NEW s \in Subs PROVE sub[s].pkg \in pkgs
      BY DEF PackagesExist
    <2>1. sub[s] # NoSub
      BY DEF Subs, NoSub
    <2>2. PICK d \in Devs, q \in Free : sub[s] = TrialRow(d, q)
      BY <2>1 DEF Init, TrialTables, Subs
    <2>3. QED
      BY <2>2, ConstAssumption DEF TrialRow, NoSub, Init
  <1>2. QED
    BY <1>1, InitTypeOK DEF Init, BaseInv, JobsHoldOrders, EndsOwnSubs, Idle, Approving

LEMMA NextBaseInv == BaseInv /\ [Next]_vars => BaseInv'
  BY NextTypeOK, NextJobsHoldOrders, NextEndsOwnSubs, NextPackagesExist DEF BaseInv

Covered(d) ==
    (\E s \in Subs : sub[s].dev = d)
      => \/ ActiveSubs(d) # {}
         \/ \E j \in Jobs : job[j].dev = d /\ job[j].pc \in {"endSubs", "createSub"}

NothingFails == MaxFaults = 0 /\ Deletable = {}

GapInv == BaseInv /\ pkgs = Pkgs /\ NoCoverageGap

LEMMA NextCovered ==
    ASSUME GapInv, [Next]_vars, \A j \in Jobs : ~Fail(j), NEW d \in Devs PROVE Covered(d)'
  <1> SUFFICES ASSUME RowsKept, TypeOK', \E s \in Subs' : sub'[s].dev = d
               PROVE  \/ ActiveSubs(d)' # {}
                      \/ \E j \in Jobs : job'[j].dev = d /\ job'[j].pc \in {"endSubs", "createSub"}
    BY NextRowsKept, NextTypeOK DEF GapInv, BaseInv, Covered
  <1> DEFINE Goal == \/ ActiveSubs(d)' # {}
                     \/ \E j \in Jobs : job'[j].dev = d /\ job'[j].pc \in {"endSubs", "createSub"}
  <1>0. ASSUME \E s \in Subs : sub[s].dev = d
        PROVE  \/ ActiveSubs(d) # {}
               \/ \E j \in Jobs : job[j].dev = d /\ job[j].pc \in {"endSubs", "createSub"}
    BY <1>0 DEF GapInv, NoCoverageGap
  <1>1. CASE UNCHANGED <<sub, job>>
    BY <1>0, <1>1 DEF Subs, ActiveSubs
  <1>2. ASSUME NEW j \in Jobs, FindSubs(j) \/ AllEnded(j) PROVE Goal
    <2>1. /\ sub' = sub
          /\ \A k \in Jobs :
               /\ job'[k].dev = job[k].dev
               /\ job[k].pc \in {"endSubs", "createSub"} => job'[k].pc \in {"endSubs", "createSub"}
      BY <1>2 DEF FindSubs, AllEnded, GapInv, BaseInv, TypeOK, Job
    <2>2. QED
      BY <1>0, <2>1 DEF Subs, ActiveSubs
  <1>3. ASSUME NEW j \in Jobs, EndSub(j) PROVE Goal
    <2>1. PICK s \in job[j].todo :
            /\ s \in SubIds /\ sub[s].dev = job[j].dev
            /\ sub' = [sub EXCEPT ![s].status = "upgraded"]
            /\ ActiveSubs(d)' = ActiveSubs(d) \ {s}
            /\ \A k \in Jobs : job'[k].pc = job[k].pc /\ job'[k].dev = job[k].dev
      BY <1>3, EndSubEnds DEF GapInv, BaseInv
    <2>2. job[j].pc = "endSubs" /\ s \in Subs
      BY <1>3, <2>1 DEF EndSub, GapInv, BaseInv, EndsOwnSubs
    <2>3. CASE job[j].dev = d
      BY <2>1, <2>2, <2>3
    <2>4. CASE job[j].dev # d
      <3>1. s \notin ActiveSubs(d) /\ ActiveSubs(d)' = ActiveSubs(d)
        BY <2>1, <2>4 DEF ActiveSubs
      <3>2. \E x \in Subs : sub[x].dev = d
        BY <2>1, <2>2 DEF Subs, GapInv, BaseInv, TypeOK, SubRow
      <3>3. QED
        BY <1>0, <2>1, <3>1, <3>2
    <2>5. QED
      BY <2>3, <2>4
  <1>4. ASSUME NEW j \in Jobs, CreateSub(j) PROVE Goal
    <2>1. order[job[j].ord].pkg \in pkgs
      BY <1>4 DEF CreateSub, GapInv, BaseInv, JobsHoldOrders, TypeOK, OrderRow, Orders, Approving
    <2>2. PICK s \in SubIds :
            /\ s \notin Subs /\ Subs' = Subs \cup {s}
            /\ job' = [job EXCEPT ![j].pc = "confirm", ![j].made = s]
            /\ \A x \in Subs : sub'[x] = sub[x]
            /\ sub'[s].dev = job[j].dev
            /\ ActiveSubs(d)' = IF d = job[j].dev THEN ActiveSubs(d) \cup {s} ELSE ActiveSubs(d)
      BY <1>4, <2>1, CreateSubCreates DEF GapInv, BaseInv
    <2>3. CASE job[j].dev = d
      BY <2>2, <2>3
    <2>4. CASE job[j].dev # d
      <3>1. \E x \in Subs : sub[x].dev = d
        BY <2>2, <2>4
      <3>2. \A k \in Jobs \ {j} : job'[k] = job[k]
        BY <2>2 DEF GapInv, BaseInv, TypeOK
      <3>3. QED
        BY <1>0, <2>2, <2>4, <3>1, <3>2
    <2>5. QED
      BY <2>3, <2>4
  <1>5. ASSUME NEW j \in Jobs,
               \/ OtherStep(j)
               \/ \E x : \E s : ReadProof(j, x) \/ ReadReply(j, x) \/ ReadTicket(j, x, s)
        PROVE Goal
    <2>1. /\ sub' = sub
          /\ \A k \in Jobs : job'[k] = job[k] \/ job[k].pc \notin {"endSubs", "createSub"}
      BY <1>5, OtherSteps DEF GapInv, BaseInv
    <2>2. QED
      BY <1>0, <2>1 DEF Subs, ActiveSubs
  <1>6. QED
    BY <1>1, <1>2, <1>3, <1>4, <1>5
       DEF Next, vars, Step, OtherStep, CreateOrder, DeletePackage

LEMMA InitGapInv == Init => GapInv
  <1> SUFFICES ASSUME Init PROVE GapInv
    OBVIOUS
  <1>1. ASSUME NEW d \in Devs, NEW s \in Subs, sub[s].dev = d PROVE ActiveSubs(d) # {}
    <2>1. PICK e \in Devs, q \in Free : sub[s] = TrialRow(e, q)
      BY DEF Init, TrialTables, Subs, NoSub
    <2>2. sub[s].status = "active"
      BY <2>1 DEF TrialRow, NoSub
    <2>3. QED
      BY <1>1, <2>2 DEF ActiveSubs
  <1>2. QED
    BY <1>1, InitBaseInv DEF GapInv, NoCoverageGap, Init

(* No call has failed and no package was deleted so far. *)
Unfailed == faults = 0 /\ pkgs = Pkgs

LEMMA FailuresStay ==
    ASSUME TypeOK, [Next]_vars, Unfailed' PROVE Unfailed /\ \A j \in Jobs : ~Fail(j)
  <1>1. faults \in Nat /\ pkgs \subseteq Pkgs
    BY ConstAssumption DEF TypeOK
  <1>2. ASSUME NEW j \in Jobs, Fail(j) PROVE FALSE
    BY <1>1, <1>2 DEF Fail, Unfailed
  <1>3. faults' = faults /\ pkgs' \subseteq pkgs
    BY <1>2
       DEF Next, vars, Step, CreateOrder, DeletePackage, ReadProof, ReadReply, ReadTicket,
           WriteProof, OpenTicket, WriteReply, WriteStatus, FindOrder, FindPkg, FindSubs,
           EndSub, AllEnded, CreateSub, Confirm, FindRejected, Reject
  <1>4. QED
    BY <1>1, <1>2, <1>3 DEF Unfailed

LEMMA NextGapInv ==
    ASSUME Unfailed', GapInv, [Next]_vars PROVE GapInv'
  <1>1. \A j \in Jobs : ~Fail(j)
    BY FailuresStay DEF GapInv, BaseInv
  <1>2. NoCoverageGap'
    BY <1>1, NextCovered DEF NoCoverageGap, Covered
  <1>3. QED
    BY <1>2, NextBaseInv DEF GapInv, Unfailed

(* Any number of concurrent approvals: until a call fails or a package is   *)
(* deleted, a developer who ever had a subscription has an active one or an *)
(* approval about to create one (subscription-upgrade.service.ts:49-96).    *)
THEOREM NoGapUntilFailure == Spec => [](Unfailed => NoCoverageGap)
  <1> DEFINE I == BaseInv /\ (Unfailed => GapInv)
  <1>1. Init => I
    BY InitGapInv, InitBaseInv
  <1>2. I /\ [Next]_vars => I'
    BY NextBaseInv, NextGapInv, FailuresStay DEF BaseInv
  <1>3. I => (Unfailed => NoCoverageGap)
    BY DEF GapInv
  <1> HIDE DEF I
  <1>4. QED
    BY <1>1, <1>2, <1>3, PTL DEF Spec

LEMMA NeverFails ==
    ASSUME NothingFails PROVE Spec => []Unfailed
  <1>1. Init => TypeOK /\ Unfailed
    BY InitTypeOK DEF Init, Unfailed
  <1>2. TypeOK /\ Unfailed /\ [Next]_vars => (TypeOK /\ Unfailed)'
    <2> SUFFICES ASSUME TypeOK, Unfailed, [Next]_vars PROVE TypeOK' /\ Unfailed'
      OBVIOUS
    <2>1. TypeOK' /\ faults' = 0
      BY NothingFails, NextTypeOK DEF NothingFails, TypeOK
    <2>2. \A p \in Pkgs : ~DeletePackage(p)
      BY NothingFails DEF NothingFails, DeletePackage
    <2>3. pkgs' = pkgs
      BY <2>2
         DEF Next, vars, Step, CreateOrder, ReadProof, ReadReply, ReadTicket, Fail,
             WriteProof, OpenTicket, WriteReply, WriteStatus, FindOrder, FindPkg, FindSubs,
             EndSub, AllEnded, CreateSub, Confirm, FindRejected, Reject
    <2>4. QED
      BY <2>1, <2>3 DEF Unfailed
  <1>3. QED
    BY <1>1, <1>2, PTL DEF Spec

(* Developers do not lose their coverage to concurrent approvals: one who   *)
(* ever had a subscription has an active one or an approval about to create *)
(* one, provided no call fails (subscription-upgrade.service.ts:49-96).     *)
THEOREM NoGap == ASSUME NothingFails PROVE Spec => []NoCoverageGap
  BY NothingFails, NeverFails, NoGapUntilFailure, PTL
-----------------------------------------------------------------------------
(***************************************************************************)
(* Requests that do not overlap: when one takes a step, the others are     *)
(* idle.                                                                   *)
(***************************************************************************)

OneAtATime == \A j1, j2 \in Jobs : j1 = j2

OneOpen == ~Overlap

(* A request that starts. *)
Starts(j) ==
    \/ \E o \in OrderIds : ReadProof(j, o)
    \/ \E t \in TicketIds : ReadReply(j, t)
    \/ \E t \in TicketIds, s \in TicketStatus \ {"absent"} : ReadTicket(j, t, s)

LEMMA Alone ==
    ASSUME TypeOK, OneOpen, OneOpen', NEW j \in Jobs, Starts(j) \/ Step(j) \/ Fail(j)
    PROVE  \A k \in Jobs \ {j} : job'[k] = job[k] /\ job[k].pc = "idle"
  <1> DEFINE Moves == /\ job[j].pc # "idle" \/ job'[j].pc # "idle"
                      /\ \A k \in Jobs \ {j} : job'[k] = job[k]
  <1>1. ASSUME NEW o \in OrderIds, ReadProof(j, o) PROVE Moves
    BY <1>1 DEF ReadProof, TypeOK, Idle
  <1>2. ASSUME NEW t \in TicketIds, ReadReply(j, t) PROVE Moves
    BY <1>2 DEF ReadReply, TypeOK, Idle
  <1>3. ASSUME NEW t \in TicketIds, NEW s \in TicketStatus \ {"absent"}, ReadTicket(j, t, s)
        PROVE  Moves
    BY <1>3 DEF ReadTicket, TypeOK, Idle
  <1>4. ASSUME \/ WriteProof(j) \/ OpenTicket(j) \/ WriteReply(j)
               \/ Confirm(j) \/ Reject(j) \/ Fail(j)
        PROVE  Moves
    BY <1>4 DEF WriteProof, OpenTicket, WriteReply, Confirm, Reject, Fail, TypeOK
  <1>5. ASSUME WriteStatus(j) PROVE Moves
    BY <1>5 DEF WriteStatus, TypeOK
  <1>6. ASSUME FindOrder(j) \/ FindRejected(j) PROVE Moves
    BY <1>6 DEF FindOrder, FindRejected, TypeOK
  <1>7. ASSUME FindPkg(j) \/ FindSubs(j) \/ AllEnded(j) PROVE Moves
    BY <1>7 DEF FindPkg, FindSubs, AllEnded, TypeOK
  <1>8. ASSUME EndSub(j) PROVE Moves
    BY <1>8 DEF EndSub, TypeOK
  <1>9. ASSUME CreateSub(j) PROVE Moves
    BY <1>9 DEF CreateSub, TypeOK
  <1>10. Moves
    BY <1>1, <1>2, <1>3, <1>4, <1>5, <1>6, <1>7, <1>8, <1>9 DEF Starts, Step
  <1>11. QED
    BY <1>10 DEF OneOpen, Overlap
(* A step of a request changes the state of no other. *)
LEMMA StepOfOne ==
    ASSUME TypeOK, NEW j \in Jobs, Step(j), NEW k \in Jobs, k # j PROVE job'[k] = job[k]
  <1>1. CASE WriteProof(j) \/ OpenTicket(j) \/ WriteReply(j) \/ Confirm(j) \/ Reject(j)
    BY <1>1 DEF WriteProof, OpenTicket, WriteReply, Confirm, Reject, TypeOK
  <1>2. CASE WriteStatus(j)
    BY <1>2 DEF WriteStatus, TypeOK
  <1>3. CASE FindOrder(j) \/ FindRejected(j)
    BY <1>3 DEF FindOrder, FindRejected, TypeOK
  <1>4. CASE FindPkg(j) \/ FindSubs(j) \/ AllEnded(j)
    BY <1>4 DEF FindPkg, FindSubs, AllEnded, TypeOK
  <1>5. CASE EndSub(j)
    BY <1>5 DEF EndSub, TypeOK
  <1>6. CASE CreateSub(j)
    BY <1>6 DEF CreateSub, TypeOK
  <1>7. QED
    BY <1>1, <1>2, <1>3, <1>4, <1>5, <1>6 DEF Step
-----------------------------------------------------------------------------
(***************************************************************************)
(* How an approval comes to its end: every statement brings it nearer.     *)
(* With the fairness of FairSpec, that a request in progress takes its     *)
(* next step, this is what makes an approval confirm its order.            *)
(***************************************************************************)

(* The statements an approval has before it, at most. *)
Left(j) ==
    CASE job[j].pc = "findPkg"   -> MaxSubs + 5
      [] job[j].pc = "findSubs"  -> MaxSubs + 4
      [] job[j].pc = "endSubs"   -> Cardinality(job[j].todo) + 3
      [] job[j].pc = "createSub" -> 2
      [] job[j].pc = "confirm"   -> 1
      [] OTHER                   -> 0

Nearer(j) == job'[j].pc \in Approving /\ job'[j].ord = job[j].ord /\ Left(j)' < Left(j)

LEMMA SubsBounded ==
    ASSUME NEW S \in SUBSET SubIds
    PROVE  IsFiniteSet(S) /\ Cardinality(S) \in Nat /\ Cardinality(S) <= MaxSubs
  <1>1. IsFiniteSet(SubIds) /\ Cardinality(SubIds) = MaxSubs
    BY FS_Interval, ConstAssumption DEF SubIds
  <1>2. QED
    BY <1>1, FS_Subset, FS_CardinalityType

LEMMA ApprovalSteps ==
    ASSUME BaseInv, NEW j \in Jobs, job[j].pc \in Approving, Step(j), pkgs = Pkgs
    PROVE  Nearer(j) \/ order'[job[j].ord].status = "confirmed"
  <1> USE DEF BaseInv
  <1>1. job[j].ord \in Orders /\ order[job[j].ord].pkg \in pkgs
    BY DEF JobsHoldOrders, Approving, Orders, TypeOK, OrderRow
  <1>2. job[j].todo \subseteq SubIds
    BY DEF TypeOK, Job
  <1>3. MaxSubs \in Nat
    BY ConstAssumption
  <1>4. CASE FindPkg(j)
    <2>1. job[j].pc = "findPkg" /\ job'[j].pc = "findSubs" /\ job'[j].ord = job[j].ord
      BY <1>1, <1>4 DEF FindPkg, TypeOK, Job
    <2>2. QED
      BY <1>3, <2>1 DEF Nearer, Left, Approving
  <1>5. CASE FindSubs(j)
    <2>1. /\ job[j].pc = "findSubs" /\ job'[j].pc = "endSubs" /\ job'[j].ord = job[j].ord
          /\ job'[j].todo \subseteq SubIds
      BY <1>5 DEF FindSubs, ActivePage, ActiveSubs, Subs, TypeOK, Job
    <2>2. Cardinality(job'[j].todo) \in Nat /\ Cardinality(job'[j].todo) <= MaxSubs
      BY <2>1, SubsBounded
    <2>3. QED
      BY <1>3, <2>1, <2>2 DEF Nearer, Left, Approving
  <1>6. CASE EndSub(j)
    <2>1. PICK s \in job[j].todo :
            /\ job'[j].pc = job[j].pc /\ job'[j].ord = job[j].ord
            /\ job'[j].todo = job[j].todo \ {s}
      BY <1>6 DEF EndSub, Newest, TypeOK, Job
    <2>2. IsFiniteSet(job[j].todo) /\ Cardinality(job[j].todo) \in Nat
      BY <1>2, SubsBounded
    <2>3. Cardinality(job'[j].todo) = Cardinality(job[j].todo) - 1
      BY <2>1, <2>2, FS_RemoveElement
    <2>4. job[j].pc = "endSubs"
      BY <1>6 DEF EndSub
    <2>5. QED
      BY <2>1, <2>2, <2>3, <2>4 DEF Nearer, Left, Approving
  <1>7. CASE AllEnded(j)
    <2>1. job[j].pc = "endSubs" /\ job'[j].pc = "createSub" /\ job'[j].ord = job[j].ord
      BY <1>7 DEF AllEnded, TypeOK, Job
    <2>2. Cardinality(job[j].todo) \in Nat
      BY <1>2, SubsBounded
    <2>3. QED
      BY <2>1, <2>2 DEF Nearer, Left, Approving
  <1>8. CASE CreateSub(j)
    <2>1. job[j].pc = "createSub" /\ job'[j].pc = "confirm" /\ job'[j].ord = job[j].ord
      BY <1>1, <1>8 DEF CreateSub, TypeOK, Job
    <2>2. QED
      BY <2>1 DEF Nearer, Left, Approving
  <1>9. CASE Confirm(j)
    BY <1>1, <1>9 DEF Confirm, Orders, TypeOK, OrderRow
  <1>10. QED
    BY <1>4, <1>5, <1>6, <1>7, <1>8, <1>9
       DEF Step, Approving, WriteProof, OpenTicket, WriteReply, WriteStatus, FindOrder,
           FindRejected, Reject

(* An approval in progress takes a bounded number of statements and ends by *)
(* confirming the order it picked, whatever the other requests do, until a  *)
(* call fails or a package is deleted (subscription-upgrade.service.ts:29). *)
ApprovalAdvances ==
    \A j \in Jobs : job[j].pc \in Approving =>
        \/ job'[j] = job[j]
        \/ Nearer(j)
        \/ order'[job[j].ord].status = "confirmed"
        \/ ~Unfailed'

THEOREM ApprovalsAdvance == Spec => [][ApprovalAdvances]_vars
  <1>1. Init => BaseInv
    BY InitBaseInv
  <1>2. BaseInv /\ [Next]_vars => BaseInv'
    BY NextBaseInv
  <1>3. ASSUME BaseInv, [Next]_vars PROVE [ApprovalAdvances]_vars
    <2> SUFFICES ASSUME Next, Unfailed', NEW j \in Jobs, job[j].pc \in Approving,
                        job'[j] # job[j]
                 PROVE  Nearer(j) \/ order'[job[j].ord].status = "confirmed"
      BY <1>3 DEF ApprovalAdvances
    <2>1. Unfailed /\ \A k \in Jobs : ~Fail(k)
      BY <1>3, FailuresStay DEF BaseInv
    <2>2. Step(j)
      <3>1. ASSUME NEW k \in Jobs, k # j PROVE ~Step(k)
        BY <1>3, <3>1, StepOfOne DEF BaseInv
      <3>2. ASSUME NEW k \in Jobs, Starts(k) PROVE FALSE
        BY <1>3, <3>2
           DEF Starts, ReadProof, ReadReply, ReadTicket, BaseInv, TypeOK, Idle, Approving
      <3>3. QED
        BY <2>1, <3>1, <3>2 DEF Next, Starts, CreateOrder, DeletePackage
    <2>3. QED
      BY <1>3, <2>1, <2>2, ApprovalSteps DEF Unfailed
  <1>4. QED
    BY <1>1, <1>2, <1>3, PTL DEF Spec
-----------------------------------------------------------------------------
(***************************************************************************)
(* Served one at a time, approvals never leave two active subscriptions,   *)
(* whatever calls fail and whichever packages are deleted meanwhile.       *)
(***************************************************************************)

EndsThemAll ==
    \A j \in Jobs :
        /\ job[j].pc = "endSubs" => ActiveSubs(job[j].dev) \subseteq job[j].todo
        /\ job[j].pc = "createSub" => ActiveSubs(job[j].dev) = {}

SerialInv == BaseInv /\ EndsThemAll /\ AtMostOneActive

(* A page of the query holds all of at most one active subscription. *)
LEMMA PageHoldsOne ==
    ASSUME TypeOK, AtMostOneActive, NEW d \in Devs PROVE ActivePage(d) = ActiveSubs(d)
  <1> SUFFICES ASSUME NEW s \in ActiveSubs(d)
               PROVE  Cardinality({x \in ActiveSubs(d) : x > s}) < UpgradePageSize
    BY DEF ActivePage
  <1>1. {x \in ActiveSubs(d) : x > s} = {}
    BY DEF AtMostOneActive, ActiveSubs, Subs, SubIds
  <1>2. QED
    BY <1>1, FS_EmptySet, ConstAssumption

LEMMA NextSerialInv ==
    ASSUME OneOpen, OneOpen', SerialInv, [Next]_vars
    PROVE  (EndsThemAll /\ AtMostOneActive)'
  <1> USE DEF SerialInv, BaseInv
  <1>0. TypeOK'
    BY NextTypeOK
  <1>1. CASE UNCHANGED <<sub, job>>
    BY <1>1 DEF EndsThemAll, AtMostOneActive, ActiveSubs, Subs
  <1>2. ASSUME NEW j \in Jobs, FindSubs(j) PROVE (EndsThemAll /\ AtMostOneActive)'
    <2>1. /\ job[j].dev \in Devs /\ sub' = sub
          /\ job'[j].pc = "endSubs" /\ job'[j].dev = job[j].dev
          /\ job'[j].todo = ActivePage(job[j].dev)
      BY <1>2 DEF FindSubs, TypeOK, Job
    <2>2. \A k \in Jobs \ {j} : job'[k] = job[k] /\ job[k].pc = "idle"
      BY <1>2, Alone DEF Step
    <2>3. QED
      BY <2>1, <2>2, PageHoldsOne DEF EndsThemAll, AtMostOneActive, ActiveSubs, Subs
  <1>3. ASSUME NEW j \in Jobs, AllEnded(j) PROVE (EndsThemAll /\ AtMostOneActive)'
    <2>1. /\ sub' = sub /\ job[j].pc = "endSubs" /\ job[j].todo = {}
          /\ job'[j].pc = "createSub" /\ job'[j].dev = job[j].dev
      BY <1>3 DEF AllEnded, TypeOK, Job
    <2>2. \A k \in Jobs \ {j} : job'[k] = job[k] /\ job[k].pc = "idle"
      BY <1>3, Alone DEF Step
    <2>3. QED
      BY <2>1, <2>2 DEF EndsThemAll, AtMostOneActive, ActiveSubs, Subs
  <1>4. ASSUME NEW j \in Jobs, EndSub(j) PROVE (EndsThemAll /\ AtMostOneActive)'
    <2>1. PICK s \in job[j].todo :
            /\ \A d \in Devs : ActiveSubs(d)' = ActiveSubs(d) \ {s}
            /\ \A k \in Jobs : job'[k].pc = job[k].pc /\ job'[k].dev = job[k].dev
            /\ job'[j].todo = job[j].todo \ {s}
      BY <1>4, EndSubEnds
    <2>2. AtMostOneActive'
      BY <2>1 DEF AtMostOneActive
    <2>3. /\ \A k \in Jobs \ {j} : job'[k] = job[k] /\ job[k].pc = "idle"
          /\ job[j].dev \in Devs
      BY <1>4, Alone DEF Step, TypeOK, Job
    <2>4. ASSUME NEW d \in Devs, ActiveSubs(d) \subseteq job[j].todo
          PROVE  ActiveSubs(d)' \subseteq job[j].todo \ {s}
      BY <2>1, <2>4
    <2>5. job[j].pc = "endSubs"
      BY <1>4 DEF EndSub
    <2>6. job'[j].pc = "endSubs" /\ job'[j].dev = job[j].dev
      BY <2>1, <2>5
    <2>7. ActiveSubs(job[j].dev)' \subseteq job[j].todo \ {s}
      BY <2>3, <2>4, <2>5, <2>6 DEF EndsThemAll, ActiveSubs, Subs
    <2>8. EndsThemAll'
      BY <2>1, <2>3, <2>6, <2>7 DEF EndsThemAll, ActiveSubs, Subs
    <2>9. QED
      BY <2>2, <2>8
  <1>5. ASSUME NEW j \in Jobs, CreateSub(j) PROVE (EndsThemAll /\ AtMostOneActive)'
    <2>1. /\ job[j].pc = "createSub"
          /\ \A k \in Jobs \ {j} : job'[k] = job[k] /\ job[k].pc = "idle"
      BY <1>5, Alone DEF CreateSub, Step
    <2>2. ActiveSubs(job[j].dev) = {}
      BY <2>1 DEF EndsThemAll
    <2>3. CASE job' = [job EXCEPT ![j] = Idle] /\ UNCHANGED sub
      BY <2>1, <2>3 DEF Idle, EndsThemAll, AtMostOneActive, ActiveSubs, Subs, TypeOK
    <2>4. ASSUME NEW s \in SubIds,
                 job' = [job EXCEPT ![j].pc = "confirm", ![j].made = s],
                 \A d \in Devs : ActiveSubs(d)' = IF d = job[j].dev
                                  THEN ActiveSubs(d) \cup {s} ELSE ActiveSubs(d)
          PROVE  (EndsThemAll /\ AtMostOneActive)'
      <3>1. AtMostOneActive'
        BY <2>2, <2>4 DEF AtMostOneActive
      <3>2. job'[j].pc = "confirm"
        BY <2>4 DEF TypeOK, Job
      <3>3. EndsThemAll'
        BY <2>1, <3>2 DEF EndsThemAll
      <3>4. QED
        BY <3>1, <3>3
    <2>5. QED
      BY <1>5, <2>3, <2>4, CreateSubCreates
  <1>6. ASSUME NEW j \in Jobs,
               \/ OtherStep(j)
               \/ \E x : \E s : ReadProof(j, x) \/ ReadReply(j, x) \/ ReadTicket(j, x, s)
        PROVE (EndsThemAll /\ AtMostOneActive)'
    <2>1. /\ sub' = sub
          /\ \A k \in Jobs : job'[k] = job[k] \/ job'[k].pc \notin {"endSubs", "createSub"}
      BY <1>6, OtherSteps
    <2>2. QED
      BY <2>1 DEF EndsThemAll, AtMostOneActive, ActiveSubs, Subs
  <1>7. QED
    BY <1>1, <1>2, <1>3, <1>4, <1>5, <1>6
       DEF Next, vars, Step, OtherStep, CreateOrder, DeletePackage

LEMMA InitSerialInv == Init => SerialInv
  <1> SUFFICES ASSUME Init PROVE SerialInv
    OBVIOUS
  <1>1. AtMostOneActive
    <2> SUFFICES ASSUME NEW d \in Devs, NEW s1 \in ActiveSubs(d), NEW s2 \in ActiveSubs(d)
                 PROVE  s1 = s2
      BY DEF AtMostOneActive
    <2>1. /\ s1 \in SubIds /\ sub[s1] # NoSub /\ sub[s1].dev = d
          /\ s2 \in SubIds /\ sub[s2] # NoSub /\ sub[s2].dev = d
      BY DEF ActiveSubs, Subs, NoSub
    <2>2. ~(s1 < s2) /\ ~(s2 < s1)
      BY <2>1 DEF Init, TrialTables
    <2>3. QED
      BY <2>1, <2>2, ConstAssumption DEF SubIds
  <1>2. EndsThemAll
    BY DEF Init, EndsThemAll, Idle
  <1>3. QED
    BY <1>1, <1>2, InitBaseInv DEF SerialInv

(* When requests are served one at a time a developer never holds two       *)
(* active subscriptions, though an approval may stop after any of its       *)
(* statements (subscription-upgrade.service.ts:49-96).                      *)
THEOREM SingleActive == ASSUME OneAtATime PROVE Spec => []AtMostOneActive
  <1>1. Init => SerialInv
    BY InitSerialInv
  <1>2. SerialInv /\ [Next]_vars => SerialInv'
    <2>1. SerialInv /\ [Next]_vars => (EndsThemAll /\ AtMostOneActive)'
      BY OneAtATime, NextSerialInv DEF OneAtATime, OneOpen, Overlap
    <2>2. QED
      BY <2>1, NextBaseInv DEF SerialInv
  <1>3. SerialInv => AtMostOneActive
    BY DEF SerialInv
  <1>4. QED
    BY <1>1, <1>2, <1>3, PTL DEF Spec
-----------------------------------------------------------------------------
(***************************************************************************)
(* Served one at a time, a decision stands and no value is credited twice: *)
(* what a job has read is still so when it writes.                         *)
(***************************************************************************)

(* The places of a job that has picked an order. *)
Picked == Approving \cup {"writeProof", "reject"}

(* The order a job has picked is still undecided. *)
PicksPending ==
    \A j \in Jobs : job[j].pc \in Picked => order[job[j].ord].status = "pending"

(* The steps of a job that write no order. *)
LeavesOrders(j) ==
    \/ OpenTicket(j) \/ WriteReply(j) \/ WriteStatus(j) \/ FindOrder(j) \/ FindPkg(j)
    \/ FindSubs(j) \/ EndSub(j) \/ AllEnded(j) \/ CreateSub(j) \/ FindRejected(j) \/ Fail(j)

(* A job picks a pending order, keeps the one it picked, or has none. *)
LEMMA PicksOrKeeps ==
    ASSUME TypeOK, NEW j \in Jobs, LeavesOrders(j)
    PROVE  /\ order' = order
           /\ \/ job'[j].pc \notin Picked
              \/ order[job'[j].ord].status = "pending"
              \/ job[j].pc \in Picked /\ job'[j].ord = job[j].ord
  <1>1. CASE OpenTicket(j) \/ WriteReply(j) \/ Fail(j)
    BY <1>1 DEF OpenTicket, WriteReply, Fail, TypeOK, Job, Idle, Picked, Approving
  <1>2. CASE WriteStatus(j)
    BY <1>2 DEF WriteStatus, TypeOK, Job, Idle, Picked, Approving
  <1>3. CASE FindOrder(j) \/ FindRejected(j)
    <2>1. ASSUME job' = [job EXCEPT ![j] = Idle] PROVE job'[j].pc \notin Picked
      BY <2>1 DEF TypeOK, Idle, Picked, Approving
    <2>2. ASSUME NEW o \in PendingOrders(job[j].dev), NEW c \in {"findPkg", "reject"},
                 job' = [job EXCEPT ![j].pc = c, ![j].ord = o]
          PROVE  order[job'[j].ord].status = "pending"
      BY <2>2 DEF TypeOK, Job, PendingOrders
    <2>3. QED
      BY <1>3, <2>1, <2>2 DEF FindOrder, FindRejected, Newest
  <1>4. CASE FindPkg(j) \/ FindSubs(j) \/ AllEnded(j)
    BY <1>4 DEF FindPkg, FindSubs, AllEnded, TypeOK, Job, Idle, Picked, Approving
  <1>5. CASE EndSub(j)
    BY <1>5 DEF EndSub, TypeOK, Job, Picked, Approving
  <1>6. CASE CreateSub(j)
    BY <1>6 DEF CreateSub, TypeOK, Job, Idle, Picked, Approving
  <1>7. QED
    BY <1>1, <1>2, <1>3, <1>4, <1>5, <1>6 DEF LeavesOrders

(* A request starts with a pending order, or with none. *)
LEMMA StartsPending ==
    ASSUME TypeOK, NEW j \in Jobs, NEW x, NEW s,
           ReadProof(j, x) \/ ReadReply(j, x) \/ ReadTicket(j, x, s)
    PROVE  /\ order' = order
           /\ job'[j].pc \notin Picked \/ order[job'[j].ord].status = "pending"
  <1>1. CASE ReadProof(j, x)
    BY <1>1 DEF ReadProof, TypeOK, Idle
  <1>2. CASE ReadReply(j, x)
    BY <1>2 DEF ReadReply, TypeOK, Idle, Picked, Approving
  <1>3. CASE ReadTicket(j, x, s)
    BY <1>3 DEF ReadTicket, TypeOK, Idle, Picked, Approving
  <1>4. QED
    BY <1>1, <1>2, <1>3

DecidedStay ==
    \A o \in OrderIds : order[o].status \in {"confirmed", "rejected"}
                          => order'[o].status = order[o].status

LEMMA NextPicksPending ==
    ASSUME OneOpen, OneOpen', TypeOK, JobsHoldOrders, PicksPending, [Next]_vars
    PROVE  PicksPending' /\ DecidedStay
  <1>1. CASE UNCHANGED <<order, job>>
    BY <1>1 DEF PicksPending, DecidedStay
  <1>2. ASSUME NEW d \in Devs, NEW p \in Pkgs, CreateOrder(d, p) PROVE PicksPending' /\ DecidedStay
    <2>1. PICK o \in OrderIds :
            o \notin Orders /\ order' = [order EXCEPT ![o] = [NoOrder EXCEPT !.dev = d, !.pkg = p,
                                                                             !.status = "pending"]]
      BY <1>2 DEF CreateOrder, NextId
    <2>2. order[o].status = "absent" /\ \A x \in OrderIds : x # o => order'[x] = order[x]
      BY <2>1 DEF Orders, TypeOK
    <2>3. job' = job /\ \A k \in Jobs : job[k].pc \in Picked
                                          => job[k].ord \in OrderIds /\ job[k].ord # o
      BY <1>2, <2>1 DEF CreateOrder, JobsHoldOrders, Orders, Picked
    <2>4. QED
      BY <2>2, <2>3 DEF PicksPending, DecidedStay
  <1>3. ASSUME NEW j \in Jobs, WriteProof(j) \/ Confirm(j) \/ Reject(j)
        PROVE  PicksPending' /\ DecidedStay
    <2>1. job[j].pc \in {"writeProof", "confirm", "reject"}
      BY <1>3 DEF WriteProof, Confirm, Reject
    <2>2. order[job[j].ord].status = "pending" /\ job[j].ord \in OrderIds
      BY <2>1 DEF PicksPending, JobsHoldOrders, Orders, Picked, Approving
    <2>3. \A o \in OrderIds : o # job[j].ord => order'[o] = order[o]
      BY <1>3 DEF WriteProof, Confirm, Reject, TypeOK
    <2>4. job'[j].pc \in {"openTicket", "idle"}
      BY <1>3 DEF WriteProof, Confirm, Reject, TypeOK, Job, Idle
    <2>5. \A k \in Jobs \ {j} : job'[k] = job[k] /\ job[k].pc = "idle"
      BY <1>3, Alone DEF Step
    <2>6. QED
      BY <2>2, <2>3, <2>4, <2>5 DEF PicksPending, DecidedStay, Picked, Approving
  <1>4. ASSUME NEW j \in Jobs, LeavesOrders(j) PROVE PicksPending' /\ DecidedStay
    <2>1. /\ order' = order
          /\ \/ job'[j].pc \notin Picked
             \/ order[job'[j].ord].status = "pending"
             \/ job[j].pc \in Picked /\ job'[j].ord = job[j].ord
      BY <1>4, PicksOrKeeps
    <2>2. \A k \in Jobs \ {j} : job'[k] = job[k] /\ job[k].pc = "idle"
      BY <1>4, Alone DEF LeavesOrders, Step
    <2>3. QED
      BY <2>1, <2>2 DEF PicksPending, DecidedStay, Picked, Approving
  <1>5. ASSUME NEW j \in Jobs, Starts(j) PROVE  PicksPending' /\ DecidedStay
    <2>1. order' = order /\ (job'[j].pc \notin Picked \/ order[job'[j].ord].status = "pending")
      BY <1>5, StartsPending DEF Starts
    <2>2. \A k \in Jobs \ {j} : job'[k] = job[k] /\ job[k].pc = "idle"
      BY <1>5, Alone
    <2>3. QED
      BY <2>1, <2>2 DEF PicksPending, DecidedStay, Picked, Approving
  <1>6. QED
    BY <1>1, <1>2, <1>3, <1>4, <1>5
       DEF Next, vars, Step, Starts, LeavesOrders, DeletePackage

(* An order that was confirmed or rejected never changes its status again  *)
(* when requests are served one at a time, whatever calls fail: the status *)
(* written by billing.service.ts:164 is that of an order still pending.    *)
THEOREM DecisionsStand == ASSUME OneAtATime PROVE Spec => DecisionIsFinal
  <1> DEFINE I == TypeOK /\ JobsHoldOrders /\ PicksPending
  <1>1. Init => I
    BY InitTypeOK, InitBaseInv DEF BaseInv, Init, PicksPending, Idle, Picked, Approving
  <1>2. I /\ [Next]_vars => I' /\ DecidedStay
    BY OneAtATime, NextTypeOK, NextJobsHoldOrders, NextPicksPending
       DEF OneAtATime, OneOpen, Overlap
  <1>3. I /\ [Next]_vars => [DecidedStay]_vars
    BY <1>2
  <1> HIDE DEF I
  <1>4. Spec => [][DecidedStay]_vars
    BY <1>1, <1>2, <1>3, PTL DEF Spec
  <1>5. QED
    BY <1>4 DEF DecisionIsFinal, DecidedStay
-----------------------------------------------------------------------------
(***************************************************************************)
(* Grants of an order. Counting them is not inductive: the bound has to    *)
(* say how much room is left, which depends on how far the order is. While *)
(* it is pending and nothing is about to confirm it, every grant it has    *)
(* had was followed by a failure.                                          *)
(***************************************************************************)

GrantsOf(o) == {s \in Subs : sub[s].of = o}

(* A subscription was made for an order that exists, or with the account. *)
GrantsHaveOrders == \A s \in Subs : sub[s].of \in Orders \cup {0}

(* The order's status, or what it is about to be. *)
Settled(o) == order[o].status # "pending" \/ Confirming(o)

GrantsPaidFor ==
    \A o \in Orders : Cardinality(GrantsOf(o)) <= (IF Settled(o) THEN 1 ELSE 0) + faults

GrantInv == BaseInv /\ PicksPending /\ GrantsHaveOrders /\ GrantsPaidFor

(* There are finitely many grants, and one more insert adds at most one. *)
LEMMA GrantsFinite ==
    ASSUME NEW o PROVE IsFiniteSet(GrantsOf(o)) /\ Cardinality(GrantsOf(o)) \in Nat
  <1>1. IsFiniteSet(SubIds)
    BY FS_Interval, ConstAssumption DEF SubIds
  <1>2. IsFiniteSet(GrantsOf(o))
    BY <1>1, FS_Subset DEF GrantsOf, Subs
  <1>3. QED
    BY <1>2, FS_CardinalityType

(* The steps that create no subscription change no grant. *)
LEMMA GrantsKept ==
    ASSUME BaseInv, [Next]_vars, \A j \in Jobs : ~CreateSub(j)
    PROVE  Subs' = Subs /\ \A s \in Subs : sub'[s].of = sub[s].of
  <1>1. CASE sub' = sub
    BY <1>1 DEF Subs
  <1>2. ASSUME NEW j \in Jobs, EndSub(j)
        PROVE  Subs' = Subs /\ \A s \in Subs : sub'[s].of = sub[s].of
    <2>1. PICK s \in job[j].todo :
            s \in SubIds /\ sub' = [sub EXCEPT ![s].status = "upgraded"]
      BY <1>2, EndSubEnds DEF BaseInv
    <2>2. s \in Subs
      BY <1>2, <2>1 DEF EndSub, BaseInv, EndsOwnSubs
    <2>3. QED
      BY <2>1, <2>2 DEF Subs, BaseInv, TypeOK, SubRow
  <1>3. QED
    BY <1>1, <1>2
       DEF Next, vars, Step, CreateOrder, DeletePackage, ReadProof, ReadReply, ReadTicket, Fail,
           WriteProof, OpenTicket, WriteReply, WriteStatus, FindOrder, FindPkg, FindSubs,
           AllEnded, Confirm, FindRejected, Reject

(* A job comes to its confirmation by an insert and leaves it by the        *)
(* confirmation or by a failure.                                            *)
LEMMA ConfirmingKept ==
    ASSUME TypeOK, [Next]_vars, \A j \in Jobs : ~CreateSub(j) /\ ~Confirm(j) /\ ~Fail(j)
    PROVE  \A o \in OrderIds : Confirming(o)' = Confirming(o)
  <1> SUFFICES ASSUME NEW k \in Jobs
               PROVE  \/ job'[k] = job[k]
                      \/ job[k].pc # "confirm" /\ job'[k].pc # "confirm"
    BY DEF Confirming
  <1>1. CASE job' = job
    BY <1>1
  <1>2. ASSUME NEW j \in Jobs, WriteProof(j) \/ OpenTicket(j) \/ WriteReply(j) \/ Reject(j)
        PROVE  job'[k] = job[k] \/ (job[k].pc # "confirm" /\ job'[k].pc # "confirm")
    BY <1>2 DEF WriteProof, OpenTicket, WriteReply, Reject, TypeOK, Job, Idle
  <1>3. ASSUME NEW j \in Jobs, WriteStatus(j)
        PROVE  job'[k] = job[k] \/ (job[k].pc # "confirm" /\ job'[k].pc # "confirm")
    BY <1>3 DEF WriteStatus, TypeOK, Job, Idle
  <1>4. ASSUME NEW j \in Jobs, FindOrder(j) \/ FindRejected(j)
        PROVE  job'[k] = job[k] \/ (job[k].pc # "confirm" /\ job'[k].pc # "confirm")
    <2>1. ASSUME NEW o, NEW c \in {"findPkg", "reject"},
                 job' = [job EXCEPT ![j].pc = c, ![j].ord = o]
          PROVE  job'[j].pc # "confirm"
      BY <2>1 DEF TypeOK, Job
    <2>2. ASSUME job' = [job EXCEPT ![j] = Idle] PROVE job'[j].pc # "confirm"
      BY <2>2 DEF TypeOK, Idle
    <2>3. (k # j => job'[k] = job[k]) /\ job[j].pc # "confirm"
      BY <1>4 DEF FindOrder, FindRejected, TypeOK
    <2>4. QED
      BY <1>4, <2>1, <2>2, <2>3 DEF FindOrder, FindRejected
  <1>5. ASSUME NEW j \in Jobs, FindPkg(j) \/ FindSubs(j) \/ AllEnded(j)
        PROVE  job'[k] = job[k] \/ (job[k].pc # "confirm" /\ job'[k].pc # "confirm")
    BY <1>5 DEF FindPkg, FindSubs, AllEnded, TypeOK, Job, Idle
  <1>6. ASSUME NEW j \in Jobs, EndSub(j)
        PROVE  job'[k] = job[k] \/ (job[k].pc # "confirm" /\ job'[k].pc # "confirm")
    BY <1>6 DEF EndSub, TypeOK, Job
  <1>7. ASSUME NEW j \in Jobs, NEW x, NEW s,
               ReadProof(j, x) \/ ReadReply(j, x) \/ ReadTicket(j, x, s)
        PROVE  job'[k] = job[k] \/ (job[k].pc # "confirm" /\ job'[k].pc # "confirm")
    <2>1. CASE ReadProof(j, x)
      BY <2>1 DEF ReadProof, TypeOK, Idle
    <2>2. CASE ReadReply(j, x)
      BY <2>2 DEF ReadReply, TypeOK, Idle
    <2>3. CASE ReadTicket(j, x, s)
      BY <2>3 DEF ReadTicket, TypeOK, Idle
    <2>4. QED
      BY <1>7, <2>1, <2>2, <2>3
  <1>8. QED
    BY <1>1, <1>2, <1>3, <1>4, <1>5, <1>6, <1>7
       DEF Next, vars, Step, CreateOrder, DeletePackage

(* An insert adds one grant to the order of the job, which was pending with *)
(* nothing about to confirm it, and is about to be confirmed now.           *)
LEMMA CreateSubGrants ==
    ASSUME OneOpen, OneOpen', GrantInv, NEW j \in Jobs, CreateSub(j)
    PROVE  (GrantsHaveOrders /\ GrantsPaidFor)'
  <1> USE DEF GrantInv, BaseInv
  <1>1. /\ job[j].pc = "createSub" /\ order' = order /\ faults' = faults
        /\ \A k \in Jobs \ {j} : job'[k] = job[k] /\ job[k].pc = "idle"
    BY Alone DEF CreateSub, Step
  <1>2. job[j].ord \in Orders /\ order[job[j].ord].status = "pending"
    BY <1>1 DEF JobsHoldOrders, PicksPending, Picked, Approving
  <1>3. \A o \in Orders : ~Confirming(o)
    BY <1>1 DEF Confirming
  <1>4. Orders' = Orders
    BY <1>1 DEF Orders
  <1>5. ASSUME job' = [job EXCEPT ![j] = Idle], UNCHANGED sub
        PROVE  (GrantsHaveOrders /\ GrantsPaidFor)'
    <2>1. job'[j].pc = "idle"
      BY <1>5 DEF TypeOK, Idle
    <2>2. \A o \in Orders : ~Confirming(o)'
      BY <1>1, <2>1 DEF Confirming
    <2>3. QED
      BY <1>1, <1>3, <1>4, <1>5, <2>2 DEF GrantsHaveOrders, GrantsPaidFor, GrantsOf, Subs, Settled
  <1>6. ASSUME NEW s \in NextId(SubIds, Subs),
               job' = [job EXCEPT ![j].pc = "confirm", ![j].made = s],
               sub' = [sub EXCEPT ![s] =
                         [dev |-> job[j].dev, pkg |-> order[job[j].ord].pkg,
                          status |-> "active", of |-> job[j].ord, credit |-> job[j].credit]]
        PROVE  (GrantsHaveOrders /\ GrantsPaidFor)'
    <2>1. s \in SubIds /\ s \notin Subs
      BY DEF NextId
    <2>2. /\ sub'[s].of = job[j].ord /\ sub'[s].status = "active"
          /\ \A x \in SubIds : x # s => sub'[x] = sub[x]
      BY <1>6, <2>1 DEF TypeOK
    <2>3. Subs' = Subs \cup {s}
      BY <2>1, <2>2 DEF Subs
    <2>4. GrantsHaveOrders'
      BY <1>2, <1>4, <2>1, <2>2, <2>3 DEF GrantsHaveOrders, Subs
    <2>5. job'[j].pc = "confirm" /\ job'[j].ord = job[j].ord
      BY <1>6 DEF TypeOK, Job
    <2>6. \A o \in Orders : Confirming(o)' <=> o = job[j].ord
      BY <1>1, <2>5 DEF Confirming
    <2>7. ASSUME NEW o \in Orders
          PROVE  Cardinality(GrantsOf(o)') <= (IF Settled(o)' THEN 1 ELSE 0) + faults
      <3>1. Cardinality(GrantsOf(o)) <= (IF Settled(o) THEN 1 ELSE 0) + faults
        BY DEF GrantsPaidFor
      <3>2. CASE o = job[j].ord
        <4>1. GrantsOf(o)' = GrantsOf(o) \cup {s} /\ s \notin GrantsOf(o)
          BY <2>1, <2>2, <2>3, <3>2 DEF GrantsOf, Subs
        <4>2. Cardinality(GrantsOf(o)') = Cardinality(GrantsOf(o)) + 1
          BY <4>1, GrantsFinite, FS_AddElement
        <4>3. ~Settled(o) /\ Settled(o)'
          BY <1>2, <1>3, <2>6, <3>2 DEF Settled
        <4>4. faults \in Nat
          BY ConstAssumption DEF TypeOK
        <4>5. QED
          BY <3>1, <4>2, <4>3, <4>4, GrantsFinite
      <3>3. CASE o # job[j].ord
        <4>1. GrantsOf(o)' = GrantsOf(o)
          BY <2>1, <2>2, <2>3, <3>3 DEF GrantsOf, Subs
        <4>2. Settled(o)' = Settled(o)
          BY <1>1, <1>3, <2>6, <3>3 DEF Settled
        <4>3. QED
          BY <3>1, <4>1, <4>2
      <3>4. QED
        BY <3>2, <3>3
    <2>8. QED
      BY <1>1, <1>4, <2>4, <2>7 DEF GrantsPaidFor
  <1>7. QED
    BY <1>5, <1>6 DEF CreateSub

LEMMA NextGrantInv ==
    ASSUME OneOpen, OneOpen', GrantInv, [Next]_vars PROVE (GrantsHaveOrders /\ GrantsPaidFor)'
  <1> USE DEF GrantInv, BaseInv
  <1>1. ASSUME NEW j \in Jobs, CreateSub(j) PROVE (GrantsHaveOrders /\ GrantsPaidFor)'
    BY <1>1, CreateSubGrants
  <1>2. ASSUME \A j \in Jobs : ~CreateSub(j) PROVE (GrantsHaveOrders /\ GrantsPaidFor)'
    <2>1. RowsKept /\ Subs' = Subs /\ \A s \in Subs : sub'[s].of = sub[s].of
      BY <1>2, GrantsKept, NextRowsKept
    <2>2. \A o \in OrderIds : GrantsOf(o)' = GrantsOf(o)
      BY <2>1 DEF GrantsOf
    <2>3. GrantsHaveOrders'
      BY <2>1 DEF GrantsHaveOrders, RowsKept
    <2>4. \A o \in Orders : IF Settled(o) THEN Cardinality(GrantsOf(o)) <= 1 + faults
                                          ELSE Cardinality(GrantsOf(o)) <= faults
      BY ConstAssumption DEF GrantsPaidFor, TypeOK
    <2>5. faults \in Nat
      BY ConstAssumption DEF TypeOK
    <2>6. ASSUME NEW o \in Orders', o \notin Orders PROVE Cardinality(GrantsOf(o)') = 0
      <3>1. GrantsOf(o) = {}
        BY <2>6, ConstAssumption DEF GrantsOf, GrantsHaveOrders, Orders, OrderIds
      <3>2. QED
        BY <2>2, <3>1, FS_EmptySet DEF Orders
    <2>7. ASSUME NEW o \in Orders, faults' = faults,
                 Settled(o) => Settled(o)'
          PROVE  Cardinality(GrantsOf(o)') <= (IF Settled(o)' THEN 1 ELSE 0) + faults'
      BY <2>2, <2>4, <2>5, <2>7, GrantsFinite DEF Orders
    <2>8. CASE \E j \in Jobs : Fail(j)
      <3>1. order' = order /\ faults' = faults + 1
        BY <2>8 DEF Fail
      <3>2. ASSUME NEW o \in Orders
            PROVE  Cardinality(GrantsOf(o)') <= (IF Settled(o)' THEN 1 ELSE 0) + faults'
        BY <2>2, <2>4, <2>5, <3>1, GrantsFinite DEF Orders
      <3>3. QED
        BY <2>3, <3>1, <3>2 DEF GrantsPaidFor, Orders
    <2>9. CASE \E j \in Jobs : Confirm(j)
      <3>1. PICK j \in Jobs : Confirm(j)
        BY <2>9
      <3>2. /\ job[j].pc = "confirm" /\ faults' = faults
            /\ \A k \in Jobs \ {j} : job'[k] = job[k] /\ job[k].pc = "idle"
        BY <3>1, Alone DEF Confirm, Step
      <3>3. job[j].ord \in OrderIds /\ order'[job[j].ord].status = "confirmed"
            /\ \A o \in OrderIds : o # job[j].ord => order'[o] = order[o]
        BY <3>1, <3>2 DEF Confirm, JobsHoldOrders, Approving, Orders, TypeOK, OrderRow
      <3>4. \A o \in Orders : Settled(o) => Settled(o)'
        BY <3>2, <3>3 DEF Settled, Confirming, Orders
      <3>5. Orders' = Orders
        BY <3>2, <3>3 DEF Orders, JobsHoldOrders, Approving
      <3>6. QED
        BY <2>3, <2>7, <3>2, <3>4, <3>5 DEF GrantsPaidFor
    <2>10. CASE \A j \in Jobs : ~Confirm(j) /\ ~Fail(j)
      <3>1. \A o \in OrderIds : Confirming(o)' = Confirming(o)
        BY <1>2, <2>10, ConfirmingKept
      <3>2. faults' = faults
        BY <2>10
           DEF Next, vars, Step, CreateOrder, DeletePackage, ReadProof, ReadReply, ReadTicket,
               WriteProof, OpenTicket, WriteReply, WriteStatus, FindOrder, FindPkg, FindSubs,
               EndSub, AllEnded, CreateSub, Confirm, FindRejected, Reject
      <3>3. DecidedStay
        BY NextPicksPending
      <3>4. \A o \in Orders : o \in OrderIds /\ order[o].status \in OrderStatus \ {"absent"}
        BY DEF Orders, TypeOK, OrderRow
      <3>5. \A o \in Orders : Settled(o) => Settled(o)'
        BY <3>1, <3>3, <3>4 DEF Settled, DecidedStay, OrderStatus
      <3>6. \A o \in Orders : Cardinality(GrantsOf(o)') <= (IF Settled(o)' THEN 1 ELSE 0) + faults'
        BY <2>7, <3>2, <3>5
      <3>7. \A o \in Orders' : o \notin Orders
                => Cardinality(GrantsOf(o)') <= (IF Settled(o)' THEN 1 ELSE 0) + faults'
        BY <2>5, <2>6, <3>2
      <3>8. QED
        BY <2>3, <3>6, <3>7 DEF GrantsPaidFor
    <2>11. QED
      BY <2>8, <2>9, <2>10
  <1>3. QED
    BY <1>1, <1>2

LEMMA InitGrantInv == Init => GrantInv
  <1> SUFFICES ASSUME Init PROVE GrantInv
    OBVIOUS
  <1>1. Orders = {} /\ PicksPending
    BY DEF Init, Orders, NoOrder, PicksPending, Idle, Picked, Approving
  <1>2. ASSUME NEW s \in Subs PROVE sub[s].of = 0
    <2>1. PICK d \in Devs, q \in Free : sub[s] = TrialRow(d, q)
      BY DEF Init, TrialTables, Subs, NoSub
    <2>2. QED
      BY <2>1 DEF TrialRow, NoSub
  <1>3. QED
    BY <1>1, <1>2, InitBaseInv DEF GrantInv, GrantsHaveOrders, GrantsPaidFor

LEMMA GrantsBounded == GrantInv => ExtraGrantsNeedFaults
  <1> SUFFICES ASSUME GrantInv, NEW o \in Orders
               PROVE  Cardinality(GrantsOf(o)) <= 1 + faults
    BY DEF ExtraGrantsNeedFaults, GrantsOf
  <1>1. faults \in Nat
    BY ConstAssumption DEF GrantInv, BaseInv, TypeOK
  <1>2. QED
    BY <1>1, GrantsFinite DEF GrantInv, GrantsPaidFor

(* When requests are served one at a time, an order is granted a second     *)
(* subscription only after a database call failed, and each further grant   *)
(* needs one more failure (subscription-upgrade.service.ts:89-111): the     *)
(* statement that inserts the subscription is followed by the one that      *)
(* confirms the order, and a confirmed order is not picked again.           *)
THEOREM GrantsNeedFaults == ASSUME OneAtATime PROVE Spec => []ExtraGrantsNeedFaults
  <1>1. Init => GrantInv
    BY InitGrantInv
  <1>2. GrantInv /\ [Next]_vars => GrantInv'
    <2>1. OneOpen /\ OneOpen'
      BY OneAtATime DEF OneAtATime, OneOpen, Overlap
    <2>2. QED
      BY <2>1, NextBaseInv, NextPicksPending, NextGrantInv DEF GrantInv, BaseInv
  <1>3. GrantInv => ExtraGrantsNeedFaults
    BY GrantsBounded
  <1>4. QED
    BY <1>1, <1>2, <1>3, PTL DEF Spec
-----------------------------------------------------------------------------
(* A job's credit is empty until it ends its first subscription. *)
Ending == {"endSubs", "createSub"}

CreditStartsEmpty ==
    \A j \in Jobs : job[j].pc \notin Ending \cup {"confirm"} => job[j].credit = {}

(* What a subscription was credited with exists and has ended. *)
CreditEnded ==
    \A s \in Subs : \A c \in sub[s].credit : c \in Subs /\ sub[c].status # "active"

(* What a job is going to credit has ended too and was not credited before; *)
(* what it is going to end is active.                                       *)
JobCreditFresh ==
    \A j \in Jobs : job[j].pc \in Ending =>
        /\ \A c \in job[j].credit : /\ c \in Subs /\ sub[c].status # "active"
                                    /\ \A s \in Subs : c \notin sub[s].credit
        /\ job[j].pc = "endSubs" => job[j].todo \subseteq ActiveSubs(job[j].dev)

CreditInv ==
    BaseInv /\ CreditStartsEmpty /\ CreditEnded /\ JobCreditFresh /\ CreditedOnce

LEMMA InitCreditInv == Init => CreditInv
  <1> SUFFICES ASSUME Init PROVE CreditInv
    OBVIOUS
  <1>1. ASSUME NEW s \in Subs PROVE sub[s].credit = {}
    <2>1. PICK d \in Devs, q \in Free : sub[s] = TrialRow(d, q)
      BY DEF Init, TrialTables, Subs, NoSub
    <2>2. QED
      BY <2>1 DEF TrialRow, NoSub
  <1>2. CreditStartsEmpty /\ JobCreditFresh
    BY DEF Init, CreditStartsEmpty, JobCreditFresh, Idle, Ending
  <1>3. QED
    BY <1>1, <1>2, InitBaseInv DEF CreditInv, CreditEnded, CreditedOnce

(* The steps outside that stretch give a job no credit. *)
LEMMA NextCreditStartsEmpty ==
    ASSUME TypeOK, CreditStartsEmpty, [Next]_vars PROVE CreditStartsEmpty'
  <1> SUFFICES ASSUME NEW k \in Jobs, job'[k].pc \notin Ending \cup {"confirm"}
               PROVE  job'[k].credit = {}
    BY DEF CreditStartsEmpty
  <1>1. CASE job'[k] = job[k]
    BY <1>1 DEF CreditStartsEmpty
  <1>2. ASSUME NEW j \in Jobs, WriteProof(j) \/ OpenTicket(j) \/ WriteReply(j)
        PROVE  job'[k].credit = {}
    BY <1>2 DEF WriteProof, OpenTicket, WriteReply, CreditStartsEmpty, TypeOK, Job, Idle, Ending
  <1>3. ASSUME NEW j \in Jobs, WriteStatus(j) PROVE job'[k].credit = {}
    BY <1>3 DEF WriteStatus, CreditStartsEmpty, TypeOK, Job, Idle, Ending
  <1>4. ASSUME NEW j \in Jobs, FindPkg(j) \/ Confirm(j) \/ Reject(j) \/ Fail(j)
        PROVE  job'[k].credit = {}
    BY <1>4 DEF FindPkg, Confirm, Reject, Fail, CreditStartsEmpty, TypeOK, Job, Idle, Ending
  <1>5. ASSUME NEW j \in Jobs, FindOrder(j) \/ FindRejected(j) PROVE job'[k].credit = {}
    <2>1. ASSUME job' = [job EXCEPT ![j] = Idle] PROVE job'[k].credit = {}
      BY <1>1, <2>1 DEF TypeOK, Idle
    <2>2. ASSUME NEW o, NEW c \in {"findPkg", "reject"},
                 job' = [job EXCEPT ![j].pc = c, ![j].ord = o]
          PROVE  job'[k].credit = job[k].credit
      BY <2>2 DEF TypeOK, Job
    <2>3. job[j].credit = {}
      BY <1>5 DEF FindOrder, FindRejected, CreditStartsEmpty, Ending
    <2>4. k # j => job'[k] = job[k]
      BY <1>5 DEF FindOrder, FindRejected, TypeOK
    <2>5. QED
      BY <1>1, <1>5, <2>1, <2>2, <2>3, <2>4 DEF FindOrder, FindRejected
  <1>6. ASSUME NEW j \in Jobs, FindSubs(j) \/ AllEnded(j) PROVE job'[k].credit = {}
    BY <1>6 DEF FindSubs, AllEnded, CreditStartsEmpty, TypeOK, Job, Ending
  <1>7. ASSUME NEW j \in Jobs, EndSub(j) PROVE job'[k].credit = {}
    <2>1. job[j].pc = "endSubs" /\ job'[j].pc = job[j].pc /\ (k # j => job'[k] = job[k])
      BY <1>7 DEF EndSub, TypeOK, Job
    <2>2. QED
      BY <1>1, <2>1 DEF Ending
  <1>8. ASSUME NEW j \in Jobs, CreateSub(j) PROVE job'[k].credit = {}
    <2>1. ASSUME job' = [job EXCEPT ![j] = Idle] PROVE job'[k].credit = {}
      BY <1>1, <2>1 DEF TypeOK, Idle
    <2>2. ASSUME NEW s, job' = [job EXCEPT ![j].pc = "confirm", ![j].made = s]
          PROVE  job'[k].credit = {}
      BY <1>1, <2>2 DEF TypeOK, Job
    <2>3. QED
      BY <1>8, <2>1, <2>2 DEF CreateSub
  <1>9. ASSUME NEW j \in Jobs, NEW x, NEW s,
               ReadProof(j, x) \/ ReadReply(j, x) \/ ReadTicket(j, x, s)
        PROVE  job'[k].credit = {}
    <2>1. CASE ReadProof(j, x)
      BY <1>1, <2>1 DEF ReadProof, TypeOK, Idle
    <2>2. CASE ReadReply(j, x)
      BY <1>1, <2>2 DEF ReadReply, TypeOK, Idle
    <2>3. CASE ReadTicket(j, x, s)
      BY <1>1, <2>3 DEF ReadTicket, TypeOK, Idle
    <2>4. QED
      BY <1>9, <2>1, <2>2, <2>3
  <1>10. QED
    BY <1>1, <1>2, <1>3, <1>4, <1>5, <1>6, <1>7, <1>8, <1>9
       DEF Next, vars, Step, CreateOrder, DeletePackage

CreditRest == CreditEnded /\ JobCreditFresh /\ CreditedOnce

(* EndSub moves one active subscription from the list to the credit. *)
LEMMA EndSubCredit ==
    ASSUME OneOpen, OneOpen', CreditInv, NEW j \in Jobs, EndSub(j) PROVE CreditRest'
  <1> USE DEF CreditInv, BaseInv
  <1>1. PICK s \in job[j].todo :
          /\ s \in SubIds /\ sub[s].dev = job[j].dev
          /\ sub' = [sub EXCEPT ![s].status = "upgraded"]
          /\ \A d \in Devs : ActiveSubs(d)' = ActiveSubs(d) \ {s}
          /\ job'[j].pc = job[j].pc /\ job'[j].dev = job[j].dev
          /\ job'[j].todo = job[j].todo \ {s}
    BY EndSubEnds
  <1>2. /\ job[j].pc = "endSubs" /\ job[j].dev \in Devs
        /\ \A k \in Jobs \ {j} : job'[k] = job[k] /\ job[k].pc = "idle"
    BY Alone DEF EndSub, Step, TypeOK, Job
  <1>3. s \in Subs /\ sub[s].status = "active"
    BY <1>2 DEF JobCreditFresh, Ending, ActiveSubs
  <1>4. job'[j].credit \subseteq job[j].credit \cup {s}
    <2>1. PICK x \in Newest(job[j].todo) : job' =
            [job EXCEPT ![j].todo = @ \ {x},
               ![j].credit = IF sub[x].pkg \in pkgs THEN @ \cup Credits(x, order[job[j].ord].pkg)
                             ELSE @]
      BY DEF EndSub
    <2>2. job'[j].todo = job[j].todo \ {x} /\ x \in job[j].todo
      BY <2>1 DEF TypeOK, Job, Newest
    <2>3. x = s
      BY <1>1, <2>2
    <2>4. Credits(x, order[job[j].ord].pkg) \subseteq {x}
      BY DEF Credits
    <2>5. job'[j].credit \subseteq job[j].credit \cup Credits(x, order[job[j].ord].pkg)
      BY <2>1 DEF TypeOK, Job
    <2>6. QED
      BY <2>3, <2>4, <2>5
  <1>5. /\ Subs' = Subs
        /\ \A x \in Subs : sub'[x].credit = sub[x].credit
        /\ \A x \in Subs : sub'[x].status = IF x = s THEN "upgraded" ELSE sub[x].status
    BY <1>1, <1>3 DEF Subs, TypeOK, SubRow
  <1>6. \A x \in Subs : s \notin sub[x].credit
    BY <1>3 DEF CreditEnded
  <1>7. CreditEnded' /\ CreditedOnce'
    BY <1>5 DEF CreditEnded, CreditedOnce
  <1>8. job'[j].todo \subseteq ActiveSubs(job[j].dev)'
    <2>1. job[j].todo \subseteq ActiveSubs(job[j].dev)
      BY <1>2 DEF JobCreditFresh, Ending
    <2>2. ActiveSubs(job[j].dev)' = ActiveSubs(job[j].dev) \ {s}
      BY <1>1, <1>2, <1>3, <1>5 DEF ActiveSubs, TypeOK, SubRow
    <2>3. QED
      BY <1>1, <2>1, <2>2
  <1>9. \A c \in job'[j].credit : c \in Subs' /\ sub'[c].status # "active"
                                  /\ \A x \in Subs' : c \notin sub'[x].credit
    BY <1>2, <1>3, <1>4, <1>5, <1>6 DEF JobCreditFresh, Ending
  <1>10. QED
    BY <1>1, <1>2, <1>7, <1>8, <1>9 DEF CreditRest, JobCreditFresh, Ending

(* CreateSub turns the job's credit into that of a new subscription. *)
LEMMA CreateSubCredit ==
    ASSUME OneOpen, OneOpen', CreditInv, NEW j \in Jobs, CreateSub(j) PROVE CreditRest'
  <1> USE DEF CreditInv, BaseInv
  <1>1. /\ job[j].pc = "createSub"
        /\ \A k \in Jobs \ {j} : job'[k] = job[k] /\ job[k].pc = "idle"
    BY Alone DEF CreateSub, Step
  <1>2. CASE job' = [job EXCEPT ![j] = Idle] /\ UNCHANGED sub
    <2>1. job'[j].pc = "idle"
      BY <1>2 DEF TypeOK, Idle
    <2>2. QED
      BY <1>1, <1>2, <2>1 DEF CreditRest, CreditEnded, CreditedOnce, JobCreditFresh, Subs, Ending
  <1>3. ASSUME NEW s \in NextId(SubIds, Subs),
               job' = [job EXCEPT ![j].pc = "confirm", ![j].made = s],
               sub' = [sub EXCEPT ![s] =
                         [dev |-> job[j].dev, pkg |-> order[job[j].ord].pkg,
                          status |-> "active", of |-> job[j].ord, credit |-> job[j].credit]]
        PROVE  CreditRest'
    <2>1. s \in SubIds /\ s \notin Subs /\ job'[j].pc = "confirm"
      BY <1>3 DEF NextId, TypeOK, Job
    <2>2. /\ sub'[s].credit = job[j].credit /\ sub'[s].status = "active"
          /\ \A x \in SubIds : x # s => sub'[x] = sub[x]
      BY <1>3, <2>1 DEF TypeOK
    <2>3. Subs' = Subs \cup {s}
      BY <2>1, <2>2 DEF Subs
    <2>4. \A c \in job[j].credit : /\ c \in Subs /\ sub[c].status # "active"
                                   /\ \A x \in Subs : c \notin sub[x].credit
      BY <1>1 DEF JobCreditFresh, Ending
    <2>5. \A x \in Subs : x # s /\ sub'[x] = sub[x]
      BY <2>1, <2>2 DEF Subs
    <2>6. CreditEnded'
      BY <2>2, <2>3, <2>4, <2>5 DEF CreditEnded
    <2>7. CreditedOnce'
      BY <2>2, <2>3, <2>4, <2>5 DEF CreditedOnce
    <2>8. QED
      BY <1>1, <2>1, <2>6, <2>7 DEF CreditRest, JobCreditFresh, Ending
  <1>4. QED
    BY <1>2, <1>3 DEF CreateSub

LEMMA NextCreditInv ==
    ASSUME OneOpen, OneOpen', CreditInv, [Next]_vars PROVE CreditRest'
  <1> USE DEF CreditInv, BaseInv
  <1>1. CASE UNCHANGED <<sub, job>>
    BY <1>1 DEF CreditRest, CreditEnded, CreditedOnce, JobCreditFresh, ActiveSubs, Subs
  <1>2. ASSUME NEW j \in Jobs, FindSubs(j) PROVE CreditRest'
    <2>1. /\ sub' = sub /\ job[j].credit = {}
          /\ job'[j].todo = ActivePage(job[j].dev) /\ job'[j].dev = job[j].dev
          /\ job'[j].credit = job[j].credit
      BY <1>2 DEF FindSubs, TypeOK, Job, CreditStartsEmpty, Ending
    <2>2. \A k \in Jobs \ {j} : job'[k] = job[k] /\ job[k].pc = "idle"
      BY <1>2, Alone DEF Step
    <2>3. QED
      BY <2>1, <2>2
         DEF CreditRest, CreditEnded, CreditedOnce, JobCreditFresh, Ending, ActivePage,
             ActiveSubs, Subs
  <1>3. ASSUME NEW j \in Jobs, AllEnded(j) PROVE CreditRest'
    <2>1. /\ sub' = sub /\ job[j].pc = "endSubs" /\ job'[j].pc = "createSub"
          /\ job'[j].credit = job[j].credit
      BY <1>3 DEF AllEnded, TypeOK, Job
    <2>2. \A k \in Jobs \ {j} : job'[k] = job[k] /\ job[k].pc = "idle"
      BY <1>3, Alone DEF Step
    <2>3. QED
      BY <2>1, <2>2 DEF CreditRest, CreditEnded, CreditedOnce, JobCreditFresh, Subs, Ending
  <1>4. ASSUME NEW j \in Jobs, EndSub(j) PROVE CreditRest'
    BY <1>4, EndSubCredit
  <1>5. ASSUME NEW j \in Jobs, CreateSub(j) PROVE CreditRest'
    BY <1>5, CreateSubCredit
  <1>6. ASSUME NEW j \in Jobs,
               \/ OtherStep(j)
               \/ \E x : \E s : ReadProof(j, x) \/ ReadReply(j, x) \/ ReadTicket(j, x, s)
        PROVE CreditRest'
    <2>1. /\ sub' = sub
          /\ \A k \in Jobs : job'[k] = job[k] \/ job'[k].pc \notin Ending
      BY <1>6, OtherSteps DEF Ending
    <2>2. QED
      BY <2>1 DEF CreditRest, CreditEnded, CreditedOnce, JobCreditFresh, ActiveSubs, Subs
  <1>7. QED
    BY <1>1, <1>2, <1>3, <1>4, <1>5, <1>6
       DEF Next, vars, Step, OtherStep, CreateOrder, DeletePackage

(* When requests are served one at a time no value is credited twice, also *)
(* when an approval fails between any two of its statements and is done    *)
(* again (subscription-upgrade.service.ts:49-96): a subscription is ended  *)
(* in the table before its value reaches the next one.                     *)
THEOREM ValueCreditedOnce == ASSUME OneAtATime PROVE Spec => []CreditedOnce
  <1>1. CreditInv /\ [Next]_vars => CreditInv'
    <2>1. OneOpen /\ OneOpen'
      BY OneAtATime DEF OneAtATime, OneOpen, Overlap
    <2>2. QED
      BY <2>1, NextBaseInv, NextCreditStartsEmpty, NextCreditInv
         DEF CreditInv, CreditRest, BaseInv
  <1>2. CreditInv => CreditedOnce
    BY DEF CreditInv
  <1>3. QED
    BY <1>1, <1>2, InitCreditInv, PTL DEF Spec
-----------------------------------------------------------------------------
(***************************************************************************)
(* What holds of requests served one at a time holds of any number of them *)
(* until the first two overlap, whatever calls fail meanwhile.             *)
(***************************************************************************)

Orderly == OneOpen /\ SerialInv /\ GrantInv /\ CreditInv

LEMMA InitOrderly == Init => Orderly
  <1> SUFFICES ASSUME Init PROVE Orderly
    OBVIOUS
  <1>1. OneOpen
    BY DEF Init, OneOpen, Overlap, Idle
  <1>2. QED
    BY <1>1, InitSerialInv, InitGrantInv, InitCreditInv DEF Orderly

LEMMA NextOrderly ==
    ASSUME Orderly, OneOpen', [Next]_vars PROVE Orderly' /\ DecidedStay
  <1> USE DEF Orderly
  <1>1. BaseInv' /\ PicksPending' /\ DecidedStay
    BY NextBaseInv, NextPicksPending DEF SerialInv, GrantInv, BaseInv
  <1>2. SerialInv'
    BY <1>1, NextSerialInv DEF SerialInv
  <1>3. GrantInv'
    BY <1>1, NextGrantInv DEF GrantInv
  <1>4. CreditInv'
    BY <1>1, NextCreditStartsEmpty, NextCreditInv DEF CreditInv, CreditRest, BaseInv
  <1>5. QED
    BY <1>1, <1>2, <1>3, <1>4

LEMMA ObservedStep ==
    ASSUME [ObservedNext]_<<vars, overlapped>>, overlapped \/ Orderly, ~overlapped'
    PROVE  ~overlapped /\ Orderly /\ Orderly' /\ [Next]_vars /\ DecidedStay
  <1>1. CASE ObservedNext
    <2>1. ~overlapped /\ ~Overlap' /\ Next
      BY <1>1 DEF ObservedNext
    <2>2. QED
      BY <2>1, NextOrderly DEF OneOpen
  <1>2. CASE UNCHANGED <<vars, overlapped>>
    <2>1. ~overlapped /\ Orderly /\ [Next]_vars
      BY <1>2
    <2>2. OneOpen'
      BY <1>2, <2>1 DEF Orderly, OneOpen, Overlap, vars
    <2>3. QED
      BY <2>1, <2>2, NextOrderly
  <1>3. QED
    BY <1>1, <1>2

(* Any number of requests, any failures: until two requests are open at the *)
(* same time a developer holds one active subscription, no value is         *)
(* credited twice, and a second grant of an order needs a failure. So it is *)
(* their overlap alone that can break these                                 *)
(* (subscription-upgrade.service.ts:49-111).                                *)
THEOREM OrderlyUntilOverlap ==
    ObservedSpec
      => [](overlapped \/ (AtMostOneActive /\ CreditedOnce /\ ExtraGrantsNeedFaults))
  <1>1. Init /\ overlapped = FALSE => overlapped \/ Orderly
    BY InitOrderly
  <1>2. (overlapped \/ Orderly) /\ [ObservedNext]_<<vars, overlapped>>
          => (overlapped \/ Orderly)'
    BY ObservedStep
  <1>3. Orderly => AtMostOneActive /\ CreditedOnce /\ ExtraGrantsNeedFaults
    BY GrantsBounded DEF Orderly, SerialInv, CreditInv
  <1>4. QED
    BY <1>1, <1>2, <1>3, PTL DEF ObservedSpec

(* Any number of requests, any failures: the decision on an order stands    *)
(* until two requests are open at the same time (billing.service.ts:155-164 *)
(* reads an order and writes it later without looking again).               *)
THEOREM DecisionsStandUntilOverlap ==
    ObservedSpec => [][DecidedStay \/ overlapped']_<<vars, overlapped>>
  <1>1. Init /\ overlapped = FALSE => overlapped \/ Orderly
    BY InitOrderly
  <1>2. (overlapped \/ Orderly) /\ [ObservedNext]_<<vars, overlapped>>
          => (overlapped \/ Orderly)' /\ [DecidedStay \/ overlapped']_<<vars, overlapped>>
    BY ObservedStep
  <1>3. QED
    BY <1>1, <1>2, PTL DEF ObservedSpec
-----------------------------------------------------------------------------
(***************************************************************************)
(* Up to the first overlap the handlers implement Entitlement. What the    *)
(* mapping reads off the tables is the newest subscription of a developer, *)
(* whatever its status: the active one is always the newest, ids being     *)
(* handed out without gaps, and while there is none the newest still       *)
(* counts.                                                                 *)
(***************************************************************************)

SubsOf(d) == {s \in Subs : sub[s].dev = d}

NoIdGaps == \A s \in Subs : \A x \in SubIds : x < s => x \in Subs

ActiveIsNewest == \A d \in Devs : \A s \in ActiveSubs(d) : \A x \in SubsOf(d) : x <= s

Undisturbed == OneOpen /\ EndsThemAll /\ AtMostOneActive /\ PicksPending /\ ActiveIsNewest

MapInv == GapInv /\ NoIdGaps /\ (overlapped \/ Undisturbed)

LEMMA InitMapInv == Init /\ overlapped = FALSE => MapInv
  <1> SUFFICES ASSUME Init, overlapped = FALSE PROVE MapInv
    OBVIOUS
  <1>1. GapInv
    BY InitGapInv
  <1>2. SerialInv
    BY InitSerialInv
  <1>3. \A s \in SubIds : s \in Subs <=> sub[s] # NoSub
    <2>1. \A d \in Devs, p \in Free : TrialRow(d, p).status = "active"
      BY DEF TrialRow, NoSub
    <2>2. \A s \in SubIds : sub[s] = NoSub \/ \E d \in Devs, p \in Free : sub[s] = TrialRow(d, p)
      BY DEF Init, TrialTables
    <2>3. NoSub.status = "absent"
      BY DEF NoSub
    <2>4. \A s \in SubIds : sub[s] = NoSub \/ sub[s].status = "active"
      BY <2>1, <2>2
    <2>5. QED
      BY <2>3, <2>4 DEF Subs
  <1>4. NoIdGaps
    BY <1>3 DEF NoIdGaps, Init, TrialTables, Subs
  <1>5. ActiveIsNewest
    <2> SUFFICES ASSUME NEW d \in Devs, NEW s \in ActiveSubs(d), NEW x \in SubsOf(d)
                 PROVE  x <= s
      BY DEF ActiveIsNewest
    <2>1. s \in SubIds /\ x \in SubIds /\ sub[x] # NoSub /\ sub[x].dev = sub[s].dev
      BY <1>3 DEF ActiveSubs, SubsOf, Subs
    <2>2. ~(s < x)
      BY <2>1 DEF Init, TrialTables
    <2>3. QED
      BY <2>1, <2>2, ConstAssumption DEF SubIds
  <1>6. OneOpen /\ PicksPending
    BY DEF Init, OneOpen, Overlap, PicksPending, Idle, Picked, Approving
  <1>7. QED
    BY <1>1, <1>2, <1>4, <1>5, <1>6 DEF MapInv, Undisturbed, SerialInv

(* An insert takes the id after all the others. *)
LEMMA InsertIsNewest ==
    ASSUME NoIdGaps, NEW s \in NextId(SubIds, Subs) PROVE \A x \in Subs : x < s
  BY ConstAssumption DEF NoIdGaps, NextId, Subs, SubIds

(* Only inserts change the rows an id and its developer name. *)
LEMMA RowsStand ==
    ASSUME BaseInv, [Next]_vars, \A j \in Jobs : ~CreateSub(j)
    PROVE  /\ Subs' = Subs
           /\ \A d \in Devs : SubsOf(d)' = SubsOf(d)
           /\ \A s \in Subs : sub'[s].pkg = sub[s].pkg
           /\ \A d \in Devs : ActiveSubs(d)' \subseteq ActiveSubs(d)
  <1>1. /\ Subs' = Subs
        /\ \A s \in Subs : sub'[s].dev = sub[s].dev /\ sub'[s].pkg = sub[s].pkg
    BY GrantsKept, NextRowsKept DEF BaseInv, RowsKept
  <1>2. \A d \in Devs : SubsOf(d)' = SubsOf(d)
    BY <1>1 DEF SubsOf
  <1>3. CASE sub' = sub
    BY <1>1, <1>2, <1>3 DEF ActiveSubs, Subs
  <1>4. ASSUME NEW j \in Jobs, EndSub(j)
        PROVE  \A d \in Devs : ActiveSubs(d)' \subseteq ActiveSubs(d)
    BY <1>4, EndSubEnds DEF BaseInv
  <1>5. QED
    BY <1>1, <1>2, <1>3, <1>4
       DEF Next, vars, Step, CreateOrder, DeletePackage, ReadProof, ReadReply, ReadTicket, Fail,
           WriteProof, OpenTicket, WriteReply, WriteStatus, FindOrder, FindPkg, FindSubs,
           AllEnded, Confirm, FindRejected, Reject

(* What an insert does while nothing overlaps. *)
LEMMA InsertReplacesPlan ==
    ASSUME MapInv, ~overlapped, OneOpen', NEW j \in Jobs, CreateSub(j)
    PROVE  \E s \in SubIds :
             /\ \A x \in Subs : x < s /\ sub'[x] = sub[x]
             /\ Subs' = Subs \cup {s}
             /\ sub'[s].dev = job[j].dev /\ sub'[s].pkg = order[job[j].ord].pkg
             /\ \A d \in Devs : SubsOf(d)' = IF d = job[j].dev THEN SubsOf(d) \cup {s}
                                                               ELSE SubsOf(d)
             /\ \A d \in Devs : ActiveSubs(d)' = IF d = job[j].dev THEN {s} ELSE ActiveSubs(d)
             /\ job'[j].pc = "confirm" /\ job'[j].ord = job[j].ord
             /\ \A k \in Jobs \ {j} : job'[k] = job[k] /\ job[k].pc = "idle"
  <1> USE DEF MapInv, GapInv, BaseInv, Undisturbed
  <1>1. /\ job[j].pc = "createSub" /\ job[j].ord \in Orders /\ order[job[j].ord].pkg \in pkgs
        /\ job[j].dev \in Devs
    BY DEF CreateSub, JobsHoldOrders, Approving, Orders, TypeOK, OrderRow, Job
  <1>2. PICK s \in NextId(SubIds, Subs) :
          /\ job' = [job EXCEPT ![j].pc = "confirm", ![j].made = s]
          /\ sub' = [sub EXCEPT ![s] =
                       [dev |-> job[j].dev, pkg |-> order[job[j].ord].pkg,
                        status |-> "active", of |-> job[j].ord, credit |-> job[j].credit]]
    BY <1>1 DEF CreateSub
  <1>3. s \in SubIds /\ s \notin Subs /\ \A x \in Subs : x < s
    BY InsertIsNewest DEF NextId
  <1>4. /\ sub'[s].dev = job[j].dev /\ sub'[s].status = "active"
        /\ sub'[s].pkg = order[job[j].ord].pkg
        /\ \A x \in SubIds : x # s => sub'[x] = sub[x]
    BY <1>2, <1>3 DEF TypeOK
  <1>5. Subs' = Subs \cup {s}
    BY <1>3, <1>4 DEF Subs
  <1>6. \A x \in Subs : x < s /\ sub'[x] = sub[x]
    BY <1>3, <1>4 DEF Subs
  <1>7. ASSUME NEW d \in Devs
        PROVE  SubsOf(d)' = IF d = job[j].dev THEN SubsOf(d) \cup {s} ELSE SubsOf(d)
    BY <1>4, <1>5, <1>6 DEF SubsOf
  <1>8. ASSUME NEW d \in Devs
        PROVE  ActiveSubs(d)' = IF d = job[j].dev THEN {s} ELSE ActiveSubs(d)
    <2>1. ActiveSubs(job[j].dev) = {}
      BY <1>1 DEF EndsThemAll
    <2>2. ActiveSubs(d)' = IF d = job[j].dev THEN ActiveSubs(d) \cup {s} ELSE ActiveSubs(d)
      BY <1>4, <1>5, <1>6 DEF ActiveSubs
    <2>3. QED
      BY <2>1, <2>2
  <1>9. job'[j].pc = "confirm" /\ job'[j].ord = job[j].ord
    BY <1>2 DEF TypeOK, Job
  <1>10. \A k \in Jobs \ {j} : job'[k] = job[k] /\ job[k].pc = "idle"
    BY Alone DEF Step
  <1>11. QED
    BY <1>3, <1>4, <1>5, <1>6, <1>7, <1>8, <1>9, <1>10

LEMMA NextMapInv ==
    ASSUME Unfailed', MapInv, [ObservedNext]_<<vars, overlapped>> PROVE MapInv'
  <1> USE DEF MapInv
  <1>1. [Next]_vars /\ ([Next]_vars => GapInv')
    BY NextGapInv DEF ObservedNext, vars
  <1>2. NoIdGaps'
    <2>1. ASSUME NEW j \in Jobs, CreateSub(j) PROVE NoIdGaps'
      <3>1. CASE UNCHANGED sub
        BY <3>1 DEF NoIdGaps, Subs
      <3>2. ASSUME NEW s \in NextId(SubIds, Subs), NEW r,
                   sub' = [sub EXCEPT ![s] = r], r.status = "active"
            PROVE  NoIdGaps'
        <4>1. Subs' = Subs \cup {s} /\ s \in SubIds
          BY <3>2 DEF Subs, NextId, GapInv, BaseInv, TypeOK
        <4>2. QED
          BY <4>1 DEF NoIdGaps, NextId
      <3>3. QED
        BY <2>1, <3>1, <3>2 DEF CreateSub
    <2>2. ASSUME \A j \in Jobs : ~CreateSub(j) PROVE NoIdGaps'
      BY <1>1, <2>2, RowsStand DEF NoIdGaps, GapInv
    <2>3. QED
      BY <2>1, <2>2
  <1>3. ASSUME ~overlapped' PROVE Undisturbed'
    <2>1. ~overlapped /\ Undisturbed /\ OneOpen'
      <3>1. CASE ObservedNext
        BY <1>3, <3>1 DEF ObservedNext, OneOpen
      <3>2. CASE UNCHANGED <<vars, overlapped>>
        BY <1>3, <3>2 DEF vars, Undisturbed, OneOpen, Overlap
      <3>3. QED
        BY <3>1, <3>2
    <2>2. (EndsThemAll /\ AtMostOneActive)' /\ PicksPending'
      BY <1>1, <2>1, NextSerialInv, NextPicksPending DEF Undisturbed, SerialInv, GapInv, BaseInv
    <2>3. ASSUME NEW j \in Jobs, CreateSub(j) PROVE ActiveIsNewest'
      <3>1. PICK s \in SubIds :
              /\ \A x \in Subs : x < s
              /\ \A d \in Devs : SubsOf(d)' = IF d = job[j].dev THEN SubsOf(d) \cup {s}
                                                                ELSE SubsOf(d)
              /\ \A d \in Devs : ActiveSubs(d)' = IF d = job[j].dev THEN {s} ELSE ActiveSubs(d)
        BY <2>1, <2>3, InsertReplacesPlan
      <3>2. \A d \in Devs : \A x \in SubsOf(d) : x <= s
        BY <3>1, ConstAssumption DEF SubsOf, Subs, SubIds
      <3>3. s <= s
        BY ConstAssumption DEF SubIds
      <3>4. QED
        BY <2>1, <3>1, <3>2, <3>3 DEF Undisturbed, ActiveIsNewest
    <2>4. ASSUME \A j \in Jobs : ~CreateSub(j) PROVE ActiveIsNewest'
      <3>1. \A d \in Devs : SubsOf(d)' = SubsOf(d) /\ ActiveSubs(d)' \subseteq ActiveSubs(d)
        BY <1>1, <2>4, RowsStand DEF GapInv
      <3>2. QED
        BY <2>1, <3>1 DEF Undisturbed, ActiveIsNewest
    <2>5. QED
      BY <2>1, <2>2, <2>3, <2>4 DEF Undisturbed
  <1>4. QED
    BY <1>1, <1>2, <1>3

(* The plan of a developer is that of the newest subscription. *)
PlansNewest == \A d \in Devs : PlanSub(d) = Newest(SubsOf(d))

LEMMA PlanIsNewest == NoCoverageGap /\ Undisturbed => PlansNewest
  <1> SUFFICES ASSUME NoCoverageGap, Undisturbed, NEW d \in Devs
               PROVE  PlanSub(d) = Newest(SubsOf(d))
    BY DEF PlansNewest
  <1>1. CASE ActiveSubs(d) = {} /\ Upgrading(d)
    BY <1>1 DEF PlanSub, SubsOf
  <1>2. CASE ActiveSubs(d) = {} /\ ~Upgrading(d)
    <2>1. SubsOf(d) = {}
      BY <1>2 DEF NoCoverageGap, Upgrading, SubsOf
    <2>2. QED
      BY <1>2, <2>1 DEF PlanSub, Newest
  <1>3. ASSUME NEW s \in ActiveSubs(d) PROVE PlanSub(d) = Newest(SubsOf(d))
    <2>1. ActiveSubs(d) = {s} /\ s \in SubsOf(d) /\ \A x \in SubsOf(d) : x <= s
      BY DEF Undisturbed, AtMostOneActive, ActiveIsNewest, ActiveSubs, SubsOf
    <2>2. SubsOf(d) \subseteq Nat
      BY ConstAssumption DEF SubsOf, Subs, SubIds
    <2>3. Newest(SubsOf(d)) = {s} /\ Newest(ActiveSubs(d)) = {s}
      BY <2>1, <2>2 DEF Newest
    <2>4. QED
      BY <2>1, <2>3 DEF PlanSub
  <1>4. QED
    BY <1>1, <1>2, <1>3
-----------------------------------------------------------------------------
(* What a step leaves of the two mapped variables: the plans, unless it     *)
(* inserts a subscription.                                                  *)
LEMMA HeldKept ==
    ASSUME BaseInv, [Next]_vars, NoCoverageGap, NoCoverageGap', Undisturbed, Undisturbed',
           \A j \in Jobs : ~CreateSub(j)
    PROVE  Held' = Held
  <1>0. PlansNewest /\ PlansNewest'
    BY PlanIsNewest, PTL
  <1>1. /\ \A d \in Devs : SubsOf(d)' = SubsOf(d)
        /\ \A s \in Subs : sub'[s].pkg = sub[s].pkg
    BY RowsStand
  <1>2. ASSUME NEW d \in Devs PROVE PlanSub(d)' = PlanSub(d) /\ PlanSub(d) \subseteq Subs
    <2>1. PlanSub(d) = Newest(SubsOf(d))
      BY <1>0 DEF PlansNewest
    <2>2. PlanSub(d)' = Newest(SubsOf(d)')
      BY <1>0 DEF PlansNewest
    <2>3. QED
      BY <1>1, <2>1, <2>2 DEF Newest, SubsOf
  <1>3. QED
    BY <1>1, <1>2 DEF Held

(* An order's decision, as the mapping reads it. *)
Decided(o) == IF Confirming(o) THEN "confirmed" ELSE order[o].status

LEMMA DecisionIs ==
    /\ Decision = [o \in OrderIds |-> [dev |-> order[o].dev, pkg |-> order[o].pkg,
                                       status |-> Decided(o)]]
    /\ Decision' = [o \in OrderIds |-> [dev |-> order'[o].dev, pkg |-> order'[o].pkg,
                                        status |-> Decided(o)']]
  BY DEF Decision, Decided

(* The insert of a subscription is the approval. *)
LEMMA InsertApproves ==
    ASSUME MapInv, MapInv', ~overlapped, ~overlapped', NEW j \in Jobs, CreateSub(j)
    PROVE  Promise!Approve(job[j].ord)
  <1> USE DEF MapInv, GapInv, BaseInv, Undisturbed
  <1> DEFINE o == job[j].ord
  <1>1. PICK s \in SubIds :
          /\ \A x \in Subs : x < s /\ sub'[x] = sub[x]
          /\ Subs' = Subs \cup {s}
          /\ sub'[s].dev = job[j].dev /\ sub'[s].pkg = order[o].pkg
          /\ \A d \in Devs : SubsOf(d)' = IF d = job[j].dev THEN SubsOf(d) \cup {s}
                                                            ELSE SubsOf(d)
          /\ job'[j].pc = "confirm" /\ job'[j].ord = o
          /\ \A k \in Jobs \ {j} : job'[k] = job[k] /\ job[k].pc = "idle"
    BY InsertReplacesPlan
  <1>2. /\ job[j].pc = "createSub" /\ order' = order
        /\ o \in OrderIds /\ order[o].dev = job[j].dev /\ order[o].status = "pending"
    BY DEF CreateSub, JobsHoldOrders, Approving, Orders, PicksPending, Picked
  <1>3. \A x \in OrderIds : ~Confirming(x) /\ (Confirming(x)' <=> x = o)
    BY <1>1, <1>2 DEF Confirming
  <1>4. Decision[o] = [dev |-> job[j].dev, pkg |-> order[o].pkg, status |-> "pending"]
    BY <1>2, <1>3, DecisionIs DEF Decided
  <1>5. Decision' = [Decision EXCEPT ![o].status = "confirmed"]
    BY <1>2, <1>3, DecisionIs DEF Decided
  <1>6. PlansNewest /\ PlansNewest'
    BY PlanIsNewest, PTL
  <1>7. ASSUME NEW d \in Devs
        PROVE  Held'[d] = IF d = job[j].dev THEN order[o].pkg ELSE Held[d]
    <2>1. PlanSub(d) = Newest(SubsOf(d)) /\ PlanSub(d)' = Newest(SubsOf(d)')
      BY <1>6 DEF PlansNewest
    <2>2. CASE d = job[j].dev
      <3>1. s <= s /\ \A x \in SubsOf(d) : x <= s /\ ~(s <= x)
        BY <1>1, ConstAssumption DEF SubsOf, Subs, SubIds
      <3>2. PlanSub(d)' = {s}
        BY <1>1, <2>1, <2>2, <3>1 DEF Newest
      <3>3. QED
        BY <1>1, <2>2, <3>2 DEF Held
    <2>3. CASE d # job[j].dev
      <3>1. PlanSub(d)' = PlanSub(d) /\ PlanSub(d) \subseteq Subs
        BY <1>1, <2>1, <2>3 DEF Newest, SubsOf
      <3>2. QED
        BY <1>1, <2>3, <3>1 DEF Held
    <2>4. QED
      BY <2>2, <2>3
  <1>8. Held' = [Held EXCEPT ![job[j].dev] = order[o].pkg]
    BY <1>7 DEF Held
  <1>9. QED
    BY <1>4, <1>5, <1>8 DEF Promise!Approve

(* The other steps place an order, reject one, or decide nothing. *)
LEMMA OthersDecide ==
    ASSUME MapInv, MapInv', ~overlapped, ~overlapped', [Next]_vars,
           \A j \in Jobs : ~CreateSub(j) /\ ~Fail(j)
    PROVE  Promise!Next \/ UNCHANGED Promise!vars
  <1> USE DEF MapInv, GapInv, BaseInv, Undisturbed
  <1>1. Held' = Held
    BY HeldKept
  <1>2. \A j \in Jobs : ~Fail(j)
    OBVIOUS
  <1>3. ASSUME Decision' = Decision PROVE UNCHANGED Promise!vars
    BY <1>1, <1>3 DEF Promise!vars
  <1>4. ASSUME \A j \in Jobs : ~Confirm(j), order' = order PROVE Decision' = Decision
    <2>1. \A o \in OrderIds : Confirming(o)' = Confirming(o)
      BY <1>2, <1>4, ConfirmingKept
    <2>2. QED
      BY <1>4, <2>1, DecisionIs DEF Decided
  <1>5. ASSUME NEW j \in Jobs, Confirm(j) PROVE Decision' = Decision
    <2>1. /\ job[j].pc = "confirm" /\ job[j].ord \in OrderIds
          /\ order' = [order EXCEPT ![job[j].ord].status = "confirmed",
                                    ![job[j].ord].sub = job[j].made]
          /\ job'[j].pc = "idle"
      BY <1>5 DEF Confirm, JobsHoldOrders, Approving, Orders, TypeOK, Idle
    <2>2. \A k \in Jobs \ {j} : job'[k] = job[k] /\ job[k].pc = "idle"
      BY <1>5, Alone DEF Step
    <2>3. \A o \in OrderIds : ~Confirming(o)' /\ (Confirming(o) <=> o = job[j].ord)
      BY <2>1, <2>2 DEF Confirming
    <2>4. \A o \in OrderIds : Decided(o)' = Decided(o)
      BY <2>1, <2>3 DEF Decided, TypeOK, OrderRow
    <2>5. \A o \in OrderIds : order'[o].dev = order[o].dev /\ order'[o].pkg = order[o].pkg
      BY <2>1 DEF TypeOK, OrderRow
    <2>6. QED
      BY <2>4, <2>5, DecisionIs
  <1>6. ASSUME NEW j \in Jobs, WriteProof(j) PROVE Decision' = Decision
    <2>1. /\ job[j].ord \in OrderIds /\ order[job[j].ord].status = "pending"
          /\ order' = [order EXCEPT ![job[j].ord].proof = TRUE,
                                    ![job[j].ord].status = "pending"]
      BY <1>6 DEF WriteProof, JobsHoldOrders, Orders, PicksPending, Picked
    <2>2. \A k \in Jobs : ~Confirm(k)
      <3>1. \A k \in Jobs : job[k].pc # "confirm"
        BY <1>6 DEF WriteProof, OneOpen, Overlap
      <3>2. QED
        BY <3>1 DEF Confirm
    <2>3. \A o \in OrderIds : Confirming(o)' = Confirming(o)
      BY <1>2, <2>2, ConfirmingKept
    <2>4. \A o \in OrderIds : /\ order'[o].dev = order[o].dev /\ order'[o].pkg = order[o].pkg
                              /\ order'[o].status = order[o].status
      BY <2>1 DEF TypeOK, OrderRow
    <2>5. QED
      BY <2>3, <2>4, DecisionIs DEF Decided
  <1>7. ASSUME NEW j \in Jobs, Reject(j) PROVE Promise!Next
    <2>1. /\ job[j].ord \in OrderIds /\ order[job[j].ord].status = "pending"
          /\ order' = [order EXCEPT ![job[j].ord].status = "rejected"]
      BY <1>7 DEF Reject, JobsHoldOrders, Orders, PicksPending, Picked
    <2>2. \A k \in Jobs : job[k].pc # "confirm"
      BY <1>7 DEF Reject, OneOpen, Overlap
    <2>3. \A o \in OrderIds : Confirming(o)' = Confirming(o) /\ ~Confirming(o)
      BY <1>2, <2>2, ConfirmingKept DEF Confirm, Confirming
    <2>4. Decision[job[j].ord].status = "pending"
      BY <2>1, <2>3, DecisionIs DEF Decided
    <2>5. \A o \in OrderIds :
             /\ order'[o].dev = order[o].dev /\ order'[o].pkg = order[o].pkg
             /\ order'[o].status = IF o = job[j].ord THEN "rejected" ELSE order[o].status
      BY <2>1 DEF TypeOK, OrderRow
    <2>6. Decision' = [Decision EXCEPT ![job[j].ord].status = "rejected"]
      BY <2>1, <2>3, <2>5, DecisionIs DEF Decided
    <2>7. Promise!Reject(job[j].ord)
      BY <1>1, <2>4, <2>6 DEF Promise!Reject
    <2>8. QED
      BY <2>1, <2>7 DEF Promise!Next
  <1>8. ASSUME NEW d \in Devs, NEW p \in Pkgs, CreateOrder(d, p) PROVE Promise!Next
    <2>1. PICK o \in OrderIds :
            /\ o \notin Orders
            /\ order' = [order EXCEPT ![o] = [NoOrder EXCEPT !.dev = d, !.pkg = p,
                                                             !.status = "pending"]]
      BY <1>8 DEF CreateOrder, NextId
    <2>2. order[o].status = "absent" /\ job' = job
      BY <1>8, <2>1 DEF CreateOrder, Orders
    <2>3. \A x \in OrderIds : Confirming(x)' = Confirming(x)
      BY <2>2 DEF Confirming
    <2>4. ~Confirming(o)
      BY <2>1 DEF Confirming, JobsHoldOrders, Approving
    <2>5. order'[o].dev = d /\ order'[o].pkg = p /\ order'[o].status = "pending"
      BY <2>1 DEF TypeOK, NoOrder
    <2>6. \A x \in OrderIds : x # o => order'[x] = order[x]
      BY <2>1 DEF TypeOK
    <2>7. Decision' = [Decision EXCEPT ![o] = [dev |-> d, pkg |-> p, status |-> "pending"]]
      BY <2>3, <2>4, <2>5, <2>6, DecisionIs DEF Decided
    <2>8. Decision[o].status = "absent"
      BY <2>2, <2>4, DecisionIs DEF Decided
    <2>9. Promise!Place(o, d, p)
      BY <1>1, <2>7, <2>8 DEF Promise!Place
    <2>10. QED
      BY <2>9 DEF Promise!Next
  <1>9. CASE order' = order
    BY <1>3, <1>4, <1>5, <1>9
  <1>10. CASE order' # order
    <2>1. \/ \E d \in Devs, p \in Pkgs : CreateOrder(d, p)
          \/ \E j \in Jobs : WriteProof(j) \/ Confirm(j) \/ Reject(j)
      BY <1>10, <1>2
         DEF Next, vars, Step, DeletePackage, ReadProof, ReadReply, ReadTicket,
             OpenTicket, WriteReply, WriteStatus, FindOrder, FindPkg, FindSubs,
             EndSub, AllEnded, CreateSub, FindRejected
    <2>2. QED
      BY <1>3, <1>5, <1>6, <1>7, <1>8, <2>1
  <1>11. QED
    BY <1>9, <1>10

LEMMA InitPromise == Init => Promise!Init
  <1> SUFFICES ASSUME Init PROVE Promise!Init
    OBVIOUS
  <1>1. TypeOK
    BY InitTypeOK
  <1>2. ASSUME NEW d \in Devs PROVE Held[d] \in Pkgs \cup {NoPlan}
    <2>1. PlanSub(d) \subseteq SubIds
      BY DEF PlanSub, Newest, ActiveSubs, Subs
    <2>2. QED
      BY <1>1, <2>1 DEF Held, TypeOK, SubRow
  <1>3. \A o \in OrderIds : ~Confirming(o)
    BY DEF Init, Idle, Confirming
  <1>4. \A o \in OrderIds : order[o] = NoOrder /\ NoOrder.status = "absent"
                            /\ NoOrder.dev \in Devs /\ NoOrder.pkg \in Pkgs
    BY DefaultRows DEF Init, NoOrder, OrderRow
  <1>5. Decision \in [OrderIds -> [dev : Devs, pkg : Pkgs, status : {"absent"}]]
    BY <1>3, <1>4 DEF Decision
  <1>6. Held \in [Devs -> Pkgs \cup {NoPlan}]
    BY <1>2 DEF Held
  <1>7. QED
    BY <1>5, <1>6 DEF Promise!Init

(* Any number of requests, any calls that may fail: until a call fails, a   *)
(* package is deleted or two requests are open together, the handlers       *)
(* implement Entitlement. An order is decided in one step, and the          *)
(* developer's plan changes in that very step, to the package of the order  *)
(* approved (subscription-upgrade.service.ts:29-123).                       *)
THEOREM PromiseUntilFailure ==
    ObservedSpec
      => Promise!Init /\ [][Promise!Next \/ overlapped' \/ ~Unfailed']_(Promise!vars)
  <1> DEFINE I == TypeOK /\ (Unfailed => MapInv)
  <1>1. Init /\ overlapped = FALSE => I /\ Promise!Init
    BY InitMapInv, InitPromise, InitTypeOK
  <1>2. I /\ [ObservedNext]_<<vars, overlapped>>
          => I' /\ [Promise!Next \/ overlapped' \/ ~Unfailed']_(Promise!vars)
    <2> SUFFICES ASSUME I, [ObservedNext]_<<vars, overlapped>>
                 PROVE  I' /\ [Promise!Next \/ overlapped' \/ ~Unfailed']_(Promise!vars)
      OBVIOUS
    <2>1. [Next]_vars
      BY DEF ObservedNext, vars
    <2>2. TypeOK'
      BY <2>1, NextTypeOK
    <2>3. CASE ~Unfailed'
      BY <2>2, <2>3
    <2>4. CASE Unfailed'
      <3>1. Unfailed /\ \A j \in Jobs : ~Fail(j)
        BY <2>1, <2>4, FailuresStay
      <3>2. MapInv /\ MapInv'
        BY <2>4, <3>1, NextMapInv
      <3> HIDE DEF I
      <3>3. ASSUME ~overlapped', NEW j \in Jobs, CreateSub(j) PROVE Promise!Next
        <4>1. job[j].ord \in OrderIds
          BY <3>2, <3>3 DEF CreateSub, MapInv, GapInv, BaseInv, JobsHoldOrders, Approving, Orders
        <4>2. ~overlapped
          BY <3>3 DEF ObservedNext
        <4>3. Promise!Approve(job[j].ord)
          BY <3>2, <3>3, <4>2, InsertApproves
        <4>4. QED
          BY <4>1, <4>3 DEF Promise!Next
      <3>4. ASSUME ~overlapped', \A j \in Jobs : ~CreateSub(j)
            PROVE  Promise!Next \/ UNCHANGED Promise!vars
        <4>1. ~overlapped
          BY <3>4 DEF ObservedNext
        <4>2. QED
          BY <2>1, <3>1, <3>2, <3>4, <4>1, OthersDecide
      <3>5. [Promise!Next \/ overlapped' \/ ~Unfailed']_(Promise!vars)
        BY <3>3, <3>4
      <3>6. QED
        BY <2>2, <3>2, <3>5 DEF I
    <2>5. QED
      BY <2>3, <2>4
  <1> HIDE DEF I
  <1>3. QED
    BY <1>1, <1>2, PTL DEF ObservedSpec

(* With no failing call and no ordered package deleted, the handlers, up to *)
(* the first moment two requests are open together, implement Entitlement   *)
(* (subscription-upgrade.service.ts:29-123).                                *)
THEOREM HandlersKeepPromise == ASSUME NothingFails PROVE ObservedSpec => KeepsPromise
  <1>1. ObservedSpec => Spec
    <2>1. [ObservedNext]_<<vars, overlapped>> => [Next]_vars
      BY DEF ObservedNext, vars
    <2>2. QED
      BY <2>1, PTL DEF ObservedSpec, Spec
  <1>2. ObservedSpec => []Unfailed
    BY <1>1, NothingFails, NeverFails, PTL
  <1>3. Unfailed' /\ [Promise!Next \/ overlapped' \/ ~Unfailed']_(Promise!vars)
          => [Promise!Next \/ overlapped']_(Promise!vars)
    OBVIOUS
  <1>4. QED
    BY <1>2, <1>3, PromiseUntilFailure, PTL DEF KeepsPromise
=============================================================================
