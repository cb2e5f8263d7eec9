----------------------------- MODULE Onboarding -----------------------------
(***************************************************************************)
(* How developers come to be and change status: the review of              *)
(* applications (controllers/admin/application.controller.ts,              *)
(* services/developer-application.service.ts), the status changes of       *)
(* developers (controllers/admin/developer.controller.ts), the direct      *)
(* registration (controllers/isv/isv-auth.controller.ts) and the creation  *)
(* of API applications (routes/v1/isv.routes.ts).                          *)
(*                                                                         *)
(* Each request handler is a process whose database statements are its     *)
(* steps; other requests run between them.  Only the approval of an        *)
(* application runs its statements in one transaction.  E-mail addresses   *)
(* are unique in every table, and stand for the rows.                      *)
(***************************************************************************)
EXTENDS PackageCatalog, Sequences

CONSTANTS
  Emails,   \* the e-mail addresses
  Procs,    \* requests
  Ops,      \* the operations these requests ask for
  MaxOpen,  \* bound: how many requests are served at a time
  MayFail   \* TRUE when a request may fail between two statements

ReviewOps == {"approve", "reject"}
StatusOps == {"activate", "suspend", "ban"}
KybOps == {"kybApprove", "kybReject"}
OwnerOps == {"register", "createApp"}

ASSUME OpsAssumption ==
  /\ Ops \subseteq ReviewOps \cup StatusOps \cup KybOps \cup OwnerOps
  /\ MaxOpen \in Nat /\ MayFail \in BOOLEAN

VARIABLES
  app,    \* developer_applications
  dev,    \* isv_developer: a row or NoDev
  owner,  \* the e-mails that have an owner user in isv_user
  trial,  \* the e-mails whose developer got a trial subscription
  apps,   \* the e-mails whose developer has created an API application
  audit,  \* developer_audit, in the order of creation
  proc,   \* the requests
  met,       \* how many reviews of an application began beside another one (history)
  crossed,   \* the e-mails with a status request that began beside another one (history)
  unlogged   \* the e-mails with a status that was written and not logged (history)

rows == <<app, dev, owner, trial, apps, audit>>
histories == <<met, crossed, unlogged>>
vars == <<app, dev, owner, trial, apps, audit, proc, met, crossed, unlogged, catalogVars>>

Statuses == {"active", "suspended", "banned"}
KybStatuses == {"pending", "approved", "rejected"}

AppRow == [status: {"pending", "approved", "rejected"}, linked: BOOLEAN]
DevRow == [kyb: KybStatuses, status: Statuses, origin: {"application", "registration"}]
NoDev == [kyb |-> "none", status |-> "none", origin |-> "none"]
AuditRow == [of: Emails, action: ReviewOps \cup StatusOps,
             previous: Statuses \cup {"pending"}, new: Statuses \cup {"approved", "rejected"}]
Proc == [pc: {"new", "checked", "written", "created", "done"},
         op: Ops \cup {"none"}, email: Emails, read: Statuses \cup {"none"}]

Init ==
  /\ app = [e \in Emails |-> [status |-> "pending", linked |-> FALSE]]
  /\ dev = [e \in Emails |-> NoDev]
  /\ owner = {} /\ trial = {} /\ apps = {}
  /\ audit = <<>>
  /\ proc \in [Procs -> {[pc |-> "new", op |-> "none", email |-> e, read |-> "none"] : e \in Emails}]
  /\ met = [e \in Emails |-> 0] /\ crossed = {} /\ unlogged = {}
  /\ InitCatalog

-----------------------------------------------------------------------------
Exists(e) == dev[e] # NoDev
Open == {p \in Procs : proc[p].pc \notin {"new", "done"}}

(* A request arrives and its first read passes the checks of the handler;  *)
(* one whose checks fail is answered without a change.                     *)
Begin(p, op, read) ==
  /\ proc[p].pc = "new"
  /\ Cardinality(Open) < MaxOpen
  /\ proc' = [proc EXCEPT ![p].pc = "checked", ![p].op = op, ![p].read = read]
  /\ UNCHANGED rows

At(p, op, pc) == proc[p].op = op /\ proc[p].pc = pc
Goto(p, pc) == proc' = [proc EXCEPT ![p].pc = pc]
Log(row) == audit' = Append(audit, row)

\* Bug: the status of the application is not looked at.
BeginReviewUnchecked(p, op) ==
  /\ op \in Ops \cap ReviewOps
  /\ Begin(p, op, "none")

(* approveApplication and rejectApplication read a pending application. *)
BeginReview(p, op) ==
  /\ op \in Ops \cap ReviewOps
  /\ app[proc[p].email].status = "pending"
  /\ Begin(p, op, "none")

NewDev(e, kyb, origin) ==
  dev' = [dev EXCEPT ![e] = [kyb |-> kyb, status |-> "active", origin |-> origin]]

\* Bug: without the transaction the approval may stop after its first row.
ApproveSplit(p) ==
  LET e == proc[p].email IN
  /\ At(p, "approve", "checked")
  /\ Goto(p, "done")
  /\ ~Exists(e)
  /\ NewDev(e, "approved", "application")
  /\ UNCHANGED <<app, owner, trial, apps, audit>>

(* The transaction of approveApplication.  It reads the application again, *)
(* but not its status; a second developer of this e-mail is refused by the *)
(* table, which rolls everything back.  There is a trial when a trial     *)
(* package is on sale at that moment.                                      *)
Approve(p) ==
  LET e == proc[p].email IN
  /\ At(p, "approve", "checked")
  /\ Goto(p, "done")
  /\ \/ /\ Exists(e)
        /\ UNCHANGED rows
     \/ /\ ~Exists(e)
        /\ NewDev(e, "approved", "application")
        /\ app' = [app EXCEPT ![e] = [status |-> "approved", linked |-> TRUE]]
        /\ Log([of |-> e, action |-> "approve", previous |-> "pending", new |-> "approved"])
        /\ trial' = IF pkgs.active # {} THEN trial \cup {e} ELSE trial
        /\ UNCHANGED <<owner, apps>>

(* rejectApplication: the update, then the audit row, which names the      *)
(* application where the others name the developer.                        *)
Reject(p) ==
  /\ At(p, "reject", "checked")
  /\ Goto(p, "written")
  /\ app' = [app EXCEPT ![proc[p].email].status = "rejected"]
  /\ UNCHANGED <<dev, owner, trial, apps, audit>>

RejectLog(p) ==
  /\ At(p, "reject", "written")
  /\ Goto(p, "done")
  /\ Log([of |-> proc[p].email, action |-> "reject", previous |-> "pending", new |-> "rejected"])
  /\ UNCHANGED <<app, dev, owner, trial, apps>>

-----------------------------------------------------------------------------
NewStatus == [activate |-> "active", suspend |-> "suspended", ban |-> "banned",
              kybApprove |-> "active", kybReject |-> "suspended"]
NewKyb == [kybApprove |-> "approved", kybReject |-> "rejected"]

\* Bug: a developer that is not there is not refused.
BeginStatusUnchecked(p, op) ==
  LET e == proc[p].email IN
  /\ op \in Ops \cap StatusOps
  /\ dev[e].status # NewStatus[op]
  /\ Begin(p, op, dev[e].status)

(* activateDeveloper, suspendDeveloper, banDeveloper: not when the         *)
(* developer already has the status.                                       *)
BeginStatus(p, op) ==
  LET e == proc[p].email IN
  /\ op \in Ops \cap StatusOps
  /\ Exists(e) /\ dev[e].status # NewStatus[op]
  /\ Begin(p, op, dev[e].status)

(* approveDeveloper and rejectDeveloper look at the KYB status only. *)
BeginKyb(p, op) ==
  LET e == proc[p].email IN
  /\ op \in Ops \cap KybOps
  /\ Exists(e) /\ dev[e].kyb # NewKyb[op]
  /\ Begin(p, op, dev[e].status)

SetStatus(e, s) == dev' = [dev EXCEPT ![e].status = s]

(* The status is overwritten, whatever it has become since it was read. *)
WriteStatus(p) ==
  LET q == proc[p] IN
  /\ q.op \in StatusOps /\ q.pc = "checked"
  /\ Goto(p, "written")
  /\ SetStatus(q.email, NewStatus[q.op])
  /\ UNCHANGED <<app, owner, trial, apps, audit>>

\* Bug: the audit row takes the status before the change from the new row.
LogStatusRereads(p) ==
  LET q == proc[p] IN
  /\ q.op \in StatusOps /\ q.pc = "written"
  /\ Goto(p, "done")
  /\ Log([of |-> q.email, action |-> q.op, previous |-> dev[q.email].status, new |-> NewStatus[q.op]])
  /\ UNCHANGED <<app, dev, owner, trial, apps>>

(* The audit row is a statement of its own. *)
LogStatus(p) ==
  LET q == proc[p] IN
  /\ q.op \in StatusOps /\ q.pc = "written"
  /\ Goto(p, "done")
  /\ Log([of |-> q.email, action |-> q.op, previous |-> q.read, new |-> NewStatus[q.op]])
  /\ UNCHANGED <<app, dev, owner, trial, apps>>

(* A KYB decision sets both statuses in one update, without an audit row. *)
WriteKyb(p) ==
  LET q == proc[p] IN
  /\ q.op \in KybOps /\ q.pc = "checked"
  /\ Goto(p, "done")
  /\ dev' = [dev EXCEPT ![q.email].status = NewStatus[q.op], ![q.email].kyb = NewKyb[q.op]]
  /\ UNCHANGED <<app, owner, trial, apps, audit>>

-----------------------------------------------------------------------------
(* register: no user may have the e-mail; then the developer, then its     *)
(* owner.  The tables refuse a second row of the e-mail.                   *)
BeginRegister(p) ==
  /\ "register" \in Ops
  /\ proc[p].email \notin owner
  /\ Begin(p, "register", "none")

CreateIsv(p) ==
  LET e == proc[p].email IN
  /\ At(p, "register", "checked")
  /\ \/ /\ Exists(e)
        /\ Goto(p, "done")
        /\ UNCHANGED rows
     \/ /\ ~Exists(e)
        /\ Goto(p, "created")
        /\ NewDev(e, "pending", "registration")
        /\ UNCHANGED <<app, owner, trial, apps, audit>>

CreateOwner(p) ==
  /\ At(p, "register", "created")
  /\ Goto(p, "done")
  /\ owner' = owner \cup {proc[p].email}
  /\ UNCHANGED <<app, dev, trial, apps, audit>>

(* POST /isv/applications: an owner whose developer's KYB is approved. *)
BeginCreateApp(p) ==
  /\ "createApp" \in Ops
  /\ proc[p].email \in owner
  /\ dev[proc[p].email].kyb = "approved"
  /\ Begin(p, "createApp", "none")

CreateApp(p) ==
  /\ At(p, "createApp", "checked")
  /\ Goto(p, "done")
  /\ apps' = apps \cup {proc[p].email}
  /\ UNCHANGED <<app, dev, owner, trial, audit>>

(* A statement fails, or the process stops: the request ends where it is. *)
Fail(p) ==
  /\ MayFail /\ p \in Open
  /\ Goto(p, "done")
  /\ UNCHANGED rows

Step(p) ==
  \/ \E op \in ReviewOps : BeginReview(p, op)
  \/ Approve(p) \/ Reject(p) \/ RejectLog(p)
  \/ \E op \in StatusOps : BeginStatus(p, op)
  \/ \E op \in KybOps : BeginKyb(p, op)
  \/ WriteStatus(p) \/ LogStatus(p) \/ WriteKyb(p)
  \/ BeginRegister(p) \/ CreateIsv(p) \/ CreateOwner(p)
  \/ BeginCreateApp(p) \/ CreateApp(p)
  \/ Fail(p)

\* With its step, request p begins one of the operations beside another one for the same e-mail.
Beside(p, ops) ==
  /\ proc[p].pc = "new" /\ proc'[p].op \in ops
  /\ \E q \in Open : proc[q].email = proc[p].email /\ proc[q].op \in ops

\* The step of p leaves a status that the log does not tell.
Unlogs(p) ==
  \/ proc[p].op \in KybOps /\ dev' # dev
  \/ proc[p].op \in StatusOps /\ proc[p].pc = "written" /\ audit' = audit

Note(p) ==
  LET e == proc[p].email IN
  /\ met' = IF Beside(p, ReviewOps) THEN [met EXCEPT ![e] = @ + 1] ELSE met
  /\ crossed' = IF Beside(p, StatusOps \cup KybOps) THEN crossed \cup {e} ELSE crossed
  /\ unlogged' = IF Unlogs(p) THEN unlogged \cup {e} ELSE unlogged

Next ==
  \/ \E p \in Procs : Step(p) /\ Note(p) /\ UNCHANGED catalogVars
  \/ CatalogNext /\ UNCHANGED <<rows, proc, histories>>

Spec == Init /\ [][Next]_vars

-----------------------------------------------------------------------------
TypeOK ==
  /\ app \in [Emails -> AppRow]
  /\ dev \in [Emails -> DevRow \cup {NoDev}]
  /\ owner \subseteq Emails /\ trial \subseteq Emails /\ apps \subseteq Emails
  /\ audit \in Seq(AuditRow)
  /\ proc \in [Procs -> Proc]
  /\ met \in [Emails -> Nat] /\ crossed \subseteq Emails /\ unlogged \subseteq Emails
  /\ CatalogTypeOK

\* The places of a log with the rows of e-mail e that tell of one of the actions.
RowsOf(log, e, actions) == {i \in DOMAIN log : log[i].of = e /\ log[i].action \in actions}

\* The status that the rows before place i of a log give the developer of e.
StatusAt(log, e, i) ==
  LET told == {j \in RowsOf(log, e, StatusOps) : j < i}
  IN IF told = {} THEN "active" ELSE log[Max(told)].new

(* The developer of an application, the link to it and the audit row of    *)
(* the approval exist together, once, or not at all, whatever fails and    *)
(* however many administrators approve, reject or register the same e-mail *)
(* at once (developer-application.service.ts:26).                          *)
ApprovalAtomic ==
  \A e \in Emails :
    /\ app[e].linked <=> dev[e].origin = "application"
    /\ Cardinality(RowsOf(audit, e, {"approve"})) = IF app[e].linked THEN 1 ELSE 0
    /\ e \in trial => app[e].linked

(* As long as every status that is written is logged too, which a KYB      *)
(* decision and a failure between the two statements leave out, the log    *)
(* tells the status a developer has, however its requests overlap; and     *)
(* replaying it gives that status, row after row, when they do not         *)
(* (developer.controller.ts:444).                                          *)
AuditReplays ==
  \A e \in Emails \ unlogged :
    LET told == RowsOf(audit, e, StatusOps)
        settled == Exists(e) /\ \A p \in Open : proc[p].email = e => proc[p].pc # "written"
    IN /\ settled => dev[e].status \in IF told = {} THEN {"active"} ELSE {audit[i].new : i \in told}
       /\ e \notin crossed =>
            /\ \A i \in told : audit[i].previous = StatusAt(audit, e, i)
            /\ settled => dev[e].status = StatusAt(audit, e, Len(audit) + 1)

(* "Application has already been processed"                                *)
(* (application.controller.ts:195): an application is decided once, plus   *)
(* at most once for each review that began beside another one, whatever    *)
(* fails; and unless two reviews met, a rejected applicant is a developer  *)
(* only by registering, which looks at no application                      *)
(* (isv-auth.controller.ts:90).                                            *)
DecidedOnce ==
  \A e \in Emails :
    /\ Cardinality(RowsOf(audit, e, ReviewOps)) <= 1 + met[e]
    /\ app[e].status = "rejected" /\ Exists(e) => dev[e].origin = "registration" \/ met[e] > 0
=============================================================================
