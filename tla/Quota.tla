------------------------------- MODULE Quota -------------------------------
(***************************************************************************)
(* The daily API quota of forwarded calls.                                 *)
(*                                                                         *)
(* forwardRequest charges every call to a subscription before it forwards  *)
(* it: atomicIncrementDailyUsage reads the developer's oldest active       *)
(* subscription with its package's limit, and then runs one UPDATE that    *)
(* adds one while the counter is below the limit that was read. Between    *)
(* the two statements the subscription may be replaced, the counters       *)
(* reset, the limit of the package edited or other calls charged.          *)
(*                                                                         *)
(* The counters are reset by a timer at midnight and by every start of the *)
(* process; neither is awaited by the requests served meanwhile.           *)
(***************************************************************************)
EXTENDS Naturals, FiniteSets

CONSTANTS
    Devs,         \* developers
    Pkgs,         \* packages
    Calls,        \* forwarded calls that may be in progress at once
    MaxSubs,      \* bound: subscriptions ever created
    MaxLimit,     \* bound: largest daily limit a package may be given
    MaxResets,    \* bound: resets per day
    MaxGrants,    \* bound: calls granted per day and subscription
    MaxFaults     \* bound: database calls that fail

ASSUME ConstAssumption ==
    /\ Devs # {} /\ Pkgs # {}
    /\ MaxSubs \in Nat /\ MaxLimit \in Nat /\ MaxResets \in Nat
    /\ MaxGrants \in Nat /\ MaxFaults \in Nat

VARIABLES
    limit,       \* dailyApiLimit of each package
    sub,         \* subscriptions table with the daily_api_usage counters
    call,        \* what each call in progress has read
    resetDue,    \* a reset was triggered (start or midnight) and has not run yet
    faults,      \* database calls that failed so far
    peak,        \* history: the largest limit each package ever had
    sinceReset,  \* history: calls granted on a subscription since its counter was reset
    today,       \* history: calls granted on a subscription since midnight
    resetsToday  \* history: resets run since midnight

vars == <<limit, sub, call, resetDue, faults, peak, sinceReset, today, resetsToday>>
history == <<peak, sinceReset, today, resetsToday>>

SubIds == 1 .. MaxSubs
SubRow == [dev : Devs, pkg : Pkgs, status : {"absent", "active", "upgraded"}, usage : Nat]
Call   == [pc : {"idle", "increment"}, sub : SubIds \cup {0}, limit : Nat, seen : Nat]

TypeOK ==
    /\ limit \in [Pkgs -> Nat]
    /\ sub \in [SubIds -> SubRow]
    /\ call \in [Calls -> Call]
    /\ \A c \in Calls : call[c].pc = "increment" => call[c].sub \in SubIds
    /\ resetDue \in BOOLEAN
    /\ faults \in 0 .. MaxFaults
    /\ peak \in [Pkgs -> Nat]
    /\ sinceReset \in [SubIds -> Nat]
    /\ today \in [SubIds -> Nat]
    /\ resetsToday \in Nat

NoCall == [pc |-> "idle", sub |-> 0, limit |-> 0, seen |-> 0]

Subs == {s \in SubIds : sub[s].status # "absent"}
ActiveSubs(d) == {s \in Subs : sub[s].dev = d /\ sub[s].status = "active"}

(* findFirst(... orderBy startDate asc): the oldest active subscription. *)
Oldest(S) == {s \in S : \A x \in S : s <= x}

ResetUsage(rows) == [s \in SubIds |-> [rows[s] EXCEPT !.usage = 0]]

-----------------------------------------------------------------------------
(* Faulty variants of the handlers below, one plausible bug each. *)

(* The counter is computed from the row that was read: lost updates. *)
IncrementFromRead(c) ==
    /\ call[c].pc = "increment"
    /\ LET s == call[c].sub
       IN  IF call[c].seen < call[c].limit
             THEN /\ sub' = [sub EXCEPT ![s].usage = call[c].seen + 1]
                  /\ sinceReset' = [sinceReset EXCEPT ![s] = @ + 1]
                  /\ today' = [today EXCEPT ![s] = @ + 1]
             ELSE UNCHANGED <<sub, sinceReset, today>>
    /\ call' = [call EXCEPT ![c] = NoCall]
    /\ UNCHANGED <<limit, resetDue, faults, peak, resetsToday>>

(* The last call of the day is granted twice: <= for <. *)
IncrementOffByOne(c) ==
    /\ call[c].pc = "increment"
    /\ LET s == call[c].sub
       IN  IF sub[s].usage <= call[c].limit
             THEN /\ sub' = [sub EXCEPT ![s].usage = @ + 1]
                  /\ sinceReset' = [sinceReset EXCEPT ![s] = @ + 1]
                  /\ today' = [today EXCEPT ![s] = @ + 1]
             ELSE UNCHANGED <<sub, sinceReset, today>>
    /\ call' = [call EXCEPT ![c] = NoCall]
    /\ UNCHANGED <<limit, resetDue, faults, peak, resetsToday>>

(* The check that a subscription was found is missing. *)
FindSubscriptionUnchecked(c, d) ==
    /\ call[c].pc = "idle"
    /\ call' = [call EXCEPT ![c] = [NoCall EXCEPT !.pc = "increment",
                                      !.sub = IF ActiveSubs(d) = {} THEN 0
                                              ELSE CHOOSE s \in ActiveSubs(d) : TRUE]]
    /\ UNCHANGED <<limit, sub, resetDue, faults, history>>

(* A call that fails is allowed through. *)
FailOpen(c) ==
    /\ call[c].pc = "increment"
    /\ faults < MaxFaults
    /\ faults' = faults + 1
    /\ sinceReset' = [sinceReset EXCEPT ![call[c].sub] = @ + 1]
    /\ today' = [today EXCEPT ![call[c].sub] = @ + 1]
    /\ call' = [call EXCEPT ![c] = NoCall]
    /\ UNCHANGED <<limit, sub, resetDue, peak, resetsToday>>

-----------------------------------------------------------------------------

Init ==
    /\ limit \in [Pkgs -> 0 .. MaxLimit]
    /\ sub = [s \in SubIds |-> [dev |-> CHOOSE d \in Devs : TRUE,
                                pkg |-> CHOOSE p \in Pkgs : TRUE,
                                status |-> "absent", usage |-> 0]]
    /\ call = [c \in Calls |-> NoCall]
    /\ resetDue = TRUE
    /\ faults = 0
    /\ peak = limit
    /\ sinceReset = [s \in SubIds |-> 0]
    /\ today = [s \in SubIds |-> 0]
    /\ resetsToday = 0

(* Subscriptions come and go as the billing component creates and ends them. *)
Subscribe(d, p) ==
    /\ \E s \in SubIds :
         /\ s \notin Subs /\ \A x \in SubIds : x < s => x \in Subs
         /\ sub' = [sub EXCEPT ![s] = [dev |-> d, pkg |-> p, status |-> "active", usage |-> 0]]
    /\ UNCHANGED <<limit, call, resetDue, faults, history>>

EndSubscription(s) ==
    /\ sub[s].status = "active"
    /\ sub' = [sub EXCEPT ![s].status = "upgraded"]
    /\ UNCHANGED <<limit, call, resetDue, faults, history>>

(* PUT /admin/packages/:id may change the limit under running subscriptions. *)
SetLimit(p, n) ==
    /\ n # limit[p]
    /\ limit' = [limit EXCEPT ![p] = n]
    /\ peak' = [peak EXCEPT ![p] = IF n > @ THEN n ELSE @]
    /\ UNCHANGED <<sub, call, resetDue, faults, sinceReset, today, resetsToday>>

(* checkAndIncrement, first statement. A developer without an active         *)
(* subscription is let through uncharged and ends here: no row changes.      *)
FindSubscription(c, d) ==
    /\ call[c].pc = "idle"
    /\ \E s \in Oldest(ActiveSubs(d)) :
         call' = [call EXCEPT ![c] = [pc |-> "increment", sub |-> s,
                                      limit |-> limit[sub[s].pkg], seen |-> sub[s].usage]]
    /\ UNCHANGED <<limit, sub, resetDue, faults, history>>

(* Second statement: one conditional UPDATE; no row matched means denied. *)
Increment(c) ==
    /\ call[c].pc = "increment"
    /\ LET s == call[c].sub
       IN  IF sub[s].usage < call[c].limit
             THEN /\ today[s] < MaxGrants
                  /\ sub' = [sub EXCEPT ![s].usage = @ + 1]
                  /\ sinceReset' = [sinceReset EXCEPT ![s] = @ + 1]
                  /\ today' = [today EXCEPT ![s] = @ + 1]
             ELSE UNCHANGED <<sub, sinceReset, today>>
    /\ call' = [call EXCEPT ![c] = NoCall]
    /\ UNCHANGED <<limit, resetDue, faults, peak, resetsToday>>

(* The call fails before the UPDATE ran, or its answer is lost after it ran: *)
(* either way the request is denied.                                         *)
FailClosed(c) ==
    /\ call[c].pc = "increment"
    /\ faults < MaxFaults
    /\ faults' = faults + 1
    /\ \/ UNCHANGED sub
       \/ /\ sub[call[c].sub].usage < call[c].limit
          /\ sub' = [sub EXCEPT ![call[c].sub].usage = @ + 1]
    /\ call' = [call EXCEPT ![c] = NoCall]
    /\ UNCHANGED <<limit, resetDue, history>>

(* The timer fires: a new day begins and a reset is on its way. *)
Midnight ==
    /\ resetDue' = TRUE
    /\ today' = [s \in SubIds |-> 0]
    /\ resetsToday' = 0
    /\ UNCHANGED <<limit, sub, call, faults, peak, sinceReset>>

(* The process stops and starts again: its calls are gone and the scheduler *)
(* triggers a reset.                                                        *)
Restart ==
    /\ call' = [c \in Calls |-> NoCall]
    /\ resetDue' = TRUE
    /\ UNCHANGED <<limit, sub, faults, history>>

(* resetAllDailyUsage: one UPDATE over all rows. *)
Reset ==
    /\ resetDue
    /\ resetsToday < MaxResets
    /\ resetDue' = FALSE
    /\ sub' = ResetUsage(sub)
    /\ sinceReset' = [s \in SubIds |-> 0]
    /\ resetsToday' = resetsToday + 1
    /\ UNCHANGED <<limit, call, faults, peak, today>>

(* The reset fails; the error is logged and the counters stay as they are. *)
ResetFails ==
    /\ resetDue
    /\ faults < MaxFaults
    /\ faults' = faults + 1
    /\ resetDue' = FALSE
    /\ UNCHANGED <<limit, sub, call, history>>

Next ==
    \/ \E d \in Devs, p \in Pkgs : Subscribe(d, p)
    \/ \E s \in SubIds : EndSubscription(s)
    \/ \E p \in Pkgs, n \in 0 .. MaxLimit : SetLimit(p, n)
    \/ \E c \in Calls, d \in Devs : FindSubscription(c, d)
    \/ \E c \in Calls : Increment(c) \/ FailClosed(c)
    \/ Midnight
    \/ Restart
    \/ Reset
    \/ ResetFails

Spec == Init /\ [][Next]_vars

-----------------------------------------------------------------------------

(* Every granted call was charged: calls racing on one counter, with resets,  *)
(* upgrades and failures between their two statements, lose no increment      *)
(* ("no read-then-write race condition", quota.service.ts:14).                *)
GrantsAreCharged == \A s \in SubIds : sinceReset[s] <= sub[s].usage

(* A counter never passes the largest limit its package ever had, although    *)
(* the limit compared with is the one read a statement earlier.               *)
UsageWithinLimit == \A s \in SubIds : sub[s].usage <= peak[sub[s].pkg]

(* More than one day's quota is granted in a day only through resets: each    *)
(* reset that day hands out at most one further quota.  ("Checks and manages  *)
(* daily API usage quotas per developer subscription", quota.service.ts:3, but *)
(* every start of the process resets the counters.)                           *)
ResetsBoundTheDay ==
    \A s \in SubIds : today[s] <= peak[sub[s].pkg] * resetsToday + sub[s].usage
=============================================================================
