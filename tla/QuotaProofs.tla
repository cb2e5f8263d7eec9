---------------------------- MODULE QuotaProofs ----------------------------
(***************************************************************************)
(* Theorems about Quota, for any number of concurrent calls, subscriptions *)
(* and limits, and however many calls fail.                                *)
(***************************************************************************)
EXTENDS Quota, TLAPS

(***************************************************************************)
(* The strengthening: a call in progress holds an existing subscription    *)
(* and a limit its package had; no package's limit is above its peak; and  *)
(* nothing was granted on a row that does not exist yet.                   *)
(***************************************************************************)
CallsHoldLimits ==
    /\ \A p \in Pkgs : limit[p] <= peak[p]
    /\ \A c \in Calls : call[c].pc = "increment" =>
          call[c].sub \in Subs /\ call[c].limit <= peak[sub[call[c].sub].pkg]

FreshRows == \A s \in SubIds : s \notin Subs => sinceReset[s] = 0 /\ today[s] = 0

IInv == /\ TypeOK /\ CallsHoldLimits /\ FreshRows
        /\ GrantsAreCharged /\ UsageWithinLimit /\ ResetsBoundTheDay

(* A larger factor gives a larger product. *)
LEMMA ProductGrows ==
    ASSUME NEW a \in Nat, NEW b \in Nat, NEW n \in Nat, a <= b PROVE a * n <= b * n
  <1>1. PICK k \in Nat : b = a + k
    <2>1. b - a \in Nat /\ b = a + (b - a)
      OBVIOUS
    <2>2. QED
      BY <2>1
  <1>2. b * n = a * n + k * n /\ k * n \in Nat /\ a * n \in Nat
    BY <1>1
  <1>3. QED
    BY <1>2

(* What remains of the calls when c is over. *)
CallsEnd(c) ==
    /\ call' \in [Calls -> Call]
    /\ \A x \in Calls : call'[x].pc = "increment" => call'[x].sub \in SubIds

LEMMA CallEnds ==
    ASSUME TypeOK, NEW c \in Calls, call' = [call EXCEPT ![c] = NoCall] PROVE CallsEnd(c)
  BY DEF TypeOK, Call, NoCall, CallsEnd

LEMMA NextTypeOK == TypeOK /\ [Next]_vars => TypeOK'
  <1> SUFFICES ASSUME TypeOK, [Next]_vars PROVE TypeOK'
    OBVIOUS
  <1> USE ConstAssumption
  <1>1. ASSUME NEW d \in Devs, NEW p \in Pkgs, Subscribe(d, p) PROVE TypeOK'
    BY <1>1 DEF Subscribe, TypeOK, SubRow, history
  <1>2. ASSUME NEW s \in SubIds, EndSubscription(s) PROVE TypeOK'
    BY <1>2 DEF EndSubscription, TypeOK, SubRow, history
  <1>3. ASSUME NEW p \in Pkgs, NEW n \in 0 .. MaxLimit, SetLimit(p, n) PROVE TypeOK'
    BY <1>3 DEF SetLimit, TypeOK
  <1>4. ASSUME NEW c \in Calls, NEW d \in Devs, FindSubscription(c, d) PROVE TypeOK'
    <2>1. PICK s \in SubIds :
            call' = [call EXCEPT ![c] = [pc |-> "increment", sub |-> s,
                                         limit |-> limit[sub[s].pkg], seen |-> sub[s].usage]]
      BY <1>4 DEF FindSubscription, Oldest, ActiveSubs, Subs
    <2>2. sub[s].pkg \in Pkgs /\ sub[s].usage \in Nat
      BY DEF TypeOK, SubRow
    <2>3. limit[sub[s].pkg] \in Nat
      BY <2>2 DEF TypeOK
    <2>4. /\ call' \in [Calls -> Call]
          /\ \A x \in Calls : call'[x].pc = "increment" => call'[x].sub \in SubIds
      BY <2>1, <2>2, <2>3 DEF TypeOK, Call
    <2>5. QED
      BY <1>4, <2>4 DEF FindSubscription, TypeOK, history
  <1>5. ASSUME NEW c \in Calls, Increment(c) PROVE TypeOK'
    <2> DEFINE s == call[c].sub
    <2>1. s \in SubIds /\ sub[s].usage \in Nat /\ today[s] \in Nat /\ sinceReset[s] \in Nat
      BY <1>5 DEF Increment, TypeOK, SubRow
    <2>2. CallsEnd(c)
      BY <1>5, CallEnds DEF Increment, CallsEnd
    <2>3. CASE UNCHANGED <<sub, sinceReset, today>>
      BY <1>5, <2>2, <2>3 DEF Increment, TypeOK, CallsEnd
    <2>4. CASE /\ sub' = [sub EXCEPT ![s].usage = @ + 1]
               /\ sinceReset' = [sinceReset EXCEPT ![s] = @ + 1]
               /\ today' = [today EXCEPT ![s] = @ + 1]
      <3>1. sub' \in [SubIds -> SubRow]
        BY <2>1, <2>4 DEF TypeOK, SubRow
      <3>2. sinceReset' \in [SubIds -> Nat] /\ today' \in [SubIds -> Nat]
        BY <2>1, <2>4 DEF TypeOK
      <3>3. QED
        BY <1>5, <2>2, <3>1, <3>2 DEF Increment, TypeOK, CallsEnd
    <2>5. QED
      BY <1>5, <2>3, <2>4 DEF Increment
  <1>6. ASSUME NEW c \in Calls, FailClosed(c) PROVE TypeOK'
    <2> DEFINE s == call[c].sub
    <2>1. s \in SubIds /\ sub[s].usage \in Nat /\ faults' \in 0 .. MaxFaults
      BY <1>6 DEF FailClosed, TypeOK, SubRow
    <2>2. CallsEnd(c)
      BY <1>6, CallEnds DEF FailClosed, CallsEnd
    <2>3. sub' \in [SubIds -> SubRow]
      <3>1. CASE UNCHANGED sub
        BY <3>1 DEF TypeOK
      <3>2. CASE sub' = [sub EXCEPT ![s].usage = @ + 1]
        BY <2>1, <3>2 DEF TypeOK, SubRow
      <3>3. QED
        BY <1>6, <3>1, <3>2 DEF FailClosed
    <2>4. QED
      BY <1>6, <2>1, <2>2, <2>3 DEF FailClosed, TypeOK, CallsEnd, history
  <1>7. CASE Midnight
    BY <1>7 DEF Midnight, TypeOK
  <1>8. CASE Restart
    BY <1>8 DEF Restart, TypeOK, Call, NoCall, history
  <1>9. CASE Reset
    <2>1. /\ sub' = ResetUsage(sub) /\ sinceReset' = [s \in SubIds |-> 0]
          /\ resetsToday' = resetsToday + 1 /\ UNCHANGED <<limit, call, faults, peak, today>>
      BY <1>9 DEF Reset
    <2>2. resetDue' \in BOOLEAN
      BY <1>9 DEF Reset
    <2>3. sub \in [SubIds -> SubRow] /\ resetsToday \in Nat
      BY DEF TypeOK
    <2>4. sub' \in [SubIds -> SubRow] /\ sinceReset' \in [SubIds -> Nat] /\ resetsToday' \in Nat
      BY <2>1, <2>3 DEF ResetUsage, SubRow
    <2>5. QED
      BY <2>1, <2>2, <2>4 DEF TypeOK
  <1>10. CASE ResetFails
    <2>1. faults' = faults + 1 /\ faults < MaxFaults /\ faults \in 0 .. MaxFaults
      BY <1>10 DEF ResetFails, TypeOK
    <2>2. faults' \in 0 .. MaxFaults
      BY <2>1
    <2>3. resetDue' \in BOOLEAN
      BY <1>10 DEF ResetFails
    <2>4. UNCHANGED <<limit, sub, call, peak, sinceReset, today, resetsToday>>
      BY <1>10 DEF ResetFails, history
    <2>5. QED
      BY <2>2, <2>3, <2>4 DEF TypeOK
  <1>11. CASE UNCHANGED vars
    BY <1>11 DEF vars, TypeOK
  <1>12. QED
    BY <1>1, <1>2, <1>3, <1>4, <1>5, <1>6, <1>7, <1>8, <1>9, <1>10, <1>11 DEF Next

LEMMA NextRest == IInv /\ [Next]_vars =>
    (CallsHoldLimits /\ FreshRows /\ GrantsAreCharged /\ UsageWithinLimit /\ ResetsBoundTheDay)'
  <1> SUFFICES ASSUME IInv, [Next]_vars
               PROVE  (CallsHoldLimits /\ FreshRows /\ GrantsAreCharged /\ UsageWithinLimit
                        /\ ResetsBoundTheDay)'
    OBVIOUS
  <1> USE DEF IInv
  <1> DEFINE Goal == (CallsHoldLimits /\ FreshRows /\ GrantsAreCharged /\ UsageWithinLimit
                        /\ ResetsBoundTheDay)'
  <1>1. ASSUME NEW d \in Devs, NEW p \in Pkgs, Subscribe(d, p) PROVE Goal
    <2>1. PICK s \in SubIds :
            /\ s \notin Subs
            /\ sub' = [sub EXCEPT ![s] = [dev |-> d, pkg |-> p, status |-> "active", usage |-> 0]]
      BY <1>1 DEF Subscribe
    <2>2. /\ UNCHANGED <<limit, call, peak, sinceReset, today, resetsToday>>
          /\ sub'[s].usage = 0 /\ sub'[s].status = "active" /\ sub'[s].pkg = p
          /\ \A x \in SubIds : x # s => sub'[x] = sub[x]
      BY <1>1, <2>1 DEF Subscribe, history, TypeOK
    <2>3. sinceReset[s] = 0 /\ today[s] = 0
      BY <2>1 DEF FreshRows
    <2>4. CallsHoldLimits' /\ FreshRows'
      BY <2>1, <2>2 DEF CallsHoldLimits, FreshRows, Subs, TypeOK
    <2>5. GrantsAreCharged' /\ UsageWithinLimit'
      BY <2>2, <2>3 DEF GrantsAreCharged, UsageWithinLimit, TypeOK
    <2>6. peak[p] * resetsToday \in Nat
      BY DEF TypeOK
    <2>7. ResetsBoundTheDay'
      BY <2>2, <2>3, <2>6 DEF ResetsBoundTheDay, TypeOK
    <2>8. QED
      BY <2>4, <2>5, <2>7
  <1>2. ASSUME NEW s \in SubIds, EndSubscription(s) PROVE Goal
    <2>1. /\ UNCHANGED <<limit, call, peak, sinceReset, today, resetsToday>>
          /\ \A x \in SubIds : sub'[x].usage = sub[x].usage /\ sub'[x].pkg = sub[x].pkg
          /\ Subs' = Subs
      BY <1>2 DEF EndSubscription, history, TypeOK, SubRow, Subs
    <2>2. QED
      BY <2>1 DEF CallsHoldLimits, FreshRows, GrantsAreCharged, UsageWithinLimit,
                  ResetsBoundTheDay, Subs
  <1>3. ASSUME NEW p \in Pkgs, NEW n \in 0 .. MaxLimit, SetLimit(p, n) PROVE Goal
    <2>1. /\ UNCHANGED <<sub, call, sinceReset, today, resetsToday>>
          /\ limit' = [limit EXCEPT ![p] = n]
          /\ peak' = [peak EXCEPT ![p] = IF n > peak[p] THEN n ELSE peak[p]]
      BY <1>3 DEF SetLimit
    <2>2. \A q \in Pkgs : peak[q] <= peak'[q] /\ peak'[q] \in Nat /\ limit'[q] <= peak'[q]
      BY <2>1, ConstAssumption DEF CallsHoldLimits, TypeOK
    <2>3. CallsHoldLimits' /\ FreshRows'
      BY <2>1, <2>2 DEF CallsHoldLimits, FreshRows, Subs, TypeOK, Call, SubRow
    <2>4. GrantsAreCharged' /\ UsageWithinLimit'
      BY <2>1, <2>2 DEF GrantsAreCharged, UsageWithinLimit, TypeOK, SubRow
    <2>5. ASSUME NEW s \in SubIds PROVE today[s] <= peak'[sub[s].pkg] * resetsToday + sub[s].usage
      <3>1. /\ sub[s].pkg \in Pkgs /\ sub[s].usage \in Nat /\ resetsToday \in Nat
            /\ today[s] \in Nat
            /\ peak[sub[s].pkg] \in Nat
        BY DEF TypeOK, SubRow
      <3>2. peak[sub[s].pkg] * resetsToday <= peak'[sub[s].pkg] * resetsToday
        BY <2>2, <3>1, ProductGrows
      <3>3. today[s] <= peak[sub[s].pkg] * resetsToday + sub[s].usage
        BY DEF ResetsBoundTheDay
      <3>4. QED
        BY <2>2, <3>1, <3>2, <3>3
    <2>6. QED
      BY <2>1, <2>3, <2>4, <2>5 DEF ResetsBoundTheDay
  <1>4. ASSUME NEW c \in Calls, NEW d \in Devs, FindSubscription(c, d) PROVE Goal
    <2>1. PICK s \in Subs :
            call' = [call EXCEPT ![c] = [pc |-> "increment", sub |-> s,
                                         limit |-> limit[sub[s].pkg], seen |-> sub[s].usage]]
      BY <1>4 DEF FindSubscription, Oldest, ActiveSubs
    <2>2. UNCHANGED <<limit, sub, peak, sinceReset, today, resetsToday>>
      BY <1>4 DEF FindSubscription, history
    <2>3. sub[s].pkg \in Pkgs
      BY DEF Subs, TypeOK, SubRow
    <2>4. CallsHoldLimits'
      BY <2>1, <2>2, <2>3 DEF CallsHoldLimits, TypeOK, Subs
    <2>5. QED
      BY <2>2, <2>4 DEF FreshRows, GrantsAreCharged, UsageWithinLimit, ResetsBoundTheDay, Subs
  <1>5. ASSUME NEW c \in Calls, Increment(c) PROVE Goal
    <2> DEFINE s == call[c].sub
    <2>1. call[c].pc = "increment" /\ s \in Subs /\ s \in SubIds
          /\ call[c].limit <= peak[sub[s].pkg] /\ call[c].limit \in Nat
          /\ sub[s].pkg \in Pkgs /\ sub[s].usage \in Nat
      BY <1>5 DEF Increment, CallsHoldLimits, TypeOK, Call, SubRow, Subs
    <2>2. UNCHANGED <<limit, peak, resetsToday>> /\ call' = [call EXCEPT ![c] = NoCall]
      BY <1>5 DEF Increment
    <2>3. CASE /\ sub[s].usage < call[c].limit
               /\ sub' = [sub EXCEPT ![s].usage = @ + 1]
               /\ sinceReset' = [sinceReset EXCEPT ![s] = @ + 1]
               /\ today' = [today EXCEPT ![s] = @ + 1]
      <3>1. /\ Subs' = Subs
            /\ \A x \in SubIds :
                 /\ sub'[x].pkg = sub[x].pkg
                 /\ sub'[x].usage = IF x = s THEN sub[x].usage + 1 ELSE sub[x].usage
                 /\ sinceReset'[x] = IF x = s THEN sinceReset[x] + 1 ELSE sinceReset[x]
                 /\ today'[x] = IF x = s THEN today[x] + 1 ELSE today[x]
        BY <2>1, <2>3 DEF TypeOK, SubRow, Subs
      <3>2. CallsHoldLimits' /\ FreshRows'
        BY <2>1, <2>2, <3>1 DEF CallsHoldLimits, FreshRows, NoCall, TypeOK, Subs
      <3>3. GrantsAreCharged'
        BY <3>1 DEF GrantsAreCharged, TypeOK, SubRow
      <3>4. UsageWithinLimit'
        BY <2>1, <2>2, <2>3, <3>1 DEF UsageWithinLimit, TypeOK, SubRow
      <3>5. ASSUME NEW x \in SubIds
            PROVE  today'[x] <= peak'[sub'[x].pkg] * resetsToday' + sub'[x].usage
        <4>1. peak[sub[x].pkg] * resetsToday \in Nat /\ today[x] \in Nat /\ sub[x].usage \in Nat
          BY DEF TypeOK, SubRow
        <4>2. today[x] <= peak[sub[x].pkg] * resetsToday + sub[x].usage
          BY DEF ResetsBoundTheDay
        <4>3. QED
          BY <2>2, <3>1, <4>1, <4>2
      <3>6. QED
        BY <3>2, <3>3, <3>4, <3>5 DEF ResetsBoundTheDay
    <2>4. CASE UNCHANGED <<sub, sinceReset, today>>
      BY <2>2, <2>4 DEF CallsHoldLimits, FreshRows, GrantsAreCharged, UsageWithinLimit,
                        ResetsBoundTheDay, NoCall, TypeOK, Subs
    <2>5. QED
      BY <1>5, <2>3, <2>4 DEF Increment
  <1>6. ASSUME NEW c \in Calls, FailClosed(c) PROVE Goal
    <2> DEFINE s == call[c].sub
    <2>1. call[c].pc = "increment" /\ s \in Subs /\ s \in SubIds
          /\ call[c].limit <= peak[sub[s].pkg] /\ call[c].limit \in Nat
          /\ sub[s].pkg \in Pkgs /\ sub[s].usage \in Nat
      BY <1>6 DEF FailClosed, CallsHoldLimits, TypeOK, Call, SubRow, Subs
    <2>2. /\ UNCHANGED <<limit, peak, sinceReset, today, resetsToday>>
          /\ call' = [call EXCEPT ![c] = NoCall]
      BY <1>6 DEF FailClosed, history
    <2>3. CASE UNCHANGED sub
      BY <2>2, <2>3 DEF CallsHoldLimits, FreshRows, GrantsAreCharged, UsageWithinLimit,
                        ResetsBoundTheDay, NoCall, TypeOK, Subs
    <2>4. CASE sub[s].usage < call[c].limit /\ sub' = [sub EXCEPT ![s].usage = @ + 1]
      <3>1. /\ Subs' = Subs
            /\ \A x \in SubIds :
                 /\ sub'[x].pkg = sub[x].pkg
                 /\ sub'[x].usage = IF x = s THEN sub[x].usage + 1 ELSE sub[x].usage
        BY <2>1, <2>4 DEF TypeOK, SubRow, Subs
      <3>2. CallsHoldLimits' /\ FreshRows'
        BY <2>1, <2>2, <3>1 DEF CallsHoldLimits, FreshRows, NoCall, TypeOK, Subs
      <3>3. GrantsAreCharged'
        BY <2>2, <3>1 DEF GrantsAreCharged, TypeOK, SubRow
      <3>4. UsageWithinLimit'
        BY <2>1, <2>2, <2>4, <3>1 DEF UsageWithinLimit, TypeOK, SubRow
      <3>5. ASSUME NEW x \in SubIds
            PROVE  today'[x] <= peak'[sub'[x].pkg] * resetsToday' + sub'[x].usage
        <4>1. peak[sub[x].pkg] * resetsToday \in Nat /\ today[x] \in Nat /\ sub[x].usage \in Nat
          BY DEF TypeOK, SubRow
        <4>2. today[x] <= peak[sub[x].pkg] * resetsToday + sub[x].usage
          BY DEF ResetsBoundTheDay
        <4>3. QED
          BY <2>2, <3>1, <4>1, <4>2
      <3>6. QED
        BY <3>2, <3>3, <3>4, <3>5 DEF ResetsBoundTheDay
    <2>5. QED
      BY <1>6, <2>3, <2>4 DEF FailClosed
  <1>7. CASE Midnight
    <2>1. ASSUME NEW s \in SubIds PROVE today'[s] <= peak'[sub'[s].pkg] * resetsToday' + sub'[s].usage
      BY <1>7 DEF Midnight, TypeOK, SubRow
    <2>2. QED
      BY <1>7, <2>1 DEF Midnight, CallsHoldLimits, FreshRows, GrantsAreCharged, UsageWithinLimit,
                        ResetsBoundTheDay, Subs
  <1>8. CASE Restart
    BY <1>8 DEF Restart, history, NoCall, CallsHoldLimits, FreshRows, GrantsAreCharged,
                UsageWithinLimit, ResetsBoundTheDay, Subs
  <1>9. CASE Reset
    <2>1. /\ UNCHANGED <<limit, call, peak, today>> /\ resetsToday' = resetsToday + 1
          /\ Subs' = Subs
          /\ \A s \in SubIds : /\ sub'[s].pkg = sub[s].pkg /\ sub'[s].usage = 0
                               /\ sinceReset'[s] = 0
      BY <1>9 DEF Reset, ResetUsage, TypeOK, SubRow, Subs
    <2>2. CallsHoldLimits' /\ FreshRows'
      BY <2>1 DEF CallsHoldLimits, FreshRows, Subs
    <2>3. GrantsAreCharged' /\ UsageWithinLimit'
      BY <2>1 DEF GrantsAreCharged, UsageWithinLimit, TypeOK, SubRow
    <2>4. ASSUME NEW s \in SubIds PROVE today[s] <= peak[sub[s].pkg] * (resetsToday + 1) + 0
      <3>1. /\ peak[sub[s].pkg] \in Nat /\ sub[s].usage \in Nat
            /\ today[s] \in Nat /\ resetsToday \in Nat
        BY DEF TypeOK, SubRow
      <3>2. /\ today[s] <= peak[sub[s].pkg] * resetsToday + sub[s].usage
            /\ sub[s].usage <= peak[sub[s].pkg]
        BY DEF ResetsBoundTheDay, UsageWithinLimit
      <3>3. peak[sub[s].pkg] * (resetsToday + 1) = peak[sub[s].pkg] * resetsToday + peak[sub[s].pkg]
        BY <3>1
      <3>4. QED
        BY <3>1, <3>2, <3>3
    <2>5. QED
      BY <2>1, <2>2, <2>3, <2>4 DEF ResetsBoundTheDay
  <1>10. CASE ResetFails
    BY <1>10 DEF ResetFails, history, CallsHoldLimits, FreshRows, GrantsAreCharged,
                 UsageWithinLimit, ResetsBoundTheDay, Subs
  <1>11. CASE UNCHANGED vars
    BY <1>11 DEF vars, CallsHoldLimits, FreshRows, GrantsAreCharged, UsageWithinLimit,
                 ResetsBoundTheDay, Subs
  <1>12. QED
    BY <1>1, <1>2, <1>3, <1>4, <1>5, <1>6, <1>7, <1>8, <1>9, <1>10, <1>11 DEF Next

LEMMA InitIInv == Init => IInv
  <1> SUFFICES ASSUME Init PROVE IInv
    OBVIOUS
  <1> USE ConstAssumption DEF Init
  <1>1. TypeOK
    BY DEF TypeOK, SubRow, Call, NoCall
  <1>2. CallsHoldLimits /\ FreshRows
    BY DEF CallsHoldLimits, FreshRows, NoCall
  <1>3. ASSUME NEW s \in SubIds
        PROVE  /\ sinceReset[s] <= sub[s].usage
               /\ sub[s].usage <= peak[sub[s].pkg]
               /\ today[s] <= peak[sub[s].pkg] * resetsToday + sub[s].usage
    <2>1. sub[s].usage = 0 /\ sub[s].pkg \in Pkgs
      OBVIOUS
    <2>2. peak[sub[s].pkg] \in Nat
      BY <2>1
    <2>3. QED
      BY <2>1, <2>2
  <1>4. QED
    BY <1>1, <1>2, <1>3 DEF IInv, GrantsAreCharged, UsageWithinLimit, ResetsBoundTheDay

LEMMA Inductive == Spec => []IInv
  <1>1. IInv /\ [Next]_vars => IInv'
    BY NextTypeOK, NextRest DEF IInv
  <1>2. QED
    BY <1>1, InitIInv, PTL DEF Spec

(* The counters, the limits and what each call holds keep their types, and a *)
(* call about to be charged holds a row of the table.                        *)
THEOREM QuotaTypeCorrect == Spec => []TypeOK
  <1>1. IInv => TypeOK
    BY DEF IInv
  <1>2. QED
    BY <1>1, Inductive, PTL

(* No granted call goes uncharged, however calls, resets, upgrades and        *)
(* failures interleave (quota.service.ts:16-32).                              *)
THEOREM EveryGrantCharged == Spec => []GrantsAreCharged
  <1>1. IInv => GrantsAreCharged
    BY DEF IInv
  <1>2. QED
    BY <1>1, Inductive, PTL

(* No counter passes the largest limit its package had                        *)
(* (subscription.repository.ts:53-87).                                        *)
THEOREM UsageBounded == Spec => []UsageWithinLimit
  <1>1. IInv => UsageWithinLimit
    BY DEF IInv
  <1>2. QED
    BY <1>1, Inductive, PTL

(* The calls granted in a day are bounded by one quota per reset that day,    *)
(* plus what the counter shows (quota.service.ts:37-69).                      *)
THEOREM DayBoundedByResets == Spec => []ResetsBoundTheDay
  <1>1. IInv => ResetsBoundTheDay
    BY DEF IInv
  <1>2. QED
    BY <1>1, Inductive, PTL
=============================================================================
