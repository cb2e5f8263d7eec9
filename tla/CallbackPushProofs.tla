------------------------- MODULE CallbackPushProofs -------------------------
(***************************************************************************)
(* Theorems about CallbackPush, for any number of pushes and restarts and  *)
(* for every ladder of waits.                                              *)
(***************************************************************************)
EXTENDS CallbackPush, SequenceTheorems, WellFoundedInduction, TLAPS

(***************************************************************************)
(* What holds of one push, its messages and its log.  An attempt that was  *)
(* not made has no message; an acceptance that was read is that of the     *)
(* last attempt, and has settled the push; only a push that sent something *)
(* and settled has a log entry.                                            *)
(***************************************************************************)
Sound(row, m, lg) ==
  /\ \A b \in Attempts : b > row.attempt => m[b] = Unsent
  /\ row.state = "idle" => row.attempt = 0
  /\ row.state = "sending" => row.attempt \in Attempts
  /\ row.state = "waiting" => row.attempt \in Attempts /\ row.attempt < MaxAttempts
  /\ row.state \in {"sending", "waiting"} => row.kind = "plain"
  /\ \A a \in Attempts : m[a].status = "accepted" /\ m[a].place = "read"
                           => row.state = "settled" /\ row.success /\ a = row.attempt
  /\ lg = IF row.state = "settled" /\ row.kind = "plain" THEN << ~row.success >> ELSE <<>>

PInv == TypeOK /\ \A p \in Pushes : Sound(push[p], msg[p], logged[p])

LEMMA AttemptsAreNumbers ==
  /\ MaxAttempts \in Nat \ {0} /\ 1 \in Attempts
  /\ Attempts \subseteq 0..MaxAttempts
  /\ \A a \in 0..MaxAttempts : a < MaxAttempts => a + 1 \in Attempts
  BY RetryAssumption DEF MaxAttempts, Attempts

LEMMA DelayIsNumber == ASSUME NEW a \in Attempts PROVE RetryDelay(a) \in Nat
  <1>1. Len(RetryDelays) \in Nat /\ Len(RetryDelays) > 0 /\ a \in Nat /\ a >= 1
    BY RetryAssumption, AttemptsAreNumbers DEF Attempts
  <1>2. \A i \in 1..Len(RetryDelays) : RetryDelays[i] \in Nat
    BY RetryAssumption
  <1>3. QED
    BY <1>1, <1>2 DEF RetryDelay

LEMMA InitPInv == Init => PInv
  <1> SUFFICES ASSUME Init PROVE PInv
    OBVIOUS
  <1>1. TypeOK
    <2>1. 0 \in 0..MaxAttempts
      BY AttemptsAreNumbers
    <2>2. <<>> \in Seq(BOOLEAN)
      OBVIOUS
    <2>3. Unsent \in MsgRow
      BY DEF Unsent, MsgRow
    <2>4. QED
      BY <2>1, <2>2, <2>3 DEF Init, TypeOK, PushRow, Origins, Kinds
  <1>2. \A p \in Pushes : Sound(push[p], msg[p], logged[p])
    BY DEF Init, Sound, Unsent, NoStatus
  <1>3. QED
    BY <1>1, <1>2 DEF PInv

\* A step that touches one push.
LEMMA OneChanges ==
  ASSUME PInv, NEW p \in Pushes, NEW row \in PushRow, NEW m \in [Attempts -> MsgRow],
         NEW lg \in Seq(BOOLEAN), Sound(row, m, lg),
         push' = [push EXCEPT ![p] = row], msg' = [msg EXCEPT ![p] = m],
         logged' = [logged EXCEPT ![p] = lg], UNCHANGED <<clock, crashes>>
  PROVE  PInv'
  <1>1. TypeOK'
    BY DEF PInv, TypeOK
  <1>2. ASSUME NEW q \in Pushes PROVE Sound(push'[q], msg'[q], logged'[q])
    <2>1. CASE q = p
      BY <2>1 DEF PInv, TypeOK
    <2>2. CASE q # p
      <3>1. push'[q] = push[q] /\ msg'[q] = msg[q] /\ logged'[q] = logged[q]
        BY <2>2 DEF PInv, TypeOK
      <3>2. QED
        BY <3>1 DEF PInv
    <2>3. QED
      BY <2>1, <2>2
  <1>3. QED
    BY <1>1, <1>2 DEF PInv

LEMMA PushTypes ==
  ASSUME PInv, NEW p \in Pushes
  PROVE  /\ push[p] \in PushRow /\ msg[p] \in [Attempts -> MsgRow] /\ logged[p] \in Seq(BOOLEAN)
         /\ Sound(push[p], msg[p], logged[p])
         /\ clock \in Nat /\ DOMAIN push = Pushes /\ DOMAIN msg = Pushes /\ DOMAIN logged = Pushes
         /\ push \in [Pushes -> PushRow] /\ msg \in [Pushes -> [Attempts -> MsgRow]]
         /\ logged \in [Pushes -> Seq(BOOLEAN)]
  BY DEF PInv, TypeOK

\* A POST: from an idle push, or from one that waited.
LEMMA SendKeeps ==
  ASSUME PInv, NEW p \in Pushes, NEW row \in PushRow, NEW a \in Attempts, Send(p, row, a),
         row.kind = "plain", push[p].state \in {"idle", "waiting"}, a > push[p].attempt,
         UNCHANGED <<logged, clock, crashes>>
  PROVE  PInv'
  <1> DEFINE new == [row EXCEPT !.state = "sending", !.attempt = a, !.due = clock + Timeout]
             sent == [place |-> "request", status |-> NoStatus]
             m == [msg[p] EXCEPT ![a] = sent]
  <1>1. clock + Timeout \in Nat /\ a \in 0..MaxAttempts
    BY PushTypes, RetryAssumption, AttemptsAreNumbers
  <1>2. /\ new \in PushRow /\ new.state = "sending" /\ new.attempt = a /\ new.kind = "plain"
    BY <1>1 DEF PushRow
  <1>3. sent \in MsgRow /\ m \in [Attempts -> MsgRow]
    BY PushTypes DEF MsgRow
  <1>4. /\ Sound(push[p], msg[p], logged[p]) /\ push[p].attempt \in 0..MaxAttempts
    BY PushTypes DEF PushRow
  <1>5. Sound(new, m, logged[p])
    <2>1. \A b \in Attempts : b > a => m[b] = Unsent
      <3>1. \A b \in Attempts : b > a => b > push[p].attempt /\ b # a
        BY <1>4, AttemptsAreNumbers
      <3>2. QED
        BY <1>4, <3>1, PushTypes DEF Sound
    <2>2. \A b \in Attempts : ~(m[b].status = "accepted" /\ m[b].place = "read")
      <3>1. \A b \in Attempts : b # a => m[b] = msg[p][b]
        BY PushTypes
      <3>2. m[a] = sent
        BY PushTypes
      <3>3. QED
        BY <1>4, <3>1, <3>2 DEF Sound
    <2>3. logged[p] = <<>>
      BY <1>4 DEF Sound
    <2>4. QED
      BY <1>2, <2>1, <2>2, <2>3 DEF Sound
  <1>6. /\ push' = [push EXCEPT ![p] = new] /\ msg' = [msg EXCEPT ![p] = m]
        /\ logged' = [logged EXCEPT ![p] = logged[p]]
    BY PushTypes DEF Send
  <1>7. QED
    BY <1>2, <1>3, <1>5, <1>6, PushTypes, OneChanges

\* The end of an attempt, whose answer may have been read.
LEMMA ConcludeKeeps ==
  ASSUME PInv, NEW p \in Pushes, push[p].state = "sending", NEW m \in [Attempts -> MsgRow],
         msg' = [msg EXCEPT ![p] = m],
         NEW status \in Statuses \cup {NoStatus, "network"}, Conclude(p, status),
         \A b \in Attempts : m[b] = Unsent <=> msg[p][b] = Unsent,
         \A b \in Attempts : m[b].status = "accepted" /\ m[b].place = "read"
                               => b = push[p].attempt /\ status = "accepted",
         UNCHANGED <<clock, crashes>>
  PROVE  PInv'
  <1>1. /\ push[p] \in PushRow /\ Sound(push[p], msg[p], logged[p]) /\ clock \in Nat
        /\ push \in [Pushes -> PushRow] /\ logged \in [Pushes -> Seq(BOOLEAN)]
    BY PushTypes
  <1>2. push[p].attempt \in Attempts /\ push[p].kind = "plain" /\ logged[p] = <<>>
    BY <1>1 DEF Sound
  <1>3. \A b \in Attempts : b > push[p].attempt => m[b] = Unsent
    BY <1>1 DEF Sound
  <1>4. CASE Retryable(status) /\ push[p].attempt < MaxAttempts
    <2> DEFINE new == [push[p] EXCEPT !.state = "waiting", !.last = status,
                                      !.due = clock + RetryDelay(push[p].attempt)]
    <2>1. clock + RetryDelay(push[p].attempt) \in Nat
      BY <1>1, <1>2, DelayIsNumber
    <2>2. /\ new \in PushRow /\ new.state = "waiting" /\ new.attempt = push[p].attempt
          /\ new.kind = "plain"
      BY <1>1, <1>2, <2>1 DEF PushRow
    <2>3. push' = [push EXCEPT ![p] = new] /\ logged' = [logged EXCEPT ![p] = logged[p]]
      BY <1>1, <1>4 DEF Conclude
    <2>4. Sound(new, m, logged[p])
      BY <1>2, <1>3, <1>4, <2>2 DEF Sound, Retryable
    <2>5. QED
      BY <1>1, <2>2, <2>3, <2>4, OneChanges
  <1>5. CASE ~(Retryable(status) /\ push[p].attempt < MaxAttempts)
    <2> DEFINE new == [push[p] EXCEPT !.state = "settled", !.last = status,
                                      !.success = (status = "accepted")]
               lg == Append(logged[p], status # "accepted")
    <2>1. /\ new \in PushRow /\ new.state = "settled" /\ new.attempt = push[p].attempt
          /\ new.kind = "plain" /\ new.success = (status = "accepted")
      BY <1>1, <1>2 DEF PushRow
    <2>2. push' = [push EXCEPT ![p] = new] /\ logged' = [logged EXCEPT ![p] = lg]
      BY <1>1, <1>5 DEF Conclude, Settle
    <2>3. lg \in Seq(BOOLEAN) /\ lg = << status # "accepted" >>
      BY <1>1, <1>2
    <2>4. Sound(new, m, lg)
      BY <1>2, <1>3, <2>1, <2>3 DEF Sound
    <2>5. QED
      BY <2>1, <2>2, <2>3, <2>4, OneChanges
  <1>6. QED
    BY <1>4, <1>5

LEMMA NextPInv == ASSUME PInv, [Next]_vars PROVE PInv'
  <1>1. ASSUME NEW p \in Pushes, NEW o \in Origins, NEW k \in Kinds, Start(p, o, k) PROVE PInv'
    <2> DEFINE row == [push[p] EXCEPT !.origin = o, !.kind = k, !.started = clock]
    <2>1. /\ row \in PushRow /\ row.kind = k /\ row.attempt = 0 /\ push[p].attempt = 0
          /\ push[p].state = "idle" /\ logged[p] = <<>>
      BY <1>1, PushTypes DEF Start, PushRow, Sound
    <2>2. CASE k = "plain" /\ Send(p, row, 1)
      <3>1. UNCHANGED <<logged, clock, crashes>> /\ 1 > push[p].attempt /\ 1 \in Attempts
        BY <1>1, <2>1, AttemptsAreNumbers DEF Start
      <3> HIDE DEF row
      <3>2. QED
        BY <2>1, <2>2, <3>1, SendKeeps
    <2>3. CASE k # "plain" /\ UNCHANGED msg
               /\ push' = [push EXCEPT ![p] = [row EXCEPT !.state = "settled", !.success = (k = "nourl")]]
      <3> DEFINE new == [row EXCEPT !.state = "settled", !.success = (k = "nourl")]
      <3>1. new \in PushRow /\ new.state = "settled" /\ new.kind = k /\ new.attempt = 0
        BY <2>1 DEF PushRow
      <3>2. msg' = [msg EXCEPT ![p] = msg[p]] /\ logged' = [logged EXCEPT ![p] = logged[p]]
        BY <1>1, <2>3, PushTypes DEF Start
      <3>3. Sound(new, msg[p], logged[p])
        BY <2>1, <2>3, <3>1, PushTypes DEF Sound
      <3>4. /\ push' = [push EXCEPT ![p] = new] /\ UNCHANGED <<clock, crashes>>
            /\ new \in PushRow /\ msg[p] \in [Attempts -> MsgRow] /\ logged[p] \in Seq(BOOLEAN)
        BY <1>1, <2>3, <3>1, PushTypes DEF Start
      <3> HIDE DEF new
      <3>5. QED
        BY <3>2, <3>3, <3>4, OneChanges
    <2>4. QED
      BY <1>1, <2>2, <2>3 DEF Start
  <1>2. ASSUME NEW p \in Pushes, Receive(p) PROVE PInv'
    <2> DEFINE a == push[p].attempt
               m == [msg[p] EXCEPT ![a].place = "read"]
    <2>1. /\ a \in Attempts /\ msg[p] \in [Attempts -> MsgRow] /\ msg[p][a] \in MsgRow
          /\ push[p].state = "sending" /\ msg[p][a].place = "answer"
      BY <1>2, PushTypes DEF Receive, Sound
    <2>2. /\ [msg[p][a] EXCEPT !.place = "read"] \in MsgRow
          /\ [msg[p][a] EXCEPT !.place = "read"].status = msg[p][a].status
          /\ [msg[p][a] EXCEPT !.place = "read"].place = "read"
      BY <2>1 DEF MsgRow
    <2>3. /\ m \in [Attempts -> MsgRow] /\ msg' = [msg EXCEPT ![p] = m]
          /\ m[a].status = msg[p][a].status /\ m[a].place = "read"
          /\ \A b \in Attempts \ {a} : m[b] = msg[p][b]
      BY <1>2, <2>1, <2>2 DEF Receive
    <2>4. \A b \in Attempts : m[b] = Unsent <=> msg[p][b] = Unsent
      BY <2>1, <2>3 DEF Unsent
    <2>5. \A b \in Attempts : m[b].status = "accepted" /\ m[b].place = "read"
                                => b = a /\ msg[p][a].status = "accepted"
      BY <2>1, <2>3, PushTypes DEF Sound
    <2>6. msg[p][a].status \in Statuses \cup {NoStatus, "network"}
      BY <2>1 DEF MsgRow
    <2>7. QED
      BY <1>2, <2>1, <2>3, <2>4, <2>5, <2>6, ConcludeKeeps DEF Receive
  <1>3. ASSUME NEW p \in Pushes, NetworkError(p) PROVE PInv'
    <2>1. /\ push[p].state = "sending" /\ msg' = [msg EXCEPT ![p] = msg[p]]
          /\ Conclude(p, "network") /\ UNCHANGED <<clock, crashes>>
      BY <1>3, PushTypes DEF NetworkError
    <2>2. \A b \in Attempts : ~(msg[p][b].status = "accepted" /\ msg[p][b].place = "read")
      BY <2>1, PushTypes DEF Sound
    <2>3. QED
      BY <2>1, <2>2, PushTypes, ConcludeKeeps
  <1>4. ASSUME NEW p \in Pushes, RetryTimer(p) PROVE PInv'
    <2>1. /\ push[p].attempt \in 0..MaxAttempts /\ push[p].attempt < MaxAttempts
          /\ push[p].kind = "plain"
      BY <1>4, PushTypes DEF RetryTimer, Sound, PushRow
    <2>2. push[p].attempt + 1 \in Attempts /\ push[p].attempt + 1 > push[p].attempt
      BY <2>1, AttemptsAreNumbers
    <2>3. QED
      BY <1>4, <2>1, <2>2, PushTypes, SendKeeps DEF RetryTimer
  <1>5. ASSUME NEW p \in Pushes, NEW a \in Attempts, NEW s \in Statuses, Handle(p, a, s) PROVE PInv'
    <2> DEFINE ans == [[msg[p][a] EXCEPT !.place = "answer"] EXCEPT !.status = s]
               m == [msg[p] EXCEPT ![a] = ans]
    <2>1. msg[p] \in [Attempts -> MsgRow] /\ msg[p][a] \in MsgRow /\ msg[p][a].place = "request"
      BY <1>5, PushTypes DEF Handle
    <2>2. ans \in MsgRow /\ ans.place = "answer" /\ ans.status = s
      BY <2>1 DEF MsgRow
    <2>3. /\ m \in [Attempts -> MsgRow] /\ m[a] = ans
          /\ \A b \in Attempts \ {a} : m[b] = msg[p][b]
      BY <2>1, <2>2
    <2>4. msg' = [msg EXCEPT ![p] = m]
      BY <1>5, <2>1, PushTypes DEF Handle
    <2>5. ~(a > push[p].attempt)
      <3>1. msg[p][a] # Unsent
        BY <2>1 DEF Unsent
      <3>2. Sound(push[p], msg[p], logged[p])
        BY PushTypes
      <3>3. QED
        BY <3>1, <3>2 DEF Sound
    <2>6. Sound(push[p], m, logged[p])
      BY <2>2, <2>3, <2>5, PushTypes DEF Sound
    <2>7. push' = [push EXCEPT ![p] = push[p]] /\ logged' = [logged EXCEPT ![p] = logged[p]]
      BY <1>5, PushTypes DEF Handle
    <2>8. /\ UNCHANGED <<clock, crashes>> /\ push[p] \in PushRow /\ logged[p] \in Seq(BOOLEAN)
          /\ m \in [Attempts -> MsgRow]
      BY <1>5, <2>3, PushTypes DEF Handle
    <2> HIDE DEF m
    <2>9. QED
      BY <2>4, <2>6, <2>7, <2>8, OneChanges
  <1>6. CASE Crash
    <2>1. ASSUME NEW p \in Pushes
          PROVE  push'[p] \in PushRow /\ Sound(push'[p], msg[p], logged[p])
      <3>1. CASE push[p].state \in {"sending", "waiting"}
        <4>1. push'[p] = [push[p] EXCEPT !.state = "lost"]
          BY <1>6, <3>1 DEF Crash
        <4>2. /\ push'[p] \in PushRow /\ push'[p].state = "lost" /\ push'[p].attempt = push[p].attempt
          BY <4>1, PushTypes DEF PushRow
        <4>3. QED
          BY <3>1, <4>2, PushTypes DEF Sound
      <3>2. CASE push[p].state \notin {"sending", "waiting"}
        <4>1. push'[p] = push[p]
          BY <1>6, <3>2 DEF Crash
        <4>2. QED
          BY <4>1, PushTypes
      <3>3. QED
        BY <3>1, <3>2
    <2>2. push' \in [Pushes -> PushRow]
      BY <1>6, <2>1 DEF Crash
    <2>3. crashes' \in Nat /\ UNCHANGED <<msg, logged, clock>>
      BY <1>6 DEF Crash, PInv, TypeOK
    <2>4. QED
      BY <2>1, <2>2, <2>3 DEF PInv, TypeOK
  <1>7. CASE Tick
    <2>1. clock' \in Nat /\ UNCHANGED <<push, msg, logged, crashes>>
      BY <1>7 DEF Tick, PInv, TypeOK
    <2>2. QED
      BY <2>1 DEF PInv, TypeOK
  <1>8. CASE UNCHANGED vars
    BY <1>8 DEF vars, PInv, TypeOK
  <1>9. QED
    BY <1>1, <1>2, <1>3, <1>4, <1>5, <1>6, <1>7, <1>8 DEF Next

LEMMA SpecPInv == Spec => []PInv
  BY InitPInv, NextPInv, PTL DEF Spec

(***************************************************************************)
(* Every push, message and log entry keeps its type; no push makes an      *)
(* attempt beyond the last one (application-callback.service.ts:275).      *)
(***************************************************************************)
THEOREM PushTypeCorrect == Spec => []TypeOK
  <1>1. PInv => TypeOK
    BY DEF PInv
  <1>2. QED
    BY <1>1, SpecPInv, PTL

(***************************************************************************)
(* Once the acceptance of an event was read the event is not sent again,   *)
(* and the push reports success, whatever is lost, late or handled after   *)
(* its sender gave up (sendWithRetry).                                     *)
(***************************************************************************)
THEOREM NoRepeatAfterRead == Spec => []RepeatsOnlyUnread
  <1>1. ASSUME PInv PROVE RepeatsOnlyUnread
    <2> SUFFICES ASSUME NEW p \in Pushes, NEW a \in Attempts,
                        AcceptedBy(p, a), msg[p][a].place = "read"
                 PROVE  /\ \A b \in Attempts : b > a => msg[p][b].place = "unsent"
                        /\ push[p].state = "settled" /\ push[p].success
      BY DEF RepeatsOnlyUnread
    <2>1. push[p].state = "settled" /\ push[p].success /\ a = push[p].attempt
      BY <1>1, PushTypes DEF AcceptedBy, Sound
    <2>2. \A b \in Attempts : b > a => msg[p][b] = Unsent
      BY <1>1, <2>1, PushTypes DEF Sound
    <2>3. QED
      BY <2>1, <2>2 DEF Unsent
  <1>2. QED
    BY <1>1, SpecPInv, PTL

(***************************************************************************)
(* A push that sent something and settled has exactly one log entry, which *)
(* tells its result; every other push has none (pushEvent, onSettled).     *)
(***************************************************************************)
THEOREM LogIsTrue == Spec => []LogMatchesResult
  <1>1. ASSUME PInv PROVE LogMatchesResult
    BY <1>1, PushTypes DEF LogMatchesResult, Sound
  <1>2. QED
    BY <1>1, SpecPInv, PTL

-----------------------------------------------------------------------------
(***************************************************************************)
(* The waits of the retries add up: Waits is the sum its definition says.  *)
(* A least number of retries for which there is no such sum would be one   *)
(* more than a number for which there is one.                              *)
(***************************************************************************)
LEMMA LeastNumber ==
  ASSUME NEW T, T \subseteq Nat, T # {}
  PROVE  \E m \in T : \A k \in T : m <= k
  <1> DEFINE R == OpToRel(<, Nat)
  <1>1. IsWellFoundedOn(R, Nat)
    BY NatLessThanWellFounded
  <1>2. \A x, y \in Nat : x < y => <<x, y>> \in R
    BY DEF OpToRel
  <1> HIDE DEF R
  <1>3. PICK m \in T : \A k \in T : ~(<<k, m>> \in R)
    BY <1>1, WFMin
  <1>4. ASSUME NEW k \in T PROVE m <= k
    <2>1. k \in Nat /\ m \in Nat /\ ~(k < m)
      BY <1>2, <1>3
    <2>2. QED
      BY <2>1
  <1>5. QED
    BY <1>4

\* The wait after attempt n.
Wait(n) == RetryDelays[IF n <= Len(RetryDelays) THEN n ELSE Len(RetryDelays)]

\* What a table of the waits of up to n retries holds.
Sums(f, n) == f = [k \in 0..n |-> IF k = 0 THEN 0 ELSE f[k - 1] + Wait(k)]

LEMMA SumsExist == ASSUME NEW n \in Nat PROVE \E f : Sums(f, n)
  <1> DEFINE T == {k \in Nat : ~ \E f : Sums(f, k)}
  <1>1. SUFFICES ASSUME T # {} PROVE FALSE
    OBVIOUS
  <1>2. PICK m \in T : \A k \in T : m <= k
    BY <1>1, LeastNumber
  <1>3. m # 0
    <2>1. Sums([k \in 0..0 |-> 0], 0)
      BY DEF Sums
    <2>2. QED
      BY <1>2, <2>1
  <1>4. PICK f : Sums(f, m - 1)
    BY <1>2, <1>3
  <1> DEFINE g == [k \in 0..m |-> IF k = m THEN f[m - 1] + Wait(m) ELSE f[k]]
  <1>5. \A k \in 0..m : g[k] = IF k = 0 THEN 0 ELSE g[k - 1] + Wait(k)
    <2>1. m \in Nat \ {0}
      BY <1>2, <1>3
    <2>2. \A k \in 0..(m - 1) : f[k] = IF k = 0 THEN 0 ELSE f[k - 1] + Wait(k)
      BY <1>4, Zenon DEF Sums
    <2>3. \A k \in 0..m : k # m => k \in 0..(m - 1) /\ (k # 0 => k - 1 \in 0..m /\ k - 1 # m)
      BY <2>1
    <2>4. m - 1 \in 0..m /\ m - 1 # m /\ m \in 0..m
      BY <2>1
    <2>5. QED
      BY <2>1, <2>2, <2>3, <2>4
  <1>6. Sums(g, m)
    BY <1>5 DEF Sums
  <1>7. QED
    BY <1>2, <1>6

LEMMA WaitsAddUp ==
  \A k \in 0..MaxRetries : Waits[k] = IF k = 0 THEN 0 ELSE Waits[k - 1] + Wait(k)
  <1>1. Waits = CHOOSE f : f = [k \in 0..MaxRetries |-> IF k = 0 THEN 0 ELSE f[k - 1] + Wait(k)]
    BY Zenon DEF Waits, Wait
  <1>2. \E f : f = [k \in 0..MaxRetries |-> IF k = 0 THEN 0 ELSE f[k - 1] + Wait(k)]
    BY RetryAssumption, SumsExist, Zenon DEF Sums
  <1>3. Waits = [k \in 0..MaxRetries |-> IF k = 0 THEN 0 ELSE Waits[k - 1] + Wait(k)]
    BY <1>1, <1>2, Zenon
  <1>4. QED
    BY <1>3, Zenon

LEMMA WaitIsDelay ==
  ASSUME NEW n \in Nat \ {0} PROVE Wait(n) \in Nat /\ RetryDelay(n) = Wait(n)
  BY RetryAssumption DEF Wait, RetryDelay

LEMMA WaitsGrow ==
  \A n \in 0..MaxRetries : Waits[n] \in Nat /\ \A k \in 0..n : Waits[k] <= Waits[n]
  <1> DEFINE P(n) == Waits[n] \in Nat /\ \A k \in 0..n : Waits[k] <= Waits[n]
             T == {n \in 0..MaxRetries : ~P(n)}
  <1>1. SUFFICES ASSUME T # {} PROVE FALSE
    OBVIOUS
  <1>2. MaxRetries \in Nat
    BY RetryAssumption
  <1> HIDE DEF P
  <1>3. PICK m \in T : \A k \in T : m <= k
    <2>1. T \subseteq Nat
      BY <1>2
    <2> HIDE DEF T
    <2>2. QED
      BY <1>1, <2>1, LeastNumber, Zenon
  <1>4. m # 0
    <2>1. Waits[0] = 0
      BY <1>2, WaitsAddUp
    <2>2. P(0)
      BY <2>1 DEF P
    <2>3. QED
      BY <1>3, <2>2
  <1>5. m - 1 \in 0..MaxRetries /\ P(m - 1)
    BY <1>2, <1>3, <1>4
  <1>6. Waits[m] = Waits[m - 1] + Wait(m) /\ Wait(m) \in Nat
    BY <1>2, <1>3, <1>4, WaitsAddUp, WaitIsDelay
  <1>7. \A k \in 0..m : k \in 0..(m - 1) \/ k = m
    BY <1>2, <1>3
  <1>8. P(m)
    <2>1. Waits[m - 1] \in Nat /\ \A k \in 0..(m - 1) : Waits[k] <= Waits[m - 1]
      BY <1>5 DEF P
    <2>2. Waits[m] \in Nat /\ Waits[m - 1] <= Waits[m]
      BY <1>6, <2>1
    <2>3. ASSUME NEW k \in 0..m PROVE Waits[k] <= Waits[m]
      <3>1. CASE k = m
        BY <2>2, <3>1
      <3>2. CASE k \in 0..(m - 1)
        <4>1. Waits[k] <= Waits[m - 1] /\ Waits[k] \in Nat
          <5>1. k \in 0..MaxRetries /\ k \notin T
            BY <1>2, <1>3, <3>2
          <5>2. P(k)
            BY <5>1
          <5>3. QED
            BY <2>1, <3>2, <5>2 DEF P
        <4>2. QED
          BY <2>1, <2>2, <4>1
      <3>3. QED
        BY <1>7, <3>1, <3>2
    <2>4. QED
      BY <2>2, <2>3 DEF P
  <1>9. QED
    BY <1>3, <1>8

-----------------------------------------------------------------------------
(***************************************************************************)
(* The time a push has used.  Attempt a is over at the latest after a      *)
(* timeouts and the waits between the attempts, and the clock never passes *)
(* the time at which something is due.                                     *)
(***************************************************************************)
Timely(row, now) ==
  /\ row.state = "sending" =>
       now <= row.due /\ row.due <= row.started + row.attempt * Timeout + Waits[row.attempt - 1]
  /\ row.state = "waiting" =>
       now <= row.due /\ row.due <= row.started + row.attempt * Timeout + Waits[row.attempt]

TInv == PInv /\ \A p \in Pushes : Timely(push[p], clock)

LEMMA InitTInv == Init => TInv
  <1> SUFFICES ASSUME Init PROVE TInv
    OBVIOUS
  <1>1. \A p \in Pushes : Timely(push[p], clock)
    BY DEF Init, Timely
  <1>2. QED
    BY <1>1, InitPInv DEF TInv

\* A step in which the clock stands still and at most one push changes.
LEMMA OneKeepsTime ==
  ASSUME TInv, NEW p \in Pushes, PInv', Timely(push'[p], clock), clock' = clock,
         \A q \in Pushes \ {p} : push'[q] = push[q]
  PROVE  TInv'
  <1>1. ASSUME NEW q \in Pushes PROVE Timely(push'[q], clock')
    BY DEF TInv
  <1>2. QED
    BY <1>1 DEF TInv

LEMMA SendIsTimely ==
  ASSUME TInv, NEW p \in Pushes, NEW row \in PushRow, NEW a \in Attempts, Send(p, row, a),
         clock <= row.started + (a - 1) * Timeout + Waits[a - 1],
         clock' = clock, PInv'
  PROVE  TInv'
  <1>1. /\ clock \in Nat /\ Timeout \in Nat /\ DOMAIN push = Pushes /\ row.started \in Nat
        /\ a \in Nat /\ a - 1 \in 0..MaxRetries
    BY PushTypes, RetryAssumption DEF TInv, PushRow, Attempts, MaxAttempts
  <1>2. /\ push'[p].state = "sending" /\ push'[p].attempt = a /\ push'[p].started = row.started
        /\ push'[p].due = clock + Timeout
    BY <1>1 DEF Send, PushRow
  <1>3. Waits[a - 1] \in Nat
    BY <1>1, WaitsGrow
  <1>4. (a - 1) * Timeout + Timeout = a * Timeout /\ (a - 1) * Timeout \in Int
    BY <1>1
  <1>5. clock + Timeout <= row.started + a * Timeout + Waits[a - 1]
    <2> DEFINE x == (a - 1) * Timeout
               y == a * Timeout
    <2>1. x + Timeout = y /\ x \in Int /\ clock <= row.started + x + Waits[a - 1]
      BY <1>4
    <2> HIDE DEF x, y
    <2>2. clock + Timeout <= row.started + y + Waits[a - 1]
      BY <1>1, <1>3, <2>1
    <2>3. QED
      BY <2>2 DEF y
  <1>6. Timely(push'[p], clock)
    BY <1>1, <1>2, <1>5 DEF Timely
  <1>7. \A q \in Pushes \ {p} : push'[q] = push[q]
    BY <1>1 DEF Send
  <1>8. QED
    BY <1>6, <1>7, OneKeepsTime

LEMMA ConcludeIsTimely ==
  ASSUME TInv, NEW p \in Pushes, push[p].state = "sending", NEW s, Conclude(p, s),
         clock' = clock, PInv'
  PROVE  TInv'
  <1> DEFINE a == push[p].attempt
  <1>1. /\ clock \in Nat /\ Timeout \in Nat /\ DOMAIN push = Pushes /\ push[p].started \in Nat
        /\ push[p] \in PushRow /\ a \in Attempts /\ a \in Nat \ {0} /\ a - 1 \in 0..MaxRetries
        /\ push[p].due \in Nat
    <2>1. /\ clock \in Nat /\ Timeout \in Nat /\ DOMAIN push = Pushes /\ push[p] \in PushRow
          /\ a \in Attempts
      BY PushTypes, RetryAssumption DEF TInv, Sound
    <2>2. push[p].due \in Nat /\ push[p].started \in Nat
      BY <2>1 DEF PushRow
    <2>3. a \in Nat \ {0} /\ a - 1 \in 0..MaxRetries
      BY <2>1, RetryAssumption DEF Attempts, MaxAttempts
    <2>4. QED
      BY <2>1, <2>2, <2>3
  <1>2. Timely(push'[p], clock)
    <2>1. CASE Retryable(s) /\ push[p].attempt < MaxAttempts
      <3>1. /\ push'[p].state = "waiting" /\ push'[p].attempt = a
            /\ push'[p].started = push[p].started
            /\ push'[p].due = clock + RetryDelay(a)
        BY <1>1, <2>1 DEF Conclude, PushRow
      <3>2. a \in 0..MaxRetries /\ a # 0
        BY <1>1, <2>1, RetryAssumption DEF MaxAttempts
      <3>3. Waits[a] = Waits[a - 1] + RetryDelay(a) /\ RetryDelay(a) \in Nat
        BY <1>1, <3>2, WaitsAddUp, WaitIsDelay
      <3>4. Waits[a - 1] \in Nat /\ Waits[a] \in Nat
        BY <1>1, <3>2, WaitsGrow
      <3>5. clock <= push[p].started + a * Timeout + Waits[a - 1]
        <4>1. clock <= push[p].due /\ push[p].due <= push[p].started + a * Timeout + Waits[a - 1]
          BY DEF TInv, Timely
        <4>2. a * Timeout \in Int
          BY <1>1
        <4>3. QED
          BY <1>1, <3>4, <4>1, <4>2
      <3>6. clock + RetryDelay(a) <= push[p].started + a * Timeout + Waits[a]
        <4> DEFINE x == a * Timeout
        <4>1. x \in Int /\ clock <= push[p].started + x + Waits[a - 1]
          BY <1>1, <3>5
        <4> HIDE DEF x
        <4>2. clock + RetryDelay(a) <= push[p].started + x + Waits[a]
          BY <1>1, <3>3, <3>4, <4>1
        <4>3. QED
          BY <4>2 DEF x
      <3>7. QED
        BY <1>1, <3>1, <3>3, <3>6 DEF Timely
    <2>2. CASE ~(Retryable(s) /\ push[p].attempt < MaxAttempts)
      <3>1. push'[p].state = "settled"
        BY <1>1, <2>2 DEF Conclude, Settle, PushRow
      <3>2. QED
        BY <3>1 DEF Timely
    <2>3. QED
      BY <2>1, <2>2
  <1>3. \A q \in Pushes \ {p} : push'[q] = push[q]
    BY <1>1 DEF Conclude, Settle
  <1>4. QED
    BY <1>2, <1>3, OneKeepsTime

LEMMA NextTInv == ASSUME TInv, [Next]_vars PROVE TInv'
  <1>1. PInv /\ PInv'
    BY NextPInv DEF TInv
  <1>2. ASSUME NEW p \in Pushes, NEW o \in Origins, NEW k \in Kinds, Start(p, o, k) PROVE TInv'
    <2> DEFINE row == [push[p] EXCEPT !.origin = o, !.kind = k, !.started = clock]
    <2>1. /\ row \in PushRow /\ row.started = clock /\ clock \in Nat /\ clock' = clock
          /\ 1 \in Attempts /\ DOMAIN push = Pushes /\ Timeout \in Nat
      BY <1>1, <1>2, PushTypes, AttemptsAreNumbers, RetryAssumption DEF Start, PushRow
    <2>2. CASE Send(p, row, 1)
      <3>1. Waits[1 - 1] \in Nat /\ (1 - 1) * Timeout = 0
        BY <2>1, WaitsGrow, RetryAssumption
      <3>2. clock <= row.started + (1 - 1) * Timeout + Waits[1 - 1]
        BY <2>1, <3>1
      <3> HIDE DEF row
      <3>3. QED
        BY <1>1, <2>1, <2>2, <3>2, SendIsTimely
    <2>3. CASE push' = [push EXCEPT ![p] = [row EXCEPT !.state = "settled",
                                                       !.success = (k = "nourl")]]
      <3>1. push'[p].state = "settled" /\ \A q \in Pushes \ {p} : push'[q] = push[q]
        BY <2>1, <2>3 DEF PushRow
      <3>2. QED
        BY <1>1, <2>1, <3>1, OneKeepsTime DEF Timely
    <2>4. QED
      BY <1>2, <2>2, <2>3 DEF Start
  <1>3. ASSUME NEW p \in Pushes, Receive(p) PROVE TInv'
    BY <1>1, <1>3, ConcludeIsTimely DEF Receive
  <1>4. ASSUME NEW p \in Pushes, NetworkError(p) PROVE TInv'
    BY <1>1, <1>4, ConcludeIsTimely DEF NetworkError
  <1>5. ASSUME NEW p \in Pushes, RetryTimer(p) PROVE TInv'
    <2> DEFINE a == push[p].attempt
    <2>1. /\ push[p] \in PushRow /\ a \in Attempts /\ a < MaxAttempts /\ a + 1 \in Attempts
          /\ clock = push[p].due /\ Send(p, push[p], a + 1) /\ clock' = clock
          /\ push[p].state = "waiting"
      BY <1>1, <1>5, PushTypes, AttemptsAreNumbers DEF RetryTimer, Sound
    <2>2. a \in Nat /\ (a + 1) - 1 = a
      BY <2>1, RetryAssumption DEF Attempts, MaxAttempts
    <2>3. clock <= push[p].started + ((a + 1) - 1) * Timeout + Waits[(a + 1) - 1]
      BY <2>1, <2>2 DEF TInv, Timely
    <2>4. QED
      BY <1>1, <2>1, <2>3, SendIsTimely
  <1>6. ASSUME NEW p \in Pushes, NEW a \in Attempts, NEW s \in Statuses, Handle(p, a, s) PROVE TInv'
    BY <1>1, <1>6 DEF Handle, TInv
  <1>7. CASE Crash
    <2>1. ASSUME NEW p \in Pushes PROVE Timely(push'[p], clock')
      <3>1. CASE push[p].state \in {"sending", "waiting"}
        <4>1. push'[p] = [push[p] EXCEPT !.state = "lost"]
          BY <1>7, <3>1 DEF Crash
        <4>2. push'[p].state = "lost"
          BY <1>1, <4>1, PushTypes DEF PushRow
        <4>3. QED
          BY <4>2 DEF Timely
      <3>2. CASE push[p].state \notin {"sending", "waiting"}
        BY <1>7, <3>2 DEF Crash, Timely
      <3>3. QED
        BY <3>1, <3>2
    <2>2. QED
      BY <1>1, <2>1 DEF TInv
  <1>8. CASE Tick
    <2>1. ASSUME NEW p \in Pushes PROVE Timely(push'[p], clock')
      <3>1. /\ push'[p] = push[p] /\ clock' = clock + 1 /\ clock \in Nat /\ push[p].due \in Nat
            /\ push[p].state \in {"sending", "waiting"} => clock < push[p].due
        BY <1>1, <1>8, PushTypes DEF Tick, PushRow
      <3>2. QED
        BY <3>1 DEF TInv, Timely
    <2>2. QED
      BY <1>1, <2>1 DEF TInv
  <1>9. CASE UNCHANGED vars
    BY <1>1, <1>9 DEF vars, TInv
  <1>10. QED
    BY <1>2, <1>3, <1>4, <1>5, <1>6, <1>7, <1>8, <1>9 DEF Next

(***************************************************************************)
(* A push in progress is never older than a timeout for each attempt and   *)
(* the waits of the ladder, for every ladder, number of retries and        *)
(* timeout, wherever the answers get lost (sendWithRetry; the 30 s and the *)
(* delays of 5, 30 and 120 s of CALLBACK_CONFIG).                          *)
(***************************************************************************)
THEOREM PushesAreTimely == Spec => []WithinWindow
  <1>1. ASSUME TInv PROVE WithinWindow
    <2> SUFFICES ASSUME NEW p \in Pushes, push[p].state \in {"sending", "waiting"}
                 PROVE  clock - push[p].started <= Window
      BY DEF WithinWindow
    <2> DEFINE a == push[p].attempt
               w == IF push[p].state = "sending" THEN a - 1 ELSE a
    <2>1. /\ clock \in Nat /\ push[p].started \in Nat /\ push[p].due \in Nat
          /\ Sound(push[p], msg[p], logged[p])
      BY <1>1, PushTypes DEF TInv, PushRow
    <2>2. /\ MaxRetries \in Nat /\ Timeout \in Nat /\ a \in Nat /\ a <= MaxAttempts
          /\ w \in 0..MaxRetries
      BY <2>1, RetryAssumption DEF Sound, Attempts, MaxAttempts
    <2>3. Waits[w] \in Nat /\ Waits[MaxRetries] \in Nat /\ Waits[w] <= Waits[MaxRetries]
      BY <2>2, WaitsGrow
    <2>4. clock <= push[p].started + a * Timeout + Waits[w]
      <3>1. clock <= push[p].due /\ push[p].due <= push[p].started + a * Timeout + Waits[w]
        BY <1>1 DEF TInv, Timely
      <3>2. a * Timeout \in Int
        BY <2>2
      <3>3. QED
        BY <2>1, <2>3, <3>1, <3>2
    <2>5. a * Timeout <= MaxAttempts * Timeout /\ a * Timeout \in Int /\ MaxAttempts * Timeout \in Int
      <3>1. MaxAttempts \in Nat
        BY AttemptsAreNumbers
      <3>2. PICK d \in Nat : MaxAttempts = a + d
        <4>1. MaxAttempts - a \in Nat /\ MaxAttempts = a + (MaxAttempts - a)
          BY <2>2, <3>1
        <4>2. QED
          BY <4>1
      <3>3. (a + d) * Timeout = a * Timeout + d * Timeout /\ d * Timeout >= 0
        BY <2>2
      <3>4. QED
        BY <2>2, <3>1, <3>2, <3>3
    <2> DEFINE x == a * Timeout
               y == MaxAttempts * Timeout
    <2>6. x \in Int /\ y \in Int /\ x <= y /\ clock <= push[p].started + x + Waits[w]
      BY <2>4, <2>5
    <2>7. Window = y + Waits[MaxRetries]
      BY DEF Window
    <2> HIDE DEF x, y, a, w
    <2>8. QED
      BY <2>1, <2>3, <2>6, <2>7
  <1>2. TInv /\ [Next]_vars => TInv'
    BY NextTInv
  <1>3. QED
    BY <1>1, <1>2, InitTInv, PTL DEF Spec
=============================================================================
