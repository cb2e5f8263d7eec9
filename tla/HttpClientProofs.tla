-------------------------- MODULE HttpClientProofs --------------------------
(***************************************************************************)
(* Theorems about HttpClient, for any number of calls and of failures and  *)
(* any options of their clients.                                           *)
(***************************************************************************)
EXTENDS HttpClient, TLAPS

\* A call of the gateway: its client is built by the factory without maxRetries.
Gateway(c) == Config[c].byFactory /\ Config[c].maxRetries = Undefined

(***************************************************************************)
(* The strengthening of AtMostOnce: a call of the gateway opens no loop,   *)
(* and until its only request has ended the backend has not executed it.   *)
(***************************************************************************)
SentOnce ==
  \A c \in Calls : Gateway(c) =>
    /\ frames[c] = <<>> /\ call[c].state # "waiting"
    /\ call[c].state \in {"idle", "sending"} => served[c] = 0
    /\ served[c] <= 1

IInv == TypeOK /\ SentOnce

LEMMA GatewayNeverRetries == ASSUME NEW c \in Calls, Gateway(c) PROVE ~MayRetry(c)
  BY DEF Gateway, MayRetry, EffectiveRetries

\* A loop that is started, or resumed for another round, counts from one.
LEMMA LoopsTyped ==
  ASSUME TypeOK, NEW c \in Calls, NEW others \in Seq(Nat \ {0}), NEW attempt \in Nat \ {0},
         StartAttempt(c, others, attempt)
  PROVE  frames' \in [Calls -> Seq(Nat \ {0})]
  <1>1. Append(others, attempt) \in Seq(Nat \ {0})
    OBVIOUS
  <1>2. QED
    BY <1>1 DEF StartAttempt, TypeOK

\* Every state a call may be set to.
LEMMA StateTyped ==
  ASSUME TypeOK, NEW c \in Calls, NEW s \in {"sending", "waiting", "ok", "failed"}, SetState(c, s)
  PROVE  call' \in [Calls -> [state: {"idle", "sending", "waiting", "throwing", "ok", "failed"},
                              error: Errors \cup {"none"}]]
  BY DEF SetState, TypeOK

LEMMA InitTypeOK == Init => TypeOK
  <1> SUFFICES ASSUME Init PROVE TypeOK
    OBVIOUS
  <1>1. <<>> \in Seq(Nat \ {0})
    OBVIOUS
  <1>2. QED
    BY <1>1, ClientAssumption DEF Init, TypeOK

LEMMA NextTypeOK == TypeOK /\ [Next]_vars => TypeOK'
  <1> SUFFICES ASSUME TypeOK, [Next]_vars PROVE TypeOK'
    OBVIOUS
  <1> USE ClientAssumption
  <1>1. ASSUME NEW c \in Calls, Request(c) PROVE TypeOK'
    BY <1>1 DEF Request, SetState, TypeOK
  <1>2. ASSUME NEW c \in Calls, Succeed(c) PROVE TypeOK'
    <2>1. frames' \in [Calls -> Seq(Nat \ {0})]
      <3>1. <<>> \in Seq(Nat \ {0})
        OBVIOUS
      <3>2. QED
        BY <1>2, <3>1 DEF Succeed, TypeOK
    <2>2. served' \in [Calls -> Nat] /\ failures' \in 0 .. MaxFailures
      BY <1>2 DEF Succeed, TypeOK
    <2>3. QED
      BY <1>2, <2>1, <2>2, StateTyped DEF Succeed, TypeOK
  <1>3. ASSUME NEW c \in Calls, Resend(c) PROVE TypeOK'
    BY <1>3 DEF Resend, SetState, TypeOK
  <1>4. ASSUME NEW c \in Calls, Catch(c) PROVE TypeOK'
    <2> DEFINE n == Len(frames[c])
               outer == SubSeq(frames[c], 1, n - 1)
    <2>1. frames[c] \in Seq(Nat \ {0}) /\ n \in Nat
      BY DEF TypeOK
    <2>2. UNCHANGED <<served, failures>>
      BY <1>4 DEF Catch
    <2>3. CASE n = 0
      <3>1. SetState(c, "failed") /\ UNCHANGED frames
        BY <1>4, <2>3 DEF Catch
      <3>2. QED
        BY <2>2, <3>1, StateTyped DEF TypeOK
    <2>4. CASE n > 0
      <3>1. outer \in Seq(Nat \ {0}) /\ frames[c][n] \in Nat \ {0}
        BY <2>1, <2>4
      <3>2. \/ frames' = [frames EXCEPT ![c] = outer] /\ UNCHANGED call
            \/ StartAttempt(c, outer, frames[c][n] + 1) /\ SetState(c, "waiting")
        BY <1>4, <2>1, <2>4 DEF Catch
      <3>3. CASE frames' = [frames EXCEPT ![c] = outer] /\ UNCHANGED call
        BY <2>2, <3>1, <3>3 DEF TypeOK
      <3>4. CASE StartAttempt(c, outer, frames[c][n] + 1) /\ SetState(c, "waiting")
        <4>1. frames[c][n] + 1 \in Nat \ {0}
          BY <3>1
        <4>2. frames' \in [Calls -> Seq(Nat \ {0})]
          BY <3>1, <3>4, <4>1, LoopsTyped
        <4>3. QED
          BY <2>2, <3>4, <4>2, StateTyped DEF TypeOK
      <3>5. QED
        BY <3>2, <3>3, <3>4
    <2>5. QED
      BY <2>1, <2>3, <2>4
  <1>5. ASSUME NEW c \in Calls, NEW e \in Errors, NEW s \in {0, 1}, Fail(c, e, s) PROVE TypeOK'
    <2>1. frames' \in [Calls -> Seq(Nat \ {0})]
      <3>1. frames[c] \in Seq(Nat \ {0}) /\ 1 \in Nat \ {0}
        BY DEF TypeOK
      <3>2. StartAttempt(c, frames[c], 1) \/ UNCHANGED frames
        BY <1>5 DEF Fail
      <3>3. QED
        BY <3>1, <3>2, LoopsTyped DEF TypeOK
    <2>2. /\ call' \in [Calls -> [state: {"idle", "sending", "waiting", "throwing", "ok", "failed"},
                                  error: Errors \cup {"none"}]]
          /\ served' \in [Calls -> Nat]
          /\ failures' \in 0 .. MaxFailures
      <3>1. PICK t \in {"waiting", "throwing"} :
              call' = [call EXCEPT ![c].error = e, ![c].state = t]
        BY <1>5 DEF Fail
      <3>2. call' \in [Calls -> [state: {"idle", "sending", "waiting", "throwing", "ok", "failed"},
                                 error: Errors \cup {"none"}]]
        BY <3>1 DEF TypeOK
      <3>3. served' \in [Calls -> Nat]
        BY <1>5 DEF Fail, TypeOK
      <3>4. failures' \in 0 .. MaxFailures
        BY <1>5 DEF Fail, TypeOK
      <3>5. QED
        BY <3>2, <3>3, <3>4
    <2>3. QED
      BY <2>1, <2>2 DEF TypeOK
  <1>6. CASE UNCHANGED vars
    BY <1>6 DEF vars, TypeOK
  <1>7. QED
    BY <1>1, <1>2, <1>3, <1>4, <1>5, <1>6 DEF Next

LEMMA NextSentOnce == IInv /\ [Next]_vars => SentOnce'
  <1> DEFINE Once(c) == /\ frames[c] = <<>> /\ call[c].state # "waiting"
                        /\ call[c].state \in {"idle", "sending"} => served[c] = 0
                        /\ served[c] <= 1
  <1> SUFFICES ASSUME TypeOK, SentOnce, [Next]_vars, NEW g \in Calls, Gateway(g)
               PROVE  Once(g)'
    BY DEF IInv, SentOnce, Gateway
  <1>0. Once(g) /\ Len(frames[g]) = 0
    BY DEF SentOnce
  <1>1. ASSUME NEW c \in Calls, Request(c) PROVE Once(g)'
    BY <1>0, <1>1 DEF Request, SetState, TypeOK
  <1>2. ASSUME NEW c \in Calls, Succeed(c) PROVE Once(g)'
    BY <1>0, <1>2 DEF Succeed, SetState, TypeOK
  <1>3. ASSUME NEW c \in Calls, Resend(c) PROVE Once(g)'
    BY <1>0, <1>3 DEF Resend, SetState, TypeOK
  <1>4. ASSUME NEW c \in Calls, Catch(c) PROVE Once(g)'
    <2>1. CASE c = g
      <3>1. SetState(g, "failed") /\ UNCHANGED <<frames, served>>
        BY <1>0, <1>4, <2>1 DEF Catch
      <3>2. QED
        BY <1>0, <3>1 DEF SetState, TypeOK
    <2>2. CASE c # g
      <3>1. UNCHANGED <<frames[g], call[g], served[g]>>
        BY <1>4, <2>2 DEF Catch, StartAttempt, SetState, TypeOK
      <3>2. QED
        BY <1>0, <3>1
    <2>3. QED
      BY <2>1, <2>2
  <1>5. ASSUME NEW c \in Calls, NEW e \in Errors, NEW s \in {0, 1}, Fail(c, e, s) PROVE Once(g)'
    <2>1. CASE c = g
      <3>1. ~MayRetry(g)
        BY GatewayNeverRetries
      <3>2. /\ call[g].state = "sending"
            /\ call' = [call EXCEPT ![g].error = e, ![g].state = "throwing"]
            /\ served' = [served EXCEPT ![g] = @ + s]
            /\ UNCHANGED frames
        BY <1>5, <2>1, <3>1 DEF Fail
      <3>3. QED
        BY <1>0, <3>2 DEF TypeOK
    <2>2. CASE c # g
      <3>1. UNCHANGED <<frames[g], call[g], served[g]>>
        BY <1>5, <2>2 DEF Fail, StartAttempt, TypeOK
      <3>2. QED
        BY <1>0, <3>1
    <2>3. QED
      BY <2>1, <2>2
  <1>6. CASE UNCHANGED vars
    BY <1>0, <1>6 DEF vars
  <1>7. QED
    BY <1>1, <1>2, <1>3, <1>4, <1>5, <1>6 DEF Next

(* Calls, the counters of their loops and what the backend executed keep   *)
(* their types, however deep the loops nest.                               *)
THEOREM ClientTypeCorrect == Spec => []TypeOK
  BY InitTypeOK, NextTypeOK, PTL DEF Spec

(* However many calls are made and whatever fails, the backend executes a  *)
(* call of the gateway at most once (http-client.service.ts:129).          *)
THEOREM GatewayCallsOnce == Spec => []AtMostOnce
  <1>1. Init => IInv
    BY InitTypeOK DEF Init, IInv, SentOnce
  <1>2. IInv /\ [Next]_vars => IInv'
    BY NextTypeOK, NextSentOnce DEF IInv
  <1>3. IInv => AtMostOnce
    BY DEF IInv, SentOnce, AtMostOnce, Gateway
  <1>4. QED
    BY <1>1, <1>2, <1>3, PTL DEF Spec

-----------------------------------------------------------------------------
(***************************************************************************)
(* The nested loops of a call: no loop counts past the limit of its        *)
(* client, there is at most one for every failure so far, and between two  *)
(* failures every step of the call brings its end nearer.                  *)
(***************************************************************************)

\* The loops of a call, the deepest at which the backend has failed it.
LoopsOf(c) ==
  /\ Len(frames[c]) <= failures
  /\ \A i \in 1 .. Len(frames[c]) : MayRetry(c) /\ frames[c][i] <= EffectiveRetries(c)

LoopsBounded == \A c \in Calls : LoopsOf(c)

LEMMA LoopsAfter ==
  ASSUME NEW c \in Calls, Len(frames'[c]) <= failures',
         \A i \in 1 .. Len(frames'[c]) : MayRetry(c) /\ frames'[c][i] <= EffectiveRetries(c)
  PROVE  LoopsOf(c)'
  BY DEF LoopsOf, MayRetry, EffectiveRetries

LEMMA LimitIsNumber ==
  ASSUME NEW c \in Calls, MayRetry(c) PROVE EffectiveRetries(c) \in Nat \ {0}
  BY ClientAssumption DEF MayRetry, EffectiveRetries

(* A loop is started inside the others: by a failure with a new counter, or *)
(* again by its own catch with the next number.                             *)
LEMMA AttemptBounded ==
  ASSUME TypeOK, NEW c \in Calls, MayRetry(c), NEW others \in Seq(Nat \ {0}), NEW n \in Nat,
         Len(others) < n,
         \A i \in 1 .. Len(others) : others[i] <= EffectiveRetries(c),
         NEW attempt \in Nat \ {0}, attempt <= EffectiveRetries(c),
         StartAttempt(c, others, attempt)
  PROVE  /\ Len(frames'[c]) <= n
         /\ \A i \in 1 .. Len(frames'[c]) : frames'[c][i] <= EffectiveRetries(c)
  <1>1. frames'[c] = Append(others, attempt)
    BY DEF StartAttempt, TypeOK
  <1>2. Len(frames'[c]) = Len(others) + 1
    BY <1>1
  <1>3. ASSUME NEW i \in 1 .. Len(frames'[c]) PROVE frames'[c][i] <= EffectiveRetries(c)
    <2>1. frames'[c][i] = IF i = Len(others) + 1 THEN attempt ELSE others[i]
      BY <1>1, <1>2
    <2>2. CASE i = Len(others) + 1
      BY <2>1, <2>2
    <2>3. CASE i # Len(others) + 1
      <3>1. i \in 1 .. Len(others)
        BY <1>2, <2>3
      <3>2. QED
        BY <2>1, <2>3, <3>1
    <2>4. QED
      BY <2>2, <2>3
  <1>4. QED
    BY <1>2, <1>3

(* What the catch of a call does, by the loops it has open. *)
LEMMA CatchMoves ==
  ASSUME TypeOK, LoopsBounded, NEW c \in Calls, Catch(c)
  PROVE  /\ failures' = failures /\ call[c].state = "throwing" /\ LoopsOf(c)'
         /\ \/ call'[c].state = "failed"
            \/ call'[c].state = "throwing" /\ Len(frames'[c]) < Len(frames[c])
            \/ call'[c].state = "waiting"
  <1> DEFINE n == Len(frames[c])
             outer == SubSeq(frames[c], 1, n - 1)
  <1>0. /\ frames[c] \in Seq(Nat \ {0}) /\ n \in Nat /\ failures \in Nat
        /\ failures' = failures /\ call[c].state = "throwing"
    BY ClientAssumption DEF Catch, TypeOK
  <1>1. LoopsOf(c)
    BY DEF LoopsBounded
  <1>2. CASE n = 0
    <2>1. SetState(c, "failed") /\ UNCHANGED frames
      BY <1>2 DEF Catch
    <2>2. QED
      BY <1>0, <1>1, <2>1 DEF SetState, TypeOK, LoopsOf, MayRetry, EffectiveRetries
  <1>3. CASE n > 0
    <2>1. /\ outer \in Seq(Nat \ {0}) /\ Len(outer) = n - 1
          /\ \A i \in 1 .. Len(outer) : outer[i] = frames[c][i]
          /\ frames[c][n] \in Nat \ {0}
      BY <1>0, <1>3
    <2>2. /\ n <= failures /\ MayRetry(c)
          /\ \A i \in 1 .. n : frames[c][i] <= EffectiveRetries(c)
      BY <1>0, <1>1, <1>3 DEF LoopsOf
    <2>3. \/ frames' = [frames EXCEPT ![c] = outer] /\ UNCHANGED call
          \/ /\ ~(frames[c][n] >= EffectiveRetries(c))
             /\ StartAttempt(c, outer, frames[c][n] + 1) /\ SetState(c, "waiting")
      BY <1>0, <1>3 DEF Catch
    <2> HIDE DEF outer
    <2>4. CASE frames' = [frames EXCEPT ![c] = outer] /\ UNCHANGED call
      <3>1. frames'[c] = outer /\ call'[c] = call[c]
        BY <2>4 DEF TypeOK
      <3>2. Len(outer) <= failures /\ 1 .. Len(outer) \subseteq 1 .. n
        BY <1>0, <2>1, <2>2
      <3>3. LoopsOf(c)'
        BY <1>0, <2>1, <2>2, <3>1, <3>2, LoopsAfter
      <3>4. QED
        BY <1>0, <2>1, <3>1, <3>3
    <2>5. CASE /\ ~(frames[c][n] >= EffectiveRetries(c))
               /\ StartAttempt(c, outer, frames[c][n] + 1) /\ SetState(c, "waiting")
      <3>1. EffectiveRetries(c) \in Nat
        BY <2>2, LimitIsNumber
      <3>2. frames[c][n] + 1 \in Nat \ {0} /\ frames[c][n] + 1 <= EffectiveRetries(c)
        BY <2>1, <2>5, <3>1
      <3>3. Len(outer) < n /\ \A i \in 1 .. Len(outer) : outer[i] <= EffectiveRetries(c)
        BY <1>0, <2>1, <2>2
      <3>4. /\ Len(frames'[c]) <= n
            /\ \A i \in 1 .. Len(frames'[c]) : frames'[c][i] <= EffectiveRetries(c)
        BY <1>0, <2>1, <2>2, <2>5, <3>2, <3>3, AttemptBounded
      <3>5. LoopsOf(c)'
        <4>1. Len(frames'[c]) \in Nat
          BY <1>0, <2>1, <2>5, <3>2 DEF StartAttempt, TypeOK
        <4>2. QED
          BY <1>0, <2>2, <3>4, <4>1, LoopsAfter
      <3>6. call'[c].state = "waiting"
        BY <2>5 DEF SetState, TypeOK
      <3>7. QED
        BY <1>0, <3>5, <3>6
    <2>6. QED
      BY <2>3, <2>4, <2>5
  <1>4. QED
    BY <1>0, <1>2, <1>3

\* What the failure of a request does.
LEMMA FailMoves ==
  ASSUME TypeOK, LoopsBounded, NEW c \in Calls, NEW e \in Errors, NEW s \in {0, 1}, Fail(c, e, s)
  PROVE  failures' = failures + 1 /\ LoopsOf(c)'
  <1>1. /\ frames[c] \in Seq(Nat \ {0}) /\ Len(frames[c]) \in Nat /\ failures \in Nat
        /\ failures' = failures + 1
    BY ClientAssumption DEF Fail, TypeOK
  <1>2. LoopsOf(c)
    BY DEF LoopsBounded
  <1>3. CASE UNCHANGED frames
    <2>1. Len(frames[c]) <= failures'
      BY <1>1, <1>2 DEF LoopsOf
    <2>2. QED
      BY <1>1, <1>2, <1>3, <2>1, LoopsAfter DEF LoopsOf
  <1>4. CASE StartAttempt(c, frames[c], 1) /\ MayRetry(c)
    <2>1. 1 <= EffectiveRetries(c) /\ 1 \in Nat \ {0}
      BY <1>4, LimitIsNumber
    <2>2. Len(frames[c]) < failures'
      BY <1>1, <1>2 DEF LoopsOf
    <2>3. \A i \in 1 .. Len(frames[c]) : frames[c][i] <= EffectiveRetries(c)
      BY <1>2 DEF LoopsOf
    <2>4. failures' \in Nat
      BY <1>1
    <2>5. /\ Len(frames'[c]) <= failures'
          /\ \A i \in 1 .. Len(frames'[c]) : frames'[c][i] <= EffectiveRetries(c)
      BY <1>1, <1>4, <2>1, <2>2, <2>3, <2>4, AttemptBounded
    <2>6. QED
      BY <1>1, <1>4, <2>5, LoopsAfter
  <1>5. QED
    BY <1>3, <1>4 DEF Fail

\* A step of one call leaves the others alone.
LEMMA OthersRest ==
  ASSUME TypeOK, NEW c \in Calls, NEW d \in Calls, c # d,
         \/ Request(c) \/ Succeed(c) \/ Resend(c) \/ Catch(c)
         \/ \E e \in Errors, s \in {0, 1} : Fail(c, e, s)
  PROVE  call'[d] = call[d] /\ frames'[d] = frames[d]
  BY DEF Request, Succeed, Resend, Catch, Fail, SetState, StartAttempt, TypeOK

LEMMA NextLoops == TypeOK /\ LoopsBounded /\ [Next]_vars => LoopsBounded'
  <1> SUFFICES ASSUME TypeOK, LoopsBounded, [Next]_vars, NEW d \in Calls PROVE LoopsOf(d)'
    BY DEF LoopsBounded
  <1>0. LoopsOf(d) /\ failures \in Nat /\ Len(frames[d]) \in Nat
    BY ClientAssumption DEF LoopsBounded, TypeOK
  <1>1. CASE UNCHANGED <<frames[d], failures>>
    BY <1>0, <1>1, LoopsAfter DEF LoopsOf
  <1>2. ASSUME UNCHANGED frames[d], failures' = failures + 1 PROVE LoopsOf(d)'
    <2>1. Len(frames[d]) <= failures'
      BY <1>0, <1>2 DEF LoopsOf
    <2>2. QED
      BY <1>0, <1>2, <2>1, LoopsAfter DEF LoopsOf
  <1>3. ASSUME NEW c \in Calls, Request(c) \/ Resend(c) PROVE LoopsOf(d)'
    BY <1>1, <1>3 DEF Request, Resend
  <1>4. ASSUME NEW c \in Calls, Succeed(c) PROVE LoopsOf(d)'
    <2>1. CASE c # d
      <3>1. failures' = failures
        BY <1>4 DEF Succeed
      <3>2. QED
        BY <1>1, <1>4, <2>1, <3>1, OthersRest
    <2>2. CASE c = d
      <3>1. frames'[d] = <<>> /\ failures' = failures
        BY <1>4, <2>2 DEF Succeed, TypeOK
      <3>2. Len(frames'[d]) = 0
        BY <3>1
      <3>3. QED
        BY <1>0, <3>1, <3>2 DEF LoopsOf
    <2>3. QED
      BY <2>1, <2>2
  <1>5. ASSUME NEW c \in Calls, Catch(c) PROVE LoopsOf(d)'
    <2>1. CASE c # d
      BY <1>1, <1>5, <2>1, CatchMoves, OthersRest
    <2>2. CASE c = d
      BY <1>5, <2>2, CatchMoves
    <2>3. QED
      BY <2>1, <2>2
  <1>6. ASSUME NEW c \in Calls, NEW e \in Errors, NEW s \in {0, 1}, Fail(c, e, s)
        PROVE  LoopsOf(d)'
    <2>1. CASE c # d
      <3>1. frames'[d] = frames[d]
        BY <1>6, <2>1, OthersRest
      <3>2. QED
        BY <1>2, <1>6, <3>1, FailMoves
    <2>2. CASE c = d
      BY <1>6, <2>2, FailMoves
    <2>3. QED
      BY <2>1, <2>2
  <1>7. CASE UNCHANGED vars
    BY <1>1, <1>7 DEF vars
  <1>8. QED
    BY <1>3, <1>4, <1>5, <1>6, <1>7 DEF Next

LEMMA LoopsInvariant == Spec => [](TypeOK /\ LoopsBounded)
  <1>1. Init => TypeOK /\ LoopsBounded
    <2> SUFFICES ASSUME Init, NEW c \in Calls PROVE LoopsOf(c)
      BY InitTypeOK DEF LoopsBounded
    <2>1. frames[c] = <<>> /\ failures = 0
      BY DEF Init
    <2>2. Len(frames[c]) = 0
      BY <2>1
    <2>3. QED
      BY <2>1, <2>2 DEF LoopsOf
  <1>2. TypeOK /\ LoopsBounded /\ [Next]_vars => (TypeOK /\ LoopsBounded)'
    BY NextTypeOK, NextLoops
  <1>3. QED
    BY <1>1, <1>2, PTL DEF Spec

(* Loops nest, because a retry goes through the interceptor that retries    *)
(* (http-client.service.ts:187), but none counts past the limit of its      *)
(* client, and a call never has more of them open than failures were met.   *)
THEOREM LoopsStayBounded == Spec => []LoopsBounded
  BY LoopsInvariant, PTL

\* The steps a call has before it if its backend fails no more, at most.
Left(c) ==
  CASE call[c].state = "throwing" -> Len(frames[c]) + 3
    [] call[c].state = "waiting"  -> 2
    [] call[c].state = "sending"  -> 1
    [] OTHER                      -> 0

(* A call that was sent comes nearer to its end with each of its steps,     *)
(* unless the backend fails it once more: no wait and no catch is repeated  *)
(* for ever (http-client.service.ts:173).                                   *)
CallAdvances ==
  \A c \in Calls : call[c].state # "idle" =>
    \/ call'[c] = call[c] /\ frames'[c] = frames[c]
    \/ Left(c)' < Left(c)
    \/ failures' = failures + 1

THEOREM CallsAdvance == Spec => [][CallAdvances]_vars
  <1>1. ASSUME TypeOK, LoopsBounded, [Next]_vars PROVE [CallAdvances]_vars
    <2> SUFFICES ASSUME Next, NEW d \in Calls, call[d].state # "idle",
                        ~(call'[d] = call[d] /\ frames'[d] = frames[d]), failures' # failures + 1
                 PROVE  Left(d)' < Left(d)
      BY <1>1 DEF CallAdvances, vars
    <2>0. Len(frames[d]) \in Nat /\ Len(frames[d]) + 3 > 2
      BY <1>1 DEF TypeOK
    <2>1. \A e \in Errors, s \in {0, 1} : ~Fail(d, e, s)
      BY DEF Fail
    <2>2. \/ Succeed(d) \/ Resend(d) \/ Catch(d)
      BY <1>1, <2>1, OthersRest DEF Next, Request
    <2>3. CASE Succeed(d)
      <3>1. call[d].state = "sending" /\ call'[d].state = "ok"
        BY <1>1, <2>3 DEF Succeed, SetState, TypeOK
      <3>2. QED
        BY <3>1 DEF Left
    <2>4. CASE Resend(d)
      <3>1. call[d].state = "waiting" /\ call'[d].state = "sending"
        BY <1>1, <2>4 DEF Resend, SetState, TypeOK
      <3>2. QED
        BY <3>1 DEF Left
    <2>5. CASE Catch(d)
      <3>1. /\ call[d].state = "throwing"
            /\ \/ call'[d].state = "failed"
               \/ call'[d].state = "throwing" /\ Len(frames'[d]) < Len(frames[d])
               \/ call'[d].state = "waiting"
        BY <1>1, <2>5, CatchMoves
      <3>2. Len(frames'[d]) \in Nat
        BY <1>1, NextTypeOK DEF TypeOK
      <3>3. QED
        BY <2>0, <3>1, <3>2 DEF Left
    <2>6. QED
      BY <2>2, <2>3, <2>4, <2>5
  <1>2. QED
    BY <1>1, LoopsInvariant, PTL DEF Spec
=============================================================================
