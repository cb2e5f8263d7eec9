------------------------- MODULE RequestGateProofs -------------------------
(***************************************************************************)
(* Proofs about RequestGate, and about Gateway, which adds the forwarding, *)
(* for any number of requests and messages, any tolerance, and any         *)
(* lifetime of nonces and cache entries for which WindowAssumption holds.  *)
(***************************************************************************)
EXTENDS Gateway, FiniteSetTheorems, TLAPS

(***************************************************************************)
(* Type correctness                                                        *)
(***************************************************************************)

LEMMA GateInitType == Init => GateTypeOK
<1> SUFFICES ASSUME Init PROVE GateTypeOK
  OBVIOUS
<1>1. req \in [Reqs -> Req]
  <2>1. PICK f \in [Reqs -> {[msg |-> m, pc |-> "new", checkedAt |-> Absent, seen |-> Absent] : m \in Msgs}] :
          req = f
    BY DEF Init
  <2>2. ASSUME NEW m \in Msgs
        PROVE  [msg |-> m, pc |-> "new", checkedAt |-> Absent, seen |-> Absent] \in Req
    <3>1. Absent \in Int /\ "new" \in Pcs
      BY DEF Absent, Pcs
    <3> QED
      BY <3>1, Zenon DEF Req
  <2> QED
    BY <2>1, <2>2
<1>2. cache \in [Apps -> [Auths -> Int]] /\ nonce \in [Msgs -> Int] /\ now \in Int
  BY DEF Init, Absent
<1>3. until \in [Auths -> Int]
  BY GateAssumption DEF Init
<1> QED
  BY <1>1, <1>2, <1>3 DEF Init, GateTypeOK

\* A request that changes its place stays a request.
LEMMA GotoType ==
  ASSUME req \in [Reqs -> Req], NEW p \in Reqs, NEW pc \in Pcs, Goto(p, pc)
  PROVE  /\ req' \in [Reqs -> Req]
         /\ \A q \in Reqs : q # p => req'[q] = req[q]
         /\ req'[p].pc = pc /\ req'[p].msg = req[p].msg
<1> req[p] \in Req
  OBVIOUS
<1> QED
  BY DEF Goto, Req

\* What the gate does to a request: its message stays, the others stay.
LEMMA GateMoves ==
  ASSUME GateTypeOK, NEW p \in Reqs, Gate(p)
  PROVE  /\ req' \in [Reqs -> Req]
         /\ \A q \in Reqs : q # p => req'[q] = req[q]
         /\ req'[p].msg = req[p].msg
<1> USE DEF Pcs
<1>0. req \in [Reqs -> Req] /\ req[p] \in Req /\ now \in Int
  BY DEF GateTypeOK
<1>1. CASE ReadApp(p) BY <1>0, <1>1, GotoType DEF ReadApp, ThenOrRefuse
<1>2. CASE ReadDev(p) BY <1>0, <1>2, GotoType DEF ReadDev, ThenOrRefuse
<1>3. CASE CheckNonce(p) BY <1>0, <1>3, GotoType DEF CheckNonce, ThenOrRefuse
<1>4. CASE Validate(p)
  <2>1. PICK pc \in Pcs : req' = [req EXCEPT ![p].checkedAt = now, ![p].pc = pc]
    BY <1>4 DEF Validate
  <2> QED BY <1>0, <2>1 DEF Req
<1>5. CASE ReadRow(p)
  <2> DEFINE r == Of(p).auth
             b == IF r \in Auths /\ Owner[r] = Of(p).app /\ r \notin revoked THEN until[r] ELSE Absent
  <2>1. req' = [req EXCEPT ![p].pc = "row", ![p].seen = b]
    BY <1>5 DEF ReadRow
  <2>2. b \in Int
    BY DEF GateTypeOK, Absent
  <2> HIDE DEF b
  <2> QED BY <1>0, <2>1, <2>2 DEF Req
<1>6. CASE Authorize(p) BY <1>0, <1>6, GotoType DEF Authorize, ThenOrRefuse
<1>7. CASE Record(p) BY <1>0, <1>7, GotoType DEF Record
<1>8. CASE Error(p) BY <1>0, <1>8, GotoType DEF Error
<1> QED
  BY <1>1, <1>2, <1>3, <1>4, <1>5, <1>6, <1>7, <1>8 DEF Gate

LEMMA GateType == ASSUME GateTypeOK, NEW p \in Reqs, Gate(p) PROVE GateTypeOK'
<1>1. req' \in [Reqs -> Req]
  BY GateMoves
<1>2. now' \in Int /\ (appOn \subseteq Apps /\ devOn \subseteq Apps /\ revoked \subseteq Auths)'
      /\ until' \in [Auths -> Int]
  BY DEF GateTypeOK, Gate, rows, ReadApp, ReadDev, CheckNonce, Validate, ReadRow, Authorize, Record, Error
<1>3. cache' \in [Apps -> [Auths -> Int]]
  <2>1. CASE Authorize(p)
    <3>1. PICK a \in Apps, r \in Auths \cup {NoAuth} : a = Of(p).app /\ r = Of(p).auth
      BY GateAssumption DEF Of, GateTypeOK, Req
    <3>2. cache' = cache \/ cache' = [cache EXCEPT ![a][r] = now + CacheTtl]
      BY <2>1, <3>1 DEF Authorize
    <3>3. cache \in [Apps -> [Auths -> Int]] /\ now + CacheTtl \in Int
      BY GateAssumption DEF GateTypeOK
    <3> QED
      BY <3>2, <3>3
  <2>2. CASE ~Authorize(p)
    BY <2>2 DEF GateTypeOK, Gate, rows, ReadApp, ReadDev, CheckNonce, Validate, ReadRow, Record, Error
  <2> QED
    BY <2>1, <2>2
<1>4. nonce' \in [Msgs -> Int]
  <2>1. CASE Record(p)
    BY <2>1, GateAssumption DEF Record, GateTypeOK, Req
  <2>2. CASE ~Record(p)
    BY <2>2 DEF GateTypeOK, Gate, rows, ReadApp, ReadDev, CheckNonce, Validate, ReadRow, Authorize, Error
  <2> QED
    BY <2>1, <2>2
<1>5. excused' \subseteq Msgs
  BY DEF GateTypeOK, Gate, Req, ReadApp, ReadDev, CheckNonce, Validate, ReadRow, Authorize, Record, Error
<1> QED
  BY <1>1, <1>2, <1>3, <1>4, <1>5 DEF GateTypeOK

LEMMA EnvironmentType == ASSUME GateTypeOK, Environment PROVE GateTypeOK'
<1>1. CASE Tick BY <1>1 DEF Tick, GateTypeOK, rows
<1>2. ASSUME NEW a \in Switched, Switch(a) PROVE GateTypeOK'
  BY <1>2, GateAssumption DEF Switch, GateTypeOK
<1>3. ASSUME NEW r \in Auths, Revoke(r) PROVE GateTypeOK'
  BY <1>3 DEF Revoke, GateTypeOK
<1>5. ASSUME NEW r \in Auths, VerifyOauthToken(r) PROVE GateTypeOK'
  BY <1>5 DEF VerifyOauthToken, GateTypeOK
<1>6. ASSUME NEW r \in Auths, NEW date \in Dates, CreateAuthorization(r, date) PROVE GateTypeOK'
  BY <1>6, GateAssumption DEF CreateAuthorization, GateTypeOK
<1>4. CASE Restart
  <2>1. req' \in [Reqs -> Req]
    BY <1>4 DEF Restart, GateTypeOK, Req, Pcs
  <2>2. cache' \in [Apps -> [Auths -> Int]] /\ nonce' \in [Msgs -> Int]
    BY <1>4 DEF Restart, Absent
  <2>3. excused' \subseteq Msgs
    BY <1>4 DEF Restart, GateTypeOK, Req
  <2> QED
    BY <1>4, <2>1, <2>2, <2>3 DEF Restart, GateTypeOK, rows
<1> QED
  BY <1>1, <1>2, <1>3, <1>4, <1>5, <1>6 DEF Environment

(* Every reachable state is well typed. *)
THEOREM GateTypeCorrect == Spec => []GateTypeOK
<1>1. ASSUME GateTypeOK, [Next]_gateVars PROVE GateTypeOK'
  <2>1. CASE Next BY <1>1, <2>1, GateType, EnvironmentType DEF Next
  <2>2. CASE UNCHANGED gateVars BY <1>1, <2>2 DEF gateVars, GateTypeOK
  <2> QED BY <1>1, <2>1, <2>2
<1> QED
  BY <1>1, GateInitType, PTL DEF Spec

(***************************************************************************)
(* No replay                                                               *)
(*                                                                         *)
(* NoReplay is not inductive: that a copy is refused depends on when the   *)
(* first request was validated and on how long its nonce is remembered.    *)
(***************************************************************************)
Validated == {"lookup", "row", "valid"}

\* A request whose timestamp was accepted: the clock has passed the start of
\* the window of its message.
WindowOpen == \A p \in Reqs : req[p].pc \in Validated => Of(p).at - now <= Tolerance

\* The nonce of an accepted message is remembered to the end of its window.
Remembered ==
  \A p \in Reqs : At(p, "accepted") /\ req[p].msg \notin excused
    => nonce[req[p].msg] >= Of(p).at + Tolerance

\* Two requests with one message are not inside the gate at once.
OneInside ==
  \A p, q \in Reqs :
    p # q /\ SameMsg(p, q) /\ p \in Unrecorded /\ q \in Unrecorded => req[p].msg \in excused

\* After one was accepted, a copy that has passed the nonce check is too late.
CopyTooLate ==
  \A p, q \in Reqs :
    p # q /\ SameMsg(p, q) /\ At(q, "accepted") /\ req[p].msg \notin excused
      => /\ req[p].pc \notin Validated \cup {"accepted"}
         /\ At(p, "fresh") => now > Of(p).at + Tolerance

IInv == GateTypeOK /\ WindowOpen /\ Remembered /\ OneInside /\ CopyTooLate

LEMMA MessageTypes ==
  ASSUME GateTypeOK, NEW p \in Reqs
  PROVE  /\ req[p] \in Req /\ req[p].msg \in Msgs /\ Of(p).at \in Int /\ nonce[req[p].msg] \in Int
         /\ now \in Int /\ Tolerance \in Nat /\ NonceTtl \in Nat
  BY GateAssumption DEF GateTypeOK, Req, Of

LEMMA InitNew == ASSUME Init PROVE \A p \in Reqs : req[p].pc = "new"
<1>1. PICK f \in [Reqs -> {[msg |-> m, pc |-> "new", checkedAt |-> Absent, seen |-> Absent] : m \in Msgs}] :
        req = f
  BY DEF Init
<1>2. \A p \in Reqs : \E m \in Msgs : f[p] = [msg |-> m, pc |-> "new", checkedAt |-> Absent, seen |-> Absent]
  OBVIOUS
<1> SUFFICES ASSUME NEW p \in Reqs PROVE req[p].pc = "new"
  OBVIOUS
<1>3. PICK m \in Msgs : req[p] = [msg |-> m, pc |-> "new", checkedAt |-> Absent, seen |-> Absent]
  BY <1>1, <1>2
<1>4. [msg |-> m, pc |-> "new", checkedAt |-> Absent, seen |-> Absent].pc = "new"
  BY Zenon
<1> QED
  BY <1>3, <1>4, Zenon

LEMMA InitIInv == Init => IInv
  BY InitNew, GateInitType
     DEF IInv, WindowOpen, Remembered, OneInside, CopyTooLate, Validated, At, Unrecorded

\* A step that moves one request outside the checks of nonce, window and
\* authorization, and not into the gate, keeps the invariant.
LEMMA QuietStep ==
  ASSUME IInv, GateTypeOK', NEW p \in Reqs,
         req' \in [Reqs -> Req],
         \A q \in Reqs : q # p => req'[q] = req[q],
         req'[p].msg = req[p].msg,
         req'[p].pc \in {"app", "dev", "refused"} \/ (req[p].pc \in Validated /\ req'[p].pc \in Validated),
         now' = now, nonce' = nonce, excused' = excused
  PROVE  IInv'
<1>0. \A q \in Reqs : req'[q].msg = req[q].msg /\ Of(q)' = Of(q)
  BY DEF Of
<1>1. \A q \in Reqs : /\ req'[q].pc \in Validated => req[q].pc \in Validated
                      /\ req'[q].pc = "accepted" => req[q].pc = "accepted"
                      /\ req'[q].pc = "fresh" => req[q].pc = "fresh"
                      /\ q \in Unrecorded' => q \in Unrecorded
  BY DEF Validated, Unrecorded
<1>2. WindowOpen'
  BY <1>0, <1>1 DEF IInv, WindowOpen
<1>3. Remembered'
  BY <1>0, <1>1 DEF IInv, Remembered, At
<1>4. OneInside'
  BY <1>0, <1>1 DEF IInv, OneInside, SameMsg
<1>5. CopyTooLate'
  BY <1>0, <1>1 DEF IInv, CopyTooLate, SameMsg, At
<1> QED
  BY <1>2, <1>3, <1>4, <1>5 DEF IInv

LEMMA CheckNonceStep == ASSUME IInv, NEW p \in Reqs, CheckNonce(p), GateTypeOK' PROVE IInv'
<1>0. GateTypeOK /\ Gate(p)
  BY DEF IInv, Gate
<1>1. /\ \A q \in Reqs : q # p => req'[q] = req[q]
      /\ \A q \in Reqs : req'[q].msg = req[q].msg /\ Of(q)' = Of(q)
      /\ req' \in [Reqs -> Req]
  BY <1>0, GateMoves DEF Of
<1>2. req[p].pc = "dev" /\ now' = now /\ nonce' = nonce
  BY DEF CheckNonce, At
<1>3. CASE Seen(req[p].msg)
  <2>1. req'[p].pc = "refused" /\ excused' = excused
    BY <1>0, <1>3, GotoType DEF CheckNonce, ThenOrRefuse, GateTypeOK, Pcs
  <2> QED
    BY <1>1, <1>2, <2>1, QuietStep
<1>4. CASE ~Seen(req[p].msg)
  <2>1. req'[p].pc = "fresh"
    BY <1>0, <1>4, GotoType DEF CheckNonce, ThenOrRefuse, GateTypeOK, Pcs
  <2>2. /\ excused \subseteq excused'
        /\ (\E q \in Unrecorded : SameMsg(p, q)) => req[p].msg \in excused'
    BY <1>4 DEF CheckNonce
  <2>3. \A q \in Reqs : q \in Unrecorded' => q = p \/ q \in Unrecorded
    BY <1>1 DEF Unrecorded
  <2>4. WindowOpen'
    BY <1>1, <1>2, <2>1 DEF IInv, WindowOpen, Validated
  <2>5. Remembered'
    BY <1>1, <1>2, <2>1, <2>2 DEF IInv, Remembered, At
  <2>6. OneInside'
    BY <1>1, <2>2, <2>3 DEF IInv, OneInside, SameMsg, Unrecorded
  <2>7. CopyTooLate'
    <3> SUFFICES ASSUME NEW a \in Reqs, NEW b \in Reqs, a # b, SameMsg(a, b)', At(b, "accepted")',
                        req'[a].msg \notin excused'
                 PROVE  /\ req'[a].pc \notin Validated \cup {"accepted"}
                        /\ At(a, "fresh")' => now' > (Of(a).at + Tolerance)'
      BY DEF CopyTooLate
    <3>1. SameMsg(a, b) /\ At(b, "accepted") /\ b # p /\ req[a].msg \notin excused
      BY <1>1, <2>1, <2>2 DEF SameMsg, At
    <3>2. CASE a # p
      BY <1>1, <1>2, <3>1, <3>2 DEF IInv, CopyTooLate, At
    <3>3. CASE a = p
      <4>1. nonce[req[b].msg] >= Of(b).at + Tolerance /\ Of(b) = Of(p) /\ req[b].msg = req[p].msg
        BY <3>1, <3>3 DEF IInv, Remembered, SameMsg, Of
      <4>2. now > Of(p).at + Tolerance
        BY <1>0, <1>4, <4>1, MessageTypes DEF Seen
      <4> QED
        BY <1>1, <1>2, <2>1, <3>3, <4>2 DEF Validated
    <3> QED
      BY <3>2, <3>3
  <2> QED
    BY <2>4, <2>5, <2>6, <2>7 DEF IInv
<1> QED
  BY <1>3, <1>4

LEMMA ValidateStep == ASSUME IInv, NEW p \in Reqs, Validate(p), GateTypeOK' PROVE IInv'
<1>0. GateTypeOK /\ Gate(p)
  BY DEF IInv, Gate
<1>1. /\ \A q \in Reqs : q # p => req'[q] = req[q]
      /\ \A q \in Reqs : req'[q].msg = req[q].msg /\ Of(q)' = Of(q)
      /\ req' \in [Reqs -> Req]
  BY <1>0, GateMoves DEF Of
<1>2. req[p].pc = "fresh" /\ now' = now /\ nonce' = nonce /\ excused' = excused
  BY DEF Validate, At
<1>3. req'[p].pc = "refused" \/ (req'[p].pc \in {"valid", "lookup"} /\ InWindow(Of(p).at))
  <2>1. req[p] \in Req
    BY <1>0 DEF GateTypeOK
  <2> QED
    BY <1>0, <2>1 DEF Validate, GateTypeOK, Req
<1>4. CASE req'[p].pc = "refused"
  BY <1>1, <1>2, <1>4, QuietStep
<1>5. CASE req'[p].pc \in {"valid", "lookup"} /\ InWindow(Of(p).at)
  <2>1. now - Of(p).at <= Tolerance /\ Of(p).at - now <= Tolerance
    BY <1>5 DEF InWindow
  <2>2. \A q \in Reqs : q \in Unrecorded' => q \in Unrecorded
    BY <1>1, <1>2 DEF Unrecorded
  <2>3. WindowOpen'
    BY <1>1, <1>2, <2>1 DEF IInv, WindowOpen
  <2>4. Remembered'
    BY <1>1, <1>2, <1>5 DEF IInv, Remembered, At
  <2>5. OneInside'
    BY <1>1, <1>2, <2>2 DEF IInv, OneInside, SameMsg
  <2>6. CopyTooLate'
    <3> SUFFICES ASSUME NEW a \in Reqs, NEW b \in Reqs, a # b, SameMsg(a, b)', At(b, "accepted")',
                        req'[a].msg \notin excused'
                 PROVE  /\ req'[a].pc \notin Validated \cup {"accepted"}
                        /\ At(a, "fresh")' => now' > (Of(a).at + Tolerance)'
      BY DEF CopyTooLate
    <3>1. SameMsg(a, b) /\ At(b, "accepted") /\ b # p /\ req[a].msg \notin excused
      BY <1>1, <1>2, <1>5 DEF SameMsg, At
    <3>2. a # p
      <4>1. At(a, "fresh") => now > Of(a).at + Tolerance
        BY <3>1 DEF IInv, CopyTooLate
      <4> QED
        BY <1>0, <1>2, <2>1, <4>1, MessageTypes DEF At
    <3> QED
      BY <1>1, <1>2, <3>1, <3>2 DEF IInv, CopyTooLate, At
  <2> QED
    BY <2>3, <2>4, <2>5, <2>6 DEF IInv
<1> QED
  BY <1>3, <1>4, <1>5

LEMMA RecordStep == ASSUME IInv, NEW p \in Reqs, Record(p), GateTypeOK' PROVE IInv'
<1>0. GateTypeOK /\ Gate(p)
  BY DEF IInv, Gate
<1>1. /\ \A q \in Reqs : q # p => req'[q] = req[q]
      /\ \A q \in Reqs : req'[q].msg = req[q].msg /\ Of(q)' = Of(q)
      /\ req' \in [Reqs -> Req]
  BY <1>0, GateMoves DEF Of
<1>2. /\ req[p].pc = "valid" /\ now' = now /\ excused' = excused
      /\ nonce' = [nonce EXCEPT ![req[p].msg] = now + NonceTtl]
  BY DEF Record, At
<1>3. req'[p].pc = "accepted"
  BY <1>0, GotoType DEF Record, GateTypeOK, Pcs
<1>4. p \in Unrecorded /\ req[p].pc \in Validated
  BY <1>2 DEF Unrecorded, Validated
<1>5. now + NonceTtl >= Of(p).at + Tolerance
  <2>1. Of(p).at - now <= Tolerance
    BY <1>4 DEF IInv, WindowOpen
  <2> QED
    BY <1>0, <2>1, MessageTypes, WindowAssumption
<1>6. \A q \in Reqs : q \in Unrecorded' => q \in Unrecorded
  BY <1>1, <1>3 DEF Unrecorded
<1>7. WindowOpen'
  BY <1>1, <1>2, <1>3 DEF IInv, WindowOpen, Validated
<1>8. Remembered'
  <2> SUFFICES ASSUME NEW a \in Reqs, At(a, "accepted")', req'[a].msg \notin excused'
               PROVE  nonce'[req'[a].msg] >= Of(a)'.at + Tolerance
    BY DEF Remembered
  <2>1. req[p].msg \in Msgs /\ req[a].msg \in Msgs /\ nonce \in [Msgs -> Int]
    BY <1>0, MessageTypes DEF GateTypeOK
  <2>2. CASE req[a].msg = req[p].msg
    BY <1>1, <1>2, <1>5, <2>1, <2>2 DEF Of
  <2>3. CASE req[a].msg # req[p].msg
    <3>1. a # p
      BY <2>3
    <3>2. nonce[req[a].msg] >= Of(a).at + Tolerance
      BY <1>1, <1>2, <3>1 DEF IInv, Remembered, At
    <3> QED
      BY <1>1, <1>2, <2>1, <2>3, <3>2
  <2> QED
    BY <2>2, <2>3
<1>9. OneInside'
  BY <1>1, <1>2, <1>6 DEF IInv, OneInside, SameMsg
<1>10. CopyTooLate'
  <2> SUFFICES ASSUME NEW a \in Reqs, NEW b \in Reqs, a # b, SameMsg(a, b)', At(b, "accepted")',
                      req'[a].msg \notin excused'
               PROVE  /\ req'[a].pc \notin Validated \cup {"accepted"}
                      /\ At(a, "fresh")' => now' > (Of(a).at + Tolerance)'
    BY DEF CopyTooLate
  <2>1. SameMsg(a, b) /\ req[a].msg \notin excused
    BY <1>1, <1>2 DEF SameMsg
  <2>2. CASE b = p
    <3>1. a \notin Unrecorded
      BY <1>4, <2>1, <2>2 DEF IInv, OneInside, SameMsg
    <3>2. req[a].pc # "accepted"
      BY <1>4, <2>1, <2>2 DEF IInv, CopyTooLate, SameMsg, At
    <3> QED
      BY <1>1, <2>2, <3>1, <3>2 DEF Unrecorded, Validated, At
  <2>3. CASE b # p
    <3>1. At(b, "accepted")
      BY <1>1, <2>3 DEF At
    <3>2. a # p
      BY <1>4, <2>1, <3>1 DEF IInv, CopyTooLate
    <3> QED
      BY <1>1, <1>2, <2>1, <3>1, <3>2 DEF IInv, CopyTooLate, At
  <2> QED
    BY <2>2, <2>3
<1> QED
  BY <1>7, <1>8, <1>9, <1>10 DEF IInv

LEMMA GateStep == ASSUME IInv, NEW p \in Reqs, Gate(p) PROVE IInv'
<1>0. GateTypeOK /\ GateTypeOK'
  BY GateType DEF IInv
<1>1. /\ req' \in [Reqs -> Req]
      /\ \A q \in Reqs : q # p => req'[q] = req[q]
      /\ req'[p].msg = req[p].msg
  BY <1>0, GateMoves
<1>2. req \in [Reqs -> Req] /\ req[p] \in Req
  BY <1>0 DEF GateTypeOK
<1>3. CASE ReadApp(p) \/ ReadDev(p) \/ Error(p)
  <2>1. req'[p].pc \in {"app", "dev", "refused"}
    BY <1>2, <1>3, GotoType DEF ReadApp, ReadDev, Error, ThenOrRefuse, Pcs
  <2>2. now' = now /\ nonce' = nonce /\ excused' = excused
    BY <1>3 DEF ReadApp, ReadDev, Error
  <2> QED
    BY <1>0, <1>1, <2>1, <2>2, QuietStep
<1>4. CASE CheckNonce(p) BY <1>0, <1>4, CheckNonceStep
<1>5. CASE Validate(p) BY <1>0, <1>5, ValidateStep
<1>6. CASE ReadRow(p)
  <2>1. req[p].pc \in Validated /\ req'[p].pc \in Validated
    BY <1>2, <1>6 DEF ReadRow, Validated, At, Req
  <2>2. now' = now /\ nonce' = nonce /\ excused' = excused
    BY <1>6 DEF ReadRow
  <2> QED
    BY <1>0, <1>1, <2>1, <2>2, QuietStep
<1>7. CASE Authorize(p)
  <2>1. req[p].pc \in Validated /\ req'[p].pc \in {"valid", "refused"}
    BY <1>2, <1>7, GotoType DEF Authorize, ThenOrRefuse, Validated, At, Pcs
  <2>2. now' = now /\ nonce' = nonce /\ excused' = excused
    BY <1>7 DEF Authorize
  <2> QED
    BY <1>0, <1>1, <2>1, <2>2, QuietStep DEF Validated
<1>8. CASE Record(p) BY <1>0, <1>8, RecordStep
<1> QED
  BY <1>3, <1>4, <1>5, <1>6, <1>7, <1>8 DEF Gate

LEMMA EnvironmentStep == ASSUME IInv, Environment PROVE IInv'
<1>0. GateTypeOK /\ GateTypeOK'
  BY EnvironmentType DEF IInv
<1>1. CASE Tick
  <2>1. req' = req /\ nonce' = nonce /\ excused' = excused /\ now' = now + 1
    BY <1>1 DEF Tick
  <2>2. \A p \in Reqs : Of(p)' = Of(p) /\ Of(p).at \in Int /\ now \in Int /\ Tolerance \in Nat
    BY <1>0, <2>1, MessageTypes DEF Of
  <2>3. WindowOpen'
    BY <2>1, <2>2 DEF IInv, WindowOpen
  <2>4. Remembered'
    BY <2>1, <2>2 DEF IInv, Remembered, At
  <2>5. OneInside'
    BY <2>1 DEF IInv, OneInside, SameMsg, Unrecorded
  <2>6. CopyTooLate'
    BY <2>1, <2>2 DEF IInv, CopyTooLate, SameMsg, At
  <2> QED
    BY <1>0, <2>3, <2>4, <2>5, <2>6 DEF IInv
<1>2. ASSUME UNCHANGED <<now, nonce, req, excused>> PROVE IInv'
  BY <1>0, <1>2 DEF IInv, WindowOpen, Remembered, OneInside, CopyTooLate, SameMsg, At, Of, Unrecorded
<1>3. CASE Restart
  <2>1. \A p \in Reqs : /\ req'[p].msg = req[p].msg
                        /\ req'[p].pc \in {"new", "accepted", "refused"}
                        /\ req'[p].pc = "accepted" => req[p].pc = "accepted"
    BY <1>0, <1>3 DEF Restart, GateTypeOK, Req
  <2>2. \A p \in Reqs : req'[p].pc = "accepted" => req'[p].msg \in excused'
    BY <1>3, <2>1 DEF Restart, At
  <2>3. WindowOpen' /\ Remembered' /\ OneInside'
    BY <2>1, <2>2 DEF WindowOpen, Remembered, OneInside, Validated, Unrecorded, At
  <2>4. CopyTooLate'
    BY <2>1, <2>2 DEF CopyTooLate, SameMsg, At
  <2> QED
    BY <1>0, <2>3, <2>4 DEF IInv
<1> QED
  BY <1>1, <1>2, <1>3 DEF Environment, Switch, Revoke, VerifyOauthToken, CreateAuthorization

(* A signed message is accepted once, unless copies of it meet inside the  *)
(* gate or the process restarts: resource-validation.middleware.ts with    *)
(* any tolerance and a nonce that lives at least twice as long.            *)
THEOREM GateNoReplay == Spec => []NoReplay
<1>1. Init => IInv
  BY InitIInv
<1>2. IInv /\ [Next]_gateVars => IInv'
  <2> SUFFICES ASSUME IInv, [Next]_gateVars PROVE IInv'
    OBVIOUS
  <2>1. CASE Next BY <2>1, GateStep, EnvironmentStep DEF Next
  <2>2. CASE UNCHANGED gateVars
    BY <2>2 DEF gateVars, IInv, GateTypeOK, WindowOpen, Remembered, OneInside, CopyTooLate,
                SameMsg, At, Of, Unrecorded
  <2> QED BY <2>1, <2>2
<1>3. IInv => NoReplay
  BY DEF IInv, CopyTooLate, NoReplay, At, SameMsg
<1> QED
  BY <1>1, <1>2, <1>3, PTL DEF Spec

(***************************************************************************)
(* Authorization                                                           *)
(***************************************************************************)
Allowed(p) == Of(p).auth # NoAuth => Owner[Of(p).auth] = Of(p).app
InTime(p) == Of(p).auth # NoAuth => req[p].checkedAt <= Expires[Of(p).auth] + CacheTtl

\* A cache entry belongs to the owner and ends CacheTtl after the expiry.
CacheSound ==
  \A a \in Apps, r \in Auths :
    cache[a][r] >= 0 => Owner[r] = a /\ cache[a][r] <= Expires[r] + CacheTtl

\* What a request knows at each place of the check.
PlaceSound ==
  \A p \in Reqs :
    /\ req[p].pc \in {"lookup", "row"} => Of(p).auth \in Auths /\ req[p].checkedAt <= now
    /\ At(p, "row") /\ req[p].seen >= 0 => Allowed(p) /\ req[p].seen <= Expires[Of(p).auth]
    /\ req[p].pc \in {"valid", "accepted"} => Of(p).signed /\ Allowed(p) /\ InTime(p)

\* No row has a later date than the latest it is ever given.
DatesBounded == \A r \in Auths : until[r] <= Expires[r]

AuthInv == GateTypeOK /\ now >= 0 /\ DatesBounded /\ CacheSound /\ PlaceSound

LEMMA AuthInit == Init => AuthInv
<1> SUFFICES ASSUME Init PROVE AuthInv
  OBVIOUS
<1>1. \A p \in Reqs : req[p].pc = "new"
  BY InitNew
<1>2. CacheSound
  BY DEF Init, CacheSound, Absent
<1>3. PlaceSound
  BY <1>1 DEF PlaceSound, At
<1>4. GateTypeOK /\ now >= 0
  BY GateInitType DEF Init
<1>5. DatesBounded
  BY <1>4, GateAssumption DEF Init, DatesBounded
<1> QED
  BY <1>2, <1>3, <1>4, <1>5 DEF AuthInv

LEMMA FieldTypes ==
  ASSUME GateTypeOK, NEW p \in Reqs
  PROVE  /\ Of(p).app \in Apps /\ Of(p).auth \in Auths \cup {NoAuth} /\ Of(p).signed \in BOOLEAN
         /\ Of(p).auth \in Auths => Expires[Of(p).auth] \in Int
         /\ req[p].checkedAt \in Int /\ CacheTtl \in Nat /\ NoAuth \notin Auths
<1>1. req[p] \in Req /\ Of(p) \in [app: Apps, auth: Auths \cup {NoAuth}, at: Int, signed: BOOLEAN]
  BY MessageTypes, GateAssumption DEF Of
<1> QED
  BY <1>1, GateAssumption DEF Req

\* A step of the gate keeps PlaceSound when it keeps it for the request that moves.
LEMMA PlaceStep ==
  ASSUME AuthInv, NEW p \in Reqs, Gate(p), now' = now,
         req'[p].pc \in {"lookup", "row"} => Of(p).auth \in Auths /\ req'[p].checkedAt <= now,
         req'[p].pc = "row" /\ req'[p].seen >= 0 => Allowed(p) /\ req'[p].seen <= Expires[Of(p).auth],
         req'[p].pc \in {"valid", "accepted"} => Of(p).signed /\ Allowed(p) /\ InTime(p)'
  PROVE  PlaceSound'
<1>1. /\ \A q \in Reqs : q # p => req'[q] = req[q]
      /\ \A q \in Reqs : req'[q].msg = req[q].msg /\ Of(q)' = Of(q)
  BY GateMoves DEF Of, AuthInv
<1> SUFFICES ASSUME NEW q \in Reqs
             PROVE  /\ req'[q].pc \in {"lookup", "row"} => Of(q)'.auth \in Auths /\ req'[q].checkedAt <= now'
                    /\ At(q, "row")' /\ req'[q].seen >= 0 => Allowed(q)' /\ req'[q].seen <= Expires[Of(q)'.auth]
                    /\ req'[q].pc \in {"valid", "accepted"} => Of(q)'.signed /\ Allowed(q)' /\ InTime(q)'
  BY DEF PlaceSound
<1>2. Allowed(q)' <=> Allowed(q)
  BY <1>1 DEF Allowed
<1>3. CASE q = p
  BY <1>1, <1>2, <1>3 DEF At
<1>4. CASE q # p
  <2>1. req'[q] = req[q] /\ (InTime(q)' <=> InTime(q))
    BY <1>1, <1>4 DEF InTime
  <2> QED
    BY <1>1, <1>2, <2>1 DEF AuthInv, PlaceSound, At
<1> QED
  BY <1>3, <1>4

LEMMA ValidateAuth == ASSUME AuthInv, NEW p \in Reqs, Validate(p) PROVE PlaceSound'
<1>0. GateTypeOK /\ Gate(p)
  BY DEF AuthInv, Gate
<1>1. /\ \A q \in Reqs : q # p => req'[q] = req[q]
      /\ \A q \in Reqs : req'[q].msg = req[q].msg /\ Of(q)' = Of(q)
  BY <1>0, GateMoves DEF Of
<1> DEFINE m == Of(p)
           known == m.auth = NoAuth \/ (m.auth \in Auths /\ Cached(m.app, m.auth))
<1>2. /\ req' = [req EXCEPT ![p].checkedAt = now,
                          ![p].pc = IF ~InWindow(m.at) \/ (known /\ ~m.signed) THEN "refused"
                                    ELSE IF known THEN "valid" ELSE "lookup"]
      /\ now' = now
  BY DEF Validate
<1>3. req \in [Reqs -> Req] /\ req[p] \in Req
  BY <1>0 DEF GateTypeOK
<1>4. /\ req'[p].checkedAt = now
      /\ req'[p].pc \in {"refused", "valid", "lookup"}
      /\ req'[p].pc = "valid" => known /\ m.signed
      /\ req'[p].pc = "lookup" => ~known
  BY <1>2, <1>3 DEF Req
<1>5. m.app \in Apps /\ m.auth \in Auths \cup {NoAuth} /\ NoAuth \notin Auths /\ now \in Int
  BY <1>0, FieldTypes DEF GateTypeOK
<1>6. known => Allowed(p) /\ (m.auth # NoAuth => now <= Expires[m.auth] + CacheTtl)
  <2> SUFFICES ASSUME known, m.auth # NoAuth
               PROVE  Owner[m.auth] = m.app /\ now <= Expires[m.auth] + CacheTtl
    BY DEF Allowed
  <2>1. m.auth \in Auths /\ now <= cache[m.app][m.auth]
    BY DEF Cached
  <2>2. cache[m.app][m.auth] \in Int /\ Expires[m.auth] \in Int /\ CacheTtl \in Nat
    BY <1>0, <1>5, <2>1, GateAssumption DEF GateTypeOK
  <2>3. now >= 0
    BY DEF AuthInv
  <2>4. cache[m.app][m.auth] >= 0
    BY <1>5, <2>1, <2>2, <2>3
  <2>5. Owner[m.auth] = m.app /\ cache[m.app][m.auth] <= Expires[m.auth] + CacheTtl
    BY <1>5, <2>1, <2>4 DEF AuthInv, CacheSound
  <2> QED
    BY <1>5, <2>1, <2>2, <2>5
<1>7. req'[p].pc = "lookup" => m.auth \in Auths
  BY <1>4, <1>5
<1>8. req'[p].pc = "valid" => Allowed(p) /\ InTime(p)'
  BY <1>1, <1>4, <1>6 DEF InTime
<1>9. /\ now' = now
      /\ req'[p].pc \in {"lookup", "row"} => Of(p).auth \in Auths /\ req'[p].checkedAt <= now
      /\ req'[p].pc # "row"
  BY <1>2, <1>4, <1>5, <1>7
<1>10. req'[p].pc \in {"valid", "accepted"} => Of(p).signed /\ Allowed(p) /\ InTime(p)'
  <2>1. req'[p].pc \in {"valid", "accepted"} => req'[p].pc = "valid"
    BY <1>4
  <2> QED
    BY <1>4, <1>8, <2>1, Zenon
<1> HIDE DEF m, known
<1> QED
  BY <1>0, <1>9, <1>10, PlaceStep, Zenon

LEMMA ReadRowAuth == ASSUME AuthInv, NEW p \in Reqs, ReadRow(p) PROVE PlaceSound'
<1>0. GateTypeOK /\ Gate(p)
  BY DEF AuthInv, Gate
<1>1. req \in [Reqs -> Req] /\ req[p] \in Req /\ req[p].pc = "lookup" /\ now' = now
  BY <1>0 DEF GateTypeOK, ReadRow, At
<1>2. req'[p].pc = "row" /\ req'[p].checkedAt = req[p].checkedAt
  BY <1>1 DEF ReadRow, Req
<1>3. req'[p].seen = IF Of(p).auth \in Auths /\ Owner[Of(p).auth] = Of(p).app /\ Of(p).auth \notin revoked
                     THEN until[Of(p).auth] ELSE Absent
  BY <1>1 DEF ReadRow, Req
<1>4. req'[p].seen >= 0 => Allowed(p) /\ req'[p].seen <= Expires[Of(p).auth]
  <2>1. CASE Of(p).auth \in Auths /\ Owner[Of(p).auth] = Of(p).app
    BY <1>3, <2>1 DEF Allowed, AuthInv, DatesBounded, Absent
  <2>2. CASE ~(Of(p).auth \in Auths /\ Owner[Of(p).auth] = Of(p).app)
    BY <1>3, <2>2 DEF Absent
  <2> QED BY <2>1, <2>2
<1>5. Of(p).auth \in Auths /\ req[p].checkedAt <= now
  BY <1>1 DEF AuthInv, PlaceSound
<1> QED
  BY <1>0, <1>1, <1>2, <1>4, <1>5, PlaceStep

\* What Authorize knows of the authorization when it is positive.
LEMMA AuthorizeAuth == ASSUME AuthInv, NEW p \in Reqs, Authorize(p) PROVE PlaceSound' /\ CacheSound'
<1>0. GateTypeOK /\ Gate(p) /\ now >= 0
  BY DEF AuthInv, Gate
<1> DEFINE m == Of(p)
           authorized == now <= req[p].seen
<1>1. req \in [Reqs -> Req] /\ req[p] \in Req /\ req[p].pc = "row" /\ now' = now
  BY <1>0 DEF GateTypeOK, Authorize, At
<1>2. /\ ThenOrRefuse(p, authorized /\ m.signed, "valid")
      /\ cache' = IF authorized THEN [cache EXCEPT ![m.app][m.auth] = now + CacheTtl] ELSE cache
  BY DEF Authorize
<1>3. /\ m.app \in Apps /\ m.auth \in Auths /\ NoAuth \notin Auths /\ now \in Int /\ CacheTtl \in Nat
      /\ Expires[m.auth] \in Int /\ req[p].checkedAt \in Int /\ req[p].checkedAt <= now
      /\ cache \in [Apps -> [Auths -> Int]]
  BY <1>0, <1>1, FieldTypes DEF GateTypeOK, AuthInv, PlaceSound
<1>4. authorized => Owner[m.auth] = m.app /\ now <= Expires[m.auth]
  <2>1. req[p].seen >= 0 => Allowed(p) /\ req[p].seen <= Expires[m.auth]
    BY <1>1 DEF AuthInv, PlaceSound, At
  <2>2. req[p].seen \in Int
    BY <1>1 DEF Req
  <2> QED
    BY <1>0, <1>3, <2>1, <2>2 DEF Allowed
<1>5. req'[p].pc \in {"valid", "refused"} /\ (req'[p].pc = "valid" => authorized /\ m.signed)
  <2>1. CASE authorized /\ m.signed
    BY <1>1, <1>2, <2>1, GotoType DEF ThenOrRefuse, Pcs
  <2>2. CASE ~(authorized /\ m.signed)
    BY <1>1, <1>2, <2>2, GotoType DEF ThenOrRefuse, Pcs
  <2> QED
    BY <2>1, <2>2
<1>6. PlaceSound'
  <2>1. /\ req'[p].checkedAt = req[p].checkedAt
        /\ Of(p)' = Of(p)
    BY <1>1, <1>2 DEF ThenOrRefuse, Goto, Req, Of
  <2>2. req'[p].pc = "valid" => Allowed(p) /\ InTime(p)'
    BY <1>3, <1>4, <1>5, <2>1 DEF Allowed, InTime
  <2> QED
    BY <1>0, <1>1, <1>5, <2>2, PlaceStep
<1>7. CacheSound'
  <2>1. CASE authorized
    <3>1. cache' = [cache EXCEPT ![m.app][m.auth] = now + CacheTtl]
      BY <1>2, <2>1
    <3>2. Owner[m.auth] = m.app /\ now <= Expires[m.auth]
      BY <1>4, <2>1
    <3> SUFFICES ASSUME NEW a \in Apps, NEW r \in Auths, cache'[a][r] >= 0
                 PROVE  Owner[r] = a /\ cache'[a][r] <= Expires[r] + CacheTtl
      BY DEF CacheSound
    <3>3. CASE a = m.app /\ r = m.auth
      BY <1>3, <3>1, <3>2, <3>3
    <3>4. CASE ~(a = m.app /\ r = m.auth)
      <4>1. cache'[a][r] = cache[a][r]
        BY <1>3, <3>1, <3>4
      <4> QED
        BY <4>1 DEF AuthInv, CacheSound
    <3> QED
      BY <3>3, <3>4
  <2>2. CASE ~authorized
    BY <1>2, <2>2 DEF AuthInv, CacheSound
  <2> QED
    BY <2>1, <2>2
<1> QED
  BY <1>6, <1>7

LEMMA GateAuth == ASSUME AuthInv, NEW p \in Reqs, Gate(p) PROVE AuthInv'
<1>0. GateTypeOK /\ GateTypeOK' /\ now' = now
  BY GateType DEF AuthInv, Gate, ReadApp, ReadDev, CheckNonce, Validate, ReadRow, Authorize, Record, Error
<1>1. req \in [Reqs -> Req] /\ req[p] \in Req
  BY <1>0 DEF GateTypeOK
<1>2. CacheSound'
  <2>1. CASE Authorize(p) BY <2>1, AuthorizeAuth
  <2>2. CASE ~Authorize(p)
    <3>1. cache' = cache
      BY <2>2 DEF Gate, ReadApp, ReadDev, CheckNonce, Validate, ReadRow, Record, Error
    <3> QED
      BY <3>1 DEF AuthInv, CacheSound
  <2> QED BY <2>1, <2>2
<1>3. PlaceSound'
  <2>1. CASE ReadApp(p) \/ ReadDev(p) \/ CheckNonce(p) \/ Error(p)
    <3>1. req'[p].pc \in {"app", "dev", "fresh", "refused"}
      BY <1>1, <2>1, GotoType DEF ReadApp, ReadDev, CheckNonce, Error, ThenOrRefuse, Pcs
    <3> QED
      BY <1>0, <3>1, PlaceStep
  <2>2. CASE Record(p)
    <3>1. req'[p].pc = "accepted" /\ req[p].pc = "valid" /\ Of(p)' = Of(p) /\ req'[p].checkedAt = req[p].checkedAt
      BY <1>1, <2>2 DEF Record, Goto, Req, At, Of
    <3>2. Of(p).signed /\ Allowed(p) /\ InTime(p)
      BY <3>1 DEF AuthInv, PlaceSound
    <3>3. InTime(p)'
      BY <3>1, <3>2 DEF InTime
    <3> QED
      BY <1>0, <3>1, <3>2, <3>3, PlaceStep
  <2> QED
    BY <2>1, <2>2, ValidateAuth, ReadRowAuth, AuthorizeAuth DEF Gate
<1>4. DatesBounded'
  BY DEF AuthInv, DatesBounded, Gate, rows, ReadApp, ReadDev, CheckNonce, Validate, ReadRow, Authorize, Record, Error
<1> QED
  BY <1>0, <1>2, <1>3, <1>4 DEF AuthInv

LEMMA EnvironmentAuth == ASSUME AuthInv, Environment PROVE AuthInv'
<1>0. GateTypeOK /\ GateTypeOK' /\ now \in Int
  BY EnvironmentType DEF AuthInv, GateTypeOK
<1>d. DatesBounded'
  <2>1. ASSUME NEW r \in Auths, NEW date \in Dates, CreateAuthorization(r, date) PROVE DatesBounded'
    BY <1>0, <2>1 DEF AuthInv, DatesBounded, GateTypeOK, CreateAuthorization
  <2>2. ASSUME until' = until PROVE DatesBounded'
    BY <2>2 DEF AuthInv, DatesBounded
  <2> QED
    BY <2>1, <2>2 DEF Environment, Tick, rows, Switch, Revoke, VerifyOauthToken, Restart
<1>1. CASE Tick
  <2>1. req' = req /\ cache' = cache /\ now' = now + 1
    BY <1>1 DEF Tick
  <2>2. CacheSound'
    BY <2>1 DEF AuthInv, CacheSound
  <2>3. \A p \in Reqs : req[p].checkedAt \in Int
    BY <1>0, FieldTypes
  <2>4. \A p \in Reqs : Of(p)' = Of(p) /\ (Allowed(p)' <=> Allowed(p)) /\ (InTime(p)' <=> InTime(p))
    BY <2>1 DEF Of, Allowed, InTime
  <2>5. PlaceSound'
    BY <1>0, <2>1, <2>3, <2>4 DEF AuthInv, PlaceSound, At
  <2> QED
    BY <1>0, <1>d, <2>1, <2>2, <2>5 DEF AuthInv
<1>2. ASSUME UNCHANGED <<now, cache, req>> PROVE AuthInv'
  <2>1. \A p \in Reqs : Of(p)' = Of(p) /\ (Allowed(p)' <=> Allowed(p)) /\ (InTime(p)' <=> InTime(p))
    BY <1>2 DEF Of, Allowed, InTime
  <2> QED
    BY <1>0, <1>2, <1>d, <2>1 DEF AuthInv, CacheSound, PlaceSound, At
<1>3. CASE Restart
  <2>1. \A p \in Reqs : req'[p].pc \in {"new", "accepted", "refused"} /\ (req'[p].pc = "accepted" => req'[p] = req[p])
    BY <1>0, <1>3 DEF Restart, GateTypeOK, Req
  <2>2. PlaceSound'
    <3> SUFFICES ASSUME NEW p \in Reqs, req'[p].pc = "accepted"
                 PROVE  Of(p)'.signed /\ Allowed(p)' /\ InTime(p)'
      BY <2>1 DEF PlaceSound, At
    <3>1. req'[p] = req[p]
      BY <2>1
    <3>2. Of(p)' = Of(p) /\ (Allowed(p)' <=> Allowed(p)) /\ (InTime(p)' <=> InTime(p))
      BY <3>1 DEF Of, Allowed, InTime
    <3> QED
      BY <3>1, <3>2 DEF AuthInv, PlaceSound
  <2>3. CacheSound' /\ now' = now
    BY <1>3 DEF Restart, CacheSound, Absent
  <2> QED
    BY <1>0, <1>d, <2>2, <2>3 DEF AuthInv
<1> QED
  BY <1>1, <1>2, <1>3 DEF Environment, Switch, Revoke, VerifyOauthToken, CreateAuthorization

(* An accepted message is signed and uses an authorization of its own      *)
(* application, for at most CacheTtl after its expiry:                     *)
(* resource-authorization.service.ts with its cache.                       *)
THEOREM GateAuthorized == Spec => []AuthorizedWithinTtl
<1>1. AuthInv /\ [Next]_gateVars => AuthInv'
  <2> SUFFICES ASSUME AuthInv, [Next]_gateVars PROVE AuthInv'
    OBVIOUS
  <2>1. CASE Next BY <2>1, GateAuth, EnvironmentAuth DEF Next
  <2>2. CASE UNCHANGED gateVars
    <3>1. \A p \in Reqs : Of(p)' = Of(p) /\ (Allowed(p)' <=> Allowed(p)) /\ (InTime(p)' <=> InTime(p))
      BY <2>2 DEF gateVars, Of, Allowed, InTime
    <3> QED
      BY <2>2, <3>1 DEF gateVars, AuthInv, DatesBounded, GateTypeOK, CacheSound, PlaceSound, At
  <2> QED BY <2>1, <2>2
<1>2. AuthInv => AuthorizedWithinTtl
  BY DEF AuthInv, PlaceSound, AuthorizedWithinTtl, Allowed, InTime, At
<1> QED
  BY <1>1, <1>2, AuthInit, PTL DEF Spec

(***************************************************************************)
(* From end to end                                                         *)
(*                                                                         *)
(* Forwarding leaves the gate as it is, so that whatever is proved of the  *)
(* gate holds of the whole of Gateway.                                     *)
(***************************************************************************)

LEMMA ForwardKeepsGate == ASSUME NEW p \in Reqs, Forward(p) PROVE UNCHANGED gateVars
  BY DEF Forward, Route, OverQuota, Charge, Serve, Response, Timeout, Handle

LEMMA FwdGateStep == ASSUME [FwdNext]_vars PROVE [Next]_gateVars
<1>1. ASSUME NEW p \in Reqs, Forward(p) PROVE [Next]_gateVars
  BY <1>1, ForwardKeepsGate
<1>2. ASSUME UNCHANGED vars PROVE [Next]_gateVars
  BY <1>2 DEF vars
<1>3. CASE FwdRestart BY <1>3 DEF FwdRestart, Next, Environment
<1> QED
  BY <1>1, <1>2, <1>3 DEF FwdNext, Next, Environment

(* The gate with the forwarding behind it behaves as the gate alone:       *)
(* resource-validation.middleware.ts takes nothing back from               *)
(* forwardRequest.                                                         *)
THEOREM FwdImplementsGate == FwdSpec => Spec
<1>1. FwdInit => Init
  BY DEF FwdInit
<1>2. [FwdNext]_vars => [Next]_gateVars
  BY FwdGateStep
<1> QED
  BY <1>1, <1>2, PTL DEF FwdSpec, Spec

(***************************************************************************)
(* Every execution is one charged call of one accepted request             *)
(***************************************************************************)
ServedOf(m) == {p \in Reqs : req[p].msg = m /\ flight[p] \in {"served", "servedKey"}}

\* Forwarding starts after the gate; a call is made once, and counted before.
CallsInOrder ==
  \A p \in Reqs :
    /\ fwd[p] # "none" \/ p \in charged => At(p, "accepted")
    /\ flight[p] # "none" => p \in charged
    /\ fwd[p] \in {"none", "charging"} => flight[p] = "none"

\* What the backend has executed is what was sent to it.
CountsServed == \A m \in Msgs : IsFiniteSet(ServedOf(m)) /\ executed[m] = Cardinality(ServedOf(m))

\* Where the call is whose answer has the key of a merchant, or may have it.
KeyFollowed ==
  \A p \in Reqs :
    /\ flight[p] = "sent" => fwd[p] \in {"waiting", "failed", "dead"}
    /\ flight[p] = "servedKey" => fwd[p] \in {"waiting", "handling", "failed", "dead", "okId"}
    /\ flight[p] = "served" /\ IsRegistration(p) => Merchant(p) \in merchants
    /\ fwd[p] = "ok" => flight[p] = "served"
    /\ fwd[p] = "okId" => Row(p) \in stored
    /\ fwd[p] # "okKey"

\* A merchant custody has was there from the start or is some call's creation.
Created ==
  \A m \in merchants \ Existing : \E q \in Reqs : flight[q] = "servedKey" /\ Merchant(q) = m

FwdInv ==
  /\ TypeOK /\ IsFiniteSet(charged) /\ CallsInOrder /\ CountsServed
  /\ KeyFollowed /\ Created

LEMMA StepMoves ==
  ASSUME fwd \in [Reqs -> FwdPcs], NEW p \in Reqs, NEW pc \in FwdPcs, Step(p, pc)
  PROVE  /\ fwd' \in [Reqs -> FwdPcs] /\ fwd'[p] = pc
         /\ \A q \in Reqs : q # p => fwd'[q] = fwd[q]
  BY DEF Step

LEMMA InitFwdInv == ASSUME FwdInit PROVE FwdInv
<1>1. GateTypeOK
  BY GateInitType DEF FwdInit
<1>2. TypeOK
  BY <1>1, MerchantAssumption DEF FwdInit, TypeOK, FwdPcs, Flights
<1>3. IsFiniteSet(charged) /\ CallsInOrder /\ KeyFollowed /\ Created
  BY FS_EmptySet DEF FwdInit, CallsInOrder, KeyFollowed, Created
<1>4. CountsServed
  <2> SUFFICES ASSUME NEW m \in Msgs
               PROVE  IsFiniteSet(ServedOf(m)) /\ executed[m] = Cardinality(ServedOf(m))
    BY DEF CountsServed
  <2>1. ServedOf(m) = {} /\ executed[m] = 0
    BY DEF FwdInit, ServedOf
  <2> QED
    BY <2>1, FS_EmptySet
<1> QED
  BY <1>2, <1>3, <1>4 DEF FwdInv

\* A step of forwarding in which the backend executes nothing.
LEMMA NothingServed ==
  ASSUME CountsServed, UNCHANGED executed,
         \A q \in Reqs : /\ req'[q].msg = req[q].msg
                         /\ flight'[q] \in {"served", "servedKey"} <=> flight[q] \in {"served", "servedKey"}
  PROVE  CountsServed'
<1>1. \A m \in Msgs : ServedOf(m)' = ServedOf(m)
  BY DEF ServedOf
<1> QED
  BY <1>1 DEF CountsServed

\* What a request says of a merchant does not change while its message stays.
LEMMA SameMerchant ==
  ASSUME NEW q \in Reqs, req'[q].msg = req[q].msg
  PROVE  /\ Merchant(q)' = Merchant(q) /\ Row(q)' = Row(q)
         /\ IsRegistration(q)' = IsRegistration(q)
  BY DEF Merchant, Row, IsRegistration, Of

LEMMA ChargeStep == ASSUME FwdInv, NEW p \in Reqs, Charge(p) PROVE FwdInv'
<1>0. /\ fwd \in [Reqs -> FwdPcs] /\ flight \in [Reqs -> Flights] /\ req' = req
      /\ GateTypeOK /\ UNCHANGED gateVars
  BY DEF FwdInv, TypeOK, Charge, gateVars
<1>1. /\ charged' = charged \cup {p} /\ UNCHANGED <<executed, merchants, stored>>
      /\ fwd[p] = "charging" /\ flight[p] = "none" /\ At(p, "accepted")
  BY DEF Charge, FwdInv, CallsInOrder
<1>2. PICK pc \in {"waiting", "refused"} :
        Step(p, pc) /\ flight' = IF pc = "waiting" THEN [flight EXCEPT ![p] = "sent"] ELSE flight
  BY DEF Charge, Send
<1>3. pc \in FwdPcs
  BY <1>2 DEF FwdPcs, Answers
<1>4. fwd' \in [Reqs -> FwdPcs] /\ fwd'[p] = pc /\ \A q \in Reqs : q # p => fwd'[q] = fwd[q]
  BY <1>0, <1>2, <1>3, StepMoves
<1>5. /\ flight' \in [Reqs -> Flights] /\ flight'[p] \in {"none", "sent"}
      /\ \A q \in Reqs : q # p => flight'[q] = flight[q]
  BY <1>0, <1>1, <1>2 DEF Flights
<1>6. TypeOK'
  BY <1>0, <1>1, <1>4, <1>5 DEF FwdInv, TypeOK, GateTypeOK, gateVars
<1>7. IsFiniteSet(charged')
  BY <1>1, FS_AddElement DEF FwdInv
<1>8. CallsInOrder'
  BY <1>0, <1>1, <1>2, <1>4, <1>5 DEF FwdInv, CallsInOrder, At
<1>9. CountsServed'
  BY <1>0, <1>1, <1>5, NothingServed DEF FwdInv
<1>10. pc = "refused" => flight' = flight
  BY <1>2
<1>11. pc = "waiting" => flight'[p] = "sent"
  BY <1>0, <1>2
<1>12. KeyFollowed'
  BY <1>0, <1>1, <1>2, <1>4, <1>5, <1>10, <1>11, SameMerchant DEF FwdInv, KeyFollowed
<1>13. Created'
  BY <1>0, <1>1, <1>5, SameMerchant DEF FwdInv, Created
<1> QED
  BY <1>6, <1>7, <1>8, <1>9, <1>12, <1>13 DEF FwdInv

LEMMA ServeStep == ASSUME FwdInv, NEW p \in Reqs, Serve(p) PROVE FwdInv'
<1>0. /\ flight \in [Reqs -> Flights] /\ flight[p] = "sent" /\ req' = req
      /\ executed \in [Msgs -> Nat] /\ req[p].msg \in Msgs
      /\ UNCHANGED gateVars /\ UNCHANGED <<fwd, charged, stored>>
      /\ merchants \subseteq merchants' /\ merchants' \subseteq Merchants
  BY MessageTypes, MerchantAssumption DEF FwdInv, TypeOK, Serve, Merchant, gateVars
<1>1. PICK f \in {"served", "servedKey", "declined"} :
        /\ flight' = [flight EXCEPT ![p] = f]
        /\ executed' = IF f = "declined" THEN executed ELSE [executed EXCEPT ![req[p].msg] = @ + 1]
        /\ f = "servedKey" => merchants' = merchants \cup {Merchant(p)}
        /\ f # "servedKey" => merchants' = merchants
        /\ f = "served" /\ IsRegistration(p) => Merchant(p) \in merchants
  BY DEF Serve
<1>2. flight' \in [Reqs -> Flights] /\ flight'[p] = f /\ \A q \in Reqs : q # p => flight'[q] = flight[q]
  BY <1>0, <1>1 DEF Flights
<1>3. executed' \in [Msgs -> Nat]
  BY <1>0, <1>1
<1>4. TypeOK'
  BY <1>0, <1>2, <1>3 DEF FwdInv, TypeOK, GateTypeOK, gateVars
<1>5. CallsInOrder' /\ IsFiniteSet(charged')
  BY <1>0, <1>2 DEF FwdInv, CallsInOrder, At
<1>8. KeyFollowed'
  BY <1>0, <1>1, <1>2, SameMerchant DEF FwdInv, KeyFollowed
<1>9. Created'
  <2> SUFFICES ASSUME NEW m \in merchants' \ Existing
               PROVE  \E q \in Reqs : flight'[q] = "servedKey" /\ Merchant(q)' = m
    BY DEF Created
  <2>1. CASE m \in merchants
    <3>1. PICK q \in Reqs : flight[q] = "servedKey" /\ Merchant(q) = m
      BY <2>1 DEF FwdInv, Created
    <3>2. flight'[q] = "servedKey" /\ Merchant(q)' = m
      BY <1>0, <1>2, <3>1, SameMerchant
    <3> QED
      BY <3>2
  <2>2. CASE m \notin merchants
    <3>1. f = "servedKey" /\ Merchant(p) = m
      BY <1>1, <2>2
    <3> QED
      BY <1>0, <1>2, <3>1, SameMerchant
  <2> QED
    BY <2>1, <2>2
<1>6. CASE f = "declined"
  <2>1. CountsServed'
    BY <1>0, <1>1, <1>2, <1>6, NothingServed DEF FwdInv
  <2> QED
    BY <1>4, <1>5, <1>8, <1>9, <2>1 DEF FwdInv
<1>7. CASE f # "declined"
  <2> SUFFICES ASSUME NEW m \in Msgs
               PROVE  IsFiniteSet(ServedOf(m)') /\ executed'[m] = Cardinality(ServedOf(m)')
    BY <1>4, <1>5, <1>8, <1>9 DEF FwdInv, CountsServed
  <2>1. IsFiniteSet(ServedOf(m)) /\ executed[m] = Cardinality(ServedOf(m))
    BY DEF FwdInv, CountsServed
  <2>2. CASE m = req[p].msg
    <3>1. ServedOf(m)' = ServedOf(m) \cup {p} /\ p \notin ServedOf(m)
      BY <1>0, <1>2, <1>7, <2>2 DEF ServedOf
    <3>2. executed'[m] = executed[m] + 1
      BY <1>0, <1>1, <1>7, <2>2
    <3> QED
      BY <2>1, <3>1, <3>2, FS_AddElement
  <2>3. CASE m # req[p].msg
    <3>1. ServedOf(m)' = ServedOf(m)
      BY <1>0, <1>2, <2>3 DEF ServedOf
    <3>2. executed'[m] = executed[m]
      BY <1>0, <1>1, <2>3
    <3> QED
      BY <2>1, <3>1, <3>2
  <2> QED
    BY <2>2, <2>3
<1> QED
  BY <1>6, <1>7

\* A step that only moves a request that waits for nothing or for an answer.
LEMMA MoveStep ==
  ASSUME FwdInv, NEW p \in Reqs, NEW pc \in FwdPcs, Step(p, pc),
         UNCHANGED <<gateVars, flight, executed, charged, merchants>>,
         stored \subseteq stored', stored' \subseteq Apps \X Merchants,
         At(p, "accepted"), pc # "none", pc # "okKey",
         pc = "charging" => flight[p] = "none",
         pc = "ok" => flight[p] = "served",
         pc = "okId" => Row(p) \in stored',
         flight[p] = "sent" => pc \in {"waiting", "failed", "dead"},
         flight[p] = "servedKey" => pc \in {"waiting", "handling", "failed", "dead", "okId"}
  PROVE  FwdInv'
<1>0. fwd \in [Reqs -> FwdPcs] /\ req' = req
  BY DEF FwdInv, TypeOK, gateVars
<1>1. fwd' \in [Reqs -> FwdPcs] /\ fwd'[p] = pc /\ \A q \in Reqs : q # p => fwd'[q] = fwd[q]
  BY <1>0, StepMoves
<1>2. TypeOK'
  BY <1>1 DEF FwdInv, TypeOK, GateTypeOK, gateVars
<1>3. CallsInOrder'
  BY <1>0, <1>1 DEF FwdInv, CallsInOrder, At
<1>4. CountsServed'
  BY <1>0, NothingServed DEF FwdInv
<1>5. KeyFollowed'
  BY <1>0, <1>1, SameMerchant DEF FwdInv, KeyFollowed
<1>6. Created'
  BY <1>0, SameMerchant DEF FwdInv, Created
<1> QED
  BY <1>2, <1>3, <1>4, <1>5, <1>6 DEF FwdInv

LEMMA ForwardStep == ASSUME FwdInv, NEW p \in Reqs, Forward(p) PROVE FwdInv'
<1>0. /\ fwd[p] # "none" => At(p, "accepted")
      /\ fwd[p] \in {"none", "charging"} => flight[p] = "none"
  BY DEF FwdInv, CallsInOrder
<1>a. /\ stored \subseteq Apps \X Merchants
      /\ Row(p) \in Apps \X Merchants
  BY MessageTypes, GateAssumption, MerchantAssumption DEF FwdInv, TypeOK, Row, Merchant, Of
<1>b. /\ flight[p] = "sent" => fwd[p] \in {"waiting", "failed", "dead"}
      /\ flight[p] = "servedKey" => fwd[p] \in {"waiting", "handling", "failed", "dead", "okId"}
  BY DEF FwdInv, KeyFollowed
<1> USE DEF FwdPcs, Answers
<1>1. CASE Route(p)
  <2>1. PICK pc \in {"charging", "refused"} : Step(p, pc)
    BY <1>1 DEF Route
  <2> QED
    BY <1>0, <1>a, <1>1, <2>1, MoveStep DEF Route
<1>2. CASE OverQuota(p) BY <1>0, <1>a, <1>2, MoveStep DEF OverQuota
<1>3. CASE Charge(p) BY <1>3, ChargeStep
<1>4. CASE Serve(p) BY <1>4, ServeStep
<1>5. CASE Response(p)
  <2>1. PICK pc \in {"handling", "ok", "failed"} :
          /\ Step(p, pc)
          /\ flight[p] = "servedKey" => pc = "handling"
          /\ pc = "ok" => flight[p] = "served"
    BY <1>5 DEF Response
  <2>2. flight[p] # "sent" /\ At(p, "accepted")
    BY <1>0, <1>5 DEF Response
  <2> QED
    BY <1>a, <1>5, <2>1, <2>2, MoveStep DEF Response
<1>6. CASE Timeout(p) BY <1>0, <1>a, <1>6, MoveStep DEF Timeout
<1>7. CASE Handle(p)
  <2>1. flight[p] # "sent" /\ At(p, "accepted")
    BY <1>0, <1>b, <1>7 DEF Handle
  <2>2. PICK pc \in {"okId", "failed"} :
          /\ Step(p, pc) /\ stored' \in {stored, stored \cup {Row(p)}}
          /\ pc = "okId" => stored' = stored \cup {Row(p)}
    BY <1>7 DEF Handle
  <2>3. /\ stored \subseteq stored' /\ stored' \subseteq Apps \X Merchants
        /\ pc = "okId" => Row(p) \in stored'
    BY <1>a, <2>2
  <2> QED
    BY <1>7, <2>1, <2>2, <2>3, MoveStep DEF Handle
<1> QED
  BY <1>1, <1>2, <1>3, <1>4, <1>5, <1>6, <1>7 DEF Forward

\* The gate and the environment change no message and take nothing back.
LEMMA GateKeeps ==
  ASSUME GateTypeOK, Next
  PROVE  \A q \in Reqs : req'[q].msg = req[q].msg /\ (At(q, "accepted") => req'[q] = req[q])
<1>1. ASSUME NEW p \in Reqs, Gate(p)
      PROVE  \A q \in Reqs : req'[q].msg = req[q].msg /\ (At(q, "accepted") => req'[q] = req[q])
  <2>1. ~At(p, "accepted")
    BY <1>1 DEF Gate, ReadApp, ReadDev, CheckNonce, Validate, ReadRow, Authorize, Record, Error, At
  <2> QED
    BY <1>1, <2>1, GateMoves
<1>2. CASE Restart BY <1>2 DEF Restart, At, GateTypeOK, Req
<1>3. ASSUME UNCHANGED req
      PROVE  \A q \in Reqs : req'[q].msg = req[q].msg /\ (At(q, "accepted") => req'[q] = req[q])
  BY <1>3
<1> QED
  BY <1>1, <1>2, <1>3 DEF Next, Environment, Tick, Switch, Revoke, VerifyOauthToken, CreateAuthorization

\* A step of the gate or of the environment, with what it does to forwarding.
LEMMA OutsideStep ==
  ASSUME FwdInv, GateTypeOK',
         \A q \in Reqs : req'[q].msg = req[q].msg /\ (At(q, "accepted") => req'[q] = req[q]),
         UNCHANGED <<flight, executed, charged, merchants, stored>>,
         fwd' \in [Reqs -> FwdPcs],
         \A q \in Reqs : fwd'[q] = fwd[q] \/ (At(q, "accepted") /\ fwd'[q] = "dead")
  PROVE  FwdInv'
<1>1. TypeOK'
  BY DEF FwdInv, TypeOK
<1>2. CallsInOrder'
  BY DEF FwdInv, CallsInOrder, At
<1>3. CountsServed'
  BY NothingServed DEF FwdInv
<1>4. KeyFollowed'
  BY SameMerchant DEF FwdInv, KeyFollowed
<1>5. Created'
  BY SameMerchant DEF FwdInv, Created
<1> QED
  BY <1>1, <1>2, <1>3, <1>4, <1>5 DEF FwdInv

LEMMA FwdStep == ASSUME FwdInv, [FwdNext]_vars PROVE FwdInv'
<1>0. GateTypeOK /\ fwd \in [Reqs -> FwdPcs]
  BY DEF FwdInv, TypeOK
<1>1. ASSUME NEW p \in Reqs, Forward(p) PROVE FwdInv'
  BY <1>1, ForwardStep
<1>2. CASE UNCHANGED vars
  <2>1. GateTypeOK' /\ req' = req /\ UNCHANGED fwdVars
    BY <1>0, <1>2 DEF vars, gateVars, GateTypeOK
  <2> QED
    BY <1>0, <2>1, OutsideStep DEF fwdVars
<1>3. ASSUME Next, UNCHANGED fwdVars PROVE FwdInv'
  <2>1. GateTypeOK'
    BY <1>0, <1>3, GateType, EnvironmentType DEF Next
  <2> QED
    BY <1>0, <1>3, <2>1, GateKeeps, OutsideStep DEF fwdVars
<1>4. CASE FwdRestart
  <2>1. Next /\ GateTypeOK'
    BY <1>0, <1>4, EnvironmentType DEF FwdRestart, Environment, Next
  <2>2. fwd' \in [Reqs -> FwdPcs]
    BY <1>0, <1>4 DEF FwdRestart, FwdPcs
  <2>3. \A q \in Reqs : fwd'[q] = fwd[q] \/ (At(q, "accepted") /\ fwd'[q] = "dead")
    BY <1>4 DEF FwdRestart
  <2> QED
    BY <1>0, <1>4, <2>1, <2>2, <2>3, GateKeeps, OutsideStep DEF FwdRestart
<1> QED
  BY <1>1, <1>2, <1>3, <1>4 DEF FwdNext, Next, Environment

LEMMA FwdInvariant == FwdSpec => []FwdInv
<1>1. FwdInv /\ [FwdNext]_vars => FwdInv'
  BY FwdStep
<1>2. FwdInit => FwdInv
  BY InitFwdInv
<1> QED
  BY <1>1, <1>2, PTL DEF FwdSpec

(* Every reachable state of the gate with the forwarding is well typed. *)
THEOREM FwdTypeCorrect == FwdSpec => []TypeOK
<1>1. FwdInv => TypeOK
  BY DEF FwdInv
<1> QED
  BY <1>1, FwdInvariant, PTL

(* merchant/register never answers with the key (forward-routes.ts:281),   *)
(* and with an id only of a row that exists; a success without an id is    *)
(* about a merchant that another call created or that custody had, and the *)
(* creating call did not lose the key behind a success of its own.         *)
THEOREM KeyNotLost == FwdSpec => []KeyNotLostSilently
<1>1. ASSUME FwdInv PROVE KeyNotLostSilently
  <2> SUFFICES ASSUME NEW p \in Reqs
               PROVE  /\ fwd[p] # "okKey"
                      /\ fwd[p] = "okId" => Row(p) \in stored
                      /\ fwd[p] = "ok" /\ IsRegistration(p) /\ Merchant(p) \notin Existing =>
                           \E q \in Reqs \ {p} :
                             /\ flight[q] = "servedKey" /\ Merchant(q) = Merchant(p)
                             /\ \/ fwd[q] \in {"waiting", "handling", "failed", "dead"}
                                \/ Row(q) \in stored
    BY DEF KeyNotLostSilently
  <2>1. fwd[p] # "okKey" /\ (fwd[p] = "okId" => Row(p) \in stored)
    BY <1>1 DEF FwdInv, KeyFollowed
  <2>2. ASSUME fwd[p] = "ok", IsRegistration(p), Merchant(p) \notin Existing
        PROVE  \E q \in Reqs \ {p} :
                 /\ flight[q] = "servedKey" /\ Merchant(q) = Merchant(p)
                 /\ fwd[q] \in {"waiting", "handling", "failed", "dead"} \/ Row(q) \in stored
    <3>1. flight[p] = "served" /\ Merchant(p) \in merchants \ Existing
      BY <1>1, <2>2 DEF FwdInv, KeyFollowed
    <3>2. PICK q \in Reqs : flight[q] = "servedKey" /\ Merchant(q) = Merchant(p)
      BY <1>1, <3>1 DEF FwdInv, Created
    <3>3. fwd[q] \in {"waiting", "handling", "failed", "dead"} \/ Row(q) \in stored
      BY <1>1, <3>2 DEF FwdInv, KeyFollowed
    <3> QED
      BY <3>1, <3>2, <3>3
  <2> QED
    BY <2>1, <2>2
<1>2. FwdInv => KeyNotLostSilently
  BY <1>1
<1> QED
  BY <1>2, FwdInvariant, PTL

LEMMA AtMostOneServed ==
  ASSUME FwdInv, NoReplay, NEW m \in Msgs, m \notin excused
  PROVE  executed[m] <= 1
<1>1. IsFiniteSet(ServedOf(m)) /\ executed[m] = Cardinality(ServedOf(m))
  BY DEF FwdInv, CountsServed
<1>2. \A p, q \in ServedOf(m) : p = q
  <2> SUFFICES ASSUME NEW p \in ServedOf(m), NEW q \in ServedOf(m), p # q PROVE FALSE
    OBVIOUS
  <2>1. p \in Reqs /\ q \in Reqs /\ req[p].msg = m /\ req[q].msg = m
    BY DEF ServedOf
  <2>2. At(p, "accepted") /\ At(q, "accepted")
    BY <2>1 DEF FwdInv, CallsInOrder, ServedOf
  <2> QED
    BY <2>1, <2>2 DEF NoReplay, SameMsg
<1>3. CASE ServedOf(m) = {} BY <1>1, <1>3, FS_EmptySet
<1>4. CASE ServedOf(m) # {}
  <2>1. PICK p : ServedOf(m) = {p}
    BY <1>2, <1>4
  <2> QED
    BY <1>1, <2>1, FS_Singleton
<1> QED
  BY <1>3, <1>4

(* Custody executes no call that was not counted, and what a developer     *)
(* signed once at most once: forwardRequest behind the gate, whatever is   *)
(* copied, repeated, answered late or lost.                                *)
THEOREM FwdExecutedOnce == FwdSpec => []ExecutedOnce
<1>1. FwdInv /\ NoReplay => ExecutedOnce
  <2> SUFFICES ASSUME FwdInv, NoReplay, NEW m \in Msgs
               PROVE  /\ executed[m] <= Cardinality({p \in charged : req[p].msg = m})
                      /\ m \notin excused => executed[m] <= 1
    BY DEF ExecutedOnce
  <2> DEFINE counted == {p \in charged : req[p].msg = m}
  <2>1. IsFiniteSet(charged) /\ charged \subseteq Reqs
    BY DEF FwdInv, TypeOK
  <2>2. IsFiniteSet(counted)
    BY <2>1, FS_Subset
  <2>3. ServedOf(m) \subseteq counted
    BY DEF ServedOf, FwdInv, CallsInOrder
  <2>4. Cardinality(ServedOf(m)) <= Cardinality(counted)
    BY <2>2, <2>3, FS_Subset
  <2>5. executed[m] = Cardinality(ServedOf(m))
    BY DEF FwdInv, CountsServed
  <2> QED
    BY <2>4, <2>5, AtMostOneServed
<1> QED
  BY <1>1, FwdInvariant, FwdImplementsGate, GateNoReplay, PTL

(* What the gate promises it promises of a call from end to end: no signed  *)
(* message is accepted twice and no authorization is used longer than one   *)
(* cache lifetime after its expiry, with the forwarding behind the gate     *)
(* (resource-validation.middleware.ts).                                     *)
THEOREM FwdGatePromises == FwdSpec => [](NoReplay /\ AuthorizedWithinTtl)
BY FwdImplementsGate, GateNoReplay, GateAuthorized, PTL
=============================================================================
