-------------------------- MODULE OAuthTokensProofs --------------------------
(***************************************************************************)
(* Theorems about OAuthTokens and the limiter in front of it, for any      *)
(* number of clients and requests, any windows and any limits.             *)
(***************************************************************************)
EXTENDS OAuthTokens, TLAPS

(***************************************************************************)
(* The limiter: types of what its steps write.                             *)
(***************************************************************************)
LEMMA IncrementTyped ==
  ASSUME now \in Nat, NEW e \in Counter, NEW w \in Windows
  PROVE  Increment(e, w) \in Counter
  BY LimitAssumption DEF Increment, Counter

LEMMA HitTyped ==
  ASSUME LimitsTypeOK, NEW c \in Clients, NEW w \in Windows
  PROVE  win[c][w] \in Counter /\ Hit(c, w) \in Counter
  <1>1. win[c][w] \in Counter /\ now \in Nat
    BY LimitAssumption DEF LimitsTypeOK
  <1>2. QED
    BY <1>1, IncrementTyped DEF Hit

LEMMA DayReportedTyped ==
  ASSUME LimitsTypeOK, NEW c \in Clients
  PROVE  DayReported(c) \in Counter
  <1>1. Hit(c, "day") \in Counter /\ now \in Nat
    BY HitTyped, LimitAssumption DEF Windows, LimitsTypeOK
  <1>2. QED
    BY <1>1, IncrementTyped DEF DayReported, Windows

LEMMA CountedTyped ==
  ASSUME LimitsTypeOK, NEW c \in Clients
  PROVE  Counted(c) \in [Windows -> Counter]
  <1>1. \A w \in Windows : win[c][w] \in Counter /\ Hit(c, w) \in Counter
    BY HitTyped
  <1>2. DayReported(c) \in Counter
    BY DayReportedTyped
  <1>3. QED
    BY <1>1, <1>2 DEF Counted

\* A step of the limiter.
LimitStep(c) == Admit(c) \/ Refuse(c) \/ Sensitive(c)

LEMMA LimitStepTyped ==
  ASSUME LimitsTypeOK, NEW c \in Clients, LimitStep(c)
  PROVE  LimitsTypeOK'
  <1>1. now \in 0..MaxTime /\ now' = now
    BY DEF LimitStep, Admit, Refuse, Sensitive, LimitsTypeOK
  <1>2. today' \in [Clients -> Nat]
    <2>1. PassDefault(c) \/ Refuse(c)
      BY DEF LimitStep, Admit, Sensitive
    <2>2. QED
      BY <2>1 DEF PassDefault, Refuse, LimitsTypeOK
  <1>3. win' \in [Clients -> [Windows -> Counter]]
    <2>1. Counted(c) \in [Windows -> Counter]
      BY CountedTyped
    <2>2. [Counted(c) EXCEPT !["strict"] = Hit(c, "strict")] \in [Windows -> Counter]
      BY <2>1, HitTyped DEF Windows
    <2>3. QED
      BY <2>1, <2>2 DEF LimitStep, Admit, Refuse, Sensitive, LimitsTypeOK
  <1>4. passed' \in [Clients -> [Limiters -> [Instants -> Nat]]]
    <2>1. passed[c] \in [Limiters -> [Instants -> Nat]]
      BY DEF LimitsTypeOK
    <2>2. \A l \in Limiters : OneMore(passed[c][l]) \in [Instants -> Nat]
      BY <2>1 DEF OneMore
    <2>3. CASE passed' = passed
      BY <2>3 DEF LimitsTypeOK
    <2>4. CASE passed' = [passed EXCEPT ![c]["default"] = OneMore(@)]
      <3>1. [passed[c] EXCEPT !["default"] = OneMore(passed[c]["default"])]
              \in [Limiters -> [Instants -> Nat]]
        BY <2>1, <2>2 DEF Limiters
      <3>2. QED
        BY <2>4, <3>1 DEF LimitsTypeOK
    <2>5. CASE passed' = [passed EXCEPT ![c] = [l \in Limiters |-> OneMore(passed[c][l])]]
      BY <2>2, <2>5 DEF LimitsTypeOK
    <2>6. QED
      BY <2>3, <2>4, <2>5 DEF LimitStep, Admit, Refuse, Sensitive
  <1>5. QED
    BY <1>1, <1>2, <1>3, <1>4 DEF LimitsTypeOK

LEMMA ForgetTyped == ASSUME LimitsTypeOK, Forget PROVE LimitsTypeOK'
  BY DEF LimitsTypeOK, Forget, NoCounter, Counter, NonePassed

LEMMA InitLimitsTyped == InitLimits => LimitsTypeOK
  BY LimitAssumption DEF InitLimits, LimitsTypeOK, NoCounter, Counter, NonePassed

-----------------------------------------------------------------------------
(***************************************************************************)
(* The table: what a request is about exists, and a row is written only by *)
(* the request it is named after.                                          *)
(***************************************************************************)
Placed(r) ==
  /\ r.pc \in {"new", "over"} => r.op = "none"
  /\ r.pc = "validate" => r.op = "issue"
  /\ r.pc \in {"find", "mark"} => r.op = "refresh"
  /\ r.pc = "create" => r.op \in {"issue", "refresh"}
  /\ r.pc = "revoke" => r.op = "revoke"

Known(r) == r.op \in {"refresh", "revoke"} => r.tok \in Reqs /\ Exists(r.tok)

Unwritten(p) == req[p].pc # "over" => ~Exists(p)

Rooted(t) == Exists(t) => Exists(SessionOf(t))

RInv ==
  /\ TypeOK
  /\ \A p \in Reqs : Placed(req[p]) /\ Known(req[p]) /\ Unwritten(p) /\ Rooted(p)
  /\ \A t \in out : Exists(t)

LEMMA RowTyped ==
  ASSUME TypeOK, NEW t \in Reqs, Exists(t)
  PROVE  row[t] \in Row /\ SessionOf(t) \in Reqs
  BY DEF TypeOK, Exists, SessionOf, Row

\* A step of request p that sets nothing but its record.
SetsReq(p, r) ==
  /\ r \in Req
  /\ req' \in [Reqs -> Req]
  /\ req'[p] = r
  /\ \A q \in Reqs \ {p} : req'[q] = req[q]

LEMMA Sets ==
  ASSUME TypeOK, NEW p \in Reqs, NEW r \in Req, req' = [req EXCEPT ![p] = r]
  PROVE  SetsReq(p, r)
  BY DEF TypeOK, SetsReq

LEMMA AnswerSets == ASSUME TypeOK, NEW p \in Reqs, Answer(p) PROVE SetsReq(p, Answered)
  BY Sets DEF Answer, Answered, Req, Ops

LEMMA GotoSets ==
  ASSUME TypeOK, NEW p \in Reqs, NEW pc \in Serving, Goto(p, pc)
  PROVE  SetsReq(p, [op |-> req[p].op, pc |-> pc, tok |-> req[p].tok])
  <1>1. [op |-> req[p].op, pc |-> pc, tok |-> req[p].tok] \in Req
    BY DEF TypeOK, Req
  <1>2. [req[p] EXCEPT !.pc = pc] = [op |-> req[p].op, pc |-> pc, tok |-> req[p].tok]
    BY DEF TypeOK, Req
  <1>3. QED
    BY <1>1, <1>2, Sets DEF Goto

\* The table keeps its rows: none appears, and none leaves its session.
RowsKept ==
  /\ row' \in [Reqs -> Row \cup {NoRow}]
  /\ \A t \in Reqs : (Exists(t)' <=> Exists(t)) /\ SessionOf(t)' = SessionOf(t)

LEMMA UpdateKeeps ==
  ASSUME TypeOK, NEW t \in Reqs, Exists(t), NEW p \in Reqs,
         \/ row' = [row EXCEPT ![t].by = p]
         \/ row' = [row EXCEPT ![t].revoked = TRUE]
  PROVE  RowsKept
  <1>1. row[t] \in Row
    BY RowTyped
  <1>2. row'[t] \in Row /\ row'[t].session = row[t].session
    <2>1. row'[t] = [row[t] EXCEPT !.by = p] \/ row'[t] = [row[t] EXCEPT !.revoked = TRUE]
      BY DEF TypeOK
    <2>2. QED
      BY <1>1, <2>1 DEF Row
  <1>3. NoRow \notin Row
    BY ReqsAssumption DEF NoRow, Row
  <1>4. \A u \in Reqs \ {t} : row'[u] = row[u]
    BY DEF TypeOK
  <1>5. row' \in [Reqs -> Row \cup {NoRow}]
    BY <1>2, <1>4 DEF TypeOK
  <1>6. Exists(t)' /\ SessionOf(t)' = SessionOf(t)
    BY <1>2, <1>3 DEF Exists, SessionOf
  <1>7. QED
    BY <1>4, <1>5, <1>6 DEF RowsKept, Exists, SessionOf

\* A step of one request that creates no row.
LEMMA KeepsRInv ==
  ASSUME RInv, NEW p \in Reqs, NEW r, SetsReq(p, r), RowsKept, out' = out, LimitsTypeOK',
         forked' \subseteq Reqs, cut' \subseteq Reqs,
         Placed(r), Known(r), r.pc = "over" \/ ~Exists(p)
  PROVE  RInv'
  <1>1. TypeOK'
    BY DEF RInv, TypeOK, SetsReq, RowsKept
  <1>2. ASSUME NEW q \in Reqs PROVE (Placed(req[q]) /\ Known(req[q]) /\ Unwritten(q))'
    <2>1. CASE q = p
      BY <2>1 DEF SetsReq, RowsKept, Placed, Known, Unwritten
    <2>2. CASE q # p
      BY <2>2 DEF RInv, SetsReq, RowsKept, Placed, Known, Unwritten
    <2>3. QED
      BY <2>1, <2>2
  <1>3. ASSUME NEW t \in Reqs PROVE Rooted(t)'
    <2> SUFFICES ASSUME Exists(t)' PROVE Exists(SessionOf(t))'
      BY DEF Rooted
    <2>1. PICK s \in Reqs : s = SessionOf(t)
      BY RowTyped DEF RInv, RowsKept
    <2>2. Exists(s)
      BY <2>1 DEF RInv, Rooted, RowsKept
    <2>3. Exists(s)' /\ SessionOf(t)' = s
      BY <2>1, <2>2 DEF RowsKept
    <2>4. QED
      BY <2>3
  <1>4. \A t \in out : t \in Reqs
    BY DEF RInv, TypeOK
  <1>5. QED
    BY <1>1, <1>2, <1>3, <1>4 DEF RInv, RowsKept

LEMMA UnchangedKeeps == ASSUME TypeOK, row' = row PROVE RowsKept
  BY DEF TypeOK, RowsKept, Exists, SessionOf

LEMMA SessionsTyped == ASSUME RInv, NEW p \in Reqs, Known(req[p]), req[p].op = "refresh"
                       PROVE  SessionOf(req[p].tok) \in Reqs
  BY RowTyped DEF RInv, Known

LEMMA CutsTyped == ASSUME RInv, NEW p \in Reqs PROVE Cuts(p) \subseteq Reqs
  BY SessionsTyped DEF Cuts, At, RInv

LEMMA EnterRInv ==
  ASSUME RInv, NEW p \in Reqs, LimitsTypeOK',
         \/ Enter(p, "issue", "validate", "none")
         \/ \E t \in out : Enter(p, "refresh", "find", t) \/ Enter(p, "revoke", "revoke", t)
         \/ Enter(p, "none", "over", "none")
  PROVE  RInv'
  <1>0. TypeOK
    BY DEF RInv
  <1>1. PICK op \in Ops, pc \in {"validate", "find", "revoke", "over"}, t \in Reqs \cup {"none"} :
          /\ Enter(p, op, pc, t)
          /\ op \in {"refresh", "revoke"} => t \in out
          /\ Placed([op |-> op, pc |-> pc, tok |-> t])
    BY <1>0 DEF Ops, Placed, TypeOK
  <1> DEFINE r == [op |-> op, pc |-> pc, tok |-> t]
  <1>2. r \in Req /\ SetsReq(p, r)
    BY <1>0, <1>1, Sets DEF Enter, Req, Serving
  <1>3. RowsKept /\ out' = out /\ forked' \subseteq Reqs /\ cut' \subseteq Reqs
    BY <1>0, <1>1, UnchangedKeeps DEF Enter, tokens, TypeOK
  <1>4. Known(r)
    BY <1>0, <1>1 DEF Known, RInv, TypeOK
  <1>5. ~Exists(p)
    BY <1>1 DEF Enter, RInv, Unwritten
  <1>6. Placed(r)
    BY <1>1
  <1> HIDE DEF r
  <1>7. QED
    BY <1>2, <1>3, <1>4, <1>5, <1>6, KeepsRInv

LEMMA StepRInv == ASSUME RInv, NEW p \in Reqs, Step(p), now' = now PROVE RInv'
  <1>0. TypeOK /\ LimitsTypeOK /\ Placed(req[p]) /\ Known(req[p])
    BY DEF RInv, TypeOK
  <1>1. Placed(Answered) /\ Known(Answered)
    BY DEF Placed, Known, Answered
  <1>2. ASSUME UNCHANGED <<limits, out>> /\ RowsKept, forked' \subseteq Reqs, cut' \subseteq Reqs, Answer(p)
        PROVE  RInv'
    <2>1. LimitsTypeOK'
      BY <1>0, <1>2 DEF LimitsTypeOK, limits
    <2>2. QED
      BY <1>0, <1>1, <1>2, <2>1, AnswerSets, KeepsRInv DEF Answered
  <1>3. ASSUME UNCHANGED <<limits, out>> /\ RowsKept, forked' \subseteq Reqs, cut' \subseteq Reqs,
               NEW pc \in {"mark", "create"}, Goto(p, pc), req[p].pc # "over",
               pc = "mark" => req[p].op = "refresh",
               pc = "create" => req[p].op \in {"issue", "refresh"}
        PROVE  RInv'
    <2> DEFINE r == [op |-> req[p].op, pc |-> pc, tok |-> req[p].tok]
    <2>1. LimitsTypeOK'
      BY <1>0, <1>3 DEF LimitsTypeOK, limits
    <2>2. SetsReq(p, r)
      BY <1>0, <1>3, GotoSets DEF Serving
    <2>3. Placed(r) /\ Known(r) /\ ~Exists(p)
      BY <1>0, <1>3 DEF Placed, Known, RInv, Unwritten
    <2> HIDE DEF r
    <2>4. QED
      BY <1>3, <2>1, <2>2, <2>3, KeepsRInv
  <1>4. CASE Validate(p)
    BY <1>0, <1>2, <1>3, <1>4, UnchangedKeeps DEF Validate, At, tokens, TypeOK
  <1>5. CASE Find(p)
    <2>1. forked' \subseteq Reqs /\ cut' \subseteq Reqs /\ RowsKept /\ UNCHANGED <<limits, out>>
      BY <1>0, <1>5, SessionsTyped, UnchangedKeeps DEF Find, At, TypeOK
    <2>2. QED
      BY <1>2, <1>3, <1>5, <2>1 DEF Find, At
  <1>6. CASE Mark(p)
    <2>1. req[p].tok \in Reqs /\ Exists(req[p].tok)
      BY <1>0, <1>6 DEF Mark, At, Known
    <2>2. RowsKept
      BY <1>0, <1>6, <2>1, UpdateKeeps DEF Mark
    <2>3. QED
      BY <1>0, <1>3, <1>6, <2>2 DEF Mark, At, TypeOK
  <1>7. CASE Revoke(p)
    <2>1. req[p].tok \in Reqs /\ Exists(req[p].tok)
      BY <1>0, <1>7 DEF Revoke, At, Known
    <2>2. RowsKept /\ SessionOf(req[p].tok) \in Reqs
      BY <1>0, <1>7, <2>1, UpdateKeeps, RowTyped DEF Revoke
    <2>3. QED
      BY <1>0, <1>2, <1>7, <2>2 DEF Revoke, At, TypeOK
  <1>8. CASE Fail(p)
    <2>1. Cuts(p) \subseteq Reqs
      BY CutsTyped
    <2>2. QED
      BY <1>0, <1>2, <1>8, <2>1, UnchangedKeeps DEF Fail, TypeOK
  <1>9. CASE Create(p)
    <2>1. SetsReq(p, Answered) /\ ~Exists(p) /\ LimitsTypeOK'
      BY <1>0, <1>9, AnswerSets DEF Create, RInv, Unwritten, LimitsTypeOK, limits
    <2>2. PICK s \in Reqs : s = NewSession(p) /\ (s = p \/ Exists(s))
      <3>1. CASE req[p].op = "issue"
        BY <3>1 DEF NewSession
      <3>2. CASE req[p].op = "refresh"
        BY <1>0, <3>2, RowTyped DEF NewSession, Known, RInv, Rooted
      <3>3. QED
        BY <1>0, <1>9, <3>1, <3>2 DEF Create, Placed
    <2> DEFINE n == [session |-> s, revoked |-> FALSE, by |-> "none"]
    <2>3. n \in Row /\ n # NoRow /\ n.session = s
      BY ReqsAssumption DEF Row, NoRow
    <2>4. row' = [row EXCEPT ![p] = n]
      BY <1>9, <2>2 DEF Create
    <2> HIDE DEF n
    <2>5. row' \in [Reqs -> Row \cup {NoRow}] /\ row'[p] = n /\ \A t \in Reqs \ {p} : row'[t] = row[t]
      BY <1>0, <2>3, <2>4 DEF TypeOK
    <2>6. Exists(p)' /\ SessionOf(p)' = s /\ \A t \in Reqs : Exists(t) => Exists(t)'
      BY <2>1, <2>3, <2>5 DEF Exists, SessionOf
    <2>7. TypeOK'
      BY <1>0, <1>9, <2>1, <2>5 DEF TypeOK, SetsReq, Create
    <2>8. ASSUME NEW q \in Reqs PROVE (Placed(req[q]) /\ Known(req[q]) /\ Unwritten(q))'
      <3>1. CASE q = p
        BY <2>1, <3>1 DEF SetsReq, Answered, Placed, Known, Unwritten
      <3>2. CASE q # p
        <4>1. req'[q] = req[q] /\ row'[q] = row[q]
          BY <2>1, <2>5, <3>2 DEF SetsReq
        <4>2. QED
          BY <2>6, <4>1 DEF RInv, Placed, Known, Unwritten, Exists
      <3>3. QED
        BY <3>1, <3>2
    <2>9. ASSUME NEW t \in Reqs PROVE Rooted(t)'
      <3>1. CASE t = p
        <4>1. Exists(s)'
          BY <2>2, <2>6
        <4>2. QED
          BY <2>6, <3>1, <4>1 DEF Rooted
      <3>2. CASE t # p /\ Exists(t)
        <4>1. PICK u \in Reqs : u = SessionOf(t) /\ Exists(u)
          BY <1>0, <3>2, RowTyped DEF RInv, Rooted
        <4>2. Exists(u)' /\ SessionOf(t)' = u
          BY <2>5, <2>6, <3>2, <4>1 DEF SessionOf
        <4>3. QED
          BY <4>2 DEF Rooted
      <3>3. QED
        BY <2>5, <3>1, <3>2 DEF Rooted, Exists
    <2>10. \A t \in out' : Exists(t)'
      BY <1>0, <1>9, <2>6 DEF Create, RInv, TypeOK
    <2>11. QED
      BY <2>7, <2>8, <2>9, <2>10 DEF RInv
  <1>10. QED
    BY <1>4, <1>5, <1>6, <1>7, <1>8, <1>9 DEF Step

LEMMA RestartRInv == ASSUME RInv, Restart PROVE RInv'
  <1>0. TypeOK /\ LimitsTypeOK'
    BY ForgetTyped DEF RInv, TypeOK, Restart
  <1>1. cut' \subseteq Reqs
    BY <1>0, CutsTyped DEF Restart, TypeOK
  <1>2. \A q \in Reqs : req'[q] \in {Answered, req[q]}
    BY DEF Restart
  <1>3. Answered \in Req /\ Placed(Answered) /\ Known(Answered) /\ Answered.pc = "over"
    BY DEF Answered, Req, Ops, Placed, Known
  <1>4. TypeOK'
    <2>1. req' \in [Reqs -> Req]
      BY <1>0, <1>3 DEF TypeOK, Restart
    <2>2. QED
      BY <1>0, <1>1, <2>1 DEF TypeOK, Restart
  <1>5. ASSUME NEW q \in Reqs PROVE (Placed(req[q]) /\ Known(req[q]) /\ Unwritten(q) /\ Rooted(q))'
    <2>1. Rooted(q)'
      BY DEF Restart, RInv, Rooted, Exists, SessionOf
    <2>2. CASE req'[q] = Answered
      BY <1>3, <2>1, <2>2 DEF Placed, Known, Unwritten
    <2>3. CASE req'[q] = req[q]
      BY <2>1, <2>3 DEF Restart, RInv, Placed, Known, Unwritten, Exists
    <2>4. QED
      BY <1>2, <2>2, <2>3
  <1>6. QED
    BY <1>4, <1>5 DEF RInv, Restart, Exists

LEMMA InitRInv == Init => RInv
  <1> SUFFICES ASSUME Init PROVE RInv
    OBVIOUS
  <1>1. LimitsTypeOK
    BY InitLimitsTyped DEF Init
  <1>2. \A p \in Reqs : req[p] = [op |-> "none", pc |-> "new", tok |-> "none"] /\ row[p] = NoRow
    BY DEF Init
  <1>3. TypeOK
    BY <1>1 DEF Init, TypeOK, Req, Ops
  <1>4. QED
    BY <1>2, <1>3 DEF Init, RInv, Placed, Known, Unwritten, Rooted, Exists

LEMMA NextRInv == ASSUME RInv, [Next]_vars PROVE RInv'
  <1>0. TypeOK /\ LimitsTypeOK
    BY DEF RInv, TypeOK
  <1>1. ASSUME NEW p \in Reqs, NEW c \in Clients,
               Arrive(p, c) \/ ArriveRefused(p, c) \/ ArriveSensitive(p, c)
        PROVE  RInv'
    <2>1. LimitsTypeOK'
      BY <1>0, <1>1, LimitStepTyped DEF LimitStep, Arrive, ArriveRefused, ArriveSensitive
    <2>2. QED
      BY <1>1, <2>1, EnterRInv DEF Arrive, ArriveRefused, ArriveSensitive
  <1>2. ASSUME NEW p \in Reqs, Step(p) PROVE RInv'
    BY <1>2, StepRInv DEF Step, Validate, Find, Mark, Create, Revoke, Fail
  <1>3. CASE Restart
    BY <1>3, RestartRInv
  <1>4. ASSUME LimitsTypeOK', UNCHANGED <<tokens, req>> PROVE RInv'
    <2>1. TypeOK'
      BY <1>0, <1>4 DEF TypeOK, tokens
    <2>2. QED
      BY <1>4, <2>1 DEF RInv, tokens, Placed, Known, Unwritten, Rooted, Exists, SessionOf
  <1>5. CASE Tick /\ UNCHANGED <<tokens, req>>
    <2>1. LimitsTypeOK'
      BY <1>0, <1>5, LimitAssumption DEF Tick, LimitsTypeOK, limits
    <2>2. QED
      BY <1>4, <1>5, <2>1
  <1>6. CASE UNCHANGED vars
    <2>1. LimitsTypeOK'
      BY <1>0, <1>6 DEF vars, LimitsTypeOK, limits
    <2>2. QED
      BY <1>4, <1>6, <2>1 DEF vars
  <1>7. QED
    BY <1>1, <1>2, <1>3, <1>5, <1>6 DEF Next

(* Every counter, row and request has its type, in the limiter             *)
(* (rate-limit.service.ts:76) and in the table (token.service.ts:189).     *)
THEOREM TokenTypeCorrect == Spec => []TypeOK
  <1>1. RInv => TypeOK
    BY DEF RInv
  <1>2. QED
    BY <1>1, InitRInv, NextRInv, PTL DEF Spec

-----------------------------------------------------------------------------
(***************************************************************************)
(* What the steps do to the table and to the exchanges under way.          *)
(***************************************************************************)
\* A refresh between the two statements of its exchange, or before the first.
Marking(p, t) == At(p, "refresh", "mark") /\ req[p].tok = t
Making(p, s) == At(p, "refresh", "create") /\ SessionOf(req[p].tok) = s
Unreplaced(t) == Exists(t) /\ row[t].by = "none"

\* No row changes, and no exchange comes about or goes on.
Quiet ==
  /\ row' = row /\ forked \subseteq forked' /\ cut \subseteq cut'
  /\ \A q \in Reqs : req'[q].op = "refresh" /\ req'[q].pc \in {"mark", "create"} => req'[q] = req[q]
  /\ \A q \in Reqs : At(q, "refresh", "create") /\ req'[q] # req[q] => SessionOf(req[q].tok) \in cut'

LEMMA StepEffects ==
  ASSUME RInv, [Next]_vars
  PROVE  \/ Quiet
         \/ \E p \in Reqs : \/ Find(p) /\ Live(req[p].tok) /\ Goto(p, "mark")
                            \/ Mark(p) \/ Create(p) \/ Revoke(p)
  <1>0. TypeOK
    BY DEF RInv
  <1>1. ASSUME NEW p \in Reqs, NEW c \in Clients,
               Arrive(p, c) \/ ArriveRefused(p, c) \/ ArriveSensitive(p, c)
        PROVE  Quiet
    <2>1. PICK op \in Ops, pc \in {"validate", "find", "revoke", "over"}, t \in Reqs \cup {"none"} :
            Enter(p, op, pc, t)
      BY <1>0, <1>1 DEF Arrive, ArriveRefused, ArriveSensitive, Ops, TypeOK
    <2>2. /\ req'[p].pc = pc /\ req[p].pc = "new"
          /\ \A q \in Reqs \ {p} : req'[q] = req[q]
      BY <1>0, <2>1 DEF Enter, TypeOK
    <2>3. QED
      BY <2>1, <2>2 DEF Enter, tokens, Quiet, At
  <1>2. ASSUME NEW p \in Reqs, Answer(p), row' = row, forked \subseteq forked', cut' = cut \cup Cuts(p)
        PROVE  Quiet
    <2>1. req'[p] = Answered /\ \A q \in Reqs \ {p} : req'[q] = req[q]
      BY <1>0, <1>2 DEF Answer, TypeOK
    <2>2. QED
      BY <1>2, <2>1 DEF Quiet, At, Answered, Cuts
  <1>3. ASSUME NEW p \in Reqs, Validate(p) PROVE Quiet
    <2>1. CASE Answer(p)
      <3>1. Cuts(p) = {}
        BY <1>3 DEF Validate, Cuts, At
      <3>2. cut' = cut \cup Cuts(p) /\ row' = row /\ forked' = forked
        BY <1>3, <3>1 DEF Validate, tokens
      <3>3. QED
        BY <1>2, <2>1, <3>2
    <2>2. CASE Goto(p, "create")
      <3>0. SetsReq(p, [op |-> req[p].op, pc |-> "create", tok |-> req[p].tok])
        BY <1>0, <2>2, GotoSets DEF Serving
      <3>1. req'[p].op = "issue" /\ \A q \in Reqs \ {p} : req'[q] = req[q]
        BY <1>3, <3>0 DEF Validate, At, SetsReq
      <3>2. QED
        BY <1>3, <3>1 DEF Validate, Quiet, At, tokens
    <2>3. QED
      BY <1>3, <2>1, <2>2 DEF Validate
  <1>4. ASSUME NEW p \in Reqs, Find(p), ~(Live(req[p].tok) /\ Goto(p, "mark")) PROVE Quiet
    BY <1>2, <1>4 DEF Find, Cuts, At
  <1>5. ASSUME NEW p \in Reqs, Fail(p) PROVE Quiet
    BY <1>2, <1>5 DEF Fail
  <1>6. CASE Restart
    <2>1. \A q \in Reqs : req'[q] = IF q \in Open THEN Answered ELSE req[q]
      BY <1>6 DEF Restart
    <2>2. \A q \in Reqs : Cuts(q) \subseteq cut'
      BY <1>6 DEF Restart
    <2>3. QED
      BY <1>6, <2>1, <2>2 DEF Restart, Quiet, Answered, Cuts
  <1>7. CASE UNCHANGED <<tokens, req>>
    BY <1>7 DEF tokens, Quiet
  <1>8. QED
    BY <1>1, <1>3, <1>4, <1>5, <1>6, <1>7 DEF Next, Step, vars

-----------------------------------------------------------------------------
(***************************************************************************)
(* The strengthening of OneLivePerSession.  A session that is not forked   *)
(* is a chain with one end: a row that is not replaced, or an exchange     *)
(* that has replaced one and not yet made the next.  Only such an end is   *)
(* about to be marked, by one exchange.                                    *)
(***************************************************************************)
OneEnd(s) ==
  /\ \A t, u \in Reqs :
       Unreplaced(t) /\ SessionOf(t) = s /\ Unreplaced(u) /\ SessionOf(u) = s => t = u
  /\ \A p, q \in Reqs : Making(p, s) /\ Making(q, s) => p = q
  /\ \A t, p \in Reqs : ~(Unreplaced(t) /\ SessionOf(t) = s /\ Making(p, s))

MarkedOnce(t) ==
  /\ \A p \in Reqs : Marking(p, t) => Unreplaced(t)
  /\ \A p, q \in Reqs : Marking(p, t) /\ Marking(q, t) => p = q

Chains == \A s \in Reqs : s \notin forked => OneEnd(s)

Marks == \A t \in Reqs : Exists(t) /\ SessionOf(t) \notin forked => MarkedOnce(t)

LEMMA QuietChains == ASSUME RInv, Chains, Marks, Quiet PROVE Chains' /\ Marks'
  <1>1. \A q \in Reqs, t \in Reqs : Marking(q, t)' => Marking(q, t)
    BY DEF Quiet, Marking, At
  <1>2. \A q \in Reqs, s \in Reqs : Making(q, s)' => Making(q, s)
    BY DEF Quiet, Making, At, SessionOf
  <1>3. \A t \in Reqs : /\ (Unreplaced(t)' <=> Unreplaced(t)) /\ SessionOf(t)' = SessionOf(t)
                        /\ (Exists(t)' <=> Exists(t))
    BY DEF Quiet, Unreplaced, Exists, SessionOf
  <1>4. Chains'
    BY <1>2, <1>3 DEF Quiet, Chains, OneEnd
  <1>5. Marks'
    BY <1>1, <1>3 DEF Quiet, Marks, MarkedOnce
  <1>6. QED
    BY <1>4, <1>5

LEMMA FindChains ==
  ASSUME RInv, Chains, Marks, NEW p \in Reqs, Find(p), Live(req[p].tok), Goto(p, "mark")
  PROVE  Chains' /\ Marks'
  <1>0. PICK t \in Reqs : t = req[p].tok /\ Exists(t)
    BY DEF Find, At, RInv, Known
  <1>1. req'[p] = [op |-> "refresh", pc |-> "mark", tok |-> t] /\ \A q \in Reqs \ {p} : req'[q] = req[q]
    BY <1>0, GotoSets DEF RInv, Find, At, SetsReq, Serving
  <1>2. At(p, "refresh", "find") /\ row' = row /\ Unreplaced(t)
    BY <1>0 DEF Find, Live, Unreplaced
  <1>3. /\ forked \subseteq forked'
        /\ (\E q \in Reqs : Marking(q, t)) => SessionOf(t) \in forked'
    <2>1. \/ forked' = IF \E q \in Reqs : At(q, "refresh", "mark") /\ req[q].tok = t
                        THEN forked \cup {SessionOf(t)} ELSE forked
          \/ Answer(p)
      BY <1>0 DEF Find
    <2>2. ~Answer(p)
      BY <1>1, AnswerSets DEF RInv, SetsReq, Answered
    <2>3. QED
      BY <2>1, <2>2 DEF Marking
  <1>4. \A q \in Reqs, s \in Reqs : Making(q, s)' => Making(q, s)
    BY <1>1, <1>2 DEF Making, At, SessionOf
  <1>5. \A q, u \in Reqs : Marking(q, u)' => Marking(q, u) \/ (q = p /\ u = t)
    BY <1>1 DEF Marking, At
  <1>6. \A u \in Reqs : /\ (Unreplaced(u)' <=> Unreplaced(u)) /\ SessionOf(u)' = SessionOf(u)
                        /\ (Exists(u)' <=> Exists(u))
    BY <1>2 DEF Unreplaced, Exists, SessionOf
  <1>7. Chains'
    BY <1>3, <1>4, <1>6 DEF Chains, OneEnd
  <1>8. Marks'
    BY <1>2, <1>3, <1>5, <1>6 DEF Marks, MarkedOnce
  <1>9. QED
    BY <1>7, <1>8

LEMMA MarkChains ==
  ASSUME RInv, Chains, Marks, NEW p \in Reqs, Mark(p)
  PROVE  Chains' /\ Marks'
  <1>0. PICK t \in Reqs : t = req[p].tok /\ Exists(t)
    BY DEF Mark, At, RInv, Known
  <1>1. req'[p] = [op |-> "refresh", pc |-> "create", tok |-> t] /\ \A q \in Reqs \ {p} : req'[q] = req[q]
    BY <1>0, GotoSets DEF RInv, Mark, At, SetsReq, Serving
  <1>2. Marking(p, t) /\ forked' = forked
    BY <1>0 DEF Mark, Marking
  <1>3. RowsKept
    BY <1>0, UpdateKeeps DEF Mark, RInv
  <1>4. row'[t].by = p /\ p # "none" /\ \A u \in Reqs \ {t} : row'[u] = row[u]
    <2>1. row[t] \in Row /\ row' = [row EXCEPT ![t] = [row[t] EXCEPT !.by = p]]
      BY <1>0, RowTyped DEF RInv, Mark
    <2>2. QED
      BY <2>1, ReqsAssumption DEF RInv, TypeOK, Row
  <1>5. \A u \in Reqs : Unreplaced(u)' <=> Unreplaced(u) /\ u # t
    BY <1>4 DEF Unreplaced, Exists
  <1>6. \A q, s \in Reqs : Making(q, s)' => Making(q, s) \/ (q = p /\ s = SessionOf(t))
    <2> SUFFICES ASSUME NEW q \in Reqs, NEW s \in Reqs, Making(q, s)'
                 PROVE  Making(q, s) \/ (q = p /\ s = SessionOf(t))
      OBVIOUS
    <2>1. CASE q = p
      BY <1>0, <1>1, <1>3, <2>1 DEF Making, RowsKept
    <2>2. CASE q # p
      <3>1. req'[q] = req[q]
        BY <1>1, <2>2
      <3>2. PICK u \in Reqs : u = req[q].tok
        BY <3>1 DEF Making, At, RInv, Known
      <3>3. SessionOf(u)' = s /\ At(q, "refresh", "create")
        BY <3>1, <3>2 DEF Making, At
      <3>4. QED
        BY <1>3, <3>2, <3>3 DEF Making, RowsKept
    <2>3. QED
      BY <2>1, <2>2
  <1>7. \A q, u \in Reqs : Marking(q, u)' => Marking(q, u) /\ q # p
    BY <1>1 DEF Marking, At
  <1>8. SessionOf(t) \notin forked => Unreplaced(t) /\ \A q \in Reqs : Marking(q, t) => q = p
    BY <1>0, <1>2 DEF Marks, MarkedOnce
  <1>9. Chains'
    <2> SUFFICES ASSUME NEW s \in Reqs, s \notin forked PROVE OneEnd(s)'
      BY <1>2 DEF Chains
    <2>1. OneEnd(s)
      BY DEF Chains
    <2>2. QED
      BY <1>3, <1>5, <1>6, <1>8, <2>1 DEF OneEnd, RowsKept
  <1>10. Marks'
    <2> SUFFICES ASSUME NEW u \in Reqs, Exists(u), SessionOf(u) \notin forked PROVE MarkedOnce(u)'
      BY <1>2, <1>3 DEF Marks, RowsKept
    <2>1. MarkedOnce(u)
      BY DEF Marks
    <2>2. QED
      BY <1>5, <1>7, <1>8, <2>1 DEF MarkedOnce
  <1>11. QED
    BY <1>9, <1>10

LEMMA CreateChains ==
  ASSUME RInv, Chains, Marks, NEW p \in Reqs, Create(p)
  PROVE  Chains' /\ Marks'
  <1>0. Placed(req[p]) /\ Known(req[p]) /\ ~Exists(p) /\ TypeOK
    BY DEF RInv, Unwritten, Create
  <1>1. req'[p] = Answered /\ \A q \in Reqs \ {p} : req'[q] = req[q]
    BY <1>0, AnswerSets DEF Create, SetsReq
  <1>2. /\ forked' = forked
        /\ row'[p] = [session |-> NewSession(p), revoked |-> FALSE, by |-> "none"]
        /\ \A u \in Reqs \ {p} : row'[u] = row[u]
    BY <1>0 DEF Create, TypeOK
  <1>3. SessionOf(p)' = NewSession(p)
    BY <1>2 DEF SessionOf
  <1>4. \A u \in Reqs : /\ Unreplaced(u)' => Unreplaced(u) \/ u = p
                        /\ Exists(u)' => Exists(u) \/ u = p
                        /\ u # p => SessionOf(u)' = SessionOf(u)
    BY <1>2 DEF Unreplaced, Exists, SessionOf
  <1>5. \A q, s \in Reqs : Making(q, s)' => Making(q, s) /\ q # p
    <2> SUFFICES ASSUME NEW q \in Reqs, NEW s \in Reqs, Making(q, s)'
                 PROVE  Making(q, s) /\ q # p
      OBVIOUS
    <2>1. q # p
      BY <1>1 DEF Making, At, Answered
    <2>2. req'[q] = req[q]
      BY <1>1, <2>1
    <2>3. PICK u \in Reqs : u = req[q].tok /\ Exists(u)
      BY <2>2 DEF Making, At, RInv, Known
    <2>4. SessionOf(u)' = s /\ At(q, "refresh", "create") /\ u # p
      BY <1>0, <2>2, <2>3 DEF Making, At
    <2>5. QED
      BY <1>4, <2>1, <2>3, <2>4 DEF Making, SessionOf
  <1>6. \A q, u \in Reqs : Marking(q, u)' => Marking(q, u) /\ q # p
    BY <1>1 DEF Marking, At, Answered
  <1>7. \A q \in Reqs : ~Marking(q, p)
    BY <1>0 DEF Marking, At, RInv, Known
  <1>8. \A u \in Reqs : Unreplaced(u) /\ u # p => Unreplaced(u)'
    BY <1>2 DEF Unreplaced, Exists
  <1>9. NewSession(p) \notin forked =>
          /\ \A u \in Reqs : Unreplaced(u) => SessionOf(u) # NewSession(p)
          /\ \A q \in Reqs \ {p} : ~Making(q, NewSession(p))
    <2>1. CASE req[p].op = "issue"
      <3>1. NewSession(p) = p
        BY <2>1 DEF NewSession
      <3>2. \A u \in Reqs : Exists(u) => SessionOf(u) # p
        BY <1>0 DEF RInv, Rooted
      <3>3. QED
        BY <3>1, <3>2 DEF Unreplaced, Making, At, RInv, Known
    <2>2. CASE req[p].op = "refresh"
      <3>1. Making(p, NewSession(p)) /\ NewSession(p) \in Reqs
        BY <1>0, <2>2, SessionsTyped DEF NewSession, Making, At, Create
      <3>2. QED
        BY <3>1 DEF Chains, OneEnd
    <2>3. QED
      BY <1>0, <2>1, <2>2 DEF Create, Placed
  <1>10. Chains'
    <2> SUFFICES ASSUME NEW s \in Reqs, s \notin forked PROVE OneEnd(s)'
      BY <1>2 DEF Chains
    <2>1. OneEnd(s)
      BY DEF Chains
    <2>2. \A q \in Reqs : Making(q, s)' => Making(q, s) /\ q # p
      BY <1>5
    <2>3. CASE s # NewSession(p)
      <3>1. \A u \in Reqs : Unreplaced(u)' /\ SessionOf(u)' = s => Unreplaced(u) /\ SessionOf(u) = s
        BY <1>3, <1>4, <2>3 DEF Unreplaced, Exists, SessionOf
      <3>2. QED
        BY <2>1, <2>2, <3>1 DEF OneEnd
    <2>4. CASE s = NewSession(p)
      <3>1. \A u \in Reqs : Unreplaced(u)' /\ SessionOf(u)' = s => u = p
        BY <1>4, <1>9, <2>4 DEF Unreplaced, Exists, SessionOf
      <3>2. \A q \in Reqs : ~Making(q, s)'
        BY <1>9, <2>2, <2>4
      <3>3. QED
        BY <3>1, <3>2 DEF OneEnd
    <2>5. QED
      BY <2>3, <2>4
  <1>11. Marks'
    <2> SUFFICES ASSUME NEW u \in Reqs, Exists(u)', SessionOf(u)' \notin forked PROVE MarkedOnce(u)'
      BY <1>2 DEF Marks
    <2>1. CASE u = p
      BY <1>6, <1>7, <2>1 DEF MarkedOnce
    <2>2. CASE u # p
      <3>0. Exists(u) /\ SessionOf(u) \notin forked
        BY <1>4, <2>2 DEF Exists, SessionOf
      <3>1. MarkedOnce(u)
        BY <3>0 DEF Marks
      <3>2. QED
        BY <1>6, <1>8, <2>2, <3>1 DEF MarkedOnce
    <2>3. QED
      BY <2>1, <2>2
  <1>12. QED
    BY <1>10, <1>11

LEMMA RevokeChains ==
  ASSUME RInv, Chains, Marks, NEW p \in Reqs, Revoke(p)
  PROVE  Chains' /\ Marks'
  <1>0. PICK t \in Reqs : t = req[p].tok /\ Exists(t)
    BY DEF Revoke, At, RInv, Known
  <1>1. req'[p] = Answered /\ \A q \in Reqs \ {p} : req'[q] = req[q]
    BY AnswerSets DEF Revoke, SetsReq, RInv
  <1>2. RowsKept /\ forked' = forked
    BY <1>0, UpdateKeeps DEF Revoke, RInv
  <1>3. \A u \in Reqs : row'[u].by = row[u].by
    <2>1. row[t] \in Row /\ row' = [row EXCEPT ![t] = [row[t] EXCEPT !.revoked = TRUE]]
      BY <1>0, RowTyped DEF RInv, Revoke
    <2>2. QED
      BY <2>1 DEF RInv, TypeOK, Row
  <1>4. \A u \in Reqs : Unreplaced(u)' <=> Unreplaced(u)
    BY <1>2, <1>3 DEF Unreplaced, RowsKept
  <1>5. \A q, s \in Reqs : Making(q, s)' => Making(q, s)
    BY <1>1, <1>2 DEF Making, At, Answered, RowsKept, RInv, Known
  <1>6. \A q, u \in Reqs : Marking(q, u)' => Marking(q, u)
    BY <1>1 DEF Marking, At, Answered
  <1>7. Chains'
    BY <1>2, <1>4, <1>5 DEF Chains, OneEnd, RowsKept
  <1>8. Marks'
    BY <1>2, <1>4, <1>6 DEF Marks, MarkedOnce, RowsKept
  <1>9. QED
    BY <1>7, <1>8

ChainInv == RInv /\ Chains /\ Marks

LEMMA InitChains == Init => ChainInv
  <1> SUFFICES ASSUME Init PROVE Chains /\ Marks
    BY InitRInv DEF ChainInv
  <1>1. \A t \in Reqs : ~Exists(t) /\ req[t].op = "none"
    BY DEF Init, Exists
  <1>2. QED
    BY <1>1 DEF Chains, OneEnd, Marks, Unreplaced, Making, At

LEMMA NextChains == ChainInv /\ [Next]_vars => ChainInv'
  BY NextRInv, StepEffects, QuietChains, FindChains, MarkChains, CreateChains, RevokeChains
  DEF ChainInv

(* Rotation, however exchanges, revocations, failures and restarts follow  *)
(* each other: a session has one live token, unless two exchanges of one   *)
(* token both read it before either marked it (token.service.ts:262).      *)
THEOREM RotationLeavesOne == Spec => []OneLivePerSession
  <1>1. ChainInv => OneLivePerSession
    <2> SUFFICES ASSUME ChainInv, NEW t \in Reqs, NEW u \in Reqs, Live(t), Live(u),
                        SessionOf(t) = SessionOf(u), SessionOf(t) \notin forked
                 PROVE  t = u
      BY DEF OneLivePerSession
    <2>1. SessionOf(t) \in Reqs /\ Unreplaced(t) /\ Unreplaced(u)
      BY RowTyped DEF ChainInv, RInv, Live, Unreplaced
    <2>2. QED
      BY <2>1 DEF ChainInv, Chains, OneEnd
  <1>2. QED
    BY <1>1, InitChains, NextChains, PTL DEF Spec

-----------------------------------------------------------------------------
(***************************************************************************)
(* The strengthening of SessionsSurvive: a session that is not cut has a   *)
(* live token, or an exchange that is about to create one.                 *)
(***************************************************************************)
Alive(s) == (\E t \in Reqs : Live(t) /\ SessionOf(t) = s) \/ \E p \in Reqs : Making(p, s)

Survive == \A s \in Reqs : Exists(s) /\ SessionOf(s) = s /\ s \notin cut => Alive(s)

\* A step that changes no token of a session, nor the exchanges that make one.
LEMMA AliveStays ==
  ASSUME NEW s \in Reqs, Alive(s), s \notin cut',
         \A t \in Reqs : row'[t] = row[t] \/ ~Live(t) \/ SessionOf(t) # s,
         \A p \in Reqs : Making(p, s) => Making(p, s)'
  PROVE  Alive(s)'
  BY DEF Alive, Live, Exists, SessionOf

LEMMA QuietSurvive == ASSUME RInv, Survive, Quiet PROVE Survive'
  <1> SUFFICES ASSUME NEW s \in Reqs, Exists(s)', SessionOf(s)' = s, s \notin cut'
               PROVE  Alive(s)'
    BY DEF Survive
  <1>1. Alive(s)
    BY DEF Quiet, Survive, Exists, SessionOf
  <1>2. \A t \in Reqs : row'[t] = row[t]
    BY DEF Quiet
  <1>3. \A p \in Reqs : Making(p, s) => Making(p, s)'
    BY DEF Quiet, Making, At, SessionOf
  <1>4. QED
    BY <1>1, <1>2, <1>3, AliveStays

LEMMA StepSurvive ==
  ASSUME RInv, Survive, NEW p \in Reqs,
         (Find(p) /\ Live(req[p].tok) /\ Goto(p, "mark")) \/ Mark(p) \/ Create(p) \/ Revoke(p)
  PROVE  Survive'
  <1>0. Placed(req[p]) /\ Known(req[p]) /\ ~Exists(p) /\ TypeOK
    BY DEF RInv, Unwritten, Find, Mark, Create, Revoke, At
  <1> SUFFICES ASSUME NEW s \in Reqs, Exists(s)', SessionOf(s)' = s, s \notin cut'
               PROVE  Alive(s)'
    BY DEF Survive
  <1>1. CASE Find(p) /\ Live(req[p].tok) /\ Goto(p, "mark")
    <2>1. row' = row /\ cut' = cut /\ ~At(p, "refresh", "create")
      BY <1>1 DEF Find, At
    <2>2. \A q \in Reqs \ {p} : req'[q] = req[q]
      BY <1>0, <1>1 DEF Goto, TypeOK
    <2>3. Alive(s)
      BY <2>1 DEF Survive, Exists, SessionOf
    <2>4. \A q \in Reqs : Making(q, s) => Making(q, s)'
      BY <2>1, <2>2 DEF Making, At, SessionOf
    <2>5. QED
      BY <2>1, <2>3, <2>4, AliveStays
  <1>2. CASE Mark(p)
    <2>0. PICK t \in Reqs : t = req[p].tok /\ Exists(t)
      BY <1>0, <1>2 DEF Mark, At, Known
    <2>1. RowsKept /\ cut' = cut /\ ~At(p, "refresh", "create")
      BY <1>0, <1>2, <2>0, UpdateKeeps DEF Mark, At
    <2>2. /\ req'[p] = [op |-> "refresh", pc |-> "create", tok |-> t]
          /\ \A q \in Reqs \ {p} : req'[q] = req[q]
      BY <1>0, <1>2, <2>0, GotoSets DEF Mark, At, SetsReq, Serving
    <2>3. Alive(s)
      BY <2>1 DEF Survive, RowsKept
    <2>4. CASE SessionOf(t) = s
      <3>1. Making(p, s)'
        BY <2>1, <2>2, <2>4 DEF Making, At, RowsKept
      <3>2. QED
        BY <3>1 DEF Alive
    <2>5. CASE SessionOf(t) # s
      <3>1. \A u \in Reqs \ {t} : row'[u] = row[u]
        BY <1>0, <1>2, <2>0 DEF Mark, TypeOK
      <3>2. ASSUME NEW q \in Reqs, Making(q, s) PROVE Making(q, s)'
        <4>1. q # p /\ req'[q] = req[q]
          BY <2>1, <2>2, <3>2 DEF Making
        <4>2. PICK u \in Reqs : u = req[q].tok
          BY <3>2 DEF Making, At, RInv, Known
        <4>3. SessionOf(u)' = s
          BY <2>1, <3>2, <4>2 DEF Making, RowsKept
        <4>4. QED
          BY <3>2, <4>1, <4>2, <4>3 DEF Making, At
      <3>3. QED
        BY <2>3, <2>5, <3>1, <3>2, AliveStays
    <2>6. QED
      BY <2>4, <2>5
  <1>3. CASE Create(p)
    <2>1. /\ cut' = cut
          /\ row'[p] = [session |-> NewSession(p), revoked |-> FALSE, by |-> "none"]
          /\ \A u \in Reqs \ {p} : row'[u] = row[u]
      BY <1>0, <1>3 DEF Create, TypeOK
    <2>2. \A q \in Reqs \ {p} : req'[q] = req[q]
      BY <1>0, <1>3, AnswerSets DEF Create, SetsReq
    <2>3. CASE NewSession(p) = s
      <3>1. SessionOf(p)' = s /\ Live(p)'
        BY <2>1, <2>3, ReqsAssumption DEF SessionOf, Live, Exists, NoRow
      <3>2. QED
        BY <3>1 DEF Alive
    <2>4. CASE NewSession(p) # s
      <3>1. s # p
        <4>1. SessionOf(p)' = NewSession(p)
          BY <2>1 DEF SessionOf
        <4>2. QED
          BY <2>4, <4>1
      <3>2. Alive(s)
        BY <2>1, <3>1 DEF Survive, Exists, SessionOf
      <3>3. ~Making(p, s)
        BY <2>4 DEF Making, At, NewSession
      <3>4. ASSUME NEW q \in Reqs, Making(q, s) PROVE Making(q, s)'
        <4>1. q # p /\ req'[q] = req[q]
          BY <2>2, <3>3, <3>4
        <4>2. PICK u \in Reqs : u = req[q].tok /\ Exists(u)
          BY <3>4 DEF Making, At, RInv, Known
        <4>3. SessionOf(u)' = s
          BY <1>0, <2>1, <3>4, <4>2 DEF Making, SessionOf
        <4>4. QED
          BY <3>4, <4>1, <4>2, <4>3 DEF Making, At
      <3>5. QED
        BY <1>0, <2>1, <3>2, <3>4, AliveStays DEF Live
    <2>5. QED
      BY <2>3, <2>4
  <1>4. CASE Revoke(p)
    <2>0. PICK t \in Reqs : t = req[p].tok /\ Exists(t)
      BY <1>0, <1>4 DEF Revoke, At, Known
    <2>1. /\ RowsKept /\ ~At(p, "refresh", "create")
          /\ cut' = IF Live(t) THEN cut \cup {SessionOf(t)} ELSE cut
          /\ \A u \in Reqs \ {t} : row'[u] = row[u]
      BY <1>0, <1>4, <2>0, UpdateKeeps DEF Revoke, At, TypeOK
    <2>2. \A q \in Reqs \ {p} : req'[q] = req[q]
      BY <1>0, <1>4, AnswerSets DEF Revoke, SetsReq
    <2>3. s \notin cut /\ (Live(t) => SessionOf(t) # s)
      BY <2>1
    <2>4. Alive(s)
      BY <2>1, <2>3 DEF Survive, RowsKept
    <2>5. ASSUME NEW q \in Reqs, Making(q, s) PROVE Making(q, s)'
      <3>1. q # p /\ req'[q] = req[q]
        BY <2>1, <2>2, <2>5 DEF Making
      <3>2. PICK u \in Reqs : u = req[q].tok
        BY <2>5 DEF Making, At, RInv, Known
      <3>3. SessionOf(u)' = s
        BY <2>1, <2>5, <3>2 DEF Making, RowsKept
      <3>4. QED
        BY <2>5, <3>1, <3>2, <3>3 DEF Making, At
    <2>6. QED
      BY <2>1, <2>3, <2>4, <2>5, AliveStays
  <1>5. QED
    BY <1>1, <1>2, <1>3, <1>4

(* No session is lost: while nobody exchanges its token it has a live one, *)
(* unless it was revoked or an exchange failed between its two statements  *)
(* (token.service.ts:300), even when exchanges of one token meet.          *)
THEOREM SessionsAreKept == Spec => []SessionsSurvive
  <1> DEFINE Inv == RInv /\ Survive
  <1>1. Init => Inv
    BY InitRInv DEF Init, Survive, Exists
  <1>2. Inv /\ [Next]_vars => Inv'
    BY NextRInv, StepEffects, QuietSurvive, StepSurvive
  <1>3. Inv => SessionsSurvive
    BY DEF SessionsSurvive, Survive, Alive, Exchanging, Making, At
  <1>4. QED
    BY <1>1, <1>2, <1>3, PTL DEF Spec

-----------------------------------------------------------------------------
\* A session stays dead when a step makes no token of it live and starts no exchange.
LEMMA DeadStays ==
  ASSUME NEW s \in Reqs, Dead(s), Exists(s)',
         \A t \in Reqs : Live(t)' /\ SessionOf(t)' = s => Live(t) /\ SessionOf(t) = s,
         \A q \in Reqs : /\ req'[q].op = "refresh" /\ req'[q].pc \in {"mark", "create"}
                         /\ SessionOf(req[q].tok)' = s
                       => Exchanging(s)
  PROVE  Dead(s)'
  BY DEF Dead, Exchanging

LEMMA StepDead == ASSUME RInv, [Next]_vars, NEW s \in Reqs, Dead(s) PROVE Dead(s)'
  <1>0. TypeOK /\ Exists(s)
    BY DEF RInv, Dead
  <1>1. CASE Quiet
    <2>1. /\ Exists(s)'
          /\ \A t \in Reqs : Live(t)' /\ SessionOf(t)' = s => Live(t) /\ SessionOf(t) = s
      BY <1>0, <1>1 DEF Quiet, Live, Exists, SessionOf
    <2>2. ASSUME NEW q \in Reqs, req'[q].op = "refresh", req'[q].pc \in {"mark", "create"},
                 SessionOf(req[q].tok)' = s
          PROVE  Exchanging(s)
      BY <1>1, <2>2 DEF Quiet, Exchanging, SessionOf
    <2>3. QED
      BY <2>1, <2>2, DeadStays
  <1>2. ASSUME NEW p \in Reqs, RowsKept, Known(req[p]),
               \A t \in Reqs : Live(t)' => Live(t),
               \A q \in Reqs \ {p} : req'[q] = req[q],
               \/ req'[p] = Answered
               \/ req'[p].tok = req[p].tok /\ req[p].op = "refresh"
                  /\ (req[p].pc = "mark" \/ Live(req[p].tok))
        PROVE  Dead(s)'
    <2>1. /\ Exists(s)'
          /\ \A t \in Reqs : Live(t)' /\ SessionOf(t)' = s => Live(t) /\ SessionOf(t) = s
      BY <1>0, <1>2 DEF RowsKept
    <2>2. ASSUME NEW q \in Reqs, req'[q].op = "refresh", req'[q].pc \in {"mark", "create"},
                 SessionOf(req[q].tok)' = s
          PROVE  Exchanging(s)
      <3>1. req'[q].tok = req[q].tok /\ req[q].op = "refresh"
        BY <1>2, <2>2 DEF Answered
      <3>2. PICK u \in Reqs : u = req[q].tok
        BY <3>1 DEF RInv, Known
      <3>3. SessionOf(u) = s
        <4>1. SessionOf(u)' = s
          BY <2>2, <3>1, <3>2 DEF SessionOf
        <4>2. QED
          BY <1>2, <4>1 DEF RowsKept
      <3>4. CASE req[q].pc \in {"mark", "create"}
        BY <3>1, <3>2, <3>3, <3>4 DEF Exchanging
      <3>5. CASE q = p /\ Live(req[p].tok)
        BY <3>2, <3>3, <3>5 DEF Dead
      <3>6. QED
        BY <1>2, <2>2, <3>4, <3>5 DEF Answered
    <2>3. QED
      BY <2>1, <2>2, DeadStays
  <1>3. ASSUME NEW p \in Reqs, Find(p), Live(req[p].tok), Goto(p, "mark") PROVE Dead(s)'
    <2>1. RowsKept /\ \A t \in Reqs : Live(t)' => Live(t)
      BY <1>0, <1>3, UnchangedKeeps DEF Find, Live, Exists
    <2>2. \A q \in Reqs \ {p} : req'[q] = req[q]
      BY <1>0, <1>3 DEF Goto, TypeOK
    <2>3. req'[p].tok = req[p].tok /\ req[p].op = "refresh"
      <3>1. SetsReq(p, [op |-> req[p].op, pc |-> "mark", tok |-> req[p].tok])
        BY <1>0, <1>3, GotoSets DEF Serving
      <3>2. QED
        BY <1>3, <3>1 DEF Find, At, SetsReq
    <2>4. QED
      BY <1>2, <1>3, <2>1, <2>2, <2>3 DEF RInv
  <1>4. ASSUME NEW p \in Reqs, Mark(p) \/ Revoke(p) PROVE Dead(s)'
    <2>0. PICK t \in Reqs : t = req[p].tok /\ Exists(t)
      BY <1>4 DEF Mark, Revoke, At, RInv, Known
    <2>1. RowsKept
      BY <1>0, <1>4, <2>0, UpdateKeeps DEF Mark, Revoke
    <2>2. ASSUME NEW u \in Reqs, Live(u)' PROVE Live(u)
      <3>1. CASE u # t
        BY <1>0, <1>4, <2>0, <2>2, <3>1 DEF Mark, Revoke, Live, Exists, TypeOK
      <3>2. CASE u = t
        <4>1. row[t] \in Row /\ p # "none"
          BY <1>0, <2>0, RowTyped, ReqsAssumption
        <4>2. row'[t] = [row[t] EXCEPT !.by = p] \/ row'[t] = [row[t] EXCEPT !.revoked = TRUE]
          BY <1>0, <1>4, <2>0 DEF Mark, Revoke, TypeOK
        <4>3. row'[t].by = p \/ row'[t].revoked
          BY <4>1, <4>2 DEF Row
        <4>4. QED
          BY <2>2, <3>2, <4>1, <4>3 DEF Live
      <3>3. QED
        BY <3>1, <3>2
    <2>3. \A q \in Reqs \ {p} : req'[q] = req[q]
      BY <1>0, <1>4 DEF Mark, Revoke, Goto, Answer, TypeOK
    <2>4. CASE Mark(p)
      <3>1. req'[p].tok = req[p].tok /\ req[p].op = "refresh" /\ req[p].pc = "mark"
        <4>1. SetsReq(p, [op |-> req[p].op, pc |-> "create", tok |-> req[p].tok])
          BY <1>0, <2>4, GotoSets DEF Mark, Serving
        <4>2. QED
          BY <2>4, <4>1 DEF Mark, At, SetsReq
      <3>2. QED
        BY <1>2, <2>1, <2>2, <2>3, <3>1 DEF RInv
    <2>5. CASE Revoke(p)
      <3>1. req'[p] = Answered
        BY <1>0, <2>5, AnswerSets DEF Revoke, SetsReq
      <3>2. QED
        BY <1>2, <2>1, <2>2, <2>3, <3>1 DEF RInv
    <2>6. QED
      BY <1>4, <2>4, <2>5
  <1>5. ASSUME NEW p \in Reqs, Create(p) PROVE Dead(s)'
    <2>0. Placed(req[p]) /\ Known(req[p]) /\ ~Exists(p) /\ s # p
      BY <1>0, <1>5 DEF RInv, Unwritten, Create
    <2>1. /\ row'[p] = [session |-> NewSession(p), revoked |-> FALSE, by |-> "none"]
          /\ \A u \in Reqs \ {p} : row'[u] = row[u]
          /\ req'[p] = Answered /\ \A q \in Reqs \ {p} : req'[q] = req[q]
      BY <1>0, <1>5, AnswerSets DEF Create, TypeOK, SetsReq
    <2>2. NewSession(p) # s
      BY <1>5, <2>0 DEF Create, Placed, NewSession, Dead, Exchanging
    <2>3. Exists(s)'
      BY <1>0, <2>0, <2>1 DEF Exists
    <2>4. \A t \in Reqs : Live(t)' /\ SessionOf(t)' = s => Live(t) /\ SessionOf(t) = s
      BY <2>1, <2>2 DEF Live, Exists, SessionOf
    <2>5. ASSUME NEW q \in Reqs, req'[q].op = "refresh", req'[q].pc \in {"mark", "create"},
                 SessionOf(req[q].tok)' = s
          PROVE  Exchanging(s)
      <3>1. q # p /\ req'[q] = req[q]
        BY <2>1, <2>5 DEF Answered
      <3>2. PICK u \in Reqs : u = req[q].tok /\ Exists(u)
        BY <2>5, <3>1 DEF RInv, Known
      <3>3. SessionOf(u) = s
        BY <2>0, <2>1, <2>5, <3>1, <3>2 DEF SessionOf
      <3>4. QED
        BY <2>5, <3>1, <3>2, <3>3 DEF Exchanging
    <2>6. QED
      BY <2>3, <2>4, <2>5, DeadStays
  <1>6. QED
    BY <1>1, <1>3, <1>4, <1>5, StepEffects

\* A spent token stays spent in a step that makes no token live, and nobody
\* begins to exchange it in a step that only moves an exchange of it on.
LEMMA SpentStays ==
  ASSUME NEW t \in Reqs, Spent(t), Exists(t)', Live(t)' => Live(t),
         \A q \in Reqs : /\ req'[q].op = "refresh" /\ req'[q].pc \in {"mark", "create"}
                         /\ req'[q].tok = t
                       => Exchanged(t)
  PROVE  Spent(t)' /\ (Exchanged(t)' => Exchanged(t))
  BY DEF Spent, Exchanged

LEMMA StepSpent ==
  ASSUME RInv, [Next]_vars, NEW t \in Reqs, Spent(t)
  PROVE  Spent(t)' /\ (Exchanged(t)' => Exchanged(t))
  <1>0. TypeOK /\ Exists(t)
    BY DEF RInv, Spent
  <1>1. CASE Quiet
    <2>1. Exists(t)' /\ (Live(t)' => Live(t))
      BY <1>0, <1>1 DEF Quiet, Live, Exists
    <2>2. ASSUME NEW q \in Reqs, req'[q].op = "refresh", req'[q].pc \in {"mark", "create"},
                 req'[q].tok = t
          PROVE  Exchanged(t)
      BY <1>1, <2>2 DEF Quiet, Exchanged
    <2>3. QED
      BY <2>1, <2>2, SpentStays
  <1>2. ASSUME NEW p \in Reqs, Find(p), Live(req[p].tok), Goto(p, "mark")
        PROVE  Spent(t)' /\ (Exchanged(t)' => Exchanged(t))
    <2>1. Exists(t)' /\ (Live(t)' => Live(t))
      BY <1>0, <1>2 DEF Find, Live, Exists
    <2>2. /\ req'[p].tok = req[p].tok /\ req[p].tok # t
          /\ \A q \in Reqs \ {p} : req'[q] = req[q]
      <3>1. SetsReq(p, [op |-> req[p].op, pc |-> "mark", tok |-> req[p].tok])
        BY <1>0, <1>2, GotoSets DEF Serving
      <3>2. QED
        BY <1>2, <3>1 DEF SetsReq, Spent
    <2>3. ASSUME NEW q \in Reqs, req'[q].op = "refresh", req'[q].pc \in {"mark", "create"},
                 req'[q].tok = t
          PROVE  Exchanged(t)
      BY <2>2, <2>3 DEF Exchanged
    <2>4. QED
      BY <2>1, <2>3, SpentStays
  <1>3. ASSUME NEW p \in Reqs, Mark(p)
        PROVE  Spent(t)' /\ (Exchanged(t)' => Exchanged(t))
    <2>0. PICK u \in Reqs : u = req[p].tok /\ Exists(u)
      BY <1>3 DEF Mark, At, RInv, Known
    <2>1. RowsKept
      BY <1>0, <1>3, <2>0, UpdateKeeps DEF Mark
    <2>2. Live(t)' => Live(t)
      <3>1. CASE t # u
        BY <1>0, <1>3, <2>0, <3>1 DEF Mark, Live, Exists, TypeOK
      <3>2. CASE t = u
        <4>1. row[t] \in Row /\ p # "none" /\ row'[t] = [row[t] EXCEPT !.by = p]
          BY <1>0, <1>3, <2>0, <3>2, RowTyped, ReqsAssumption DEF Mark, TypeOK
        <4>2. row'[t].by = p
          BY <4>1 DEF Row
        <4>3. QED
          BY <4>1, <4>2 DEF Live
      <3>3. QED
        BY <3>1, <3>2
    <2>3. /\ req'[p] = [op |-> "refresh", pc |-> "create", tok |-> u] /\ Exchanged(u)
          /\ \A q \in Reqs \ {p} : req'[q] = req[q]
      <3>1. SetsReq(p, [op |-> req[p].op, pc |-> "create", tok |-> req[p].tok])
        BY <1>0, <1>3, GotoSets DEF Mark, Serving
      <3>2. QED
        BY <1>3, <2>0, <3>1 DEF SetsReq, Mark, At, Exchanged
    <2>4. ASSUME NEW q \in Reqs, req'[q].op = "refresh", req'[q].pc \in {"mark", "create"},
                 req'[q].tok = t
          PROVE  Exchanged(t)
      BY <2>3, <2>4 DEF Exchanged
    <2>5. QED
      BY <1>0, <2>1, <2>2, <2>4, SpentStays DEF RowsKept
  <1>4. ASSUME NEW p \in Reqs, Revoke(p)
        PROVE  Spent(t)' /\ (Exchanged(t)' => Exchanged(t))
    <2>0. PICK u \in Reqs : u = req[p].tok /\ Exists(u)
      BY <1>4 DEF Revoke, At, RInv, Known
    <2>1. RowsKept
      BY <1>0, <1>4, <2>0, UpdateKeeps DEF Revoke
    <2>2. Live(t)' => Live(t)
      <3>1. CASE t # u
        BY <1>0, <1>4, <2>0, <3>1 DEF Revoke, Live, Exists, TypeOK
      <3>2. CASE t = u
        <4>1. row[t] \in Row /\ row'[t] = [row[t] EXCEPT !.revoked = TRUE]
          BY <1>0, <1>4, <2>0, <3>2, RowTyped DEF Revoke, TypeOK
        <4>2. row'[t].revoked
          BY <4>1 DEF Row
        <4>3. QED
          BY <4>2 DEF Live
      <3>3. QED
        BY <3>1, <3>2
    <2>3. req'[p] = Answered /\ \A q \in Reqs \ {p} : req'[q] = req[q]
      BY <1>0, <1>4, AnswerSets DEF Revoke, SetsReq
    <2>4. ASSUME NEW q \in Reqs, req'[q].op = "refresh", req'[q].pc \in {"mark", "create"},
                 req'[q].tok = t
          PROVE  Exchanged(t)
      BY <2>3, <2>4 DEF Exchanged, Answered
    <2>5. QED
      BY <1>0, <2>1, <2>2, <2>4, SpentStays DEF RowsKept
  <1>5. ASSUME NEW p \in Reqs, Create(p)
        PROVE  Spent(t)' /\ (Exchanged(t)' => Exchanged(t))
    <2>1. ~Exists(p)
      BY <1>5 DEF RInv, Unwritten, Create
    <2>2. row'[t] = row[t]
      BY <1>0, <1>5, <2>1 DEF Create, TypeOK
    <2>3. req'[p] = Answered /\ \A q \in Reqs \ {p} : req'[q] = req[q]
      BY <1>0, <1>5, AnswerSets DEF Create, SetsReq
    <2>4. ASSUME NEW q \in Reqs, req'[q].op = "refresh", req'[q].pc \in {"mark", "create"},
                 req'[q].tok = t
          PROVE  Exchanged(t)
      BY <2>3, <2>4 DEF Exchanged, Answered
    <2>5. Exists(t)' /\ (Live(t)' => Live(t))
      BY <1>0, <2>2 DEF Exists, Live
    <2>6. QED
      BY <2>4, <2>5, SpentStays
  <1>6. QED
    BY <1>1, <1>2, <1>3, <1>4, <1>5, StepEffects

(* A token that was revoked or replaced stays so, and no exchange of it    *)
(* begins any more.  A session without a live token and without an         *)
(* exchange under way never has one again, whatever old token of it is     *)
(* presented or revoked (token.service.ts:378).                            *)
THEOREM DeadSessionsStayDead == Spec => DeadStaysDead
  <1>1. RInv /\ [Next]_vars =>
          [/\ \A t \in Reqs : Spent(t) => Spent(t)' /\ (Exchanged(t)' => Exchanged(t))
           /\ \A s \in Reqs : Dead(s) => Dead(s)']_vars
    BY StepDead, StepSpent
  <1>2. QED
    BY <1>1, InitRInv, NextRInv, PTL DEF Spec, DeadStaysDead

-----------------------------------------------------------------------------
(***************************************************************************)
(* The refinement of Session.  Of a session that is not forked, what holds *)
(* the token is the one end of its chain; a step that makes no row leaves  *)
(* it or ends the session, and the row that is made takes its place.       *)
(***************************************************************************)
LEMMA HolderIsEnd ==
  ASSUME RInv, Marks, NEW s \in Reqs, s \notin forked, NEW t \in Holding(s)
  PROVE  /\ t \in Reqs /\ Exists(t) /\ SessionOf(t) = s
         /\ \/ Unreplaced(t)
            \/ \E p \in Reqs : At(p, "refresh", "create") /\ req[p].tok = t /\ Making(p, s)
  <1>1. t \in Reqs /\ Exists(t) /\ SessionOf(t) = s
    BY DEF Holding, Used
  <1>2. CASE Live(t)
    BY <1>1, <1>2 DEF Live, Unreplaced
  <1>3. ASSUME NEW p \in Reqs, Marking(p, t) PROVE Unreplaced(t)
    BY <1>1, <1>3 DEF Marks, MarkedOnce
  <1>4. CASE Exchanged(t)
    BY <1>1, <1>3, <1>4 DEF Exchanged, Marking, Making, At
  <1>5. QED
    BY <1>1, <1>2, <1>4 DEF Holding

LEMMA OneHolder ==
  ASSUME RInv, Chains, Marks, NEW s \in Reqs, s \notin forked,
         NEW t \in Holding(s), NEW u \in Holding(s)
  PROVE  t = u
  <1>1. OneEnd(s)
    BY DEF Chains
  <1>2. QED
    BY <1>1, HolderIsEnd DEF OneEnd

\* A step of a session that makes no token of it.
Narrows(s) ==
  /\ Used(s)' = Used(s)
  /\ \A t \in Used(s) : (Live(t) \/ Exchanged(t))' => Live(t) \/ Exchanged(t)

KeptOrNext(s) == UNCHANGED <<Used(s), Holding(s)>> \/ Lineage(s)!Next

LEMMA NarrowKeeps ==
  ASSUME RInv, Chains, Marks, NEW s \in Reqs, s \notin forked, Narrows(s)
  PROVE  KeptOrNext(s)
  <1>1. Holding(s)' \subseteq Holding(s)
    BY DEF Narrows, Holding
  <1>2. Holding(s)' = Holding(s) \/ (Holding(s)' = {} /\ Holding(s) # {})
    BY <1>1, OneHolder
  <1>3. QED
    BY <1>2 DEF KeptOrNext, Narrows, Lineage!Next, Lineage!End

LEMMA QuietNarrows == ASSUME RInv, NEW s \in Reqs, Quiet PROVE Narrows(s)
  <1>1. \A t \in Reqs : /\ (Exists(t)' <=> Exists(t)) /\ SessionOf(t)' = SessionOf(t)
                        /\ (Live(t)' <=> Live(t))
    BY DEF Quiet, Exists, SessionOf, Live
  <1>2. \A t \in Reqs : Exchanged(t)' => Exchanged(t)
    BY DEF Quiet, Exchanged
  <1>3. QED
    BY <1>1, <1>2 DEF Narrows, Used

LEMMA FindNarrows ==
  ASSUME RInv, NEW s \in Reqs, NEW p \in Reqs, Find(p), Live(req[p].tok), Goto(p, "mark")
  PROVE  Narrows(s)
  <1>0. PICK t \in Reqs : t = req[p].tok
    BY DEF Find, At, RInv, Known
  <1>1. req'[p] = [op |-> "refresh", pc |-> "mark", tok |-> t] /\ \A q \in Reqs \ {p} : req'[q] = req[q]
    BY <1>0, GotoSets DEF RInv, Find, At, SetsReq, Serving
  <1>2. \A u \in Reqs : Exchanged(u)' => Exchanged(u) \/ Live(u)
    BY <1>0, <1>1 DEF Exchanged
  <1>3. \A u \in Reqs : /\ (Exists(u)' <=> Exists(u)) /\ SessionOf(u)' = SessionOf(u)
                        /\ (Live(u)' <=> Live(u))
    BY DEF Find, Exists, SessionOf, Live
  <1>4. QED
    BY <1>2, <1>3 DEF Narrows, Used

LEMMA MarkNarrows ==
  ASSUME RInv, NEW s \in Reqs, NEW p \in Reqs, Mark(p)
  PROVE  Narrows(s)
  <1>0. PICK t \in Reqs : t = req[p].tok /\ Exists(t)
    BY DEF Mark, At, RInv, Known
  <1>1. req'[p] = [op |-> "refresh", pc |-> "create", tok |-> t] /\ \A q \in Reqs \ {p} : req'[q] = req[q]
    BY <1>0, GotoSets DEF RInv, Mark, At, SetsReq, Serving
  <1>2. RowsKept
    BY <1>0, UpdateKeeps DEF Mark, RInv
  <1>3. Exchanged(t) /\ \A u \in Reqs : Exchanged(u)' => Exchanged(u)
    BY <1>0, <1>1 DEF Exchanged, Mark, At
  <1>4. \A u \in Reqs \ {t} : Live(u)' => Live(u)
    BY <1>0 DEF Mark, RInv, TypeOK, Live, Exists
  <1>5. QED
    BY <1>2, <1>3, <1>4 DEF Narrows, Used, RowsKept

LEMMA RevokeNarrows ==
  ASSUME RInv, NEW s \in Reqs, NEW p \in Reqs, Revoke(p)
  PROVE  Narrows(s)
  <1>0. PICK t \in Reqs : t = req[p].tok /\ Exists(t)
    BY DEF Revoke, At, RInv, Known
  <1>1. req'[p] = Answered /\ \A q \in Reqs \ {p} : req'[q] = req[q]
    BY AnswerSets DEF Revoke, SetsReq, RInv
  <1>2. RowsKept
    BY <1>0, UpdateKeeps DEF Revoke, RInv
  <1>3. \A u \in Reqs : Exchanged(u)' => Exchanged(u)
    BY <1>1 DEF Exchanged, Answered
  <1>4. row'[t].revoked /\ \A u \in Reqs \ {t} : row'[u] = row[u]
    <2>1. row[t] \in Row /\ row' = [row EXCEPT ![t] = [row[t] EXCEPT !.revoked = TRUE]]
      BY <1>0, RowTyped DEF RInv, Revoke
    <2>2. QED
      BY <2>1 DEF RInv, TypeOK, Row
  <1>5. \A u \in Reqs : Live(u)' => Live(u)
    BY <1>4 DEF Live, Exists
  <1>6. QED
    BY <1>2, <1>3, <1>5 DEF Narrows, Used, RowsKept

LEMMA CreateKeeps ==
  ASSUME RInv, Chains, Marks, NEW s \in Reqs, s \notin forked, NEW p \in Reqs, Create(p)
  PROVE  KeptOrNext(s)
  <1>0. Placed(req[p]) /\ Known(req[p]) /\ ~Exists(p) /\ TypeOK
    BY DEF RInv, Unwritten, Create
  <1>1. req'[p] = Answered /\ \A q \in Reqs \ {p} : req'[q] = req[q]
    BY <1>0, AnswerSets DEF Create, SetsReq
  <1>2. /\ row'[p] = [session |-> NewSession(p), revoked |-> FALSE, by |-> "none"]
        /\ \A u \in Reqs \ {p} : row'[u] = row[u]
    BY <1>0 DEF Create, TypeOK
  <1>3. SessionOf(p)' = NewSession(p) /\ (NewSession(p) \in Reqs => Live(p)')
    BY <1>2, ReqsAssumption DEF SessionOf, Live, Exists, NoRow
  <1>4. \A u \in Reqs \ {p} : /\ (Exists(u)' <=> Exists(u)) /\ SessionOf(u)' = SessionOf(u)
                              /\ (Live(u)' <=> Live(u))
    BY <1>2 DEF Exists, SessionOf, Live
  <1>5. \A q, u \in Reqs : Exchanged(u)' =>
          \E r \in Reqs \ {p} : Marking(r, u) \/ (At(r, "refresh", "create") /\ req[r].tok = u)
    BY <1>1 DEF Exchanged, Marking, At, Answered
  <1>6. p \notin Used(s)
    BY <1>0 DEF Used
  <1>7. CASE s # NewSession(p)
    <2>1. Used(s)' = Used(s)
      BY <1>3, <1>4, <1>6, <1>7 DEF Used
    <2>2. \A u \in Used(s) : (Live(u) \/ Exchanged(u))' => Live(u) \/ Exchanged(u)
      BY <1>4, <1>5, <1>6 DEF Used, Exchanged, Marking, At
    <2>3. QED
      BY <2>1, <2>2, NarrowKeeps DEF Narrows
  <1>8. CASE s = NewSession(p)
    <2>1. Used(s)' = Used(s) \cup {p} /\ p \in Holding(s)'
      BY <1>3, <1>4, <1>8 DEF Used, Holding, Live
    <2>2. CASE req[p].op = "issue"
      <3>1. Used(s) = {}
        BY <1>0, <1>8, <2>2 DEF Used, NewSession, RInv, Rooted
      <3>2. Holding(s)' = {p}
        BY <2>1, <3>1 DEF Holding
      <3>3. Lineage(s)!Begin(p)
        BY <1>6, <2>1, <3>1, <3>2 DEF Lineage!Begin, Lineage!Hold
      <3>4. QED
        BY <3>3 DEF KeptOrNext, Lineage!Next
    <2>3. CASE req[p].op = "refresh"
      <3>0. OneEnd(s)
        BY DEF Chains
      <3>1. PICK t \in Reqs : t = req[p].tok /\ Exists(t) /\ SessionOf(t) = s
        BY <1>0, <1>8, <2>3 DEF Known, NewSession
      <3>2. Making(p, s) /\ t \in Holding(s)
        BY <2>3, <3>1 DEF Making, At, Create, Holding, Used, Exchanged
      <3>3. ASSUME NEW u \in Holding(s)', u # p PROVE FALSE
        <4>1. u \in Reqs /\ Exists(u) /\ SessionOf(u) = s /\ (Live(u) \/ Exchanged(u)')
          BY <1>4, <3>3 DEF Holding, Used
        <4>2. ~Unreplaced(u)
          BY <3>0, <3>2, <4>1 DEF OneEnd
        <4>3. \A r \in Reqs : ~Marking(r, u)
          BY <4>1, <4>2 DEF Marks, MarkedOnce
        <4>4. \A r \in Reqs \ {p} : ~(At(r, "refresh", "create") /\ req[r].tok = u)
          BY <3>0, <3>2, <4>1 DEF OneEnd, Making
        <4>5. QED
          BY <1>5, <4>1, <4>2, <4>3, <4>4 DEF Live, Unreplaced
      <3>4. Holding(s)' = {p}
        BY <2>1, <3>3
      <3>5. Lineage(s)!HandOn(p)
        BY <1>6, <2>1, <3>2, <3>4 DEF Lineage!HandOn, Lineage!Hold
      <3>6. QED
        BY <3>5 DEF KeptOrNext, Lineage!Next
    <2>4. QED
      BY <1>0, <2>2, <2>3 DEF Create, Placed
  <1>9. QED
    BY <1>7, <1>8

LEMMA NextKeepsSession ==
  ASSUME RInv, Chains, Marks, [Next]_vars, NEW s \in Reqs, s \notin forked
  PROVE  KeptOrNext(s)
  <1>1. CASE Quiet
    BY <1>1, QuietNarrows, NarrowKeeps
  <1>2. ASSUME NEW p \in Reqs, Find(p), Live(req[p].tok), Goto(p, "mark") PROVE KeptOrNext(s)
    BY <1>2, FindNarrows, NarrowKeeps
  <1>3. ASSUME NEW p \in Reqs, Mark(p) PROVE KeptOrNext(s)
    BY <1>3, MarkNarrows, NarrowKeeps
  <1>4. ASSUME NEW p \in Reqs, Revoke(p) PROVE KeptOrNext(s)
    BY <1>4, RevokeNarrows, NarrowKeeps
  <1>5. ASSUME NEW p \in Reqs, Create(p) PROVE KeptOrNext(s)
    BY <1>5, CreateKeeps
  <1>6. QED
    BY <1>1, <1>2, <1>3, <1>4, <1>5, StepEffects

LEMMA InitSessions == Init => \A s \in Reqs : Lineage(s)!Init
  <1> SUFFICES ASSUME Init, NEW s \in Reqs PROVE Lineage(s)!Init
    OBVIOUS
  <1>1. Used(s) = {}
    BY DEF Init, Used, Exists
  <1>2. QED
    BY <1>1 DEF Lineage!Init, Holding

(* However the statements of exchanges, revocations, failures and restarts *)
(* interleave, the token of a session is handed on to a new one in one     *)
(* step or the session ends, until two exchanges of one token meet in that *)
(* session (token.service.ts:242-315).                                     *)
THEOREM SessionsKeepTheirPromise == Spec => KeepsSession
  <1> DEFINE Kept == \A s \in Reqs :
               UNCHANGED <<Used(s), Holding(s)>> \/ Lineage(s)!Next \/ s \in forked'
  <1>1. ChainInv /\ [Next]_vars => [Kept]_vars
    <2> SUFFICES ASSUME ChainInv, [Next]_vars, NEW s \in Reqs, s \notin forked'
                 PROVE  KeptOrNext(s)
      BY DEF KeptOrNext
    <2>1. forked \subseteq forked'
      BY StepEffects DEF ChainInv, Quiet, Find, Mark, Create, Revoke
    <2>2. QED
      BY <2>1, NextKeepsSession DEF ChainInv
  <1>2. QED
    BY <1>1, InitChains, NextChains, InitSessions, PTL DEF Spec, KeepsSession

-----------------------------------------------------------------------------
(***************************************************************************)
(* The strengthening of DayGivesHalf: while the day of a client runs its   *)
(* counter is twice what it got, until it has all it gets.                 *)
(***************************************************************************)
Half == (Limit["day"] + 1) \div 2

DayInv ==
  \A c \in Clients :
    LET e == win[c]["day"] IN
    /\ today[c] <= Half
    /\ Running(e) => e.n = 2 * today[c] \/ (e.n >= Limit["day"] /\ today[c] = Half)

LEMMA HalfOfLimit == /\ Limit["day"] \in Nat \ {0} /\ Half \in Nat
                     /\ 2 * Half \in {Limit["day"], Limit["day"] + 1}
  BY LimitAssumption DEF Half, Windows

\* The day's counter of a client after one of its requests.
LEMMA DayCounted ==
  ASSUME LimitsTypeOK, NEW c \in Clients, LimitStep(c)
  PROVE  /\ win'[c]["day"] = Counted(c)["day"]
         /\ \A d \in Clients \ {c} : win'[d] = win[d] /\ today'[d] = today[d]
         /\ now' = now
         /\ PassDefault(c) \/ CheckAllWindows(c) # "none"
         /\ ~PassDefault(c) =>
              today'[c] = IF CheckAllWindows(c) = "day" /\ DayStarts(c) THEN 0 ELSE today[c]
  <1>1. Counted(c) \in [Windows -> Counter]
    BY CountedTyped
  <1>2. [Counted(c) EXCEPT !["strict"] = Hit(c, "strict")]["day"] = Counted(c)["day"]
    BY <1>1 DEF Windows
  <1>3. QED
    BY <1>2 DEF LimitStep, Admit, Refuse, Sensitive, PassDefault, LimitsTypeOK

LEMMA LimitStepDay ==
  ASSUME LimitsTypeOK, DayInv, NEW c \in Clients, LimitStep(c)
  PROVE  DayInv'
  <1> DEFINE e == win[c]["day"]
             L == Limit["day"]
  <1>0. /\ e \in Counter /\ now \in Nat /\ today[c] \in Nat /\ Length["day"] \in Nat
        /\ L \in Nat \ {0} /\ Half \in Nat /\ 2 * Half \in {L, L + 1}
    BY HitTyped, HalfOfLimit, LimitAssumption DEF LimitsTypeOK, Windows
  <1>1. Counted(c)["day"] = CASE CheckAllWindows(c) = "day" -> Hit(c, "day")
                              [] CheckAllWindows(c) = "none" -> DayReported(c)
                              [] OTHER -> e
    BY DEF Counted, Windows
  <1>2. /\ today[c] <= Half
        /\ Running(e) => e.n = 2 * today[c] \/ (e.n >= L /\ today[c] = Half)
    BY DEF DayInv
  <1>3. CheckAllWindows(c) = "none" => Within(Hit(c, "day"), "day")
    BY DEF CheckAllWindows
  <1>4. CheckAllWindows(c) = "day" => ~Within(Hit(c, "day"), "day")
    BY DEF CheckAllWindows
  <1>5. /\ today'[c] <= Half
        /\ Running(win'[c]["day"]) =>
             win'[c]["day"].n = 2 * today'[c] \/ (win'[c]["day"].n >= L /\ today'[c] = Half)
    <2> DEFINE h == Hit(c, "day")
    <2>1. /\ h.n = IF Running(e) THEN e.n + 1 ELSE 1
          /\ DayReported(c).n = h.n + 1
          /\ Within(h, "day") <=> h.n <= L
      <3>1. h = IF Running(e) THEN [e EXCEPT !.n = @ + 1] ELSE [n |-> 1, until |-> now + Length["day"]]
        BY DEF Hit, Increment
      <3>2. h.n = (IF Running(e) THEN e.n + 1 ELSE 1) /\ Running(h) /\ h \in Counter
        BY <1>0, <3>1 DEF Counter, Running
      <3>3. DayReported(c) = [h EXCEPT !.n = @ + 1]
        BY <3>2 DEF DayReported, Increment
      <3>4. QED
        BY <3>2, <3>3 DEF Counter, Within
    <2>2. e.n \in Nat
      BY <1>0 DEF Counter
    <2>3. win'[c]["day"] = Counted(c)["day"] /\ now' = now
      BY DayCounted
    <2>4. CASE CheckAllWindows(c) = "none"
      <3>1. today'[c] = IF Running(e) THEN today[c] + 1 ELSE 1
        BY <2>4, DayCounted DEF PassDefault, DayStarts, LimitsTypeOK
      <3>2. win'[c]["day"].n = h.n + 1 /\ h.n <= L
        BY <1>1, <1>3, <2>1, <2>3, <2>4
      <3> HIDE DEF e, h, L
      <3>3. QED
        BY <1>0, <1>2, <2>1, <2>2, <3>1, <3>2
    <2>5. CASE CheckAllWindows(c) = "day"
      <3>1. win'[c]["day"] = h /\ h.n > L
        BY <1>0, <1>1, <1>4, <2>1, <2>2, <2>3, <2>5
      <3>2. Running(e)
        BY <1>0, <2>1, <3>1
      <3>3. today'[c] = today[c]
        BY <2>5, <3>2, DayCounted DEF PassDefault, DayStarts
      <3> HIDE DEF e, h, L
      <3>4. QED
        BY <1>0, <1>2, <2>1, <2>2, <3>1, <3>2, <3>3
    <2>6. CASE CheckAllWindows(c) \notin {"none", "day"}
      <3>1. win'[c]["day"] = e /\ today'[c] = today[c]
        BY <1>1, <2>3, <2>6, DayCounted DEF PassDefault
      <3>2. QED
        BY <1>2, <2>3, <3>1 DEF Running
    <2>7. QED
      BY <2>4, <2>5, <2>6
  <1>6. QED
    BY <1>5, DayCounted DEF DayInv, Running

LEMMA InitDay == Init => DayInv
  <1> SUFFICES ASSUME Init, NEW c \in Clients
               PROVE  today[c] <= Half /\ ~Running(win[c]["day"])
    BY DEF DayInv
  <1>1. now = 0 /\ today[c] = 0 /\ win[c]["day"] = [n |-> 0, until |-> -1]
    BY DEF Init, InitLimits, NoCounter, Windows
  <1>2. QED
    BY <1>1, HalfOfLimit DEF Running

LEMMA NextDay == ASSUME LimitsTypeOK, DayInv, [Next]_vars PROVE DayInv'
  <1>1. ASSUME NEW p \in Reqs, NEW c \in Clients,
               Arrive(p, c) \/ ArriveRefused(p, c) \/ ArriveSensitive(p, c)
        PROVE  DayInv'
    BY <1>1, LimitStepDay DEF LimitStep, Arrive, ArriveRefused, ArriveSensitive
  <1>2. ASSUME UNCHANGED <<now, limits>> PROVE DayInv'
    BY <1>2 DEF limits, DayInv, Running
  <1>3. ASSUME NEW p \in Reqs, Step(p) PROVE DayInv'
    BY <1>2, <1>3 DEF Step, Validate, Find, Mark, Create, Revoke, Fail
  <1>4. CASE Restart
    BY <1>4, HalfOfLimit, LimitAssumption
       DEF Restart, Forget, DayInv, NoCounter, Running, Windows, LimitsTypeOK
  <1>5. CASE Tick
    <2>1. now' = now + 1 /\ now \in Nat /\ win' = win /\ today' = today
      BY <1>5, LimitAssumption DEF Tick, limits, LimitsTypeOK
    <2>2. ASSUME NEW c \in Clients PROVE Running(win[c]["day"])' => Running(win[c]["day"])
      <3>1. win[c]["day"].until \in Int
        BY HitTyped DEF Windows, Counter
      <3>2. QED
        BY <2>1, <3>1 DEF Running
    <2>3. QED
      BY <2>1, <2>2 DEF DayInv, Running
  <1>6. QED
    BY <1>1, <1>2, <1>3, <1>4, <1>5 DEF Next, vars

(* A client gets half of its daily limit, rounded up, and neither more nor *)
(* less: an accepted request counts twice (rate-limit.service.ts:208), and *)
(* a refused one costs nothing while there is something left.              *)
THEOREM HalfADay == Spec => []DayGivesHalf
  <1> DEFINE Inv == RInv /\ DayInv
  <1>1. Init => Inv
    BY InitRInv, InitDay
  <1>2. Inv /\ [Next]_vars => Inv'
    BY NextRInv, NextDay DEF RInv, TypeOK
  <1>3. Inv => DayGivesHalf
    <2> SUFFICES ASSUME Inv, NEW c \in Clients
                 PROVE  /\ today[c] <= Half
                        /\ Running(win[c]["day"]) /\ win[c]["day"].n >= Limit["day"] => today[c] = Half
      BY DEF DayGivesHalf, Half
    <2>1. today[c] \in Nat /\ win[c]["day"].n \in Nat
      BY HitTyped DEF RInv, TypeOK, LimitsTypeOK, Windows, Counter
    <2>2. QED
      BY <2>1, HalfOfLimit DEF DayInv
  <1>4. QED
    BY <1>1, <1>2, <1>3, PTL DEF Spec

-----------------------------------------------------------------------------
(***************************************************************************)
(* The strengthening of LessThanTwice, for one client, one limiter and one *)
(* window w that it asks.  P is what the limiter let through before each   *)
(* time, e the counter, whose window started at e.until - Length[w].  Only *)
(* what the counter counted was let through since then, at least one less  *)
(* after its first hit; what was let through shortly before belongs to an  *)
(* earlier window, without its first hit.  Every past stretch is within    *)
(* the bound.                                                              *)
(***************************************************************************)
\* The end of the stretch that begins at time f.
End(f, w) == IF f + Length[w] < MaxTime THEN f + Length[w] + 1 ELSE MaxTime + 1

Fresh(P) == \A f \in Instants : P[f] = 0

Started(P, e, w, t) ==
  LET u == e.until - Length[w]
      all == P[MaxTime + 1]
  IN
  /\ u \in 0..t /\ e.n > 0
  /\ all - P[u] <= e.n /\ all - P[u] <= Limit[w]
  /\ \A f \in Instants : f > u => all - P[f] < e.n /\ all - P[f] < Limit[w]
  /\ \A f \in Instants : f < u /\ u <= f + Length[w] => P[u] - P[f] < Limit[w]
  /\ \A f \in Instants : f > e.until => P[f] = all

Stretches(P, w) == \A f \in 0..MaxTime : P[End(f, w)] - P[f] < 2 * Limit[w]

Tame(P, e, w, t) ==
  /\ \A f \in Instants : f > t => P[f] = P[MaxTime + 1]
  /\ (e = NoCounter /\ Fresh(P)) \/ Started(P, e, w, t)
  /\ Stretches(P, w)

SpreadInv ==
  \A c \in Clients, l \in Limiters : \A w \in Asked[l] : Tame(passed[c][l], win[c][w], w, now)

LEMMA TimesAre ==
  ASSUME NEW t \in 0..MaxTime, NEW w \in Windows
  PROVE  /\ MaxTime \in Nat /\ MaxTime + 1 \in Instants /\ t \in Instants /\ t \in Nat
         /\ MaxTime + 1 > t /\ Length[w] \in Nat /\ Limit[w] \in Nat \ {0}
         /\ End(t, w) \in Instants /\ End(t, w) > t
         /\ \A f \in Instants : f \in Nat /\ f <= MaxTime + 1
  BY LimitAssumption DEF Instants, End

\* A counter whose window is over, or that has none, tells all that was let through.
LEMMA WindowOver ==
  ASSUME now \in 0..MaxTime, NEW w \in Windows, NEW P \in [Instants -> Nat], NEW e \in Counter,
         Tame(P, e, w, now), ~Running(e)
  PROVE  /\ \A f \in Instants : f >= now => P[f] = P[MaxTime + 1]
         /\ \A f \in Instants : now <= f + Length[w] => P[MaxTime + 1] - P[f] < Limit[w]
  <1>1. /\ MaxTime + 1 \in Instants /\ now \in Nat /\ Length[w] \in Nat /\ Limit[w] \in Nat \ {0}
        /\ \A f \in Instants : f \in Nat /\ P[f] \in Nat
    BY TimesAre
  <1>2. CASE e = NoCounter /\ Fresh(P)
    BY <1>1, <1>2 DEF Fresh
  <1>3. CASE Started(P, e, w, now)
    <2>1. e.until \in Int /\ e.until < now
      BY <1>1 DEF Counter, Running
    <2>2. /\ \A f \in Instants : f > e.until => P[f] = P[MaxTime + 1]
          /\ \A f \in Instants : f > e.until - Length[w] => P[MaxTime + 1] - P[f] < Limit[w]
      BY <1>3 DEF Started
    <2>3. QED
      BY <1>1, <2>1, <2>2
  <1>4. QED
    BY <1>2, <1>3 DEF Tame

\* A request that the counter counts and that is not let through.
LEMMA TameHit ==
  ASSUME now \in 0..MaxTime, NEW w \in Windows, NEW P \in [Instants -> Nat], NEW e \in Counter,
         Tame(P, e, w, now)
  PROVE  Tame(P, Increment(e, w), w, now)
  <1> DEFINE d == Increment(e, w)
             all == P[MaxTime + 1]
  <1>1. /\ MaxTime + 1 \in Instants /\ now \in Instants /\ now \in Nat /\ Length[w] \in Nat
        /\ Limit[w] \in Nat \ {0} /\ \A f \in Instants : f \in Nat /\ P[f] \in Nat
    BY TimesAre
  <1>2. e.n \in Nat /\ e.until \in Int
    BY DEF Counter
  <1>3. Started(P, d, w, now)
    <2>1. CASE Running(e)
      <3>1. d.n = e.n + 1 /\ d.until = e.until
        BY <2>1 DEF Increment, Counter
      <3>2. e # NoCounter
        BY <1>1, <2>1 DEF Running, NoCounter
      <3>3. Started(P, e, w, now)
        BY <3>2 DEF Tame
      <3> DEFINE u == e.until - Length[w]
      <3>4. /\ u \in 0..now /\ e.n > 0 /\ all - P[u] <= e.n /\ all - P[u] <= Limit[w]
            /\ \A f \in Instants : f > u => all - P[f] < e.n /\ all - P[f] < Limit[w]
            /\ \A f \in Instants : f < u /\ u <= f + Length[w] => P[u] - P[f] < Limit[w]
            /\ \A f \in Instants : f > e.until => P[f] = all
        BY <3>3 DEF Started
      <3>5. d.until - Length[w] = u
        BY <3>1
      <3> HIDE DEF d, u, all
      <3>6. u \in Instants /\ P[u] \in Nat /\ all \in Nat
        BY <1>1, <3>4 DEF Instants, all
      <3>7. /\ d.n > 0 /\ all - P[u] <= d.n
            /\ \A f \in Instants : f > u => all - P[f] < d.n
        BY <1>1, <1>2, <3>1, <3>4, <3>6
      <3>8. /\ u \in 0..now /\ all - P[u] <= Limit[w]
            /\ \A f \in Instants : f > u => all - P[f] < Limit[w]
            /\ \A f \in Instants : f < u /\ u <= f + Length[w] => P[u] - P[f] < Limit[w]
            /\ \A f \in Instants : f > d.until => P[f] = all
        BY <3>1, <3>4
      <3>9. QED
        BY <3>5, <3>7, <3>8 DEF Started, all
    <2>2. CASE ~Running(e)
      <3>1. d.n = 1 /\ d.until = now + Length[w]
        BY <2>2 DEF Increment
      <3>2. d.until - Length[w] = now
        BY <1>1, <3>1
      <3>3. /\ \A f \in Instants : f >= now => P[f] = all
            /\ \A f \in Instants : now <= f + Length[w] => all - P[f] < Limit[w]
        BY <2>2, WindowOver
      <3> HIDE DEF d
      <3>4. QED
        BY <1>1, <3>1, <3>2, <3>3 DEF Started
    <2>3. QED
      BY <2>1, <2>2
  <1>4. QED
    BY <1>3 DEF Tame

\* A request that the counter counts, that is within its limit and let through.
LEMMA TamePass ==
  ASSUME now \in 0..MaxTime, NEW w \in Windows, NEW P \in [Instants -> Nat], NEW e \in Counter,
         Tame(P, e, w, now), Within(Increment(e, w), w)
  PROVE  Tame(OneMore(P), Increment(e, w), w, now)
  <1> DEFINE d == Increment(e, w)
             Q == OneMore(P)
             all == P[MaxTime + 1]
  <1>1. /\ MaxTime \in Nat /\ MaxTime + 1 \in Instants /\ now \in Instants /\ now \in Nat
        /\ Length[w] \in Nat /\ Limit[w] \in Nat \ {0} /\ MaxTime + 1 > now
        /\ \A f \in Instants : f \in Nat /\ P[f] \in Nat
        /\ all \in Nat
    BY TimesAre
  <1>2. e.n \in Nat /\ e.until \in Int
    BY DEF Counter
  <1>3. /\ \A f \in Instants : f > now => Q[f] = P[f] + 1
        /\ \A f \in Instants : ~(f > now) => Q[f] = P[f]
        /\ Q[MaxTime + 1] = all + 1
    BY <1>1 DEF OneMore
  <1>4. \A f \in Instants : f > now => P[f] = all /\ Q[f] = all + 1
    BY <1>3 DEF Tame
  <1> HIDE DEF Q
  <1>5. Started(Q, d, w, now)
    <2>1. CASE Running(e)
      <3>1. d.n = e.n + 1 /\ d.until = e.until /\ now <= e.until
        BY <2>1 DEF Increment, Counter, Running
      <3>2. d.n <= Limit[w]
        BY DEF Within
      <3>3. e # NoCounter
        BY <1>1, <2>1 DEF Running, NoCounter
      <3>4. Started(P, e, w, now)
        BY <3>3 DEF Tame
      <3> DEFINE u == e.until - Length[w]
      <3>5. /\ u \in 0..now /\ e.n > 0 /\ all - P[u] <= e.n
            /\ \A f \in Instants : f > u => all - P[f] < e.n
            /\ \A f \in Instants : f < u /\ u <= f + Length[w] => P[u] - P[f] < Limit[w]
        BY <3>4 DEF Started
      <3>6. d.until - Length[w] = u
        BY <3>1
      <3> HIDE DEF d, u, all
      <3>7. u \in Instants /\ u \in Nat /\ ~(u > now) /\ Q[u] = P[u]
        BY <1>1, <1>3, <3>5 DEF Instants
      <3>8. (all + 1) - Q[u] <= d.n /\ (all + 1) - Q[u] <= Limit[w]
        BY <1>1, <1>2, <3>1, <3>2, <3>5, <3>7
      <3>9. ASSUME NEW f \in Instants, f > u
            PROVE  (all + 1) - Q[f] < d.n /\ (all + 1) - Q[f] < Limit[w]
        <4>1. CASE f > now
          BY <1>1, <1>2, <1>4, <3>1, <3>9, <4>1
        <4>2. CASE ~(f > now)
          <5>1. Q[f] = P[f] /\ all - P[f] < e.n /\ P[f] \in Nat
            BY <1>1, <1>3, <3>5, <3>9, <4>2
          <5>2. QED
            BY <1>1, <1>2, <3>1, <3>2, <5>1
        <4>3. QED
          BY <4>1, <4>2
      <3>10. ASSUME NEW f \in Instants, f < u, u <= f + Length[w] PROVE Q[u] - Q[f] < Limit[w]
        <4>1. ~(f > now) /\ Q[f] = P[f]
          BY <1>1, <1>3, <3>7, <3>10
        <4>2. QED
          BY <3>5, <3>7, <3>10, <4>1
      <3>11. \A f \in Instants : f > d.until => Q[f] = all + 1
        BY <1>1, <1>2, <1>4, <3>1
      <3>12. u \in 0..now /\ d.n > 0
        BY <1>2, <3>1, <3>5
      <3>13. QED
        BY <1>3, <3>6, <3>8, <3>9, <3>10, <3>11, <3>12 DEF Started
    <2>2. CASE ~Running(e)
      <3>1. d.n = 1 /\ d.until = now + Length[w]
        BY <2>2 DEF Increment
      <3>2. d.until - Length[w] = now
        BY <1>1, <3>1
      <3>3. /\ \A f \in Instants : f >= now => P[f] = all
            /\ \A f \in Instants : now <= f + Length[w] => all - P[f] < Limit[w]
        BY <2>2, WindowOver
      <3> HIDE DEF d, all
      <3>4. Q[now] = all
        BY <1>1, <1>3, <3>3
      <3>5. ASSUME NEW f \in Instants, f < now, now <= f + Length[w] PROVE Q[now] - Q[f] < Limit[w]
        <4>1. Q[f] = P[f] /\ all - P[f] < Limit[w]
          BY <1>1, <1>3, <3>3, <3>5
        <4>2. QED
          BY <3>4, <4>1
      <3>6. \A f \in Instants : f > now => (all + 1) - Q[f] = 0
        BY <1>1, <1>4
      <3>7. \A f \in Instants : f > d.until => Q[f] = all + 1
        BY <1>1, <1>4, <3>1
      <3>8. (all + 1) - Q[now] = 1 /\ now \in 0..now
        BY <1>1, <3>4
      <3>9. QED
        BY <1>1, <1>3, <3>1, <3>2, <3>5, <3>6, <3>7, <3>8 DEF Started
    <2>3. QED
      BY <2>1, <2>2
  <1>6. ASSUME NEW f \in 0..MaxTime PROVE Q[End(f, w)] - Q[f] < 2 * Limit[w]
    <2>1. f \in Instants /\ f \in Nat /\ End(f, w) \in Instants /\ End(f, w) > f
      BY TimesAre
    <2>2. P[End(f, w)] - P[f] < 2 * Limit[w]
      BY DEF Tame, Stretches
    <2>3. /\ P[f] \in Nat /\ P[End(f, w)] \in Nat /\ End(f, w) \in Nat
      BY <1>1, <2>1
    <2>4. CASE f > now
      BY <1>1, <1>3, <2>1, <2>2, <2>3, <2>4
    <2>5. CASE ~(End(f, w) > now)
      BY <1>1, <1>3, <2>1, <2>2, <2>3, <2>5
    <2>6. CASE ~(f > now) /\ End(f, w) > now
      <3> DEFINE u == d.until - Length[w]
      <3>1. /\ u \in 0..now /\ (all + 1) - Q[u] <= Limit[w]
            /\ (f > u => (all + 1) - Q[f] < Limit[w])
            /\ (f < u /\ u <= f + Length[w] => Q[u] - Q[f] < Limit[w])
        BY <1>3, <1>5, <2>1 DEF Started
      <3> HIDE DEF u, all
      <3>2. now <= f + Length[w]
        BY <1>1, <2>1, <2>6 DEF End
      <3>3. u \in Nat /\ u \in Instants /\ u <= f + Length[w]
        BY <1>1, <2>1, <3>1, <3>2 DEF Instants
      <3>4. Q[u] \in Nat /\ Q[f] \in Nat /\ Q[End(f, w)] = all + 1
        BY <1>1, <1>3, <1>4, <2>1, <2>3, <2>6, <3>3
      <3>5. (all + 1) - Q[f] < 2 * Limit[w]
        <4>1. CASE f > u
          BY <1>1, <3>1, <3>4, <4>1
        <4>2. CASE f = u
          BY <1>1, <3>1, <3>4, <4>2
        <4>3. CASE f < u
          BY <1>1, <3>1, <3>3, <3>4, <4>3
        <4>4. QED
          BY <2>1, <3>3, <4>1, <4>2, <4>3
      <3>6. QED
        BY <3>4, <3>5
    <2>7. QED
      BY <2>4, <2>5, <2>6
  <1>7. \A f \in Instants : f > now => Q[f] = Q[MaxTime + 1]
    BY <1>3, <1>4
  <1>8. Stretches(Q, w)
    BY <1>6 DEF Stretches
  <1>9. QED
    BY <1>5, <1>7, <1>8 DEF Tame, Q

(***************************************************************************)
(* A step of the limiter hits every counter it asks on the way, and lets a *)
(* request through only when each of them is within its limit.             *)
(***************************************************************************)
LEMMA DefaultCounted ==
  ASSUME LimitsTypeOK, NEW c \in Clients
  PROVE  /\ Counted(c)["strict"] = win[c]["strict"]
         /\ \A w \in {"minute", "hour", "day"} :
              \/ CheckAllWindows(c) # "none" /\ Counted(c)[w] \in {win[c][w], Hit(c, w)}
              \/ /\ CheckAllWindows(c) = "none" /\ Within(Hit(c, w), w)
                 /\ Counted(c)[w] = IF w = "day" THEN DayReported(c) ELSE Hit(c, w)
  <1>1. \A w \in Windows :
          Counted(c)[w] =
            CASE w = "minute" -> Hit(c, w)
              [] w = "hour" /\ CheckAllWindows(c) # "minute" -> Hit(c, w)
              [] w = "day" /\ CheckAllWindows(c) = "day" -> Hit(c, w)
              [] w = "day" /\ CheckAllWindows(c) = "none" -> DayReported(c)
              [] OTHER -> win[c][w]
    BY DEF Counted
  <1>2. Counted(c)["strict"] = win[c]["strict"]
    BY <1>1 DEF Windows
  <1>3. Counted(c)["minute"] = Hit(c, "minute")
    BY <1>1 DEF Windows
  <1>4. Counted(c)["hour"] = IF CheckAllWindows(c) # "minute" THEN Hit(c, "hour") ELSE win[c]["hour"]
    BY <1>1 DEF Windows
  <1>5. Counted(c)["day"] = IF CheckAllWindows(c) = "day" THEN Hit(c, "day")
                            ELSE IF CheckAllWindows(c) = "none" THEN DayReported(c)
                            ELSE win[c]["day"]
    BY <1>1 DEF Windows
  <1>6. CheckAllWindows(c) = "none" => \A w \in {"minute", "hour", "day"} : Within(Hit(c, w), w)
    BY DEF CheckAllWindows
  <1>7. QED
    BY <1>2, <1>3, <1>4, <1>5, <1>6

LEMMA LimitStepTame ==
  ASSUME LimitsTypeOK, SpreadInv, NEW c \in Clients, LimitStep(c)
  PROVE  SpreadInv'
  <1>0. now \in 0..MaxTime /\ now' = now /\ now \in Nat
    BY LimitAssumption DEF LimitsTypeOK, LimitStep, Admit, Refuse, Sensitive
  <1>1. \A d \in Clients \ {c} : passed'[d] = passed[d] /\ win'[d] = win[d]
    BY DEF LimitStep, Admit, Refuse, Sensitive, LimitsTypeOK
  <1>2. ASSUME NEW l \in Limiters, NEW w \in Asked[l]
        PROVE  /\ w \in Windows /\ passed[c][l] \in [Instants -> Nat] /\ win[c][w] \in Counter
               /\ Tame(passed[c][l], win[c][w], w, now)
               /\ w \in {"minute", "hour", "day"} <=> l = "default"
               /\ w = "strict" <=> l = "strict"
    <2>1. /\ l = "default" => w \in {"minute", "hour", "day"}
          /\ l = "strict" => w = "strict"
      BY <1>2 DEF Asked, Limiters
    <2>2. w \in Windows
      BY <2>1 DEF Windows, Limiters
    <2>3. QED
      BY <2>1, <2>2, HitTyped DEF LimitsTypeOK, SpreadInv, Limiters
  <1>3. CASE Refuse(c)
    <2>1. ASSUME NEW l \in Limiters, NEW w \in Asked[l] PROVE Tame(passed'[c][l], win'[c][w], w, now)
      <3>1. passed' = passed /\ win'[c] = Counted(c) /\ CheckAllWindows(c) # "none"
        BY <1>3 DEF Refuse, LimitsTypeOK
      <3>2. Counted(c)[w] \in {win[c][w], Hit(c, w)}
        BY <1>2, <2>1, <3>1, DefaultCounted DEF Limiters
      <3>3. Tame(passed[c][l], Hit(c, w), w, now)
        BY <1>0, <1>2, <2>1, TameHit DEF Hit
      <3>4. QED
        BY <1>2, <2>1, <3>1, <3>2, <3>3
    <2>2. QED
      BY <1>0, <1>1, <2>1 DEF SpreadInv
  \* A request that all windows of the default limiter let through.
  <1>4. ASSUME PassDefault(c), NEW w \in Asked["default"]
        PROVE  Tame(OneMore(passed[c]["default"]), Counted(c)[w], w, now)
    <2>1. /\ w \in Windows /\ passed[c]["default"] \in [Instants -> Nat] /\ win[c][w] \in Counter
          /\ Tame(passed[c]["default"], win[c][w], w, now) /\ w \in {"minute", "hour", "day"}
      BY <1>2, <1>4 DEF Limiters
    <2>2. /\ Within(Hit(c, w), w)
          /\ Counted(c)[w] = IF w = "day" THEN DayReported(c) ELSE Hit(c, w)
      BY <1>4, <2>1, DefaultCounted DEF PassDefault
    <2>3. Tame(OneMore(passed[c]["default"]), Hit(c, w), w, now)
      BY <1>0, <2>1, <2>2, TamePass DEF Hit
    <2>4. Hit(c, w) \in Counter /\ OneMore(passed[c]["default"]) \in [Instants -> Nat]
      BY <2>1, HitTyped DEF OneMore
    <2>5. Tame(OneMore(passed[c]["default"]), Increment(Hit(c, w), w), w, now)
      BY <1>0, <2>1, <2>3, <2>4, TameHit
    <2>6. QED
      BY <2>2, <2>3, <2>5 DEF DayReported
  \* The default limiter's part of a step that it lets through.
  <1>5. ASSUME PassDefault(c), \A w \in Asked["default"] : win'[c][w] = Counted(c)[w],
               passed'[c]["default"] = OneMore(passed[c]["default"]),
               Tame(passed'[c]["strict"], win'[c]["strict"], "strict", now)
        PROVE  SpreadInv'
    <2>1. ASSUME NEW l \in Limiters, NEW w \in Asked[l] PROVE Tame(passed'[c][l], win'[c][w], w, now)
      <3>1. CASE l = "default"
        BY <1>4, <1>5, <2>1, <3>1
      <3>2. CASE l = "strict"
        <4>1. w = "strict"
          BY <1>2, <2>1, <3>2
        <4>2. QED
          BY <1>5, <3>2, <4>1
      <3>3. QED
        BY <3>1, <3>2 DEF Limiters
    <2>2. QED
      BY <1>0, <1>1, <2>1 DEF SpreadInv
  <1>6. ASSUME PassDefault(c), win' = [win EXCEPT ![c] = Counted(c)],
               passed' = [passed EXCEPT ![c]["default"] = OneMore(@)]
        PROVE  SpreadInv'
    <2>1. /\ win'[c] = Counted(c)
          /\ passed'[c]["default"] = OneMore(passed[c]["default"])
          /\ passed'[c]["strict"] = passed[c]["strict"]
      BY <1>6 DEF LimitsTypeOK, Limiters
    <2>2. "strict" \in Limiters /\ "strict" \in Asked["strict"]
      BY DEF Limiters, Asked
    <2>3. Tame(passed[c]["strict"], win[c]["strict"], "strict", now)
      BY <1>2, <2>2
    <2>4. QED
      BY <1>5, <1>6, <2>1, <2>3, DefaultCounted
  <1>7. CASE Admit(c)
    BY <1>6, <1>7 DEF Admit
  <1>8. CASE Sensitive(c) /\ IsLimited(c)
    BY <1>6, <1>8 DEF Sensitive
  <1>9. CASE Sensitive(c) /\ ~IsLimited(c)
    <2>1. /\ win' = [win EXCEPT ![c] = [Counted(c) EXCEPT !["strict"] = Hit(c, "strict")]]
          /\ passed' = [passed EXCEPT ![c] = [l \in Limiters |-> OneMore(passed[c][l])]]
          /\ PassDefault(c)
      BY <1>9 DEF Sensitive
    <2>2. Counted(c) \in [Windows -> Counter]
      BY CountedTyped
    <2>3. /\ win'[c]["strict"] = Hit(c, "strict")
          /\ \A w \in {"minute", "hour", "day"} : win'[c][w] = Counted(c)[w]
      BY <2>1, <2>2 DEF LimitsTypeOK, Windows
    <2>4. \A l \in Limiters : passed'[c][l] = OneMore(passed[c][l])
      BY <2>1 DEF LimitsTypeOK
    <2>5. "strict" \in Limiters /\ "strict" \in Asked["strict"] /\ "default" \in Limiters
      BY DEF Limiters, Asked
    <2>6. /\ "strict" \in Windows /\ passed[c]["strict"] \in [Instants -> Nat]
          /\ win[c]["strict"] \in Counter
          /\ Tame(passed[c]["strict"], win[c]["strict"], "strict", now)
      BY <1>2, <2>5
    <2>7. Within(Hit(c, "strict"), "strict")
      <3>1. Running(win[c]["strict"]) => win[c]["strict"].n < Limit["strict"]
        <4>1. win[c]["strict"].n \in Nat /\ Limit["strict"] \in Nat
          BY <2>6, LimitAssumption DEF Counter
        <4>2. QED
          BY <1>9, <4>1 DEF IsLimited
      <3>2. /\ Running(win[c]["strict"]) => Hit(c, "strict").n = win[c]["strict"].n + 1
            /\ ~Running(win[c]["strict"]) => Hit(c, "strict").n = 1
        BY <2>6 DEF Hit, Increment, Counter
      <3>3. win[c]["strict"].n \in Nat /\ Limit["strict"] \in Nat \ {0}
        BY <2>6, LimitAssumption DEF Counter
      <3>4. QED
        BY <3>1, <3>2, <3>3 DEF Within
    <2>8. Tame(OneMore(passed[c]["strict"]), Hit(c, "strict"), "strict", now)
      BY <1>0, <2>6, <2>7, TamePass DEF Hit
    <2>9. \A w \in Asked["default"] : win'[c][w] = Counted(c)[w]
      BY <2>3 DEF Asked
    <2>10. QED
      BY <1>5, <2>1, <2>3, <2>4, <2>5, <2>8, <2>9
  <1>10. QED
    BY <1>3, <1>7, <1>8, <1>9 DEF LimitStep

\* A new process: nothing is counted and nothing was let through.
LEMMA FreshIsTame ==
  ASSUME NEW w \in Windows, NEW t
  PROVE  Tame([f \in Instants |-> 0], NoCounter, w, t)
  <1> DEFINE P == [f \in Instants |-> 0]
  <1>1. MaxTime + 1 \in Instants /\ Limit[w] \in Nat \ {0}
    BY LimitAssumption DEF Instants
  <1>2. \A f \in 0..MaxTime : f \in Instants /\ End(f, w) \in Instants
    BY TimesAre DEF Instants
  <1>3. Stretches(P, w)
    BY <1>1, <1>2 DEF Stretches
  <1>4. QED
    BY <1>1, <1>3 DEF Tame, Fresh

LEMMA ForgottenIsTame ==
  (\A c \in Clients : win[c] = [w \in Windows |-> NoCounter] /\ passed[c] = NonePassed) => SpreadInv
  <1> SUFFICES ASSUME \A c \in Clients : win[c] = [w \in Windows |-> NoCounter] /\ passed[c] = NonePassed,
                      NEW c \in Clients, NEW l \in Limiters, NEW w \in Asked[l]
               PROVE  Tame(passed[c][l], win[c][w], w, now)
    BY DEF SpreadInv
  <1>1. w \in Windows
    BY DEF Asked, Limiters, Windows
  <1>2. win[c][w] = NoCounter /\ passed[c][l] = [f \in Instants |-> 0]
    BY <1>1 DEF NonePassed
  <1>3. QED
    BY <1>1, <1>2, FreshIsTame

LEMMA NextSpread == ASSUME LimitsTypeOK, SpreadInv, [Next]_vars PROVE SpreadInv'
  <1>1. ASSUME NEW p \in Reqs, NEW c \in Clients,
               Arrive(p, c) \/ ArriveRefused(p, c) \/ ArriveSensitive(p, c)
        PROVE  SpreadInv'
    BY <1>1, LimitStepTame DEF LimitStep, Arrive, ArriveRefused, ArriveSensitive
  <1>2. ASSUME UNCHANGED <<now, limits>> PROVE SpreadInv'
    BY <1>2 DEF limits, SpreadInv
  <1>3. ASSUME NEW p \in Reqs, Step(p) PROVE SpreadInv'
    BY <1>2, <1>3 DEF Step, Validate, Find, Mark, Create, Revoke, Fail
  <1>4. CASE Restart
    <2>1. \A c \in Clients : win'[c] = [w \in Windows |-> NoCounter] /\ passed'[c] = NonePassed
      BY <1>4 DEF Restart, Forget
    <2>2. (\A c \in Clients : win[c] = [w \in Windows |-> NoCounter] /\ passed[c] = NonePassed)'
            => SpreadInv'
      BY ForgottenIsTame, PTL
    <2>3. QED
      BY <2>1, <2>2
  <1>5. CASE Tick
    <2>1. now' = now + 1 /\ now \in Nat /\ win' = win /\ passed' = passed
      BY <1>5, LimitAssumption DEF Tick, limits, LimitsTypeOK
    <2>2. ASSUME NEW c \in Clients, NEW l \in Limiters, NEW w \in Asked[l]
          PROVE  Tame(passed[c][l], win[c][w], w, now + 1)
      <3>1. Tame(passed[c][l], win[c][w], w, now)
        BY <2>2 DEF SpreadInv
      <3>2. \A f \in Instants : f \in Nat
        BY LimitAssumption DEF Instants
      <3>3. \A f \in Instants : f > now + 1 => passed[c][l][f] = passed[c][l][MaxTime + 1]
        BY <2>1, <3>1, <3>2 DEF Tame
      <3>4. Started(passed[c][l], win[c][w], w, now) => Started(passed[c][l], win[c][w], w, now + 1)
        <4>1. 0..now \subseteq 0..(now + 1)
          BY <2>1
        <4>2. QED
          BY <4>1 DEF Started
      <3>5. QED
        BY <3>1, <3>3, <3>4 DEF Tame
    <2>3. QED
      BY <2>1, <2>2 DEF SpreadInv
  <1>6. QED
    BY <1>1, <1>2, <1>3, <1>4, <1>5 DEF Next, vars

(***************************************************************************)
(* No stretch of time as long as a window sees twice the limit of that     *)
(* window, wherever it starts, for any windows and limits: a window starts *)
(* with its first request and is dropped whole (rate-limit.service.ts:77). *)
(***************************************************************************)
THEOREM NeverTwice == Spec => []LessThanTwice
  <1> DEFINE Inv == RInv /\ SpreadInv
  <1>1. Init => Inv
    <2>1. Init => SpreadInv
      BY ForgottenIsTame DEF Init, InitLimits
    <2>2. QED
      BY <2>1, InitRInv
  <1>2. Inv /\ [Next]_vars => Inv'
    BY NextRInv, NextSpread DEF RInv, TypeOK
  <1>3. Inv => LessThanTwice
    <2> SUFFICES ASSUME Inv, NEW c \in Clients, NEW l \in Limiters, NEW from \in 0..now,
                        NEW w \in Asked[l]
                 PROVE  PassedIn(c, l, from,
                                 IF from + Length[w] < now THEN from + Length[w] ELSE now)
                          < 2 * Limit[w]
      BY DEF LessThanTwice
    <2> DEFINE P == passed[c][l]
               to == IF from + Length[w] < now THEN from + Length[w] ELSE now
    <2>1. w \in Windows
      BY DEF Asked, Limiters, Windows
    <2>2. now \in 0..MaxTime /\ MaxTime \in Nat /\ Length[w] \in Nat
      BY <2>1, LimitAssumption DEF RInv, TypeOK, LimitsTypeOK
    <2>3. from \in 0..MaxTime
      BY <2>2
    <2>4. /\ \A f \in Instants : f > now => P[f] = P[MaxTime + 1]
          /\ P[End(from, w)] - P[from] < 2 * Limit[w]
      BY <2>3 DEF SpreadInv, Tame, Stretches
    <2>5. P[to + 1] = P[End(from, w)]
      <3>1. CASE from + Length[w] < now
        <4>1. to + 1 = End(from, w)
          BY <2>2, <2>3, <3>1 DEF End
        <4>2. QED
          BY <4>1
      <3>2. CASE ~(from + Length[w] < now)
        <4>1. /\ to + 1 = now + 1 /\ now + 1 \in Instants /\ now + 1 > now
              /\ End(from, w) \in Instants /\ End(from, w) > now
          BY <2>2, <2>3, <3>2 DEF End, Instants
        <4>2. QED
          BY <2>4, <4>1
      <3>3. QED
        BY <3>1, <3>2
    <2>6. QED
      BY <2>4, <2>5 DEF PassedIn
  <1>4. QED
    BY <1>1, <1>2, <1>3, PTL DEF Spec
=============================================================================
