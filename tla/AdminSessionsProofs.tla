------------------------- MODULE AdminSessionsProofs -------------------------
(***************************************************************************)
(* Theorems about AdminSessions, for any number of administrators and      *)
(* requests, any limits, and any lifetimes with which a blacklist entry    *)
(* outlives the token it is about.                                         *)
(***************************************************************************)
EXTENDS AdminSessions, FiniteSetTheorems, TLAPS

(***************************************************************************)
(* The strengthening of the types: what a request is about, by where it    *)
(* is.                                                                     *)
(***************************************************************************)
Presents(p) == req[p].op \in {"refresh", "logout"}

Served(p) ==
  LET r == req[p] IN
  /\ r.pc = "new" => r.op = "none"
  /\ r.pc # "new" => r.adm \in Admins
  /\ r.op \in {"refresh", "logout"} => r.tok \in issued
  /\ r.pc \in {"count"} => r.op \in {"login", "refresh"}
  /\ r.pc = "check" => r.op = "refresh"
  /\ r.pc = "find" => r.op \in {"login", "refresh", "change"}
  /\ r.pc = "compare" => r.op = "login"
  /\ r.pc \in {"get", "set", "readList", "push"} => r.op \in {"refresh", "logout"}
  /\ r.pc \in {"update", "readAll", "markAll", "clear"} => r.op = "change"

InPast == \A t \in issued : t.iat <= now

TInv == TypeOK /\ InPast /\ \A p \in Reqs : Served(p)

\* A step of request p that leaves what the request is about.
Moves(p, pc) ==
  /\ req' \in [Reqs -> Req]
  /\ \A q \in Reqs \ {p} : req'[q] = req[q]
  /\ req'[p].pc = pc
  /\ req'[p].op = req[p].op /\ req'[p].adm = req[p].adm /\ req'[p].tok = req[p].tok

LEMMA GotoMoves ==
  ASSUME TypeOK, NEW p \in Reqs, NEW pc \in Pcs, Goto(p, pc)
  PROVE  Moves(p, pc) /\ req'[p].toks \subseteq req[p].toks
  BY DEF Goto, TypeOK, Req, Moves

\* A request that moves on is still served when nothing is taken from issued.
LEMMA MovesServed ==
  ASSUME TInv, NEW p \in Reqs, NEW pc \in Pcs \ {"new"}, Moves(p, pc), issued \subseteq issued',
         req[p].pc # "new",
         pc \in {"count", "check", "compare", "update", "readAll", "markAll", "clear",
                 "find", "get", "set", "readList", "push"} =>
           /\ pc # "count"
           /\ pc = "check" => req[p].op = "refresh"
           /\ pc = "find" => req[p].op \in {"login", "refresh", "change"}
           /\ pc = "compare" => req[p].op = "login"
           /\ pc \in {"get", "set", "readList", "push"} => Presents(p)
           /\ pc \in {"update", "readAll", "markAll", "clear"} => req[p].op = "change"
  PROVE  \A q \in Reqs : Served(q)'
  <1>1. Served(p)'
    BY DEF TInv, Served, Moves, Presents
  <1>2. ASSUME NEW q \in Reqs \ {p} PROVE Served(q)'
    BY <1>2 DEF TInv, Served, Moves
  <1>3. QED
    BY <1>1, <1>2

\* A step that changes nothing but the place of its request.
LEMMA PlaceTInv ==
  ASSUME TInv, NEW p \in Reqs, NEW pc \in Pcs \ {"new"}, Moves(p, pc), \A q \in Reqs : Served(q)',
         UNCHANGED <<now, issued, black, list, tries, forgotten, raced>>
  PROVE  TInv'
  BY DEF TInv, TypeOK, InPast, Moves

LEMMA EntersServed ==
  ASSUME TInv, NEW p \in Reqs, NEW op \in Ops, NEW pc \in {"count", "find", "get"}, NEW a \in Admins,
         NEW t \in Token \cup {NoToken}, NEW seen \in Nat, Enter(p, op, pc, a, t, seen),
         op \in {"refresh", "logout"} => t \in issued,
         pc = "count" => op \in {"login", "refresh"},
         pc = "find" => op = "change",
         pc = "get" => op = "logout",
         issued' = issued
  PROVE  req' \in [Reqs -> Req] /\ \A q \in Reqs : Served(q)'
  <1>0. pc \in Pcs /\ TypeOK
    BY DEF TInv, Pcs
  <1>1. /\ req' \in [Reqs -> Req]
        /\ \A q \in Reqs \ {p} : req'[q] = req[q]
        /\ req'[p] = [req[p] EXCEPT !.op = op, !.pc = pc, !.adm = a, !.tok = t, !.seen = seen]
    BY <1>0 DEF Enter, At, TypeOK, Req
  <1>2. req[p] \in Req
    BY DEF TInv, TypeOK
  <1>3. req'[p].op = op /\ req'[p].pc = pc /\ req'[p].adm = a /\ req'[p].tok = t
    BY <1>1, <1>2 DEF Req
  <1>4. Served(p)'
    BY <1>3 DEF Served
  <1>5. ASSUME NEW q \in Reqs \ {p} PROVE Served(q)'
    BY <1>1, <1>5 DEF TInv, Served
  <1>6. QED
    BY <1>1, <1>4, <1>5

LEMMA EnterTInv ==
  ASSUME TInv, NEW p \in Reqs,
         \/ \E a \in Admins : Login(p, a)
         \/ \E t \in Token : Refresh(p, t) \/ Change(p, t)
         \/ \E acc, t \in Token : Logout(p, acc, t)
  PROVE  TInv'
  <1>1. ASSUME NEW a \in Admins, Login(p, a) PROVE TInv'
    <2>1. Enter(p, "login", "count", a, NoToken, tries[a].n) /\ tries[a].n \in Nat
      BY <1>1 DEF Login, ReadTries, TInv, TypeOK, Keys
    <2>2. req' \in [Reqs -> Req] /\ \A q \in Reqs : Served(q)'
      BY <1>1, <2>1, EntersServed DEF Login, ReadTries, Ops
    <2>3. raced' \subseteq Keys
      BY <1>1 DEF Login, ReadTries, TInv, TypeOK, Keys
    <2>4. QED
      BY <1>1, <2>2, <2>3 DEF Login, ReadTries, cache, TInv, TypeOK, InPast
  <1>2. ASSUME NEW t \in Token, Refresh(p, t) PROVE TInv'
    <2>1. /\ t \in issued /\ t.of \in Admins
          /\ Enter(p, "refresh", "count", t.of, t, tries[t].n) /\ tries[t].n \in Nat
      BY <1>2 DEF Refresh, ReadTries, TInv, TypeOK, Keys, Token
    <2>2. req' \in [Reqs -> Req] /\ \A q \in Reqs : Served(q)'
      BY <1>2, <2>1, EntersServed DEF Refresh, ReadTries, Ops
    <2>3. raced' \subseteq Keys
      BY <1>2 DEF Refresh, ReadTries, TInv, TypeOK, Keys
    <2>4. QED
      BY <1>2, <2>2, <2>3 DEF Refresh, ReadTries, cache, TInv, TypeOK, InPast
  <1>3. ASSUME NEW t \in Token, Change(p, t) PROVE TInv'
    <2>1. t.of \in Admins /\ Enter(p, "change", "find", t.of, NoToken, 0)
      BY <1>3 DEF Change, Token
    <2>2. req' \in [Reqs -> Req] /\ \A q \in Reqs : Served(q)'
      BY <1>3, <2>1, EntersServed DEF Change, Ops
    <2>3. QED
      BY <1>3, <2>2 DEF Change, cache, TInv, TypeOK, InPast
  <1>4. ASSUME NEW acc \in Token, NEW t \in Token, Logout(p, acc, t) PROVE TInv'
    <2>1. t \in issued /\ t.of \in Admins /\ Enter(p, "logout", "get", t.of, t, 0)
      BY <1>4 DEF Logout, Token
    <2>2. req' \in [Reqs -> Req] /\ \A q \in Reqs : Served(q)'
      BY <1>4, <2>1, EntersServed DEF Logout, Ops
    <2>3. QED
      BY <1>4, <2>2 DEF Logout, cache, TInv, TypeOK, InPast
  <1>5. QED
    BY <1>1, <1>2, <1>3, <1>4

\* What an answer hands out is a new token of the request's administrator.
LEMMA AnswerAnswers ==
  ASSUME TInv, NEW p \in Reqs, req[p].pc # "new", now' = now, Answer(p)
  PROVE  /\ Moves(p, "done")
         /\ issued \subseteq issued' /\ issued' \subseteq Token /\ InPast'
         /\ \A q \in Reqs : Served(q)'
  <1>1. Moves(p, "done")
    BY GotoMoves DEF Answer, TInv, Pcs, Ended
  <1>2. Fresh(req[p].adm) \in Token /\ Fresh(req[p].adm).iat = now
    BY DEF TInv, Served, TypeOK, Fresh, Token
  <1>3. issued \subseteq issued' /\ issued' \subseteq Token /\ InPast'
    BY <1>2 DEF Answer, TInv, TypeOK, InPast
  <1>4. \A q \in Reqs : Served(q)'
    BY <1>1, <1>3, MovesServed DEF Pcs, Ended
  <1>5. QED
    BY <1>1, <1>3, <1>4

LEMMA StepTInv == ASSUME TInv, NEW p \in Reqs, Step(p) PROVE TInv'
  <1> DEFINE Rest == UNCHANGED <<now, black, list, tries, forgotten, raced>>
  <1>0. TypeOK /\ Served(p)
    BY DEF TInv
  <1>1. CASE \/ \E a \in Admins : Login(p, a)
             \/ \E t \in Token : Refresh(p, t) \/ Change(p, t)
             \/ \E acc, t \in Token : Logout(p, acc, t)
    BY <1>1, EnterTInv
  <1>2. CASE Count(p)
    <2> DEFINE pc == IF req[p].op = "login" THEN "find" ELSE "check"
    <2>1. req' = [req EXCEPT ![p].pc = pc, ![p].at = now, ![p].seen = 0] /\ now \in Int
      BY <1>0, <1>2 DEF Count, TypeOK
    <2>2. Moves(p, pc)
      <3>1. req[p] \in Req /\ pc \in Pcs
        BY <1>0 DEF TypeOK, Pcs
      <3>2. [req[p] EXCEPT !.pc = pc, !.at = now, !.seen = 0] \in Req
        BY <2>1, <3>1 DEF Req
      <3>3. req' = [req EXCEPT ![p] = [req[p] EXCEPT !.pc = pc, !.at = now, !.seen = 0]]
        BY <2>1
      <3>4. QED
        BY <1>0, <3>1, <3>2, <3>3 DEF TypeOK, Req, Moves
    <2>3. req[p].pc # "new" /\ req[p].op \in {"login", "refresh"}
      BY <1>0, <1>2 DEF Count, At, Served
    <2>4. \A q \in Reqs : Served(q)'
      BY <1>2, <2>2, <2>3, MovesServed DEF Count, Pcs
    <2>5. tries' \in [Keys -> [n : Nat, until : Int]]
      <3>1. req[p].seen + 1 \in Nat /\ now + Window \in Int
        BY <1>0, Lifetimes DEF TypeOK, Req
      <3>2. QED
        BY <1>0, <1>2, <3>1 DEF Count, TypeOK
    <2>6. QED
      BY <1>2, <2>2, <2>4, <2>5 DEF Count, TInv, TypeOK, InPast, Moves
  <1>3. CASE Check(p)
    <2>1. PICK pc \in {"find", "refused"} : Goto(p, pc)
      BY <1>3 DEF Check
    <2>2. req[p].pc = "check" /\ req[p].op = "refresh"
      BY <1>0, <1>3 DEF Check, At, Served
    <2>3. Moves(p, pc)
      BY <1>0, <2>1, GotoMoves DEF Pcs, Ended
    <2>4. \A q \in Reqs : Served(q)'
      BY <1>3, <2>2, <2>3, MovesServed DEF Check, Pcs, Ended
    <2>5. QED
      BY <1>3, <2>3, <2>4, PlaceTInv DEF Check, cache, Pcs, Ended
  <1>4. CASE Find(p)
    <2>1. PICK pc \in {"refused", "compare", "get", "update"} :
            /\ Goto(p, pc)
            /\ pc = "compare" => req[p].op = "login"
            /\ pc = "get" => req[p].op = "refresh"
            /\ pc = "update" => req[p].op \notin {"login", "refresh"}
      BY <1>4 DEF Find
    <2>2. req[p].pc = "find" /\ req[p].op \in {"login", "refresh", "change"}
      BY <1>0, <1>4 DEF Find, At, Served
    <2>3. Moves(p, pc)
      BY <1>0, <2>1, GotoMoves DEF Pcs, Ended
    <2>4. \A q \in Reqs : Served(q)'
      BY <1>4, <2>1, <2>2, <2>3, MovesServed DEF Find, Pcs, Ended, Presents
    <2>5. QED
      BY <1>4, <2>3, <2>4, PlaceTInv DEF Find, cache, Pcs, Ended
  <1>5. CASE \/ Compare(p) \/ GetEntry(p)
    <2>1. req[p].pc \in {"compare", "get"} /\ UNCHANGED <<now, black, list, tries, forgotten, raced>>
      BY <1>5 DEF Compare, GetEntry, At, cache
    <2>2. CASE Answer(p)
      BY <1>0, <2>1, <2>2, AnswerAnswers DEF TInv, TypeOK, Moves
    <2>3. CASE ~Answer(p)
      <3>1. PICK pc \in {"refused", "set"} :
              Goto(p, pc) /\ UNCHANGED issued /\ (pc = "set" => req[p].pc = "get")
        BY <1>5, <2>3 DEF Compare, GetEntry, At
      <3>2. Moves(p, pc)
        BY <1>0, <3>1, GotoMoves DEF Pcs, Ended
      <3>3. \A q \in Reqs : Served(q)'
        <4>1. pc = "set" => Presents(p)
          BY <1>0, <3>1 DEF Served, Presents
        <4>2. QED
          BY <2>1, <3>1, <3>2, <4>1, MovesServed DEF Pcs, Ended
      <3>4. QED
        BY <2>1, <3>1, <3>2, <3>3, PlaceTInv DEF Pcs, Ended
    <2>4. QED
      BY <2>2, <2>3
  <1>6. CASE SetEntry(p)
    <2>1. Goto(p, "readList") /\ req[p].pc = "set" /\ UNCHANGED <<now, issued, list, tries, forgotten, raced>>
      BY <1>6 DEF SetEntry, At
    <2>2. Moves(p, "readList")
      BY <1>0, <2>1, GotoMoves DEF Pcs
    <2>3. Presents(p)
      BY <1>0, <2>1 DEF Served, Presents
    <2>4. \A q \in Reqs : Served(q)'
      BY <2>1, <2>2, <2>3, MovesServed DEF Pcs
    <2>5. black' \in [Token -> Int]
      <3>1. now + BlacklistTtl \in Int
        BY <1>0, Lifetimes DEF TypeOK
      <3>2. QED
        BY <1>0, <1>6, <3>1 DEF SetEntry, TypeOK
    <2>6. QED
      BY <2>1, <2>2, <2>4, <2>5 DEF TInv, TypeOK, InPast, Moves
  <1>7. CASE ReadList(p)
    <2>1. /\ req' = [req EXCEPT ![p].pc = "push", ![p].toks = list[req[p].adm].toks]
          /\ req[p].pc = "readList" /\ UNCHANGED <<now, issued, black, list, tries, forgotten, raced>>
      BY <1>7 DEF ReadList, At, cache
    <2>2. list[req[p].adm].toks \subseteq Token /\ Presents(p)
      BY <1>0, <2>1 DEF Served, TypeOK, Presents
    <2>3. Moves(p, "push")
      BY <1>0, <2>1, <2>2 DEF TypeOK, Req, Pcs, Moves
    <2>4. \A q \in Reqs : Served(q)'
      BY <2>1, <2>2, <2>3, MovesServed DEF Pcs
    <2>5. QED
      BY <2>1, <2>3, <2>4, PlaceTInv DEF Pcs
  <1>8. CASE Push(p)
    <2>1. /\ Answer(p) /\ req[p].pc = "push" /\ UNCHANGED <<now, black, tries, forgotten, raced>>
          /\ list' = [list EXCEPT ![req[p].adm] = [toks |-> req[p].toks \cup {req[p].tok},
                                                   until |-> now + BlacklistTtl]]
      BY <1>8 DEF Push, At
    <2>2. req[p].toks \cup {req[p].tok} \subseteq Token
      BY <1>0, <2>1 DEF Served, TypeOK, Req
    <2>3. list' \in [Admins -> [toks : SUBSET Token, until : Int]]
      <3>1. now + BlacklistTtl \in Int
        BY <1>0, Lifetimes DEF TypeOK
      <3>2. QED
        BY <1>0, <2>1, <2>2, <3>1 DEF TypeOK
    <2>4. QED
      BY <1>0, <2>1, <2>3, AnswerAnswers DEF TInv, TypeOK, Moves
  <1>9. CASE Update(p)
    <2>1. Goto(p, "readAll") /\ req[p].pc = "update" /\ req[p].op = "change"
      BY <1>0, <1>9 DEF Update, At, Served
    <2>2. Moves(p, "readAll")
      BY <1>0, <2>1, GotoMoves DEF Pcs
    <2>3. \A q \in Reqs : Served(q)'
      BY <1>9, <2>1, <2>2, MovesServed DEF Update, Pcs
    <2>4. QED
      BY <1>9, <2>2, <2>3, PlaceTInv DEF Update, cache, Pcs
  <1>10. CASE ReadAll(p)
    <2> DEFINE toks == list[req[p].adm].toks
    <2>1. PICK pc \in {"done", "markAll"} : req' = [req EXCEPT ![p].pc = pc, ![p].toks = toks]
      BY <1>10 DEF ReadAll
    <2>2. req[p].pc = "readAll" /\ req[p].op = "change" /\ toks \subseteq Token
      BY <1>0, <1>10 DEF ReadAll, At, Served, TypeOK
    <2>3. Moves(p, pc)
      <3>1. pc \in Pcs /\ toks \in SUBSET Token
        BY <2>2 DEF Pcs, Ended
      <3>2. QED
        BY <1>0, <2>1, <3>1 DEF TypeOK, Req, Moves
    <2>4. \A q \in Reqs : Served(q)'
      BY <1>10, <2>2, <2>3, MovesServed DEF ReadAll, Pcs, Ended
    <2>5. QED
      BY <1>10, <2>3, <2>4, PlaceTInv DEF ReadAll, cache, Pcs, Ended
  <1>11. ASSUME NEW t \in Token, Mark(p, t) PROVE TInv'
    <2>1. PICK pc \in {"markAll", "clear"} :
            req' = [req EXCEPT ![p].toks = req[p].toks \ {t}, ![p].pc = pc]
      BY <1>11 DEF Mark, At
    <2>2. req[p].pc = "markAll" /\ req[p].op = "change" /\ req[p].toks \subseteq Token
      BY <1>0, <1>11 DEF Mark, At, Served, TypeOK, Req
    <2>3. Moves(p, pc)
      BY <1>0, <2>1, <2>2 DEF TypeOK, Req, Pcs, Moves
    <2>4. \A q \in Reqs : Served(q)'
      BY <1>11, <2>2, <2>3, MovesServed DEF Mark, Pcs
    <2>5. black' \in [Token -> Int]
      <3>1. now + BlacklistTtl \in Int
        BY <1>0, Lifetimes DEF TypeOK
      <3>2. QED
        BY <1>0, <1>11, <3>1 DEF Mark, TypeOK
    <2>6. QED
      BY <1>11, <2>3, <2>4, <2>5 DEF Mark, TInv, TypeOK, InPast, Moves
  <1>12. CASE Clear(p)
    <2>1. Goto(p, "done") /\ req[p].pc = "clear"
      BY <1>12 DEF Clear, At
    <2>2. Moves(p, "done")
      BY <1>0, <2>1, GotoMoves DEF Pcs, Ended
    <2>3. \A q \in Reqs : Served(q)'
      BY <1>12, <2>1, <2>2, MovesServed DEF Clear, Pcs, Ended
    <2>4. list' \in [Admins -> [toks : SUBSET Token, until : Int]]
      <3>1. NoList \in [toks : SUBSET Token, until : Int]
        BY DEF NoList, Absent
      <3>2. QED
        BY <1>0, <1>12, <3>1 DEF Clear, TypeOK
    <2>5. QED
      BY <1>12, <2>2, <2>3, <2>4 DEF Clear, TInv, TypeOK, InPast, Moves
  <1>13. CASE Fail(p)
    <2>1. Goto(p, "refused") /\ req[p].pc # "new"
      BY <1>13 DEF Fail, Open
    <2>2. Moves(p, "refused")
      BY <1>0, <2>1, GotoMoves DEF Pcs, Ended
    <2>3. \A q \in Reqs : Served(q)'
      BY <1>13, <2>1, <2>2, MovesServed DEF Fail, Pcs, Ended
    <2>4. QED
      BY <1>13, <2>2, <2>3, PlaceTInv DEF Fail, cache, Pcs, Ended
  <1>14. QED
    BY <1>1, <1>2, <1>3, <1>4, <1>5, <1>6, <1>7, <1>8, <1>9, <1>10, <1>11, <1>12, <1>13 DEF Step

LEMMA TickTInv == ASSUME TInv, Tick PROVE TInv'
  <1>0. TypeOK
    BY DEF TInv
  <1>1. now' \in 0 .. MaxTime /\ now' = now + 1 /\ now \in Nat /\ UNCHANGED <<issued, forgotten, raced>>
    BY <1>0, Lifetimes DEF Tick, TypeOK
  <1>2. black' \in [Token -> Int] /\ list' \in [Admins -> [toks : SUBSET Token, until : Int]]
    <2>1. NoList \in [toks : SUBSET Token, until : Int] /\ Absent \in Int
      BY DEF NoList, Absent
    <2>2. QED
      BY <1>0, <2>1 DEF Tick, TypeOK
  <1>3. tries' \in [Keys -> [n : Nat, until : Int]]
    <2>1. NoCount \in [n : Nat, until : Int]
      BY DEF NoCount, Absent
    <2>2. QED
      BY <1>0, <2>1 DEF Tick, TypeOK
  <1>4. /\ req' \in [Reqs -> Req]
        /\ \A q \in Reqs : /\ req'[q].pc = req[q].pc /\ req'[q].op = req[q].op
                           /\ req'[q].adm = req[q].adm /\ req'[q].tok = req[q].tok
    <2>1. \A q \in Reqs : \E i \in Int : req'[q] = [req[q] EXCEPT !.at = i]
      <3> SUFFICES ASSUME NEW q \in Reqs PROVE \E i \in Int : req'[q] = [req[q] EXCEPT !.at = i]
        OBVIOUS
      <3> DEFINE i == IF req[q].at < now' - Window THEN Absent ELSE req[q].at
      <3>1. i \in Int /\ req'[q] = [req[q] EXCEPT !.at = i]
        BY <1>0 DEF Tick, TypeOK, Req, Absent
      <3>2. QED
        BY <3>1
    <2>2. ASSUME NEW q \in Reqs
          PROVE  /\ req'[q] \in Req
                 /\ req'[q].pc = req[q].pc /\ req'[q].op = req[q].op
                 /\ req'[q].adm = req[q].adm /\ req'[q].tok = req[q].tok
      <3>1. PICK i \in Int : req'[q] = [req[q] EXCEPT !.at = i]
        BY <2>1
      <3>2. QED
        BY <1>0, <3>1 DEF TypeOK, Req
    <2>3. req' = [q \in Reqs |-> req'[q]]
      BY DEF Tick
    <2>4. QED
      BY <2>2, <2>3
  <1>5. \A q \in Reqs : Served(q)'
    BY <1>1, <1>4 DEF TInv, Served
  <1>6. InPast'
    <2>1. \A t \in issued : t.iat \in Int
      BY <1>0 DEF TypeOK, Token
    <2>2. QED
      BY <1>1, <2>1 DEF TInv, InPast
  <1>7. TypeOK'
    BY <1>0, <1>1, <1>2, <1>3, <1>4 DEF TypeOK
  <1>8. QED
    BY <1>5, <1>6, <1>7 DEF TInv

LEMMA RestartRequests ==
  ASSUME TypeOK, Restart
  PROVE  /\ req' \in [Reqs -> Req]
         /\ \A q \in Reqs : /\ req'[q].op = req[q].op /\ req'[q].adm = req[q].adm
                            /\ req'[q].tok = req[q].tok /\ req'[q].toks \subseteq req[q].toks
                            /\ req'[q].pc = IF q \in Open THEN "refused" ELSE req[q].pc
  <1>1. ASSUME NEW q \in Reqs
        PROVE  /\ req'[q] \in Req
               /\ req'[q].op = req[q].op /\ req'[q].adm = req[q].adm
               /\ req'[q].tok = req[q].tok /\ req'[q].toks \subseteq req[q].toks
               /\ req'[q].pc = IF q \in Open THEN "refused" ELSE req[q].pc
    <2>1. req[q] \in Req /\ "refused" \in Pcs
      BY DEF TypeOK, Pcs, Ended
    <2>2. CASE q \in Open
      <3>1. req'[q] = [req[q] EXCEPT !.pc = "refused", !.seen = 0, !.toks = {}]
        BY <2>2 DEF Restart
      <3>2. req'[q] \in Req
        <4>1. [req[q] EXCEPT !.pc = "refused", !.seen = 0] \in Req
          BY <2>1 DEF Req
        <4>2. \A r \in Req : [r EXCEPT !.toks = {}] \in Req
          BY DEF Req
        <4>3. req'[q] = [[req[q] EXCEPT !.pc = "refused", !.seen = 0] EXCEPT !.toks = {}]
          BY <3>1
        <4>4. QED
          BY <4>1, <4>2, <4>3
      <3>3. /\ req'[q].op = req[q].op /\ req'[q].adm = req[q].adm
            /\ req'[q].tok = req[q].tok /\ req'[q].toks = {} /\ req'[q].pc = "refused"
        BY <2>1, <3>1 DEF Req
      <3>4. QED
        BY <2>2, <3>2, <3>3
    <2>3. CASE q \notin Open
      BY <2>1, <2>3 DEF Restart
    <2>4. QED
      BY <2>2, <2>3
  <1>2. req' = [q \in Reqs |-> req'[q]]
    BY DEF Restart
  <1>3. QED
    BY <1>1, <1>2

LEMMA RestartTInv == ASSUME TInv, Restart PROVE TInv'
  <1>0. TypeOK
    BY DEF TInv
  <1>1. UNCHANGED <<now, issued>>
    BY DEF Restart
  <1>2. /\ black' \in [Token -> Int] /\ list' \in [Admins -> [toks : SUBSET Token, until : Int]]
        /\ tries' \in [Keys -> [n : Nat, until : Int]]
    <2>1. NoList \in [toks : SUBSET Token, until : Int] /\ NoCount \in [n : Nat, until : Int] /\ Absent \in Int
      BY DEF NoList, NoCount, Absent
    <2>2. QED
      BY <2>1 DEF Restart
  <1>3. forgotten' \subseteq Token /\ raced' \subseteq Keys
    BY <1>0 DEF Restart, TypeOK
  <1>4. TypeOK'
    BY <1>0, <1>1, <1>2, <1>3, RestartRequests DEF TypeOK
  <1>5. \A q \in Reqs : Served(q)'
    BY <1>0, <1>1, RestartRequests DEF TInv, Served, Open, Ended
  <1>6. QED
    BY <1>1, <1>4, <1>5 DEF TInv, InPast

LEMMA InitTInv == Init => TInv
  <1> SUFFICES ASSUME Init PROVE TInv
    OBVIOUS
  <1>1. NoToken \in Token \cup {NoToken} /\ "new" \in Pcs /\ "none" \in Ops
    BY DEF Pcs, Ops
  <1>2. [op |-> "none", pc |-> "new", adm |-> "none", tok |-> NoToken,
         seen |-> 0, toks |-> {}, at |-> Absent] \in Req
    BY <1>1 DEF Req, Absent
  <1>3. /\ NoList \in [toks : SUBSET Token, until : Int] /\ NoCount \in [n : Nat, until : Int]
        /\ Absent \in Int /\ 0 \in 0 .. MaxTime
    BY Lifetimes DEF NoList, NoCount, Absent
  <1>4. TypeOK
    BY <1>2, <1>3 DEF Init, TypeOK
  <1>5. QED
    BY <1>4 DEF Init, TInv, InPast, Served

LEMMA NextTInv == TInv /\ [Next]_vars => TInv'
  <1>1. CASE UNCHANGED vars
    BY <1>1 DEF vars, TInv, TypeOK, InPast, Served
  <1>2. QED
    BY <1>1, StepTInv, TickTInv, RestartTInv DEF Next

(* The blacklist, the lists, the counters and the requests keep their      *)
(* types, and what a request is about fits the place it is at.             *)
THEOREM SessionTypeCorrect == Spec => []TypeOK
  <1>1. TInv => TypeOK
    BY DEF TInv
  <1>2. QED
    BY <1>1, InitTInv, NextTInv, PTL DEF Spec

-----------------------------------------------------------------------------
(***************************************************************************)
(* What a step of request p does to the blacklist and the lists, and which *)
(* of its steps lead to an answer.                                         *)
(***************************************************************************)
Writes(p, t) ==
  \/ req[p].pc = "set" /\ t = req[p].tok
  \/ req[p].pc = "markAll" /\ t \in req[p].toks

Spending == {"readList", "push", "done"}

Effects(p) ==
  /\ now' = now /\ forgotten' = forgotten
  /\ \A q \in Reqs \ {p} : req'[q] = req[q]
  /\ req[p].pc # "new" => req'[p].op = req[p].op /\ req'[p].tok = req[p].tok
  /\ \A t \in Token : black'[t] = black[t] \/ (Writes(p, t) /\ black'[t] = now + BlacklistTtl)
  /\ \A a \in Admins : \A t \in list'[a].toks :
       t \in list[a].toks \/ t \in req[p].toks \/ (req[p].pc = "push" /\ t = req[p].tok)
  /\ \A t \in req'[p].toks : t \in req[p].toks \/ \E a \in Admins : t \in list[a].toks
  /\ req'[p].pc \in Spending /\ req'[p].op \in {"refresh", "logout"} =>
       \/ req[p].pc \in Spending
       \/ req[p].pc = "set" /\ black'[req[p].tok] = now + BlacklistTtl
       \/ req[p].pc = "get" /\ Blacklisted(req[p].tok)

LEMMA EnterEffects ==
  ASSUME TInv, NEW p \in Reqs,
         \/ \E a \in Admins : Login(p, a)
         \/ \E t \in Token : Refresh(p, t) \/ Change(p, t)
         \/ \E acc, t \in Token : Logout(p, acc, t)
  PROVE  Effects(p)
  <1>1. PICK op \in Ops, pc \in {"count", "find", "get"}, a \in Admins \cup {"none"},
             t \in Token \cup {NoToken}, seen \in Nat : Enter(p, op, pc, a, t, seen)
    <2>1. ASSUME NEW a \in Admins, Login(p, a) PROVE Enter(p, "login", "count", a, NoToken, tries[a].n) /\ tries[a].n \in Nat
      BY <2>1 DEF Login, ReadTries, TInv, TypeOK, Keys
    <2>2. ASSUME NEW t \in Token, Refresh(p, t) PROVE Enter(p, "refresh", "count", t.of, t, tries[t].n) /\ tries[t].n \in Nat
      BY <2>2 DEF Refresh, ReadTries, TInv, TypeOK, Keys
    <2>3. ASSUME NEW t \in Token, Change(p, t) PROVE Enter(p, "change", "find", t.of, NoToken, 0)
      BY <2>3 DEF Change
    <2>4. ASSUME NEW acc \in Token, NEW t \in Token, Logout(p, acc, t) PROVE Enter(p, "logout", "get", t.of, t, 0)
      BY <2>4 DEF Logout
    <2>5. \A t \in Token : t.of \in Admins
      BY DEF Token
    <2>6. QED
      BY <2>1, <2>2, <2>3, <2>4, <2>5 DEF Ops
  <1>2. UNCHANGED <<now, black, list, forgotten>>
    BY DEF Login, Refresh, ReadTries, Change, Logout, cache
  <1>3. /\ req[p].pc = "new"
        /\ \A q \in Reqs \ {p} : req'[q] = req[q]
        /\ req'[p].pc = pc /\ req'[p].toks = req[p].toks
    BY <1>1 DEF Enter, At, TInv, TypeOK, Req
  <1>4. QED
    BY <1>2, <1>3 DEF Effects, Spending

LEMMA StepEffects == ASSUME TInv, NEW p \in Reqs, Step(p) PROVE Effects(p)
  <1>0. TypeOK /\ Served(p)
    BY DEF TInv
  <1> DEFINE Calm == UNCHANGED <<now, black, list, forgotten>>
  \* Most steps only move the request.
  <1>a. ASSUME NEW pc \in Pcs, Moves(p, pc), Calm,
               \A t \in req'[p].toks : t \in req[p].toks \/ \E a \in Admins : t \in list[a].toks,
               pc \in Spending /\ Presents(p) =>
                 req[p].pc \in Spending \/ (req[p].pc = "get" /\ Blacklisted(req[p].tok))
        PROVE  Effects(p)
    BY <1>a DEF Effects, Moves, Presents
  <1>b. ASSUME NEW pc \in Pcs, Goto(p, pc), Calm,
               pc \in Spending /\ Presents(p) =>
                 req[p].pc \in Spending \/ (req[p].pc = "get" /\ Blacklisted(req[p].tok))
        PROVE  Effects(p)
    BY <1>0, <1>a, <1>b, GotoMoves
  <1>1. CASE \/ \E a \in Admins : Login(p, a)
             \/ \E t \in Token : Refresh(p, t) \/ Change(p, t)
             \/ \E acc, t \in Token : Logout(p, acc, t)
    BY <1>1, EnterEffects
  <1>2. CASE Count(p)
    <2>1. PICK pc \in {"find", "check"} :
            req' = [req EXCEPT ![p].pc = pc, ![p].at = now, ![p].seen = 0]
      BY <1>2 DEF Count
    <2>2. /\ \A q \in Reqs \ {p} : req'[q] = req[q]
          /\ req'[p].pc = pc /\ req'[p].op = req[p].op /\ req'[p].tok = req[p].tok
          /\ req'[p].toks = req[p].toks
      BY <1>0, <2>1 DEF TypeOK, Req
    <2>3. QED
      BY <1>2, <2>2 DEF Count, Effects, Spending
  <1>3. CASE Check(p)
    BY <1>3, <1>b DEF Check, cache, Pcs, Ended, Spending
  <1>4. CASE Find(p)
    <2>1. PICK pc \in {"refused", "compare", "get", "update"} : Goto(p, pc)
      BY <1>4 DEF Find
    <2>2. QED
      BY <1>4, <1>b, <2>1 DEF Find, cache, Pcs, Ended, Spending
  <1>5. CASE Compare(p)
    <2>1. PICK pc \in {"done", "refused"} : Goto(p, pc)
      BY <1>5 DEF Compare, Answer
    <2>2. ~Presents(p) /\ Calm
      BY <1>0, <1>5 DEF Compare, At, Served, Presents, cache
    <2>3. QED
      BY <1>b, <2>1, <2>2 DEF Pcs, Ended
  <1>6. CASE GetEntry(p)
    <2>1. (Goto(p, "done") /\ Blacklisted(req[p].tok)) \/ Goto(p, "set")
      BY <1>6 DEF GetEntry, Answer
    <2>2. req[p].pc = "get" /\ Calm
      BY <1>6 DEF GetEntry, At, cache
    <2>3. QED
      BY <1>b, <2>1, <2>2 DEF Pcs, Ended, Spending
  <1>7. CASE SetEntry(p)
    <2>1. /\ req[p].pc = "set" /\ req[p].tok \in Token
          /\ Goto(p, "readList") /\ UNCHANGED <<now, list, forgotten>>
          /\ black' = [black EXCEPT ![req[p].tok] = now + BlacklistTtl]
      BY <1>0, <1>7 DEF SetEntry, At, Served, TypeOK
    <2>2. Moves(p, "readList") /\ req'[p].toks \subseteq req[p].toks
      BY <1>0, <2>1, GotoMoves DEF Pcs
    <2>3. /\ black'[req[p].tok] = now + BlacklistTtl
          /\ \A t \in Token : black'[t] = black[t] \/ (t = req[p].tok /\ black'[t] = now + BlacklistTtl)
      BY <1>0, <2>1 DEF TypeOK
    <2>4. QED
      BY <2>1, <2>2, <2>3 DEF Effects, Moves, Writes
  <1>8. CASE ReadList(p)
    <2>1. /\ req' = [req EXCEPT ![p].pc = "push", ![p].toks = list[req[p].adm].toks]
          /\ req[p].pc = "readList" /\ Calm
      BY <1>8 DEF ReadList, At, cache
    <2>2. /\ \A q \in Reqs \ {p} : req'[q] = req[q]
          /\ req'[p].pc = "push" /\ req'[p].op = req[p].op /\ req'[p].tok = req[p].tok
          /\ req'[p].toks = list[req[p].adm].toks /\ req[p].adm \in Admins
      BY <1>0, <2>1 DEF TypeOK, Req, Served
    <2>3. QED
      BY <2>1, <2>2 DEF Effects, Spending
  <1>9. CASE Push(p)
    <2>1. /\ Goto(p, "done") /\ req[p].pc = "push" /\ UNCHANGED <<now, black, forgotten>>
          /\ list' = [list EXCEPT ![req[p].adm] = [toks |-> req[p].toks \cup {req[p].tok},
                                                   until |-> now + BlacklistTtl]]
      BY <1>9 DEF Push, At, Answer
    <2>2. Moves(p, "done") /\ req'[p].toks \subseteq req[p].toks
      BY <1>0, <2>1, GotoMoves DEF Pcs, Ended
    <2>3. \A a \in Admins : \A t \in list'[a].toks :
            t \in list[a].toks \/ t \in req[p].toks \/ t = req[p].tok
      BY <1>0, <2>1 DEF TypeOK
    <2>4. QED
      BY <2>1, <2>2, <2>3 DEF Effects, Moves, Spending
  <1>10. CASE Update(p)
    BY <1>10, <1>b DEF Update, cache, Pcs, Spending
  <1>11. CASE ReadAll(p)
    <2>1. PICK pc \in {"done", "markAll"} :
            req' = [req EXCEPT ![p].pc = pc, ![p].toks = list[req[p].adm].toks]
      BY <1>11 DEF ReadAll
    <2>2. req[p].adm \in Admins /\ req[p].op = "change" /\ Calm
      BY <1>0, <1>11 DEF ReadAll, At, Served, cache
    <2>3. /\ \A q \in Reqs \ {p} : req'[q] = req[q]
          /\ req'[p].op = req[p].op /\ req'[p].tok = req[p].tok
          /\ req'[p].toks = list[req[p].adm].toks
      BY <1>0, <2>1 DEF TypeOK, Req
    <2>4. QED
      BY <2>2, <2>3 DEF Effects
  <1>12. ASSUME NEW t \in Token, Mark(p, t) PROVE Effects(p)
    <2>1. PICK pc \in {"markAll", "clear"} :
            req' = [req EXCEPT ![p].toks = req[p].toks \ {t}, ![p].pc = pc]
      BY <1>12 DEF Mark, At
    <2>2. /\ req[p].pc = "markAll" /\ t \in req[p].toks /\ UNCHANGED <<now, list, forgotten>>
          /\ black' = [black EXCEPT ![t] = now + BlacklistTtl]
      BY <1>12 DEF Mark, At
    <2>3. /\ \A q \in Reqs \ {p} : req'[q] = req[q]
          /\ req'[p].pc = pc /\ req'[p].op = req[p].op /\ req'[p].tok = req[p].tok
          /\ req'[p].toks \subseteq req[p].toks
      BY <1>0, <2>1 DEF TypeOK, Req
    <2>4. \A u \in Token : black'[u] = black[u] \/ (u = t /\ black'[u] = now + BlacklistTtl)
      BY <1>0, <2>2 DEF TypeOK
    <2>5. QED
      BY <2>2, <2>3, <2>4 DEF Effects, Writes, Spending
  <1>13. CASE Clear(p)
    <2>1. /\ Goto(p, "done") /\ req[p].op = "change" /\ UNCHANGED <<now, black, forgotten>>
          /\ list' = [list EXCEPT ![req[p].adm] = NoList]
      BY <1>0, <1>13 DEF Clear, At, Served
    <2>2. Moves(p, "done") /\ req'[p].toks \subseteq req[p].toks
      BY <1>0, <2>1, GotoMoves DEF Pcs, Ended
    <2>3. \A a \in Admins : \A t \in list'[a].toks : t \in list[a].toks
      BY <1>0, <2>1 DEF TypeOK, NoList
    <2>4. QED
      BY <2>1, <2>2, <2>3 DEF Effects, Moves
  <1>14. CASE Fail(p)
    BY <1>14, <1>b DEF Fail, cache, Pcs, Ended, Spending
  <1>15. QED
    BY <1>1, <1>2, <1>3, <1>4, <1>5, <1>6, <1>7, <1>8, <1>9, <1>10, <1>11, <1>12, <1>13, <1>14 DEF Step

-----------------------------------------------------------------------------
(***************************************************************************)
(* The strengthening of RevokedWerePresented: whatever is on its way to    *)
(* the blacklist was presented, too.                                       *)
(***************************************************************************)
Presented(t) == \E q \in Reqs : Presents(q) /\ req[q].tok = t

OnlyPresented ==
  /\ \A t \in Token : Blacklisted(t) => Presented(t)
  /\ \A a \in Admins : \A t \in list[a].toks : Presented(t)
  /\ \A p \in Reqs : \A t \in req[p].toks : Presented(t)

\* A token that was presented stays so.
LEMMA PresentedStays ==
  ASSUME TInv, [Next]_vars, NEW t \in Token, Presented(t)
  PROVE  Presented(t)'
  <1>1. PICK q \in Reqs : Presents(q) /\ req[q].tok = t
    BY DEF Presented
  <1>2. req[q].pc # "new"
    BY <1>1 DEF TInv, Served, Presents
  <1>3. req'[q].op = req[q].op /\ req'[q].tok = req[q].tok
    <2>1. ASSUME NEW p \in Reqs, Step(p) PROVE req'[q].op = req[q].op /\ req'[q].tok = req[q].tok
      BY <1>2, <2>1, StepEffects DEF Effects
    <2>2. CASE Tick
      <3>1. PICK i \in {Absent, req[q].at} : req'[q] = [req[q] EXCEPT !.at = i]
        BY <2>2 DEF Tick
      <3>2. QED
        BY <3>1 DEF TInv, TypeOK, Req
    <2>3. CASE Restart
      BY <2>3, RestartRequests DEF TInv
    <2>4. CASE UNCHANGED vars
      BY <2>4 DEF vars
    <2>5. QED
      BY <2>1, <2>2, <2>3, <2>4 DEF Next
  <1>4. QED
    BY <1>1, <1>3 DEF Presented, Presents

LEMMA NextOnlyPresented ==
  ASSUME TInv, OnlyPresented, [Next]_vars PROVE OnlyPresented'
  <1>0. TypeOK
    BY DEF TInv
  <1>1. ASSUME NEW t \in Token, Blacklisted(t)' PROVE Presented(t)'
    <2>1. Presented(t)
      <3>1. ASSUME NEW p \in Reqs, Step(p) PROVE Blacklisted(t) \/ Writes(p, t)
        BY <1>1, <3>1, StepEffects DEF Effects, Blacklisted
      <3>2. ASSUME NEW p \in Reqs, Writes(p, t) PROVE Presented(t)
        BY <3>2 DEF Writes, OnlyPresented, TInv, Served, Presented, Presents
      <3>3. CASE Tick \/ Restart \/ UNCHANGED vars
        BY <1>1, <3>3 DEF Tick, Restart, vars, Blacklisted, OnlyPresented
      <3>4. QED
        BY <3>1, <3>2, <3>3 DEF Next, OnlyPresented
    <2>2. QED
      BY <2>1, PresentedStays
  <1>2. ASSUME NEW a \in Admins, NEW t \in list'[a].toks PROVE Presented(t)'
    <2>1. t \in Token /\ Presented(t)
      <3>1. ASSUME NEW p \in Reqs, Step(p)
            PROVE  t \in list[a].toks \/ t \in req[p].toks \/ (req[p].pc = "push" /\ t = req[p].tok)
        BY <1>2, <3>1, StepEffects DEF Effects
      <3>2. ASSUME NEW p \in Reqs, req[p].pc = "push", t = req[p].tok PROVE t \in Token /\ Presented(t)
        BY <1>0, <3>2 DEF TInv, Served, Presented, Presents, TypeOK
      <3>3. CASE Tick \/ Restart \/ UNCHANGED vars
        <4>1. t \in list[a].toks
          <5>1. list'[a] \in {NoList, list[a]}
            BY <3>3 DEF Tick, Restart, vars
          <5>2. NoList.toks = {}
            BY DEF NoList
          <5>3. QED
            BY <1>2, <5>1, <5>2
        <4>2. QED
          BY <1>0, <4>1 DEF OnlyPresented, TypeOK
      <3>4. \A p \in Reqs : req[p].toks \subseteq Token
        BY <1>0 DEF TypeOK, Req
      <3>5. list[a].toks \subseteq Token
        BY <1>0 DEF TypeOK
      <3>6. QED
        BY <3>1, <3>2, <3>3, <3>4, <3>5 DEF Next, OnlyPresented
    <2>2. QED
      BY <2>1, PresentedStays
  <1>3. ASSUME NEW q \in Reqs, NEW t \in req'[q].toks PROVE Presented(t)'
    <2>1. t \in Token /\ Presented(t)
      <3>1. t \in req[q].toks \/ \E a \in Admins : t \in list[a].toks
        <4>1. ASSUME NEW p \in Reqs, Step(p)
              PROVE  t \in req[q].toks \/ \E a \in Admins : t \in list[a].toks
          BY <1>3, <4>1, StepEffects DEF Effects
        <4>2. CASE Tick
          <5>1. PICK i \in {Absent, req[q].at} : req'[q] = [req[q] EXCEPT !.at = i]
            BY <4>2 DEF Tick
          <5>2. req'[q].toks = req[q].toks
            BY <1>0, <5>1 DEF TypeOK, Req
          <5>3. QED
            BY <1>3, <5>2
        <4>3. CASE Restart
          BY <1>0, <1>3, <4>3, RestartRequests
        <4>4. CASE UNCHANGED vars
          BY <1>3, <4>4 DEF vars
        <4>5. QED
          BY <4>1, <4>2, <4>3, <4>4 DEF Next
      <3>2. req[q].toks \subseteq Token /\ \A a \in Admins : list[a].toks \subseteq Token
        BY <1>0 DEF TypeOK, Req
      <3>3. QED
        BY <3>1, <3>2 DEF OnlyPresented
    <2>2. QED
      BY <2>1, PresentedStays
  <1>4. QED
    BY <1>1, <1>2, <1>3 DEF OnlyPresented

(* A change of password, or anything else, only ever revokes tokens that   *)
(* were exchanged or logged out themselves (admin-auth.service.ts:80).     *)
THEOREM OnlyPresentedRevoked == Spec => []RevokedWerePresented
  <1>1. Init => TInv /\ OnlyPresented
    <2> SUFFICES ASSUME Init PROVE OnlyPresented
      BY InitTInv
    <2>1. QED
      BY DEF Init, OnlyPresented, Blacklisted, NoList
  <1>2. TInv /\ OnlyPresented /\ [Next]_vars => (TInv /\ OnlyPresented)'
    BY NextTInv, NextOnlyPresented
  <1>3. TInv /\ OnlyPresented => RevokedWerePresented
    BY DEF OnlyPresented, RevokedWerePresented, Presented, Presents
  <1>4. QED
    BY <1>1, <1>2, <1>3, PTL DEF Spec

-----------------------------------------------------------------------------
(***************************************************************************)
(* The strengthening of SpentIsRefused: an entry of the blacklist outlives *)
(* its token, and a token is on the blacklist from the moment its request  *)
(* has set the entry, unless it has expired or a restart forgot it.        *)
(***************************************************************************)
Outlives == \A t \in Token : Blacklisted(t) => black[t] >= t.iat + RefreshLife

Guarded(t) == Blacklisted(t) \/ t \in forgotten \/ now >= t.iat + RefreshLife

SpentGuarded ==
  \A p \in Reqs : Presents(p) /\ req[p].pc \in Spending => Guarded(req[p].tok)

SInv == TInv /\ OnlyPresented /\ Outlives /\ SpentGuarded

\* What a request writes belongs to a token of the past.
LEMMA WritesPast ==
  ASSUME TInv, OnlyPresented, NEW p \in Reqs, NEW t \in Token, Writes(p, t)
  PROVE  t.iat <= now /\ now \in Nat /\ t.iat \in Nat
  <1>1. t \in issued
    BY DEF Writes, OnlyPresented, Presented, Presents, TInv, Served
  <1>2. QED
    BY <1>1, Lifetimes DEF TInv, InPast, TypeOK, Token

LEMMA NextOutlives == ASSUME SInv, [Next]_vars PROVE Outlives'
  <1> SUFFICES ASSUME NEW t \in Token, Blacklisted(t)' PROVE black'[t] >= t.iat + RefreshLife
    BY DEF Outlives
  <1>1. ASSUME NEW p \in Reqs, Step(p) PROVE black'[t] >= t.iat + RefreshLife
    <2>1. CASE black'[t] = black[t]
      BY <2>1 DEF SInv, Outlives, Blacklisted
    <2>2. CASE Writes(p, t) /\ black'[t] = now + BlacklistTtl
      BY <2>2, WritesPast, Lifetimes DEF SInv
    <2>3. QED
      BY <1>1, <2>1, <2>2, StepEffects DEF SInv, Effects
  <1>2. CASE Tick \/ Restart \/ UNCHANGED vars
    <2>1. black'[t] \in {Absent, black[t]}
      BY <1>2 DEF Tick, Restart, vars
    <2>2. QED
      BY <2>1 DEF Blacklisted, SInv, Outlives
  <1>3. QED
    BY <1>1, <1>2 DEF Next

LEMMA GuardedStays ==
  ASSUME SInv, [Next]_vars, NEW t \in Token, Guarded(t)
  PROVE  Guarded(t)'
  <1>0. /\ black \in [Token -> Int] /\ now \in Nat /\ t.iat \in Nat
        /\ RefreshLife \in Nat /\ BlacklistTtl \in Nat
    BY Lifetimes DEF SInv, TInv, TypeOK, Token
  <1>1. ASSUME NEW p \in Reqs, Step(p) PROVE Guarded(t)'
    <2>1. now' = now /\ forgotten' = forgotten /\ (black'[t] = black[t] \/ black'[t] = now + BlacklistTtl)
      BY <1>1, StepEffects DEF SInv, Effects
    <2>2. QED
      BY <1>0, <2>1 DEF Guarded, Blacklisted, Absent
  <1>2. CASE Tick
    <2>1. /\ now' = now + 1 /\ forgotten' = forgotten
          /\ black'[t] = IF black[t] < now' THEN Absent ELSE black[t]
      BY <1>2 DEF Tick
    <2>2. Blacklisted(t) => black[t] >= t.iat + RefreshLife
      BY DEF SInv, Outlives
    <2>3. QED
      BY <1>0, <2>1, <2>2 DEF Guarded, Blacklisted
  <1>3. CASE Restart
    BY <1>3 DEF Restart, Guarded
  <1>4. CASE UNCHANGED vars
    BY <1>4 DEF vars, Guarded, Blacklisted
  <1>5. QED
    BY <1>1, <1>2, <1>3, <1>4 DEF Next

LEMMA NextSpentGuarded == ASSUME SInv, [Next]_vars PROVE SpentGuarded'
  <1> SUFFICES ASSUME NEW q \in Reqs, Presents(q)', req'[q].pc \in Spending
               PROVE  Guarded(req[q].tok)'
    BY DEF SpentGuarded
  <1>0. TInv /\ TypeOK
    BY DEF SInv, TInv
  <1>1. CASE Presents(q) /\ req[q].pc \in Spending /\ req'[q].tok = req[q].tok
    <2>1. PICK t \in Token : t = req[q].tok
      BY <1>0, <1>1 DEF TInv, Served, Presents, TypeOK
    <2>2. Guarded(t)
      BY <1>1, <2>1 DEF SInv, SpentGuarded
    <2>3. Guarded(t)'
      BY <2>2, GuardedStays
    <2>4. QED
      BY <1>1, <2>1, <2>3
  <1>2. ASSUME NEW p \in Reqs, Step(p) PROVE Guarded(req[q].tok)'
    <2>1. CASE p # q
      BY <1>1, <1>2, <2>1, StepEffects, <1>0 DEF Effects, Presents
    <2>2. CASE p = q
      <3>1. req[q].pc \in Spending \cup {"set", "get"}
        BY <1>0, <1>2, <2>2, StepEffects DEF Effects, Presents
      <3>2. req'[q].op = req[q].op /\ req'[q].tok = req[q].tok /\ Presents(q)
        BY <1>0, <1>2, <2>2, <3>1, StepEffects DEF Effects, Presents, Spending
      <3>3. PICK t \in Token : t = req[q].tok
        BY <1>0, <3>2 DEF TInv, Served, Presents, TypeOK
      <3>30. now \in Nat /\ BlacklistTtl \in Nat
        BY <1>0, Lifetimes DEF TypeOK
      <3>4. CASE req[q].pc \in Spending
        BY <1>1, <3>2, <3>4
      <3>5. CASE req[q].pc = "set" /\ black'[req[q].tok] = now + BlacklistTtl
        <4>1. black'[t] # Absent
          BY <3>3, <3>30, <3>5 DEF Absent
        <4>2. Guarded(t)'
          BY <4>1 DEF Guarded, Blacklisted
        <4>3. QED
          BY <3>2, <3>3, <4>2
      <3>6. CASE req[q].pc = "get" /\ Blacklisted(req[q].tok)
        <4>1. Guarded(t)
          BY <3>3, <3>6 DEF Guarded
        <4>2. Guarded(t)'
          BY <4>1, GuardedStays
        <4>3. QED
          BY <3>2, <3>3, <4>2
      <3>7. QED
        BY <1>0, <1>2, <2>2, <3>4, <3>5, <3>6, StepEffects DEF Effects, Presents
    <2>3. QED
      BY <2>1, <2>2
  <1>3. CASE Tick
    <2>1. PICK i \in {Absent, req[q].at} : req'[q] = [req[q] EXCEPT !.at = i]
      BY <1>3 DEF Tick
    <2>2. req'[q].op = req[q].op /\ req'[q].tok = req[q].tok /\ req'[q].pc = req[q].pc
      BY <1>0, <2>1 DEF TypeOK, Req
    <2>3. QED
      BY <1>1, <2>2 DEF Presents
  <1>4. CASE Restart
    <2>1. /\ req'[q].op = req[q].op /\ req'[q].tok = req[q].tok
          /\ req'[q].pc = req[q].pc \/ req'[q].pc = "refused"
      BY <1>0, <1>4, RestartRequests
    <2>2. QED
      BY <1>1, <2>1 DEF Presents, Spending
  <1>5. CASE UNCHANGED vars
    BY <1>1, <1>5 DEF vars, Presents
  <1>6. QED
    BY <1>2, <1>3, <1>4, <1>5 DEF Next

LEMMA CheckedIsUnspent ==
  ASSUME SInv, [Next]_vars, NEW p \in Reqs, At(p, "check"), req'[p].pc = "find"
  PROVE  ~Spent(req[p].tok) \/ req[p].tok \in forgotten
  <1>0. TInv /\ TypeOK
    BY DEF SInv, TInv
  <1>1. Valid(req[p].tok)
    <2>1. ASSUME NEW q \in Reqs, Step(q) PROVE Check(p)
      <3>1. q = p
        BY <1>0, <2>1, StepEffects DEF Effects, At
      <3>2. QED
        <4>1. ~Fail(p)
          BY <1>0 DEF Fail, Goto, TypeOK, Req
        <4>2. /\ \A a \in Admins : ~Login(p, a)
              /\ \A t \in Token : ~Refresh(p, t) /\ ~Change(p, t)
              /\ \A acc, t \in Token : ~Logout(p, acc, t)
          BY DEF At, Login, Refresh, ReadTries, Change, Logout, Enter
        <4>3. /\ ~Count(p) /\ ~Find(p) /\ ~Compare(p) /\ ~GetEntry(p) /\ ~SetEntry(p)
              /\ ~ReadList(p) /\ ~Push(p) /\ ~Update(p) /\ ~ReadAll(p) /\ ~Clear(p)
              /\ \A t \in Token : ~Mark(p, t)
          BY DEF At, Count, Find, Compare, GetEntry, SetEntry, ReadList, Push, Update, ReadAll,
                 Clear, Mark
        <4>4. QED
          BY <2>1, <3>1, <4>1, <4>2, <4>3 DEF Step
    <2>2. ~(Tick \/ Restart \/ UNCHANGED vars)
      <3>1. ~Tick
        <4>1. ASSUME Tick PROVE FALSE
          <5>1. PICK i \in {Absent, req[p].at} : req'[p] = [req[p] EXCEPT !.at = i]
            BY <4>1 DEF Tick
          <5>2. QED
            BY <1>0, <5>1 DEF TypeOK, Req, At
        <4>2. QED
          BY <4>1
      <3>2. ~Restart
        BY <1>0, RestartRequests DEF At
      <3>3. QED
        BY <3>1, <3>2 DEF vars, At
    <2>3. Check(p)
      BY <2>1, <2>2 DEF Next
    <2>4. QED
      BY <1>0, <2>3 DEF Check, Goto, TypeOK, Req
  <1>2. ASSUME Spent(req[p].tok) PROVE req[p].tok \in forgotten
    <2>1. PICK q \in Reqs : Presents(q) /\ req[q].tok = req[p].tok /\ req[q].pc = "done"
      BY <1>2 DEF Spent, Presents, At
    <2>2. Guarded(req[p].tok) /\ req[p].tok \in Token
      BY <1>0, <2>1 DEF SInv, SpentGuarded, Spending, TInv, Served, Presents, TypeOK
    <2>3. req[p].tok.iat \in Nat /\ now \in Nat
      BY <1>0, <2>2 DEF Token, TypeOK
    <2>4. QED
      BY <1>1, <2>2, <2>3, Lifetimes DEF Guarded, Valid
  <1>3. QED
    BY <1>2

(* Rotation: once an exchange of a refresh token or a logout with it has   *)
(* been answered, every exchange that checks it later is refused as long   *)
(* as the token would live, unless a restart forgot the entry              *)
(* (admin-auth.controller.ts:255).                                         *)
THEOREM SpentTokensRefused == Spec => SpentIsRefused
  <1>1. Init => SInv
    <2> SUFFICES ASSUME Init PROVE OnlyPresented /\ Outlives /\ SpentGuarded
      BY InitTInv DEF SInv
    <2>1. QED
      BY DEF Init, OnlyPresented, Outlives, SpentGuarded, Blacklisted, NoList, Spending
  <1>2. SInv /\ [Next]_vars => SInv'
    BY NextTInv, NextOnlyPresented, NextOutlives, NextSpentGuarded DEF SInv
  <1>3. SInv /\ [Next]_vars =>
          [\A p \in Reqs : At(p, "check") /\ req'[p].pc = "find"
                             => ~Spent(req[p].tok) \/ req[p].tok \in forgotten]_vars
    BY CheckedIsUnspent
  <1>4. QED
    BY <1>1, <1>2, <1>3, PTL DEF Spec, SpentIsRefused

-----------------------------------------------------------------------------
(***************************************************************************)
(* The strengthening of AttemptsSpread: a counter that was never raced is  *)
(* at least the number of attempts it remembers, outlives each of them,    *)
(* and a request between the two halves of the limiter is the only one     *)
(* there and has read no less than the counter holds now.                  *)
(***************************************************************************)
Attempts(k) == {q \in Reqs : req[q].at # Absent /\ KeyOf(q) = k}
LimitOf(k) == IF k \in Admins THEN LoginTries ELSE RefreshTries

Dated ==
  \A q \in Reqs :
    /\ req[q].pc \in {"new", "count"} => req[q].at = Absent
    /\ req[q].at # Absent => /\ req[q].at \in 0..now
                             /\ req[q].op \in {"login", "refresh"}

Tallied(k) ==
  /\ IsFiniteSet(Attempts(k))
  /\ Cardinality(Attempts(k)) <= tries[k].n
  /\ tries[k].n <= LimitOf(k)
  /\ \A q \in Attempts(k) : req[q].at + Window <= tries[k].until

SoleCounter(q) ==
  req[q].pc = "count" /\ KeyOf(q) \notin raced =>
    /\ tries[KeyOf(q)].n <= req[q].seen
    /\ req[q].seen < LimitOf(KeyOf(q))
    /\ \A r \in Reqs : req[r].pc = "count" /\ KeyOf(r) = KeyOf(q) => r = q

CInv ==
  /\ TInv /\ Dated
  /\ \A k \in Keys \ raced : Tallied(k)
  /\ \A q \in Reqs : SoleCounter(q)

\* A request that counts, or has counted, does so under a key.
LEMMA KeyOfKeys ==
  ASSUME TInv, NEW q \in Reqs, req[q].pc = "count" \/ req[q].at # Absent, Dated
  PROVE  KeyOf(q) \in Keys /\ LimitOf(KeyOf(q)) = Tries(q)
  <1>1. req[q].op \in {"login", "refresh"} /\ req[q].pc # "new" /\ Served(q)
    BY DEF TInv, Served, Dated
  <1>2. CASE req[q].op = "login"
    BY <1>1, <1>2 DEF Served, KeyOf, Keys, LimitOf, Tries
  <1>3. CASE req[q].op = "refresh"
    BY <1>1, <1>3, KeysApart DEF Served, TInv, TypeOK, KeyOf, Keys, LimitOf, Tries
  <1>4. QED
    BY <1>1, <1>2, <1>3

\* What a step of request p does to the attempts.
Passes(p) ==
  /\ UNCHANGED <<now, tries, raced>>
  /\ req'[p].at = req[p].at /\ req'[p].pc \notin {"new", "count"}
  /\ req[p].pc = "new" \/ (req'[p].op = req[p].op /\ KeyOf(p)' = KeyOf(p))

Reads(p) ==
  /\ UNCHANGED <<now, tries>>
  /\ req[p].pc = "new"
  /\ req'[p].at = req[p].at /\ req'[p].pc = "count"
  /\ KeyOf(p)' \in Keys
  /\ req'[p].seen = tries[KeyOf(p)'].n
  /\ tries[KeyOf(p)'].n < LimitOf(KeyOf(p)')
  /\ raced \subseteq raced' /\ (Counting(KeyOf(p)') => KeyOf(p)' \in raced')

LEMMA EnterAttempts ==
  ASSUME CInv, NEW p \in Reqs,
         \/ \E a \in Admins : Login(p, a)
         \/ \E t \in Token : Refresh(p, t) \/ Change(p, t)
         \/ \E acc, t \in Token : Logout(p, acc, t)
  PROVE  Passes(p) \/ Reads(p)
  <1>0. TypeOK /\ req[p] \in Req
    BY DEF CInv, TInv, TypeOK
  <1>1. ASSUME NEW op, NEW pc, NEW a, NEW t, NEW seen, Enter(p, op, pc, a, t, seen)
        PROVE  /\ req[p].pc = "new" /\ req'[p].at = req[p].at /\ req'[p].pc = pc
               /\ req'[p].op = op /\ req'[p].adm = a /\ req'[p].tok = t /\ req'[p].seen = seen
    BY <1>0, <1>1 DEF Enter, At, TypeOK, Req
  <1>2. ASSUME NEW a \in Admins, Login(p, a) PROVE Reads(p)
    <2>1. Enter(p, "login", "count", a, NoToken, tries[a].n) /\ tries[a].n < LoginTries
          /\ UNCHANGED <<now, tries>>
          /\ raced' = IF Counting(a) THEN raced \cup {a} ELSE raced
      BY <1>2 DEF Login, ReadTries, cache
    <2>2. KeyOf(p)' = a /\ a \in Keys /\ LimitOf(a) = LoginTries
      BY <1>1, <2>1 DEF KeyOf, Keys, LimitOf
    <2>3. QED
      BY <1>1, <2>1, <2>2 DEF Reads
  <1>3. ASSUME NEW t \in Token, Refresh(p, t) PROVE Reads(p)
    <2>1. Enter(p, "refresh", "count", t.of, t, tries[t].n) /\ tries[t].n < RefreshTries
          /\ UNCHANGED <<now, tries>>
          /\ raced' = IF Counting(t) THEN raced \cup {t} ELSE raced
      BY <1>3 DEF Refresh, ReadTries, cache
    <2>2. KeyOf(p)' = t /\ t \in Keys /\ LimitOf(t) = RefreshTries
      BY <1>1, <2>1, KeysApart DEF KeyOf, Keys, LimitOf
    <2>3. QED
      BY <1>1, <2>1, <2>2 DEF Reads
  <1>4. ASSUME NEW t \in Token, Change(p, t) PROVE Passes(p)
    <2>1. Enter(p, "change", "find", t.of, NoToken, 0) /\ UNCHANGED <<now, tries, raced>>
      BY <1>4 DEF Change, cache
    <2>2. QED
      BY <1>1, <2>1 DEF Passes
  <1>5. ASSUME NEW acc \in Token, NEW t \in Token, Logout(p, acc, t) PROVE Passes(p)
    <2>1. Enter(p, "logout", "get", t.of, t, 0) /\ UNCHANGED <<now, tries, raced>>
      BY <1>5 DEF Logout, cache
    <2>2. QED
      BY <1>1, <2>1 DEF Passes
  <1>6. QED
    BY <1>2, <1>3, <1>4, <1>5

LEMMA StepAttempts ==
  ASSUME CInv, NEW p \in Reqs, Step(p)
  PROVE  Passes(p) \/ Reads(p) \/ Count(p)
  <1>0. TypeOK /\ Served(p) /\ req[p] \in Req
    BY DEF CInv, TInv, TypeOK
  <1>1. ASSUME NEW pc \in Pcs \ {"new", "count"}, Goto(p, pc), UNCHANGED <<now, tries, raced>>
        PROVE  Passes(p)
    BY <1>0, <1>1 DEF Goto, Passes, KeyOf, TypeOK, Req
  <1>2. CASE \/ \E a \in Admins : Login(p, a)
             \/ \E t \in Token : Refresh(p, t) \/ Change(p, t)
             \/ \E acc, t \in Token : Logout(p, acc, t)
    BY <1>2, EnterAttempts
  <1>3. CASE Check(p)
    BY <1>1, <1>3 DEF Check, cache, Pcs, Ended
  <1>4. CASE Find(p)
    <2>1. PICK pc \in {"refused", "compare", "get", "update"} : Goto(p, pc)
      BY <1>4 DEF Find
    <2>2. QED
      BY <1>1, <1>4, <2>1 DEF Find, cache, Pcs, Ended
  <1>5. CASE Compare(p) \/ GetEntry(p)
    <2>1. PICK pc \in {"done", "refused", "set"} : Goto(p, pc)
      BY <1>5 DEF Compare, GetEntry, Answer
    <2>2. QED
      BY <1>1, <1>5, <2>1 DEF Compare, GetEntry, cache, Pcs, Ended
  <1>6. CASE SetEntry(p) \/ Push(p) \/ Update(p) \/ Clear(p) \/ Fail(p)
    <2>1. PICK pc \in {"readList", "done", "readAll", "refused"} : Goto(p, pc)
      BY <1>6 DEF SetEntry, Push, Update, Clear, Fail, Answer
    <2>2. QED
      BY <1>1, <1>6, <2>1 DEF SetEntry, Push, Update, Clear, Fail, cache, Pcs, Ended
  <1>7. CASE ReadList(p) \/ ReadAll(p)
    <2>1. PICK pc \in {"push", "done", "markAll"}, S \in {list[req[p].adm].toks} :
            req' = [req EXCEPT ![p].pc = pc, ![p].toks = S]
      BY <1>7 DEF ReadList, ReadAll
    <2>2. QED
      BY <1>0, <1>7, <2>1 DEF ReadList, ReadAll, cache, Passes, KeyOf, TypeOK, Req
  <1>8. ASSUME NEW t \in Token, Mark(p, t) PROVE Passes(p)
    <2>1. PICK pc \in {"markAll", "clear"} :
            req' = [req EXCEPT ![p].toks = req[p].toks \ {t}, ![p].pc = pc]
      BY <1>8 DEF Mark, At
    <2>2. QED
      BY <1>0, <1>8, <2>1 DEF Mark, Passes, KeyOf, TypeOK, Req
  <1>9. QED
    BY <1>2, <1>3, <1>4, <1>5, <1>6, <1>7, <1>8 DEF Step

\* A step that neither reads nor counts an attempt leaves the counters as they are.
LEMMA PassesCInv ==
  ASSUME CInv, TInv', NEW p \in Reqs, Passes(p), \A q \in Reqs \ {p} : req'[q] = req[q]
  PROVE  CInv'
  <1>1. \A q \in Reqs : req'[q].at = req[q].at
    BY DEF Passes
  <1>2. ASSUME NEW q \in Reqs, req[q].at # Absent
        PROVE  KeyOf(q)' = KeyOf(q) /\ req'[q].op = req[q].op
    BY <1>2 DEF Passes, CInv, Dated, KeyOf
  <1>3. \A k \in Keys : Attempts(k)' = Attempts(k)
    BY <1>1, <1>2 DEF Attempts
  <1>4. Dated'
    BY <1>1, <1>2 DEF CInv, Dated, Passes
  <1>5. \A k \in Keys \ raced' : Tallied(k)'
    BY <1>1, <1>3 DEF CInv, Tallied, Passes, Attempts
  <1>6. ASSUME NEW q \in Reqs PROVE SoleCounter(q)'
    <2>1. req'[p].pc # "count" /\ UNCHANGED <<tries, raced>>
      BY DEF Passes
    <2>2. \A r \in Reqs \ {p} : req'[r] = req[r] /\ KeyOf(r)' = KeyOf(r)
      BY DEF KeyOf
    <2>3. CASE q = p
      BY <2>1, <2>3 DEF SoleCounter
    <2>4. CASE q # p
      BY <2>1, <2>2, <2>4 DEF SoleCounter, CInv
    <2>5. QED
      BY <2>3, <2>4
  <1>7. QED
    BY <1>4, <1>5, <1>6 DEF CInv

LEMMA ReadsCInv ==
  ASSUME CInv, TInv', NEW p \in Reqs, Reads(p), \A q \in Reqs \ {p} : req'[q] = req[q]
  PROVE  CInv'
  <1>1. \A q \in Reqs : req'[q].at = req[q].at
    BY DEF Reads
  <1>2. ASSUME NEW q \in Reqs, req[q].at # Absent
        PROVE  KeyOf(q)' = KeyOf(q) /\ req'[q].op = req[q].op
    BY <1>2 DEF Reads, CInv, Dated, KeyOf
  <1>3. \A k \in Keys : Attempts(k)' = Attempts(k)
    BY <1>1, <1>2 DEF Attempts
  <1>4. Dated'
    BY <1>1, <1>2 DEF CInv, Dated, Reads
  <1>5. \A k \in Keys \ raced' : Tallied(k)'
    BY <1>1, <1>3 DEF CInv, Tallied, Reads, Attempts
  <1>6. \A r \in Reqs \ {p} : req'[r] = req[r] /\ KeyOf(r)' = KeyOf(r)
    BY DEF KeyOf
  <1>7. ASSUME NEW q \in Reqs, req'[q].pc = "count", KeyOf(q)' \notin raced'
        PROVE  /\ tries'[KeyOf(q)'].n <= req'[q].seen
               /\ req'[q].seen < LimitOf(KeyOf(q)')
               /\ \A r \in Reqs : req'[r].pc = "count" /\ KeyOf(r)' = KeyOf(q)' => r = q
    <2>1. tries' = tries /\ raced \subseteq raced'
          /\ (Counting(KeyOf(p)') => KeyOf(p)' \in raced')
      BY DEF Reads
    <2>2. CASE q = p
      <3>1. \A r \in Reqs : req[r].pc = "count" => KeyOf(r) # KeyOf(p)'
        BY <1>7, <2>1, <2>2 DEF Counting, At
      <3>2. \A r \in Reqs : req'[r].pc = "count" /\ KeyOf(r)' = KeyOf(q)' => r = q
        BY <1>6, <2>2, <3>1
      <3>3. tries[KeyOf(p)'].n \in Nat
        BY DEF Reads, CInv, TInv, TypeOK
      <3>4. QED
        BY <2>1, <2>2, <3>2, <3>3 DEF Reads
    <2>3. CASE q # p
      <3>1. /\ req[q].pc = "count" /\ KeyOf(q) \notin raced /\ KeyOf(q)' = KeyOf(q)
            /\ req'[q] = req[q]
        BY <1>6, <1>7, <2>1, <2>3
      <3>2. KeyOf(p)' # KeyOf(q)
        BY <1>7, <2>1, <3>1 DEF Counting, At
      <3>3. \A r \in Reqs : req'[r].pc = "count" /\ KeyOf(r)' = KeyOf(q)' => r = q
        BY <1>6, <3>1, <3>2 DEF CInv, SoleCounter
      <3>4. QED
        BY <2>1, <3>1, <3>3 DEF CInv, SoleCounter
    <2>4. QED
      BY <2>2, <2>3
  <1>8. QED
    BY <1>4, <1>5, <1>7 DEF CInv, SoleCounter

LEMMA CountCInv ==
  ASSUME CInv, TInv', NEW p \in Reqs, Count(p), \A q \in Reqs \ {p} : req'[q] = req[q]
  PROVE  CInv'
  <1>0. TypeOK /\ req[p] \in Req /\ req[p].pc = "count" /\ now \in Nat /\ Served(p)
        /\ UNCHANGED <<now, raced>>
    BY Lifetimes DEF CInv, TInv, TypeOK, Count, At
  <1>k. PICK k \in Keys : k = KeyOf(p)
    BY <1>0, KeyOfKeys DEF CInv
  <1>1. k \in Keys /\ req[p].at = Absent
    BY <1>0 DEF CInv, Dated
  <1>2. /\ req'[p].at = now /\ req'[p].pc \in {"find", "check"}
        /\ req'[p].op = req[p].op /\ KeyOf(p)' = k
    <2>1. PICK pc \in {"find", "check"} :
            req' = [req EXCEPT ![p].pc = pc, ![p].at = now, ![p].seen = 0]
      BY DEF Count
    <2>2. QED
      BY <1>0, <1>k, <2>1 DEF TypeOK, Req, KeyOf
  <1>3. \A q \in Reqs \ {p} : req'[q] = req[q] /\ KeyOf(q)' = KeyOf(q)
    BY DEF KeyOf
  <1>4. tries' = [tries EXCEPT ![k] = [n |-> req[p].seen + 1, until |-> now + Window]]
    BY <1>k DEF Count
  <1>5. tries'[k].n = req[p].seen + 1 /\ tries'[k].until = now + Window
    BY <1>0, <1>1, <1>4 DEF TypeOK
  <1>6. now # Absent /\ now \in 0..now
    BY <1>0 DEF Absent
  <1>7. Attempts(k)' = Attempts(k) \cup {p} /\ p \notin Attempts(k)
    BY <1>1, <1>2, <1>3, <1>6, <1>k DEF Attempts
  <1>8. \A m \in Keys \ {k} : Attempts(m)' = Attempts(m) /\ tries'[m] = tries[m]
    BY <1>0, <1>1, <1>2, <1>3, <1>4, <1>k DEF Attempts, TypeOK
  <1>9. Dated'
    BY <1>0, <1>2, <1>3, <1>6 DEF CInv, Dated, Served
  <1>10. ASSUME k \notin raced PROVE Tallied(k)'
    <2>1. Tallied(k) /\ SoleCounter(p)
      BY <1>1, <1>10, <1>k DEF CInv
    <2>2. tries[k].n <= req[p].seen /\ req[p].seen < LimitOf(k)
      BY <1>0, <1>10, <1>k, <2>1 DEF SoleCounter
    <2>3. req[p].seen \in Nat /\ tries[k].n \in Nat /\ LimitOf(k) \in Nat
      BY <1>0, <1>1, Lifetimes DEF TypeOK, Req, LimitOf
    <2>4. /\ IsFiniteSet(Attempts(k)')
          /\ Cardinality(Attempts(k)') = Cardinality(Attempts(k)) + 1
      BY <1>7, <2>1, FS_AddElement DEF Tallied
    <2>5. Cardinality(Attempts(k)) \in Nat
      BY <2>1, FS_CardinalityType DEF Tallied
    <2>6. Cardinality(Attempts(k)') <= tries'[k].n
      BY <1>5, <2>1, <2>2, <2>3, <2>4, <2>5 DEF Tallied
    <2>7. tries'[k].n <= LimitOf(k)
      BY <1>5, <2>2, <2>3
    <2>8. ASSUME NEW q \in Attempts(k)' PROVE req'[q].at + Window <= tries'[k].until
      <3>1. CASE q = p
        BY <1>0, <1>2, <1>5, <3>1, Lifetimes
      <3>2. CASE q # p
        <4>1. q \in Reqs /\ req'[q].at = req[q].at /\ req[q].at \in 0..now
          BY <1>3, <1>7, <3>2 DEF Attempts, CInv, Dated
        <4>2. QED
          BY <1>0, <1>5, <4>1, Lifetimes
      <3>3. QED
        BY <3>1, <3>2
    <2>9. QED
      BY <2>4, <2>6, <2>7, <2>8 DEF Tallied
  <1>11. ASSUME NEW m \in Keys \ raced', m # k PROVE Tallied(m)'
    <2>1. Tallied(m) /\ Attempts(m)' = Attempts(m) /\ tries'[m] = tries[m]
      BY <1>0, <1>8, <1>11 DEF CInv
    <2>2. \A q \in Attempts(m) : req'[q].at = req[q].at
      BY <1>1, <1>3 DEF Attempts
    <2>3. QED
      BY <2>1, <2>2 DEF Tallied
  <1>12. ASSUME NEW q \in Reqs PROVE SoleCounter(q)'
    <2>1. CASE q = p
      BY <1>2, <2>1 DEF SoleCounter
    <2>2. ASSUME q # p, req[q].pc = "count", KeyOf(q) \notin raced PROVE KeyOf(q) # k
      BY <1>0, <1>k, <2>2 DEF CInv, SoleCounter
    <2>3. ASSUME q # p, req[q].pc = "count", KeyOf(q) \notin raced
          PROVE  tries'[KeyOf(q)] = tries[KeyOf(q)]
      BY <1>8, <2>2, <2>3, KeyOfKeys DEF CInv
    <2>4. CASE q # p
      BY <1>0, <1>2, <1>3, <2>3, <2>4 DEF CInv, SoleCounter
    <2>5. QED
      BY <2>1, <2>4
  <1>13. QED
    BY <1>0, <1>9, <1>10, <1>11, <1>12 DEF CInv

(* Time passing drops attempts no later than the counter that outlives them. *)
LEMMA TickCInv == ASSUME CInv, TInv', Tick PROVE CInv'
  <1>0. /\ TypeOK /\ now \in Nat /\ now' = now + 1 /\ raced' = raced
        /\ Window \in Nat /\ LoginTries \in Nat /\ RefreshTries \in Nat
    BY Lifetimes DEF CInv, TInv, TypeOK, Tick
  <1>1. ASSUME NEW q \in Reqs
        PROVE  /\ req'[q].at = IF req[q].at < now' - Window THEN Absent ELSE req[q].at
               /\ req'[q].pc = req[q].pc /\ req'[q].op = req[q].op
               /\ req'[q].adm = req[q].adm /\ req'[q].tok = req[q].tok
               /\ req'[q].seen = req[q].seen
    <2> DEFINE i == IF req[q].at < now' - Window THEN Absent ELSE req[q].at
    <2>1. req'[q] = [req[q] EXCEPT !.at = i] /\ req[q] \in Req
      BY <1>0 DEF Tick, TypeOK
    <2> HIDE DEF i
    <2>2. /\ req'[q].at = i /\ req'[q].pc = req[q].pc /\ req'[q].op = req[q].op
          /\ req'[q].adm = req[q].adm /\ req'[q].tok = req[q].tok
          /\ req'[q].seen = req[q].seen
      BY <2>1 DEF Req
    <2>3. QED
      BY <2>2 DEF i
  <1>2. \A q \in Reqs : KeyOf(q)' = KeyOf(q)
    BY <1>1 DEF KeyOf
  <1>3. \A q \in Reqs : req'[q].at # Absent => /\ req'[q].at = req[q].at
                                               /\ ~(req[q].at < now' - Window)
    BY <1>1
  <1>4. ASSUME NEW k \in Keys
        PROVE  /\ tries'[k] = IF tries[k].until < now' THEN NoCount ELSE tries[k]
               /\ Attempts(k)' \subseteq Attempts(k)
    BY <1>2, <1>3 DEF Tick, Attempts
  <1>5. Dated'
    <2>1. \A q \in Reqs : req[q].at \in 0..now => req[q].at \in 0..now'
      BY <1>0
    <2>2. QED
      BY <1>1, <1>3, <2>1 DEF CInv, Dated
  <1>6. ASSUME NEW k \in Keys \ raced' PROVE Tallied(k)'
    <2>1. Tallied(k)
      BY <1>0 DEF CInv
    <2>2. CASE tries[k].until < now'
      <3>1. ASSUME NEW q \in Attempts(k)' PROVE FALSE
        <4>1. /\ q \in Attempts(k) /\ ~(req[q].at < now' - Window) /\ req[q].at \in Int
          BY <1>0, <1>3, <1>4 DEF Attempts, TypeOK, Req
        <4>2. req[q].at + Window <= tries[k].until /\ tries[k].until \in Int
          BY <1>0, <2>1, <4>1 DEF Tallied, TypeOK
        <4>3. QED
          BY <1>0, <2>2, <4>1, <4>2
      <3>2. Attempts(k)' = {} /\ tries'[k] = NoCount
        BY <1>4, <2>2, <3>1
      <3>3. LimitOf(k) \in Nat
        BY <1>0 DEF LimitOf
      <3>4. IsFiniteSet({}) /\ Cardinality({}) = 0 /\ NoCount.n = 0
        BY FS_EmptySet DEF NoCount
      <3>5. QED
        BY <3>2, <3>3, <3>4 DEF Tallied
    <2>3. CASE ~(tries[k].until < now')
      <3>1. tries'[k] = tries[k] /\ Attempts(k)' \subseteq Attempts(k)
        BY <1>4, <2>3
      <3>2. /\ IsFiniteSet(Attempts(k)')
            /\ Cardinality(Attempts(k)') <= Cardinality(Attempts(k))
        BY <2>1, <3>1, FS_Subset DEF Tallied
      <3>3. Cardinality(Attempts(k)) \in Nat /\ Cardinality(Attempts(k)') \in Nat
            /\ tries[k].n \in Nat
        BY <1>0, <2>1, <3>2, FS_CardinalityType DEF Tallied, TypeOK
      <3>4. \A q \in Attempts(k)' : req'[q].at = req[q].at /\ q \in Attempts(k)
        BY <1>3, <3>1 DEF Attempts
      <3>5. Cardinality(Attempts(k)') <= tries[k].n
        BY <2>1, <3>2, <3>3 DEF Tallied
      <3>6. QED
        BY <2>1, <3>1, <3>2, <3>4, <3>5 DEF Tallied
    <2>4. QED
      BY <2>2, <2>3
  <1>7. ASSUME NEW q \in Reqs PROVE SoleCounter(q)'
    <2>1. ASSUME req[q].pc = "count", tries[KeyOf(q)].n <= req[q].seen
          PROVE  tries'[KeyOf(q)].n <= req[q].seen
      <3>1. KeyOf(q) \in Keys
        BY <2>1, KeyOfKeys DEF CInv
      <3>2. tries'[KeyOf(q)].n \in {0, tries[KeyOf(q)].n} /\ req[q].seen \in Nat
        BY <1>0, <1>4, <3>1 DEF NoCount, TypeOK, Req
      <3>3. QED
        BY <2>1, <3>2
    <2>2. QED
      BY <1>0, <1>1, <1>2, <2>1 DEF CInv, SoleCounter
  <1>8. QED
    BY <1>5, <1>6, <1>7 DEF CInv

LEMMA RestartCInv == ASSUME CInv, TInv', Restart PROVE CInv'
  <1>0. TypeOK /\ now' = now /\ raced \subseteq raced'
    BY DEF CInv, TInv, Restart
  <1>1. ASSUME NEW q \in Reqs
        PROVE  /\ req'[q].at = req[q].at /\ req'[q].op = req[q].op /\ req'[q].adm = req[q].adm
               /\ req'[q].tok = req[q].tok
               /\ req'[q].pc # "count" /\ (req'[q].pc = "new" => req[q].pc = "new")
    <2>1. req'[q].at = req[q].at
      <3>1. CASE q \in Open
        BY <1>0, <3>1 DEF Restart, TypeOK, Req
      <3>2. CASE q \notin Open
        BY <3>2 DEF Restart
      <3>3. QED
        BY <3>1, <3>2
    <2>2. QED
      BY <1>0, <2>1, RestartRequests DEF Open, Ended
  <1>2. \A k \in Keys : Attempts(k)' = Attempts(k)
    BY <1>1 DEF Attempts, KeyOf
  <1>3. Dated'
    BY <1>0, <1>1 DEF CInv, Dated
  <1>4. ASSUME NEW k \in Keys \ raced' PROVE Tallied(k)'
    <2>0. k \notin raced /\ ~(tries[k].n > 0) /\ tries[k].n \in Nat
      BY <1>0 DEF Restart, TypeOK
    <2>a. Tallied(k)
      BY <2>0 DEF CInv
    <2>b. tries'[k] = NoCount
      BY DEF Restart
    <2>1. Tallied(k) /\ tries[k].n = 0 /\ tries'[k] = NoCount
      BY <2>0, <2>a, <2>b
    <2>2. Cardinality(Attempts(k)) = 0
      BY <2>1, FS_CardinalityType DEF Tallied
    <2>3. Attempts(k) = {}
      BY <2>1, <2>2, FS_EmptySet DEF Tallied
    <2>4. LimitOf(k) \in Nat /\ NoCount.n = 0
      BY Lifetimes DEF LimitOf, NoCount
    <2>5. IsFiniteSet({}) /\ Cardinality({}) = 0
      BY FS_EmptySet
    <2>6. QED
      BY <1>2, <2>1, <2>3, <2>4, <2>5 DEF Tallied
  <1>5. \A q \in Reqs : SoleCounter(q)'
    BY <1>1 DEF SoleCounter
  <1>6. QED
    BY <1>3, <1>4, <1>5 DEF CInv

(* Within one window no e-mail gets more than its attempts at a password    *)
(* and no token more than its exchanges, for any limits and any window, as  *)
(* long as no two attempts are counted at the same time and no restart      *)
(* forgets the counter (admin-auth.controller.ts:39-95): each attempt       *)
(* renews the counter's life, so the counter outlives what it counts.       *)
THEOREM AttemptsAreSpread == Spec => []AttemptsSpread
  <1>1. Init => CInv
    <2> SUFFICES ASSUME Init PROVE CInv
      OBVIOUS
    <2>1. \A q \in Reqs : req[q].pc = "new" /\ req[q].at = Absent
      BY DEF Init
    <2>2. \A k \in Keys : Attempts(k) = {} /\ tries[k].n = 0 /\ LimitOf(k) \in Nat
      BY <2>1, Lifetimes DEF Init, Attempts, NoCount, LimitOf
    <2>3. \A k \in Keys : Tallied(k)
      BY <2>2, FS_EmptySet DEF Tallied
    <2>4. QED
      BY <2>1, <2>3, InitTInv DEF CInv, Dated, SoleCounter
  <1>2. CInv /\ [Next]_vars => CInv'
    <2> SUFFICES ASSUME CInv, [Next]_vars PROVE CInv'
      OBVIOUS
    <2>0. TInv'
      BY NextTInv DEF CInv
    <2>1. ASSUME NEW p \in Reqs, Step(p) PROVE CInv'
      <3>1. \A q \in Reqs \ {p} : req'[q] = req[q]
        BY <2>1, StepEffects DEF CInv, Effects
      <3>2. QED
        BY <2>0, <2>1, <3>1, StepAttempts, PassesCInv, ReadsCInv, CountCInv
    <2>2. CASE UNCHANGED vars
      BY <2>0, <2>2 DEF vars, CInv, Dated, Tallied, Attempts, SoleCounter, KeyOf
    <2>3. QED
      BY <2>0, <2>1, <2>2, TickCInv, RestartCInv DEF Next
  <1>3. CInv => AttemptsSpread
    <2> SUFFICES ASSUME CInv, NEW p \in Reqs, req[p].at # Absent, KeyOf(p) \notin raced
                 PROVE  Cardinality({q \in Reqs : /\ req[q].at # Absent /\ KeyOf(q) = KeyOf(p)
                                                  /\ req[q].at \in (req[p].at - Window)..req[p].at})
                          <= Tries(p)
      BY DEF AttemptsSpread
    <2> DEFINE S == {q \in Reqs : /\ req[q].at # Absent /\ KeyOf(q) = KeyOf(p)
                                  /\ req[q].at \in (req[p].at - Window)..req[p].at}
    <2>1. KeyOf(p) \in Keys /\ LimitOf(KeyOf(p)) = Tries(p)
      BY KeyOfKeys DEF CInv
    <2>2. Tallied(KeyOf(p))
      BY <2>1 DEF CInv
    <2>3. S \subseteq Attempts(KeyOf(p))
      BY DEF Attempts
    <2>4. IsFiniteSet(S) /\ Cardinality(S) <= Cardinality(Attempts(KeyOf(p)))
      BY <2>2, <2>3, FS_Subset DEF Tallied
    <2>5. /\ Cardinality(S) \in Nat /\ Cardinality(Attempts(KeyOf(p))) \in Nat
          /\ tries[KeyOf(p)].n \in Nat /\ Tries(p) \in Nat
      BY <2>1, <2>2, <2>4, FS_CardinalityType, Lifetimes DEF Tallied, CInv, TInv, TypeOK, Tries
    <2> HIDE DEF S
    <2>6. Cardinality(S) <= Tries(p)
      BY <2>1, <2>2, <2>4, <2>5 DEF Tallied
    <2>7. QED
      BY <2>6 DEF S
  <1>4. QED
    BY <1>1, <1>2, <1>3, PTL DEF Spec
=============================================================================
