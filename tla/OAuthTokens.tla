---------------------------- MODULE OAuthTokens ----------------------------
(***************************************************************************)
(* The refresh tokens of applications (services/token.service.ts,          *)
(* controllers/thirdparty/oauth.controller.ts,                             *)
(* repositories/implementations/refresh-token.repository.ts): issue,       *)
(* rotation, revocation, behind the default rate limiter.                  *)
(*                                                                         *)
(* A statement on the table refresh_tokens is a step.  A request creates   *)
(* at most one token, which goes by the name of that request; a session is *)
(* a token that was issued and all its successors.  Rows are never deleted:*)
(* nothing calls cleanupExpiredTokens.  The token's own rate limiter and   *)
(* the blacklist of access tokens are empty defaults.                      *)
(***************************************************************************)
EXTENDS RateLimit, FiniteSets

CONSTANTS
  Reqs,    \* requests
  MaxOpen  \* bound: requests that are served at a time

ASSUME ReqsAssumption == "none" \notin Reqs /\ MaxOpen \in Nat

VARIABLES
  row,     \* refresh_tokens, by the request that created them
  req,     \* the requests
  out,     \* the tokens that reached a client
  forked,  \* sessions with two exchanges of one token at the same time (history)
  cut      \* sessions with an exchange that failed half way, or a revocation (history)

tokens == <<row, out, forked, cut>>
vars == <<now, limits, tokens, req>>

NoRow == [session |-> "none", revoked |-> FALSE, by |-> "none"]
Row == [session : Reqs, revoked : BOOLEAN, by : Reqs \cup {"none"}]
Ops == {"none", "issue", "refresh", "revoke"}
Serving == {"validate", "find", "mark", "create", "revoke"}
Req == [op : Ops, pc : {"new", "over"} \cup Serving, tok : Reqs \cup {"none"}]

Init ==
  /\ InitLimits
  /\ row = [t \in Reqs |-> NoRow]
  /\ req = [p \in Reqs |-> [op |-> "none", pc |-> "new", tok |-> "none"]]
  /\ out = {} /\ forked = {} /\ cut = {}

-----------------------------------------------------------------------------
At(p, op, pc) == req[p].op = op /\ req[p].pc = pc
Goto(p, pc) == req' = [req EXCEPT ![p].pc = pc]
Answered == [op |-> "none", pc |-> "over", tok |-> "none"]
Answer(p) == req' = [req EXCEPT ![p] = Answered]
Open == {p \in Reqs : req[p].pc \in Serving}
Exists(t) == row[t] # NoRow
Live(t) == Exists(t) /\ ~row[t].revoked /\ row[t].by = "none"
SessionOf(t) == row[t].session

Enter(p, op, pc, t) ==
  /\ req[p].pc = "new" /\ Cardinality(Open) < MaxOpen
  /\ req' = [req EXCEPT ![p] = [op |-> op, pc |-> pc, tok |-> t]]
  /\ UNCHANGED tokens

(* A request passes the limiter and starts: grant_type client_credentials, *)
(* grant_type refresh_token with any token some client was given, or the   *)
(* revocation of such a token.                                             *)
Arrive(p, c) ==
  /\ Admit(c)
  /\ \/ Enter(p, "issue", "validate", "none")
     \/ \E t \in out : Enter(p, "refresh", "find", t) \/ Enter(p, "revoke", "revoke", t)

(* Requests that end at a limiter, or go on to another component. *)
ArriveRefused(p, c) == Refuse(c) /\ Enter(p, "none", "over", "none")
ArriveSensitive(p, c) == Sensitive(c) /\ Enter(p, "none", "over", "none")

(* validateCredentials. *)
Validate(p) ==
  /\ At(p, "issue", "validate")
  /\ Goto(p, "create") \/ Answer(p)
  /\ UNCHANGED <<now, limits, tokens>>

\* Bug: a token that has been replaced is still good.
FindReplacedToo(p) ==
  /\ At(p, "refresh", "find")
  /\ ~row[req[p].tok].revoked
  /\ Goto(p, "mark")
  /\ UNCHANGED <<now, limits, tokens>>

\* Bug: a token that has been revoked is still good.
FindRevokedToo(p) ==
  /\ At(p, "refresh", "find")
  /\ row[req[p].tok].by = "none"
  /\ Goto(p, "mark")
  /\ UNCHANGED <<now, limits, tokens>>

(* findByJti: the row must be neither revoked nor replaced.  The JWT may   *)
(* have expired.  The credentials read next only affect permissions.       *)
Find(p) ==
  LET t == req[p].tok IN
  /\ At(p, "refresh", "find")
  /\ \/ /\ Live(t)
        /\ Goto(p, "mark")
        /\ forked' = IF \E q \in Reqs : At(q, "refresh", "mark") /\ req[q].tok = t
                       THEN forked \cup {SessionOf(t)} ELSE forked
     \/ Answer(p) /\ UNCHANGED forked
  /\ UNCHANGED <<now, limits, row, out, cut>>

\* Bug: the new token is made, and the old one is left as it is.
MarkNothing(p) ==
  /\ At(p, "refresh", "mark")
  /\ Goto(p, "create")
  /\ UNCHANGED <<now, limits, tokens>>

(* markReplaced: whatever the row has become since it was read. *)
Mark(p) ==
  /\ At(p, "refresh", "mark")
  /\ Goto(p, "create")
  /\ row' = [row EXCEPT ![req[p].tok].by = p]
  /\ UNCHANGED <<now, limits, out, forked, cut>>

NewSession(p) == IF req[p].op = "issue" THEN p ELSE SessionOf(req[p].tok)

\* Bug: the new row is linked to the old one.
CreateLinked(p) ==
  /\ req[p].pc = "create"
  /\ Answer(p)
  /\ row' = [row EXCEPT ![p] = [session |-> NewSession(p), revoked |-> FALSE, by |-> req[p].tok]]
  /\ out' = out \cup {p}
  /\ UNCHANGED <<now, limits, forked, cut>>

(* create, and the answer, which may be lost. *)
Create(p) ==
  /\ req[p].pc = "create"
  /\ Answer(p)
  /\ row' = [row EXCEPT ![p] = [session |-> NewSession(p), revoked |-> FALSE, by |-> "none"]]
  /\ out' \in {out, out \cup {p}}
  /\ UNCHANGED <<now, limits, forked, cut>>

(* revoke: it also answers that it has revoked a token that was replaced   *)
(* or revoked before.                                                      *)
Revoke(p) ==
  LET t == req[p].tok IN
  /\ At(p, "revoke", "revoke")
  /\ Answer(p)
  /\ row' = [row EXCEPT ![t].revoked = TRUE]
  /\ cut' = IF Live(t) THEN cut \cup {SessionOf(t)} ELSE cut
  /\ UNCHANGED <<now, limits, out, forked>>

\* A request that ends between markReplaced and create leaves no token.
Cuts(p) == IF At(p, "refresh", "create") THEN {SessionOf(req[p].tok)} ELSE {}

(* A statement fails: the request ends where it is. *)
Fail(p) ==
  /\ p \in Open
  /\ Answer(p)
  /\ cut' = cut \cup Cuts(p)
  /\ UNCHANGED <<now, limits, row, out, forked>>

(* The process stops with all the requests it serves. *)
Restart ==
  /\ Forget
  /\ req' = [p \in Reqs |-> IF p \in Open THEN Answered ELSE req[p]]
  /\ cut' = cut \cup UNION {Cuts(p) : p \in Reqs}
  /\ UNCHANGED <<row, out, forked>>

Step(p) == Validate(p) \/ Find(p) \/ Mark(p) \/ Create(p) \/ Revoke(p) \/ Fail(p)

Next ==
  \/ \E p \in Reqs, c \in Clients : Arrive(p, c) \/ ArriveRefused(p, c) \/ ArriveSensitive(p, c)
  \/ \E p \in Reqs : Step(p)
  \/ Restart
  \/ Tick /\ UNCHANGED <<tokens, req>>

Spec == Init /\ [][Next]_vars

-----------------------------------------------------------------------------
TypeOK ==
  /\ LimitsTypeOK
  /\ row \in [Reqs -> Row \cup {NoRow}]
  /\ req \in [Reqs -> Req]
  /\ out \subseteq Reqs /\ forked \subseteq Reqs /\ cut \subseteq Reqs

\* A refresh that has read its token and not yet answered.
Exchanging(s) == \E p \in Reqs : /\ req[p].op = "refresh" /\ req[p].pc \in {"mark", "create"}
                                 /\ SessionOf(req[p].tok) = s

(* Rotation: a session has one live token, however exchanges, revocations, *)
(* failures and restarts follow each other, unless two exchanges of one    *)
(* token both read it before either marked it (token.service.ts:262).      *)
OneLivePerSession ==
  \A t, u \in Reqs :
    Live(t) /\ Live(u) /\ SessionOf(t) = SessionOf(u) => t = u \/ SessionOf(t) \in forked

(* A session is not lost: while nobody exchanges its token it has a live   *)
(* one, unless it was revoked or an exchange failed between its two        *)
(* statements (token.service.ts:300).                                      *)
SessionsSurvive ==
  \A s \in Reqs :
    Exists(s) /\ SessionOf(s) = s /\ s \notin cut /\ ~Exchanging(s)
      => \E t \in Reqs : Live(t) /\ SessionOf(t) = s

\* A refresh has read this token and not yet answered.
Exchanged(t) ==
  \E p \in Reqs : req[p].op = "refresh" /\ req[p].pc \in {"mark", "create"} /\ req[p].tok = t

(* A token that was revoked or replaced stays so, whatever exchange or     *)
(* revocation wrote its row last, and no new exchange of it begins; only   *)
(* one that had read it before may go on, and still give a new token.  A   *)
(* session without a live token, and no exchange under way, never has one  *)
(* again, whatever old token of it is presented (token.service.ts:378).    *)
Spent(t) == Exists(t) /\ ~Live(t)
Dead(s) == Exists(s) /\ ~Exchanging(s) /\ \A t \in Reqs : SessionOf(t) = s => ~Live(t)
DeadStaysDead ==
  [][/\ \A t \in Reqs : Spent(t) => Spent(t)' /\ (Exchanged(t)' => Exchanged(t))
     /\ \A s \in Reqs : Dead(s) => Dead(s)']_vars

\* The tokens of a session, and the one that is good for it or being exchanged.
Used(s) == {t \in Reqs : Exists(t) /\ SessionOf(t) = s}
Holding(s) == {t \in Used(s) : Live(t) \/ Exchanged(t)}

Lineage(s) == INSTANCE Session WITH Tokens <- Reqs, holding <- Holding(s), used <- Used(s)

(* Until two exchanges of one token meet in it, every session keeps the    *)
(* promise of Session: however the statements of exchanges, revocations,   *)
(* failures and restarts interleave, its token is handed on to a new one   *)
(* in one step or the session ends (token.service.ts:242-315).             *)
KeepsSession ==
  /\ \A s \in Reqs : Lineage(s)!Init
  /\ [][\A s \in Reqs : UNCHANGED <<Used(s), Holding(s)>> \/ Lineage(s)!Next \/ s \in forked']_vars
=============================================================================
