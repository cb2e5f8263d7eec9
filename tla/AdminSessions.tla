--------------------------- MODULE AdminSessions ---------------------------
(***************************************************************************)
(* Sessions of administrators: login, refresh, logout and change of        *)
(* password (controllers/admin/admin-auth.controller.ts), the blacklist of *)
(* tokens (services/admin-auth.service.ts) and the check of every other    *)
(* call (middleware/admin-auth.middleware.ts).                             *)
(*                                                                         *)
(* Blacklist and attempt counters live in the cache, which may be a Redis  *)
(* or MySQL server: every await is a step of its own.  A token is its      *)
(* administrator and the second of its issue: jsonwebtoken signs equal     *)
(* payloads of one second to the same string.  A login or refresh hands    *)
(* out an access token and a refresh token; Token stands for both.  Either *)
(* is good as a bearer.  One assumption is made: clients refresh and log   *)
(* out with the refresh token, as the cookies do, though adminRefreshToken *)
(* would take an access token too; so only refresh tokens are ever         *)
(* blacklisted.                                                            *)
(***************************************************************************)
EXTENDS Integers, FiniteSets

CONSTANTS
  Admins, Reqs,
  AccessLife, RefreshLife,  \* JWT_EXPIRES_IN, JWT_REFRESH_EXPIRES_IN
  BlacklistTtl,             \* lifetime of blacklist entries
  LoginTries, RefreshTries, \* attempts an e-mail or a token has
  Window,                   \* lifetime of an attempt counter
  MaxTime, MaxOpen          \* bounds: the clock, requests at a time

Absent == -1

ASSUME Lifetimes ==
  /\ {AccessLife, RefreshLife, BlacklistTtl, Window, MaxTime} \subseteq Nat
  /\ {LoginTries, RefreshTries} \subseteq Nat
  /\ AccessLife <= RefreshLife
  /\ RefreshLife <= BlacklistTtl
  /\ "none" \notin Admins

VARIABLES
  now,       \* seconds
  issued,    \* the tokens handed out
  black,     \* until when a token is blacklisted
  list,      \* the tokens listed for an administrator, and until when
  tries,     \* the attempt counters
  req,       \* the requests
  forgotten, \* blacklisted tokens a restart has forgotten
  raced      \* keys whose attempts were counted at the same time

vars == <<now, issued, black, list, tries, req, forgotten, raced>>

Token == [of : Admins, iat : 0..MaxTime]
Keys == Admins \cup Token

\* The cache keys of e-mails and of tokens have prefixes of their own.
ASSUME KeysApart == Admins \cap Token = {}

Ops == {"none", "login", "refresh", "logout", "change"}
Ended == {"done", "refused"}
Pcs == {"new", "count", "check", "find", "compare", "get", "set", "readList", "push",
        "update", "readAll", "markAll", "clear"} \cup Ended

NoToken == [of |-> "none", iat |-> 0]
NoCount == [n |-> 0, until |-> Absent]
NoList == [toks |-> {}, until |-> Absent]

Req == [op : Ops, pc : Pcs, adm : Admins \cup {"none"}, tok : Token \cup {NoToken},
        seen : Nat, toks : SUBSET Token, at : Int]

Init ==
  /\ now = 0
  /\ issued = {}
  /\ black = [t \in Token |-> Absent]
  /\ list = [a \in Admins |-> NoList]
  /\ tries = [k \in Keys |-> NoCount]
  /\ req = [p \in Reqs |-> [op |-> "none", pc |-> "new", adm |-> "none", tok |-> NoToken,
                            seen |-> 0, toks |-> {}, at |-> Absent]]
  /\ forgotten = {} /\ raced = {}

-----------------------------------------------------------------------------
cache == <<black, list, tries>>
At(p, pc) == req[p].pc = pc
Open == {p \in Reqs : req[p].pc \notin Ended \cup {"new"}}
\* A request goes on; one that ends leaves none of its locals.
Goto(p, pc) ==
  req' = [req EXCEPT ![p].pc = pc, ![p].seen = 0, ![p].toks = IF pc \in Ended THEN {} ELSE @]
Blacklisted(t) == black[t] # Absent
\* The check of a refresh token: not blacklisted, and jwt.verify.
Valid(t) == ~Blacklisted(t) /\ now < t.iat + RefreshLife
\* The middleware lets the access token pass, which is never blacklisted, and
\* the refresh token, which is signed with the same secret.
Admits(t) == t \in issued /\ (now < t.iat + AccessLife \/ Valid(t))

Fresh(a) == [of |-> a, iat |-> now]

KeyOf(p) == IF req[p].op = "login" THEN req[p].adm ELSE req[p].tok
Tries(p) == IF req[p].op = "login" THEN LoginTries ELSE RefreshTries

Enter(p, op, pc, a, t, seen) ==
  /\ At(p, "new") /\ Cardinality(Open) < MaxOpen
  /\ req' = [req EXCEPT ![p] = [@ EXCEPT !.op = op, !.pc = pc, !.adm = a, !.tok = t, !.seen = seen]]

Counting(k) == \E q \in Reqs : At(q, "count") /\ KeyOf(q) = k

(* The first half of both limiters: the counter is read and compared.      *)
(* (A request that is refused as it enters changes nothing.)               *)
ReadTries(p, op, a, t) ==
  LET k == IF op = "login" THEN a ELSE t
      limit == IF op = "login" THEN LoginTries ELSE RefreshTries
  IN
  /\ tries[k].n < limit
  /\ Enter(p, op, "count", a, t, tries[k].n)
  /\ raced' = IF Counting(k) THEN raced \cup {k} ELSE raced
  /\ UNCHANGED <<now, issued, cache, forgotten>>

Login(p, a) == ReadTries(p, "login", a, NoToken)

\* The token comes from the cookie or the body: any token the client was given.
Refresh(p, t) == t \in issued /\ ReadTries(p, "refresh", t.of, t)

\* Bug: the attempt is written back as a new counter.
CountAfresh(p) ==
  /\ At(p, "count")
  /\ tries' = [tries EXCEPT ![KeyOf(p)] = [n |-> 1, until |-> now + Window]]
  /\ req' = [req EXCEPT ![p].pc = IF req[p].op = "login" THEN "find" ELSE "check",
                         ![p].at = now, ![p].seen = 0]
  /\ UNCHANGED <<now, issued, black, list, forgotten, raced>>

(* The second half: the attempt is counted and renews the lifetime. *)
Count(p) ==
  /\ At(p, "count")
  /\ tries' = [tries EXCEPT ![KeyOf(p)] = [n |-> req[p].seen + 1, until |-> now + Window]]
  /\ req' = [req EXCEPT ![p].pc = IF req[p].op = "login" THEN "find" ELSE "check",
                         ![p].at = now, ![p].seen = 0]
  /\ UNCHANGED <<now, issued, black, list, forgotten, raced>>

(* Logout and change of password pass adminAuthMiddleware, which checks a  *)
(* bearer; the refresh token of a logout may be any other one.             *)
Logout(p, acc, t) ==
  /\ Admits(acc) /\ t \in issued
  /\ Enter(p, "logout", "get", t.of, t, 0)
  /\ UNCHANGED <<now, issued, cache, forgotten, raced>>

Change(p, acc) ==
  /\ Admits(acc)
  /\ Enter(p, "change", "find", acc.of, NoToken, 0)
  /\ UNCHANGED <<now, issued, cache, forgotten, raced>>

(* adminRefreshToken: the token must not be blacklisted or expired. *)
Check(p) ==
  /\ At(p, "check")
  /\ Goto(p, IF Valid(req[p].tok) THEN "find" ELSE "refused")
  /\ UNCHANGED <<now, issued, cache, forgotten, raced>>

(* The administrator is read: it may be unknown or not active; a change of *)
(* password also compares the current one.                                 *)
Find(p) ==
  /\ At(p, "find")
  /\ \/ Goto(p, "refused")
     \/ Goto(p, CASE req[p].op = "login" -> "compare"
                  [] req[p].op = "refresh" -> "get"
                  [] OTHER -> "update")
  /\ UNCHANGED <<now, issued, cache, forgotten, raced>>

\* A refresh answers with new tokens; the other requests hand none out.
Answer(p) ==
  /\ Goto(p, "done")
  /\ issued' = IF req[p].op \in {"login", "refresh"} THEN issued \cup {Fresh(req[p].adm)} ELSE issued

(* bcrypt has compared the password. *)
Compare(p) ==
  /\ At(p, "compare")
  /\ Answer(p) \/ (Goto(p, "refused") /\ UNCHANGED issued)
  /\ UNCHANGED <<now, cache, forgotten, raced>>

\* Bug: the entry is looked up by administrator.
GetEntryOfAdmin(p) ==
  /\ At(p, "get")
  /\ IF \E t \in Token : t.of = req[p].adm /\ Blacklisted(t)
       THEN Answer(p) ELSE Goto(p, "set") /\ UNCHANGED issued
  /\ UNCHANGED <<now, cache, forgotten, raced>>

(* tokenBlacklistService.blacklist: nothing is done for a token that is    *)
(* blacklisted already, and its callers go on all the same; else           *)
(* the entry is set and the token added to the administrator's list.       *)
GetEntry(p) ==
  /\ At(p, "get")
  /\ IF Blacklisted(req[p].tok) THEN Answer(p) ELSE Goto(p, "set") /\ UNCHANGED issued
  /\ UNCHANGED <<now, cache, forgotten, raced>>

SetEntry(p) ==
  /\ At(p, "set")
  /\ black' = [black EXCEPT ![req[p].tok] = now + BlacklistTtl]
  /\ Goto(p, "readList")
  /\ UNCHANGED <<now, issued, list, tries, forgotten, raced>>

ReadList(p) ==
  /\ At(p, "readList")
  /\ req' = [req EXCEPT ![p].pc = "push", ![p].toks = list[req[p].adm].toks]
  /\ UNCHANGED <<now, issued, cache, forgotten, raced>>

\* Bug: the pair of the refresh is listed, and so revoked with the old ones.
PushPair(p) ==
  /\ At(p, "push")
  /\ list' = [list EXCEPT ![req[p].adm] = [toks |-> req[p].toks \cup {req[p].tok} \cup {Fresh(req[p].adm)},
                                           until |-> now + BlacklistTtl]]
  /\ Answer(p)
  /\ UNCHANGED <<now, black, tries, forgotten, raced>>

Push(p) ==
  /\ At(p, "push")
  /\ list' = [list EXCEPT ![req[p].adm] = [toks |-> req[p].toks \cup {req[p].tok},
                                           until |-> now + BlacklistTtl]]
  /\ Answer(p)
  /\ UNCHANGED <<now, black, tries, forgotten, raced>>

-----------------------------------------------------------------------------
(* The new password is written. *)
Update(p) ==
  /\ At(p, "update")
  /\ Goto(p, "readAll")
  /\ UNCHANGED <<now, issued, cache, forgotten, raced>>

(* blacklistByAdmin: every token of the administrator's list is            *)
(* blacklisted, one after the other, and the list deleted.                 *)
ReadAll(p) ==
  LET toks == list[req[p].adm].toks IN
  /\ At(p, "readAll")
  /\ req' = [req EXCEPT ![p].pc = IF toks = {} THEN "done" ELSE "markAll", ![p].toks = toks]
  /\ UNCHANGED <<now, issued, cache, forgotten, raced>>

Mark(p, t) ==
  /\ At(p, "markAll") /\ t \in req[p].toks
  /\ black' = [black EXCEPT ![t] = now + BlacklistTtl]
  /\ req' = [req EXCEPT ![p].toks = @ \ {t}, ![p].pc = IF req[p].toks = {t} THEN "clear" ELSE @]
  /\ UNCHANGED <<now, issued, list, tries, forgotten, raced>>

\* Bug: the token of the request is kept, which a change of password has not.
ClearToOwn(p) ==
  /\ At(p, "clear")
  /\ list' = [list EXCEPT ![req[p].adm].toks = {req[p].tok}]
  /\ Goto(p, "done")
  /\ UNCHANGED <<now, issued, black, tries, forgotten, raced>>

Clear(p) ==
  /\ At(p, "clear")
  /\ list' = [list EXCEPT ![req[p].adm] = NoList]
  /\ Goto(p, "done")
  /\ UNCHANGED <<now, issued, black, tries, forgotten, raced>>

(* A call fails or the client is gone: the request ends where it is. *)
Fail(p) ==
  /\ p \in Open
  /\ Goto(p, "refused")
  /\ UNCHANGED <<now, issued, cache, forgotten, raced>>

Step(p) ==
  \/ \E a \in Admins : Login(p, a)
  \/ \E t \in Token : Refresh(p, t) \/ Change(p, t)
  \/ \E acc, t \in Token : Logout(p, acc, t)
  \/ Count(p) \/ Check(p) \/ Find(p) \/ Compare(p)
  \/ GetEntry(p) \/ SetEntry(p) \/ ReadList(p) \/ Push(p)
  \/ Update(p) \/ ReadAll(p) \/ (\E t \in Token : Mark(p, t)) \/ Clear(p)
  \/ Fail(p)

-----------------------------------------------------------------------------
(* Time passes and the cache drops what has expired.  (Attempts older than *)
(* a window are of no further interest.)                                   *)
Tick ==
  /\ now < MaxTime
  /\ now' = now + 1
  /\ black' = [t \in Token |-> IF black[t] < now' THEN Absent ELSE black[t]]
  /\ list' = [a \in Admins |-> IF list[a].until < now' THEN NoList ELSE list[a]]
  /\ tries' = [k \in Keys |-> IF tries[k].until < now' THEN NoCount ELSE tries[k]]
  /\ req' = [p \in Reqs |-> [req[p] EXCEPT !.at = IF @ < now' - Window THEN Absent ELSE @]]
  /\ UNCHANGED <<issued, forgotten, raced>>

(* The process restarts with the cache in its memory, the default driver.  *)
Restart ==
  /\ black' = [t \in Token |-> Absent]
  /\ list' = [a \in Admins |-> NoList]
  /\ tries' = [k \in Keys |-> NoCount]
  /\ req' = [p \in Reqs |-> IF p \in Open THEN [req[p] EXCEPT !.pc = "refused", !.seen = 0, !.toks = {}]
                            ELSE req[p]]
  /\ forgotten' = forgotten \cup {t \in Token : Blacklisted(t)}
  /\ raced' = raced \cup {k \in Keys : tries[k].n > 0}
  /\ UNCHANGED <<now, issued>>

Next == (\E p \in Reqs : Step(p)) \/ Tick \/ Restart

Spec == Init /\ [][Next]_vars

-----------------------------------------------------------------------------
TypeOK ==
  /\ now \in 0..MaxTime
  /\ issued \subseteq Token
  /\ black \in [Token -> Int]
  /\ list \in [Admins -> [toks : SUBSET Token, until : Int]]
  /\ tries \in [Keys -> [n : Nat, until : Int]]
  /\ req \in [Reqs -> Req]
  /\ forgotten \subseteq Token /\ raced \subseteq Keys

\* The requests that have spent a token: it was exchanged or logged out.
Spent(t) == \E q \in Reqs : /\ req[q].op \in {"refresh", "logout"} /\ req[q].tok = t
                            /\ At(q, "done")

(* Once an exchange of a refresh token, or a logout with it, has been      *)
(* answered, every exchange that checks the token later is refused, for as *)
(* long as the token would live.  The exceptions are exchanges that checked*)
(* it before (admin-auth.controller.ts:255) and entries lost in a restart. *)
SpentIsRefused ==
  [][\A p \in Reqs : At(p, "check") /\ req'[p].pc = "find"
                       => ~Spent(req[p].tok) \/ req[p].tok \in forgotten]_vars

(* Within one window no e-mail gets more than its attempts at a password,  *)
(* and no token more than its exchanges, however they fall around the end  *)
(* of a counter's life; except when two attempts are counted together      *)
(* (admin-auth.controller.ts:44) or a restart forgets the counter.         *)
AttemptsSpread ==
  \A p \in Reqs :
    req[p].at # Absent /\ KeyOf(p) \notin raced =>
      Cardinality({q \in Reqs : /\ req[q].at # Absent /\ KeyOf(q) = KeyOf(p)
                                /\ req[q].at \in (req[p].at - Window)..req[p].at}) <= Tries(p)

(* Only tokens that were themselves exchanged or logged out are ever       *)
(* revoked: a change of password ends no session but those that have ended *)
(* already, since blacklistByAdmin goes through a list of such tokens      *)
(* (admin-auth.service.ts:80).                                             *)
RevokedWerePresented ==
  \A t \in Token : Blacklisted(t) =>
    \E q \in Reqs : req[q].op \in {"refresh", "logout"} /\ req[q].tok = t
=============================================================================
