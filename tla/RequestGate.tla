---------------------------- MODULE RequestGate ----------------------------
(***************************************************************************)
(* The gate every call of a developer passes before it is forwarded:       *)
(* middleware/resource-validation.middleware.ts with the nonce cache       *)
(* (middleware/nonce-cache.ts), the validators (services/validators/) and  *)
(* the authorization check with its cache                                  *)
(* (services/resource-authorization.service.ts,                            *)
(* services/authorization-cache.service.ts).                               *)
(*                                                                         *)
(* A message is what a developer signs once; a request carries a message,  *)
(* and several requests may carry the same one.  A request is a process    *)
(* that gives way at every await.  Time is in seconds of any length.       *)
(***************************************************************************)
EXTENDS Integers

CONSTANTS
  Reqs,       \* requests
  Msgs,       \* signed messages
  Apps,       \* applications, each with its developer
  Auths,      \* rows of oauth_resource
  NoAuth,     \* the authorization of a message that names none (basic validator)
  Sent,       \* the fields of a message
  Owner,      \* the application of an authorization
  Expires,    \* the latest date an authorization is ever given
  Dates,      \* dates an authorization may be given
  Tolerance,  \* TIMESTAMP_TOLERANCE
  NonceTtl,   \* lifetime of a nonce
  CacheTtl,   \* lifetime of a cached authorization
  MaxTime,    \* bound: the clock stops there
  Switched    \* bound: the applications whose status changes

ASSUME GateAssumption ==
  /\ NoAuth \notin Auths
  /\ Sent \in [Msgs -> [app: Apps, auth: Auths \cup {NoAuth}, at: Int, signed: BOOLEAN]]
  /\ Owner \in [Auths -> Apps] /\ Expires \in [Auths -> Int] /\ Dates \subseteq Nat
  /\ Tolerance \in Nat /\ NonceTtl \in Nat /\ CacheTtl \in Nat /\ MaxTime \in Nat
  /\ Switched \subseteq Apps

(* The nonce outlives the window in which its timestamp is accepted: 3600  *)
(* against twice 300 seconds.                                              *)
ASSUME WindowAssumption == NonceTtl >= 2 * Tolerance

VARIABLES
  now,
  appOn, devOn,  \* the applications that are active; those whose developer is
  revoked,       \* the authorizations whose status is not active
  until,         \* expires_at of the authorizations
  cache,         \* until when an authorization is cached for an application
  nonce,         \* until when the nonce of a message is remembered
  req,           \* the requests
  excused        \* messages whose requests overlapped in the gate, or that
                 \* were accepted before a restart (history)

rows == <<appOn, devOn, revoked, until>>
gateVars == <<now, appOn, devOn, revoked, until, cache, nonce, req, excused>>

Absent == -1   \* in a cache: a time that is over

Pcs == {"new", "app", "dev", "fresh", "lookup", "row", "valid", "accepted", "refused"}
Req == [msg: Msgs, pc: Pcs, checkedAt: Int, seen: Int]

Init ==
  /\ now = 0
  /\ appOn = Apps /\ devOn = Apps /\ revoked = {} /\ until = Expires
  /\ cache = [a \in Apps |-> [r \in Auths |-> Absent]]
  /\ nonce = [m \in Msgs |-> Absent]
  /\ req \in [Reqs -> {[msg |-> m, pc |-> "new", checkedAt |-> Absent, seen |-> Absent] : m \in Msgs}]
  /\ excused = {}

-----------------------------------------------------------------------------
Of(p) == Sent[req[p].msg]
SameMsg(p, q) == req[p].msg = req[q].msg
At(p, pc) == req[p].pc = pc
Goto(p, pc) == req' = [req EXCEPT ![p].pc = pc]
ThenOrRefuse(p, ok, pc) == Goto(p, IF ok THEN pc ELSE "refused")

\* Requests whose nonce was checked and is not yet recorded.
Unrecorded == {p \in Reqs : req[p].pc \in {"fresh", "lookup", "row", "valid"}}

(* The request arrives, the application is read. *)
ReadApp(p) ==
  /\ At(p, "new")
  /\ ThenOrRefuse(p, Of(p).app \in appOn, "app")
  /\ UNCHANGED <<now, rows, cache, nonce, excused>>

ReadDev(p) ==
  /\ At(p, "app")
  /\ ThenOrRefuse(p, Of(p).app \in devOn, "dev")
  /\ UNCHANGED <<now, rows, cache, nonce, excused>>

Seen(m) == now <= nonce[m]

(* NonceCache.isDuplicate. *)
CheckNonce(p) ==
  LET m == req[p].msg IN
  /\ At(p, "dev")
  /\ ThenOrRefuse(p, ~Seen(m), "fresh")
  /\ excused' = IF ~Seen(m) /\ \E q \in Unrecorded : SameMsg(p, q)
                THEN excused \cup {m} ELSE excused
  /\ UNCHANGED <<now, rows, cache, nonce>>

(* isTimestampValid *)
InWindow(t) == now - t <= Tolerance /\ t - now <= Tolerance

(* AuthorizationCache.get: an entry that has expired is as good as none. *)
Cached(a, r) == now <= cache[a][r]

(* The synchronous part of validateRequest: fields and timestamp, then the *)
(* cache.  A message without authorization, or with a cached one, only     *)
(* needs its signature; any other waits for the database.                  *)
Validate(p) ==
  LET m == Of(p)
      known == m.auth = NoAuth \/ (m.auth \in Auths /\ Cached(m.app, m.auth))
  IN
  /\ At(p, "fresh")
  /\ req' = [req EXCEPT ![p].checkedAt = now,
                        ![p].pc = IF ~InWindow(m.at) \/ (known /\ ~m.signed) THEN "refused"
                                  ELSE IF known THEN "valid" ELSE "lookup"]
  /\ UNCHANGED <<now, rows, cache, nonce, excused>>

(* The database answers with the row as it is now: until when it would     *)
(* authorize this application.                                             *)
ReadRow(p) ==
  LET r == Of(p).auth IN
  /\ At(p, "lookup")
  /\ req' = [req EXCEPT ![p].pc = "row", ![p].seen = IF r \in Auths /\ Owner[r] = Of(p).app /\ r \notin revoked
                                           THEN until[r] ELSE Absent]
  /\ UNCHANGED <<now, rows, cache, nonce, excused>>

\* Bug: the result is cached before it is known to be positive.
AuthorizeCachesAll(p) ==
  LET m == Of(p) IN
  /\ At(p, "row")
  /\ ThenOrRefuse(p, now <= req[p].seen /\ m.signed, "valid")
  /\ cache' = [cache EXCEPT ![m.app][m.auth] = now + CacheTtl]
  /\ UNCHANGED <<now, rows, nonce, excused>>

(* The check goes on with that row: a positive result is cached, also for  *)
(* a request whose signature is wrong.                                     *)
Authorize(p) ==
  LET m == Of(p)
      authorized == now <= req[p].seen
  IN
  /\ At(p, "row")
  /\ ThenOrRefuse(p, authorized /\ m.signed, "valid")
  /\ cache' = IF authorized THEN [cache EXCEPT ![m.app][m.auth] = now + CacheTtl] ELSE cache
  /\ UNCHANGED <<now, rows, nonce, excused>>

\* Bug: the nonce lives as long as the tolerance.
RecordShort(p) ==
  /\ At(p, "valid")
  /\ Goto(p, "accepted")
  /\ nonce' = [nonce EXCEPT ![req[p].msg] = now + Tolerance]
  /\ UNCHANGED <<now, rows, cache, excused>>

(* NonceCache.record, then next(). *)
Record(p) ==
  /\ At(p, "valid")
  /\ Goto(p, "accepted")
  /\ nonce' = [nonce EXCEPT ![req[p].msg] = now + NonceTtl]
  /\ UNCHANGED <<now, rows, cache, excused>>

(* A repository or the cache throws: the answer is 500, nothing is open.   *)
Error(p) ==
  /\ req[p].pc \in {"new", "app", "dev", "lookup", "valid"}
  /\ Goto(p, "refused")
  /\ UNCHANGED <<now, rows, cache, nonce, excused>>

Gate(p) ==
  \/ ReadApp(p) \/ ReadDev(p) \/ CheckNonce(p) \/ Validate(p)
  \/ ReadRow(p) \/ Authorize(p) \/ Record(p) \/ Error(p)

-----------------------------------------------------------------------------
Tick ==
  /\ now < MaxTime
  /\ now' = now + 1
  /\ UNCHANGED <<rows, cache, nonce, req, excused>>

(* Administrators and developers switch applications and developers. *)
Switch(a) ==
  /\ \/ appOn' \in {appOn \cup {a}, appOn \ {a}} /\ UNCHANGED devOn
     \/ devOn' \in {devOn \cup {a}, devOn \ {a}} /\ UNCHANGED appOn
  /\ UNCHANGED <<now, revoked, until, cache, nonce, req, excused>>

(* An authorization is withdrawn in the database.  Nothing tells the       *)
(* cache: no code calls its invalidate methods.                            *)
Revoke(r) ==
  /\ revoked' = revoked \cup {r}
  /\ UNCHANGED <<now, appOn, devOn, until, cache, nonce, req, excused>>

(* POST /v1/authorizations gives the row of an application and a resource  *)
(* a new date.                                                             *)
CreateAuthorization(r, date) ==
  /\ date <= Expires[r]
  /\ revoked' = revoked \ {r}
  /\ until' = [until EXCEPT ![r] = date]
  /\ UNCHANGED <<now, appOn, devOn, cache, nonce, req, excused>>

(* POST /oauth/verify makes the row active again.  The upsert is not given *)
(* a date and leaves the old one as it is.                                 *)
VerifyOauthToken(r) ==
  /\ revoked' = revoked \ {r}
  /\ UNCHANGED <<now, appOn, devOn, until, cache, nonce, req, excused>>

(* The process restarts: both caches, which are in its memory, are empty,  *)
(* and the requests in progress get no answer.                             *)
Restart ==
  /\ cache' = [a \in Apps |-> [r \in Auths |-> Absent]]
  /\ nonce' = [m \in Msgs |-> Absent]
  /\ req' = [p \in Reqs |-> IF req[p].pc \in {"new", "accepted"} THEN req[p]
                            ELSE [req[p] EXCEPT !.pc = "refused"]]
  /\ excused' = excused \cup {req[p].msg : p \in {q \in Reqs : At(q, "accepted")}}
  /\ UNCHANGED <<now, rows>>

Environment ==
  \/ Tick
  \/ \E a \in Switched : Switch(a)
  \/ \E r \in Auths : Revoke(r) \/ VerifyOauthToken(r) \/ \E date \in Dates : CreateAuthorization(r, date)
  \/ Restart

Next == (\E p \in Reqs : Gate(p)) \/ Environment

Spec == Init /\ [][Next]_gateVars

-----------------------------------------------------------------------------
GateTypeOK ==
  /\ now \in Int
  /\ appOn \subseteq Apps /\ devOn \subseteq Apps /\ revoked \subseteq Auths
  /\ until \in [Auths -> Int]
  /\ cache \in [Apps -> [Auths -> Int]]
  /\ nonce \in [Msgs -> Int]
  /\ req \in [Reqs -> Req]
  /\ excused \subseteq Msgs

(* A signed message is accepted once: a copy of it that arrives later is   *)
(* refused by its nonce, or, when the nonce is forgotten, by its           *)
(* timestamp.  The exceptions are copies that pass the gate at the same    *)
(* time, because the nonce is checked at its entrance and recorded at its  *)
(* exit, and a restart, which forgets the nonces.                          *)
NoReplay ==
  \A p, q \in Reqs :
    p # q /\ SameMsg(p, q) /\ At(p, "accepted") /\ At(q, "accepted")
      => req[p].msg \in excused

(* An accepted message was signed and used an authorization of its own     *)
(* application, at most CacheTtl after the latest date that authorization  *)
(* was ever given: neither the cache, nor an answer that arrives late, nor *)
(* a withdrawal and renewal in between extends that.                       *)
AuthorizedWithinTtl ==
  \A p \in Reqs : At(p, "accepted") =>
    /\ Of(p).signed
    /\ Of(p).auth # NoAuth =>
         /\ Owner[Of(p).auth] = Of(p).app
         /\ req[p].checkedAt <= Expires[Of(p).auth] + CacheTtl

(* "Create or refresh the authorization record"                            *)
(* (authorization.repository.ts:28): a user who has authorized an          *)
(* application is authorized, whether the row is new, withdrawn or expired.*)
RenewedIsValid ==
  [][\A r \in Auths : VerifyOauthToken(r) => r \notin revoked' /\ now' <= until'[r]]_gateVars
=============================================================================
