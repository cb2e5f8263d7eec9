# Custody open platform: models, checks and proofs

This directory holds a verification development of the open platform in this
repository: TLA+ modules translated from the source, TLC configurations that
check them on small instances, and TLAPS proofs of the properties that matter
most for every size. `PROJECT.json` names, for every definition, the lines of
code it stands for.

Paths below are relative to `src/openplatform-api-service/src/` unless they
start with another directory of the repository.

## 1. The system

The platform sits between developers (ISVs) and a custody backend. Its core is
the API service, an Express server on Node.js with MySQL behind Prisma. The SDKs
(`openplatform-sdk/`) and the portals (`openplatform-web/`) are its clients.

```
 developer ──signed call──▶ rate limit ▶ request gate ▶ quota ▶ forward ▶ HTTP client ──▶ custody
     ▲                                                                                      │
     └───────────────── signed event, with retries ◀── callback push ◀──────────────────────┘
 administrator ──▶ review, status, tickets ──▶ developers, orders, subscriptions, quota counters
```

### Inventory

| Component | State it keeps | Operations | Hard behaviours |
|---|---|---|---|
| Billing (`services/subscription-upgrade`, `services/billing`, `controllers/admin/ticket`, `controllers/isv/billing`) | orders, subscriptions, tickets, packages in MySQL | place an order, submit a proof, reply to, resolve or close a ticket | an approval is ten statements without a transaction; two run at once; a call in the middle fails |
| Quota (`services/quota`, `subscription.repository`) | a usage counter per subscription | charge a call, reset at midnight and at every start | read, then conditional update; limits and subscriptions change in between; resets race with calls |
| Request gate (`middleware/resource-validation`, `middleware/nonce-cache`, `services/validators`, `services/resource-authorization`, `services/authorization-cache`) | nonces and positive authorizations in memory, with lifetimes | check application, developer, nonce, timestamp, authorization, signature | the nonce is checked first and recorded last; cached answers go stale; a restart empties both caches |
| Forwarding (`controllers/thirdparty/forward`, `config/forward-routes`) | oauth_resource rows of registered merchants | route, charge, check the payload, call custody, post-process | answers that are late or lost; custody gives a merchant's key out once |
| HTTP client (`services/http-client`) | stacks of retry loops | request with retries | the retry goes through the interceptor that starts retries |
| Callback push (`services/application-callback`, `routes/thirdparty.routes`) | pushes in progress, in memory; rows of the API log | push an event, retry it, log it | timeouts racing late answers; restarts; a loop, a catch and a table that decide together |
| Onboarding (`controllers/admin/application`, `controllers/admin/developer`, `controllers/isv/isv-auth`, `services/developer-application`, `services/isv-user`) | applications, developers, owners, audit rows | review, KYB decision, status change, registration, first application | status read outside the transaction; registration in two statements; audit rows apart from the change |
| Rate limits (`services/rate-limit`, `middleware/rate-limit`, `middleware/admin-rate-limit`) | counters per window in memory | count and compare | three windows in turn; windows that start with a request; the day counted twice; restarts |
| Administrator sessions (`services/admin-auth`, `controllers/admin/admin-auth`) | token blacklist, its list per administrator and attempt counters in the cache | login, refresh, logout, change password | rotation is check, read, blacklist with awaits between; entries expire; a restart empties the cache |
| OAuth tokens (`services/token`, `controllers/thirdparty/oauth`) | rows of refresh tokens | issue, refresh, revoke | rotation is two statements; concurrent refreshes; a revocation in between |
| Authorizations (`controllers/thirdparty/thirdparty`, `controllers/thirdparty/authorization`) | oauth_resource | create or renew a row, find the application of a resource key | two ways to renew one row; cached answers outlive it |
| Package catalogue (`controllers/admin/package`) | packages with versions | create, update, delete | create is read, deactivate, read, insert |
| Trace storage (`services/trace-storage`) | traces, spans, two indexes in memory | start, end, query, expire | two lifetimes; a size limit |
| API log (`services/api-log`) | log rows, daily snapshots | append, snapshot, slim, delete | ranges that move with the time of day, over half a year of days |
| KYB review, administrator audit, captcha, dashboards, announcements, uploads, health, metrics | see `PROJECT.json` | single reads and writes | few |

The properties that make the components correct:

- **Billing**: one active subscription per developer; an order ends linked to the
  subscription made for it; value is carried over once; a decision stands; an
  upgrade leaves no moment without a plan; every approval finishes.
- **Quota**: no call goes uncharged, no counter passes its limit, a day grants one
  quota per reset.
- **Gate and forwarding**: a signed message is accepted once and executed once;
  an authorization ends at most one cache lifetime after its expiry; custody sees
  counted calls only; a merchant's key never leaves the platform, and is not lost
  behind an answer of success to the call that created the merchant.
- **HTTP client**: a call the backend may have executed is not sent again; calls
  end.
- **Callback push**: no event is sent again once its acceptance was read; a push
  is over within its documented window; the log tells the result; every push ends.
- **Onboarding**: an approval is all or nothing; an application is decided once;
  the audit log replays to the status.
- **Package catalogue**: one package of a type is on sale, with a gap only while
  a new version replaces it.
- **Administrator sessions**: a token that was exchanged or logged out is refused
  from then on; attempts are limited; a change of password ends what it says.
- **OAuth tokens**: a session has one live refresh token; it is lost only to a
  revocation or a failure half way; a token that was revoked or replaced, and a
  session that is dead, stay so.
- **Rate limits**: no stretch of a window's length passes twice the limit; the
  day's limit is what a client can use.
- **API log**: the snapshots outlive the rows they were counted from.

## 2. The modules

| Module | Role |
|---|---|
| `Billing` | orders, proofs, tickets, approvals; one action per statement |
| `Entitlement` | what order handling promises: place, approve, reject in one step each |
| `BillingRefinement` | `Billing`, observed up to the first overlap of two requests, implements `Entitlement` |
| `BillingProofs` | theorems about `Billing` |
| `Quota`, `QuotaProofs` | the counters, and theorems about them |
| `RequestGate`, `RequestGateProofs` | the gate with its caches, and theorems about it and about `Gateway` |
| `Gateway` | extends `RequestGate` by the forwarding: a call from end to end |
| `HttpClient` | the retry loops |
| `HttpClientProofs` | theorems about `HttpClient` |
| `CallbackPush`, `CallbackPushProofs` | the attempts of an event push, and theorems about them |
| `PackageCatalog` | the packages of a type: creation, edits, deletions |
| `Onboarding` | extends `PackageCatalog`: reviews, registrations, status changes, and the trial package an approval finds |
| `OnboardingProofs` | theorems about `Onboarding` and the catalogue |
| `AdminSessions`, `AdminSessionsProofs` | logins, refreshes, logouts and password changes of administrators over the cache |
| `RateLimit` | the counters of the default and the strict limiter |
| `OAuthTokens` | extends `RateLimit`: issue, exchange and revocation of refresh tokens behind the limiters |
| `Session` | what rotation promises of one session: its token is handed on to a new one, or it ends |
| `OAuthTokensProofs` | theorems about both, and that every session of `OAuthTokens` implements `Session` |
| `LogRetention` | the API log, its snapshots and its clean-up |
| `MC*` | instances for TLC |

**One step per await.** Node runs a handler without interruption from one `await`
to the next. An action is such a stretch: the answer of the previous database
call, the code up to the next one. A repository call is one SQL statement and so
is atomic by itself; only `approveApplication` opens a transaction, and only it
is one action over several tables (`Onboarding!Approve`). A handler in progress
is a record with a program counter and the values it has read (`job` in
`Billing`, `call` in `Quota`, `proc` in `Onboarding`, `req` in `RequestGate`).

**Failures.** Where a call may throw, an action ends the handler there and leaves
what was written (`Fail`, `FailClosed`, `Error`, `ResetFails`). A restart drops
what lives in memory and keeps the rows.

**Faulty variants.** A module also defines some handlers with one plausible bug
each, marked `Bug:` or gathered in a section of faulty variants. They are no part
of a specification. `PROJECT.json` ("mutants") says which property notices which one.

**How the components meet.** `Gateway` extends `RequestGate` and uses what the
other modules establish: a call is charged or refused (`Quota`), and the client
of the gateway sends a call once (`HttpClient!AtMostOnce`). `Onboarding` and
`PackageCatalog` run together, since an approval asks which trial package is on
sale; so do `OAuthTokens` and `RateLimit`, since what a limiter lets through
becomes a request for tokens. `Quota` sees the
subscriptions come and go as `Billing` creates and ends them. `Onboarding`
produces the developers whose status the gate reads (`Switch` in `RequestGate`).

### Billing

A job is a request: `submitPaymentProof` is `ReadProof, WriteProof, OpenTicket`;
`addTicketReply` is `ReadReply, WriteReply`; `updateTicketStatus` is `ReadTicket,
WriteStatus` and then, as `handlePaymentTicket` says, an approval (`FindOrder,
FindPkg, FindSubs, EndSub` for each old subscription, `AllEnded, CreateSub,
Confirm`) or a rejection (`FindRejected, Reject`). Row ids grow with creation, so
`orderBy createdAt desc` is the largest id. Amounts and dates are left out; which
subscription is credited to which (`credit`) is kept as history. `Entitlement` is
the promise: an order is placed, then approved or rejected in one step, and a
plan changes exactly when an order of its developer is approved.
`BillingRefinement` maps the statements of an approval to it: the insert of the
subscription is the step that decides.

### Quota

`FindSubscription` and `Increment` are the two statements of
`atomicIncrementDailyUsage`. `Midnight` and `Restart` make a reset due, `Reset`
and `ResetFails` are its outcome. `SetLimit`, `Subscribe` and `EndSubscription`
are the administrators' and the billing's changes under running calls. `peak`,
`sinceReset`, `today`, `resetsToday` are history.

### RequestGate and Gateway

A message is what a developer signs once; a request carries a message, and
several may carry the same. `ReadApp, ReadDev, CheckNonce, Validate, ReadRow,
Authorize, Record` follow the middleware and the validator it calls; a message
that names no authorization takes the way of the basic validator. `cache` and
`nonce` hold the time until which an entry is valid. The nonce cache is the
in-memory driver (`CACHE_DRIVER`, default `memory`). `excused` remembers the
messages for which the code gives no guarantee: their copies were between the
check and the record of the nonce at the same time, or a restart came after an
acceptance. `until` is the date of a row: `CreateAuthorization` (POST
/v1/authorizations) sets one, `VerifyOauthToken` renews the row and leaves the
date alone. `Gateway` adds `Route, OverQuota, Charge, Response, Timeout, Handle`
of `forwardRequest`; `Serve` is custody, which may execute a call after the
gateway has given it up. A registration names a merchant (`Named`), and several
signed messages may name the same one: custody puts the access key into the
answer to the call that creates the merchant and into no other, and none for the
merchants it had before (`Existing`; `forward-routes.ts:285`). `stored` holds the
rows of application and merchant that the response handler has written; a write
that fails may have written its row.

### HttpClient

`frames` is the stack of `retryRequest` loops of a call, each with its counter:
the retry goes through the same axios instance, so its failure opens another loop
(`http-client.service.ts:187`). `EffectiveRetries` is the option after the
constructor's defaults and spread; the gateway's client ends with `undefined` and
does not retry.

### CallbackPush

`Start` is `pushEvent` up to the first `POST`; `NetworkError`, `Receive` and
`RetryTimer` are the loop of `sendWithRetry`, with `Conclude` for its three ends.
Messages have a place (unsent, request, answer, read), so an answer may arrive
after its timeout and a request may be handled after its sender gave up. Time is
discrete; timers fire when they are due.

### Onboarding and PackageCatalog

Each operation starts with a `Begin...` that stands for the first read with its
checks and goes on with one action per statement; `Approve` is the one
transaction. The creation of a package is `FindActive, Deactivate, NextVersion,
CreatePackage`. The histories count what the code does not exclude, so that the
properties can say how much of it comes through: `met`, the reviews that began
beside another one of the same application; `crossed`, the e-mails of which a
status request or KYB decision began beside another; `unlogged`, the e-mails with
a status that was written and never logged (a KYB decision, a failure between the
two statements); `crowded`, the creations and edits that came beside another;
`lost`, that a creation failed half way or an edit took the package from sale.

### AdminSessions

A request goes through the awaits of its handler: `Count` (the attempt counter
is read and written back), `check` (the blacklist), `Find` (the administrator),
then `get, set, readList, push` of `blacklist`, or `update, readAll, markAll,
clear` of a change of password. A token is its administrator and the second of
its issue, because equal payloads of one second are signed to the same string.
Either token of a login passes the middleware (`Admits`), which tells them apart
no more than their common secret does. `POST /refresh` would take an access token
too; the model assumes that clients send it the refresh token, as the cookies do.
Entries of the cache hold the time they expire; `Restart` empties it, and
`forgotten` and `raced` remember what the code gives no guarantee for: tokens
whose entry a restart lost, counters that two requests wrote at once.

### RateLimit and OAuthTokens

A counter starts with its first request and is dropped whole when its window has
passed (`Increment`). The history `passed` counts, for every instant, the requests
let through before it, so that a stretch of time is a difference of two numbers. `Counted` is `checkAllWindows` with its order and its early
returns; the awaits of the memory storage never leave the microtasks of one
request, so its three windows are one step. `DayReported` is the second increment of the day's counter. The strict
limiter of the sensitive routes (`Sensitive`) has a window of its own.
`Arrive` passes the limiter and starts a request; then `Validate, Create` issue,
`Find, Mark, Create` exchange and `Revoke` revokes, one statement each. `out`
holds the tokens that reached a client: a lost answer leaves a live row nobody
has. `forked` and `cut` are history: sessions with two exchanges of one token at
the same time, and sessions that were revoked or whose exchange failed half way.

`Session` is the life of one session without its statements: `Begin`, `HandOn` to a
token that was never used, `End`. `Lineage(s)` maps the session `s` to it: the
tokens it has used are its rows, and the token that is good for it is the live
one, or the one under exchange from the moment the exchange has read it. So a
revocation that meets an exchange ends nothing (the exchange goes on and makes a
live token, `token.service.ts:300`), and a mark without its insert, or a revoked
token whose exchange fails, is where the session ends. `KeepsSession` compares
each session until two exchanges of one token meet in that session.

### LogRetention

An instant is a part of a day. `StartCleanup` is the timer and the SELECT of
`buildDailySnapshot`, whose range starts at the time of day of the deletion
limit; `Upsert` writes one day of its result; `Slim` and `Delete` follow. Calls
are logged between any two of them.

## 3. The runs

| Run | Question | Bounds, and why they are enough |
|---|---|---|
| `billing_serial` | One request at a time, any call may fail: one active subscription, value credited once, a second grant only after a failure, decisions stand? | two developers (their rows must not mix), two orders, four subscriptions (trial and upgrade each), two tickets, one failure, a package that may be deleted. An order that is granted twice needs one failure and two tickets. |
| `billing_nofault` | Two interleaved requests, no failure: no gap, orders own their subscriptions, a picked order is confirmed? And do the statements, up to the first overlap, look like the one decision of `Entitlement`? | one developer: requests of different developers share no row. Two requests, three subscriptions: the old one and one per approval. |
| `quota` | Calls racing on counters with resets, edits, replacements, restarts, a failure. | two calls on two subscriptions; limits up to two, so that a counter is reached, passed over and lowered under; two resets a day. |
| `callback` | Everything a push promises. | one push (pushes share no state), the real number of attempts, waits 1, 2, 3 and timeout 1 in the order of the real ones, one restart. |
| `http_client` | The gateway's client and one with two retries. | four failures: enough for loops three deep, the deepest at which the outer counters differ from the inner ones. |
| `onboarding` | Reviews, status changes, registrations and applications while packages are created, with failures. | three requests on one e-mail, all at a time: rows of different e-mails share nothing but the tables; two that meet and a third that sees the outcome. Two creations of packages and one edit. |
| `gateway` | A call from end to end. | two requests and five messages (a call, the same call forged, one with the authorization of another application, two registrations of one new merchant by two applications), a custody that starts without merchants (the proof has any); tolerance 1, nonce lifetime 2, cache lifetime 1, clock to 3, so that every lifetime can end while a request is on its way. |
| `admin_sessions` | Spent tokens, attempts, and what a change of password revokes. | four requests of one administrator (a login, two that use its token, a change of password), two at a time; tokens live one and two seconds, the clock goes to 3, so that entries expire and counters start anew. |
| `oauth` | Both limiters, and the rotation of refresh tokens behind them: what a limiter lets through, one live token, none lost, none back, each session a `Session`. | five requests of one client, two at a time: an issue, two exchanges that may meet, a revocation and one more exchange. Windows of 1, 2 and 4 instants with limits 2, 4 and 7 over five instants: each window ends within the run, and the odd daily limit shows the rounding. |

Runs that end in a violation, each of a sentence in the repository:

| Run | Sentence | What the code does |
|---|---|---|
| `billing_unpaid` | "When resolved: approve payment" (`ticket.controller.ts:237`) | approves the newest pending order of the developer, which may be one nobody paid |
| `gateway_renewed` | "Create or refresh the authorization record" (`authorization.repository.ts:28`) | a renewal through OAuth leaves the old date in the row, which stays expired |
| `log_snapshot` | "Built before logs are slimmed/deleted so that long-period trends remain queryable" (`repository.interfaces.ts:171`) | the last snapshot of a day is taken when part of its calls is past the deletion age, and overwrites the full one |

Other disagreements are stated as what does hold, and the run shows that:
`ResetsBoundTheDay` (every start of the process resets the quota),
`DecidedOnce` (reviews that meet both decide, and a rejected applicant becomes a
developer by registering), `RevokedWerePresented` (a change of password
revokes nothing that was not revoked), `DayGivesHalf` (the day's limit is
halved), `LessThanTwice` (windows are not sliding).

**Deadlock** is checked in the billing and quota runs (ticket replies, orders or
resets always remain possible). The other systems stop when all their requests
have been answered and say `CHECK_DEADLOCK FALSE`.

**Symmetry** is used for requests, calls and creations in runs that check no
liveness.

**Fairness.** `Billing!FairSpec`: the continuation of a request in progress runs
eventually, because Node's event loop takes every continuation whose call has
returned and the database driver answers or rejects every call. New requests are
not fair. `CallbackPush!FairSpec`: the clock goes on and timers that are due fire
(`setTimeout`, the timeout of axios); nothing is assumed of the network or the
receiver. `HttpClient!FairSpec`: a backend that is asked often enough answers
(failures are bounded by `MaxFailures`), timers fire and thrown errors are
caught. The other models state no fairness and have no liveness property.

## 4. The proofs

TLAPS proves these for every value of the constants that meets the named
assumption; the assumptions are what the code gives (non-empty sets, natural
numbers, bounds of the data types).

**Billing** (`ConstAssumption`).

- `TypeCorrect`: `Spec => []TypeOK`.
- `OrderOwnership`: `Spec => []OrderOwnsItsSubscription`, under any interleaving
  and any failures. The invariant is not inductive: what `Confirm` writes it has
  read three awaits before. `OwnInv` adds that a request past `findOrder` holds
  an order of its own developer, that a request at `confirm` holds a subscription
  made for just that order (`MadeForOrder`), and that rows keep their developer
  and package (`RowsKept`).
- `NoGapUntilFailure`: however approvals interleave, a developer who had a
  subscription has an active one, or an approval that ends the old ones is about
  to create the new one, until the first failed call or deleted package
  (`Unfailed`). `GapInv` adds to the property that every package is still there
  (so `CreateSub` cannot be refused by the foreign key) and that requests end
  subscriptions of their own developer only (`EndsOwnSubs`). `NoGap` is the case
  of an instance without failures (`NothingFails`: `MaxFaults = 0` and
  `Deletable = {}`), which the run checks.
- `SingleActive` (assuming `OneAtATime`, a single request): a developer never
  holds two active subscriptions, whatever fails and however small the page of
  the query is. `EndsThemAll`: the request's `todo` holds all active
  subscriptions of its developer until it has ended them, and when it comes to
  `createSub` there are none. It rests on `PageHoldsOne`: at most one active
  subscription always fits a page.
- `DecisionsStand` (`OneAtATime`): `Spec => DecisionIsFinal`, an action property.
  `PicksPending`: the order a request has picked is pending until it writes it,
  which is where one request at a time is needed (section 5 shows the reopened
  order of two).
- `ValueCreditedOnce` (`OneAtATime`): `Spec => []CreditedOnce`. `CreditEnded`:
  what was credited has ended and so is never listed again; `JobCreditFresh`:
  what an approval is about to credit has ended and was not credited before, and
  what it still has to end is active.
- `GrantsNeedFaults` (`OneAtATime`): `Spec => []ExtraGrantsNeedFaults`. The bound
  alone is not inductive. `GrantsPaidFor` says how much room is left: an order
  that is decided or about to be (`Settled`) has one grant more than there were
  failures at most, one that is not has none more.
- `OrderlyUntilOverlap`, `DecisionsStandUntilOverlap`: the last four without
  `OneAtATime`. `ObservedSpec` remembers in `overlapped` whether two requests were
  ever open together; until then, for any number of requests and any failures,
  the four hold. The step lemmas need one request open (`OneOpen`) before and
  after the step, from which `Alone` gets that the others are idle.
- `PromiseUntilFailure`: the refinement of `Entitlement`, for every value of the
  constants, until a call fails, a package is deleted or two requests overlap;
  `HandlersKeepPromise` is the case of `NothingFails`, the property `KeepsPromise`
  of the run. The mapping reads a developer's plan off the newest row, so
  `MapInv` adds that ids leave no gaps (`NoIdGaps`) and that an active
  subscription is the newest of its developer (`ActiveIsNewest`). Then the insert
  of the subscription is `Approve` (`InsertApproves`), and every other step
  places an order, rejects one or changes neither mapped variable
  (`OthersDecide`).
- `ApprovalsAdvance`: every statement of an approval leaves fewer to come (`Left`,
  a number made of the place in the handler and of the subscriptions still to
  end), and the last one confirms the order. It is the part of
  `ApprovalConfirmsItsOrder` that needs no fairness.

**Quota** (`ConstAssumption`).

- `QuotaTypeCorrect`, and `EveryGrantCharged`, `UsageBounded`,
  `DayBoundedByResets`: the usage counter is at least what was granted since the
  last reset; the limit a call carries is at most the peak of its package; and
  the day's grants are bounded by one peak for every reset plus the counter.

**Request gate** (`GateAssumption`, `WindowAssumption`).

- `GateTypeCorrect`.
- `GateNoReplay`: `Spec => []NoReplay`. The inductive invariant says where the
  guarantee comes from. `WindowOpen`: once a request is validated, the clock has
  passed the start of its message's window. `Remembered`: the nonce of an
  accepted message lives at least to the end of that window, because it is
  recorded after the window's start and `NonceTtl >= 2 * Tolerance` (3600 s
  against 600 s in the code). `OneInside`: two requests with one message are not
  both between check and record. `CopyTooLate`: after one was accepted, a copy
  that passes the nonce check finds the window closed. The messages in `excused`
  (two copies were between check and record at once, or one was accepted before a
  restart forgot its nonce) are exempt from the last three. TLC checks the property on an instance where
  `NonceTtl = 2 * Tolerance`.
- `GateAuthorized`: `Spec => []AuthorizedWithinTtl`. `CacheSound`: an entry that
  is not over belongs to the application that owns the row and ends at most
  `CacheTtl` after its expiry. `PlaceSound`: what a request knows at each place.

**From end to end** (the same assumptions; the last section of
`RequestGateProofs`). `FwdImplementsGate`: `FwdSpec => Spec`, every step of
`Gateway` is a step of the gate or leaves it alone, so the theorems above hold of
the composition. `FwdInv` relates the two: forwarding starts after the gate
accepted, a call is counted before it is sent and sent once (`CallsInOrder`), and
a message has been executed exactly as often as the backend served calls for it
(`CountsServed`). `KeyFollowed` says where the call is whose answer has the key of a
merchant, and `Created` that every merchant custody did not have from the start
has such a call. From it follow `FwdTypeCorrect`, `KeyNotLost`
(`FwdSpec => []KeyNotLostSilently`, with `MerchantAssumption`) and, with `GateNoReplay`,
`FwdExecutedOnce` (`FwdSpec => []ExecutedOnce`): the served calls of a message
are among its counted ones, and the gate accepted at most one of them.
`FwdGatePromises` carries `NoReplay` and `AuthorizedWithinTtl` over to `FwdSpec`,
under which the run checks them.

**HTTP client.** `ClientTypeCorrect`, and `GatewayCallsOnce`: a call of a client
that was built without a number of retries is executed at most once. `SentOnce`
adds that no loop ever opens for such a call (`GatewayNeverRetries`: its limit is
`undefined` after the spread) and that it was not executed before it is sent.
`LoopsStayBounded`: the nested loops of a call number at most the failures met so
far, and none counts past the limit of its client. With it, `CallsAdvance`: a
step of a call that was sent lowers `Left`, the steps that remain if the backend
fails no more, unless the step is a further failure; this is the part of
`CallsEnd` that needs no fairness.

**Callback push** (`RetryAssumption`). `PushTypeCorrect`, `NoRepeatAfterRead` and
`LogIsTrue` follow from one invariant (`Sound`): an attempt that was not made has
no message, an acceptance that was read is that of the last attempt and has
settled the push, and only a settled push has its one log entry. It holds for any
ladder of waits and any number of restarts. `PushesAreTimely`:
`Spec => []WithinWindow`. `Timely` bounds the age of a push by its attempts: the
timeouts and waits of the attempts made, and what has passed of the present
timeout or wait. It needs three facts about `Waits`, the sum of the ladder, a
recursive function: it exists (`SumsExist`), it adds one wait for each retry
(`WaitsAddUp`), and it grows (`WaitsGrow`). Each goes by the least number for
which it fails (`LeastNumber`).

**Onboarding** (`OpsAssumption`, `EditAssumption`).

- `OnboardingTypeCorrect`. The invariant adds that a request that changes a
  status has found a developer, that developers are never removed (`Based`), and
  that the versions of the packages are bounded, without which the next one, one
  above the greatest, need not be a number (`LeastNatural`, `MaxIsNatural`).
- `OnePackageOnSale`: `Spec => []OneOnSale`. `Replacing` is its first half.
  `SoldCount` is an account: the packages on sale that no creation is about to
  take (`Kept`), and the creations in progress, are together at most one more
  than the creations and edits that came beside another.
- `ApplicationsDecidedOnce`: `Spec => []DecidedOnce`. `Decided` is an account of
  the same kind: the decisions in the log and the reviews in progress are
  together at most one more than the reviews that began beside another; and while
  none did, the one review in progress still finds the application pending. Only
  the step of a review of the e-mail can change it (`OthersDecided`).
- `ApprovalsAreAtomic`: `Spec => []ApprovalAtomic`, under any interleaving and any
  failures. `Atomic` counts the rows of an approval in the log as a set of places;
  `RowsAppended` says what appending a row does to such a set, and `StepKinds`
  sorts the steps by what they write.
- `AuditLogReplays`: `Spec => []AuditReplays`. `Replayed` says what a request
  knows of the log at each place of its handler: whether the status it has read is
  the one the log ends with, and whether it has written a status the log does not
  show yet; `Told`, which holds of requests that meet too, that the status is one
  the log tells or a request in progress is about to log. The status at a place of the log is that of the greatest place before it
  (`StatusAt`, `GreatestIsMax`), and an appended row changes only the last one
  (`StatusAppended`).

**Administrator sessions** (`Lifetimes`, among them `RefreshLife <= BlacklistTtl`).

- `SessionTypeCorrect`, whose invariant says what a request knows at each await
  (`Served`).
- `OnlyPresentedRevoked`: `Spec => []RevokedWerePresented`, because the list of
  an administrator holds only tokens that were presented in a refresh or logout.
- `SpentTokensRefused`: `Spec => SpentIsRefused`, an action property.
  `Outlives`: an entry of the blacklist outlives its token, which is where
  `RefreshLife <= BlacklistTtl` is used; `SpentGuarded`: a token whose exchange
  or logout was answered is blacklisted, forgotten by a restart, or over.
- `AttemptsAreSpread` (`KeysApart`): `Spec => []AttemptsSpread`. `Tallied`:
  a counter that two requests never wrote at once is at least the number of
  attempts it remembers, and outlives each of them; `SoleCounter`: a request
  between the two halves of the limiter is alone there and has read no less than
  the counter holds. `KeysApart` says that an administrator is not a token:
  the limiter's keys are `ratelimit:login:` and `ratelimit:refresh:`
  (`admin-auth.controller.ts:41,71`), so that logins and refreshes share no
  counter.

**OAuth tokens and rate limits** (`ReqsAssumption`, `LimitAssumption`).

- `TokenTypeCorrect`: `Spec => []TypeOK`. The run does not check `TypeOK` as well.
- `RotationLeavesOne`: `Spec => []OneLivePerSession`. `Chains` and `Marks`: a
  session that was not forked has at most one end, an unreplaced row or an
  exchange about to insert one, and a row that an exchange is about to mark is
  unreplaced and the business of that exchange alone.
- `SessionsAreKept`: `Spec => []SessionsSurvive`.
- `DeadSessionsStayDead`: `Spec => DeadStaysDead`, of tokens and of sessions. A
  row that was revoked or replaced stays so and no exchange of it begins
  (`StepSpent`); a session with no live token and no exchange under way gets no
  live token again (`StepDead`). An exchange that read its token before it was
  revoked is not part of the promise: it goes on and makes a live one.
- `SessionsKeepTheirPromise`: `Spec => KeepsSession`, the refinement of `Session`, one
  session at a time. What holds the token of an unforked session is the one end
  of its chain (`HolderIsEnd`, from `ChainInv`), so there is one holder
  (`OneHolder`). A step that makes no row can only take it away (`Narrows`), which
  is `End`; the insert puts the new row in its place (`CreateKeeps`), which is
  `Begin` or `HandOn`.
- `HalfADay`: `Spec => []DayGivesHalf`. `DayInv` relates what passed in the
  running day to its counter, which grows by two for each accepted request.
- `NeverTwice`: `Spec => []LessThanTwice`, for each of the three windows. A
  stretch as long as a window meets at most two windows of the counter. `Tame`
  bounds what passed in each (`Started`): since the start of the present window no
  more passed than was counted, at least one less after the first request, which
  starts it; and of the window before, a stretch that reaches into the present one
  misses the first request. `TameHit`, `TamePass` and
  `WindowOver` are the three things that happen to a counter.

**Reasoning by least numbers.** The library's induction theorems take an operator
as a parameter and cannot be used. Where a fact about all numbers is needed, the
proofs take the least member of the set of numbers for which it fails
(`LeastNatural`, `LeastNumber`).

**Only model-checked**: liveness (`ApprovalConfirmsItsOrder`, `EveryPushEnds`,
`CallsEnd`), which is out of the prover's reach, as is that a step is enabled. What
it rests on beside fairness is proved: `ApprovalsAdvance`, `PushesAreTimely`,
`CallsAdvance`. Every safety property of the passing runs is stated by a theorem.
`LogRetention`, whose run shows a violation, has no theorem.

## 5. Observations without a run

Met while modelling; the code and a text of the repository disagree.

- `subscription-upgrade.service.ts:24` "End all active subscriptions": two
  approvals at once each create one, and both stay active.
- `ticket.controller.ts:238` "When closed: reject payment, keep order as
  pending": the order becomes rejected.
- `billing.service.ts:152` "Submit payment proof for a pending order": the write
  at line 164 is unconditional and reopens an order decided since line 155.
- `application-callback.service.ts:186`: one log entry per push, not per attempt.
- `docs/callback-webhook-spec.md:777` names network errors as the only ones
  retried; the code also retries 429 and 5xx. Line 62 does not list
  `authorization.created`, which is pushed.
- `http-client.service.ts:182`: the backoff of a nested loop starts anew, so waits
  do not grow. `types/routing.types.ts:115`: the default of three retries is
  overwritten by an undefined option.
- `developer.controller.ts`: a KYB decision also sets the status, and so lifts a
  ban without an audit row.
- `docs/plans/2026-08-15-admin-portal-business-design.md:49`: an approved
  applicant can log in; the approval creates no user.
- `docs/plans/2026-08-15-admin-portal-business-design.md:65` "`IsvDeveloper`
  仅存储审核通过后的正式开发者" (only developers whose application was approved):
  `register` (`isv-auth.controller.ts:90`) looks at no application and gives an
  e-mail whose application was rejected, or is not decided, an active developer
  with its KYB pending. It takes neither an overlap nor a failure;
  `DecidedOnce` names it as the one way in.
- `forward-routes.ts:285` "the caller can recover it through the OAuth flow": a
  merchant whose first registration failed after custody had executed it (a late
  answer, a row that was not written, a restart) has its key nowhere on the
  platform; registering it again is answered as a success without an id, as
  `merchant-register-route.test.ts:73` wants, and only the OAuth flow can still
  bring the row.
- `isv-auth.controller.ts:90`: a registration that fails between its two rows
  leaves a developer nobody can log in to, whose e-mail cannot register again.
- `admin-auth.service.ts`: two logins of an administrator in one second get the
  same token, so a logout with one ends both.
- `token.service.ts:380`: a revocation reports success for a token that was
  revoked or replaced long before.
- `token.service.ts`: an application that was suspended goes on exchanging its
  refresh tokens; only the issue of new ones looks at its status. The limiter of
  the token service and the blacklist of access tokens are defaults that do
  nothing.
- `rate-limit-rules.ts:24`: half of the daily limit is what a client gets.
- `trace-storage.service.ts:149`: `appid` of a trace is never set, so its index
  keeps deleted traces; no code calls `completeTrace`.
- `thirdparty.controller.ts`: an event of custody goes to the application of the
  first row of its resource key, whatever that row's status.
- `api-log.service.ts`: the clean-up draws its next time anew after each run and
  may run several times in an evening.

Hazards of the list that no property covers, beside rounding: two subscriptions
left active by approvals that meet, an eleventh active subscription behind the
page of ten, which takes ten such approvals, and the overwrite of a decision
between the read and the write of an order. The model has all three
(`OrderlyUntilOverlap` and `DecisionsStandUntilOverlap` prove that they take two
open requests) and the code promises nothing they would break.

## 6. Not modelled

- **Amounts and dates of billing**: what a subscription is worth is data of
  `Billing`, which records what is credited to what. Rounding is a hazard in the
  list without a property.
- **Trace storage**: four maps in memory for the search of traces. It decides
  nothing in the other parts; expiry and the size limit only drop entries.
- **KYB review and ISV status history**: maps in memory whose handlers have no
  await between a check and a change; they share nothing with the rows of
  `Onboarding`.
- **Administrator audit log, captcha, developer login and sub-accounts,
  announcements, lists, uploads, health, metrics**: single reads and writes.
- **Dashboards and statistics**: read-only aggregation.
- **Signatures, formats, validation rules, error mapping**: functions of strings,
  covered by the repository's unit tests; a flag or a kind stands for their
  verdict.
- **Rate limits**: tiers and the endpoint table of the administrators' limiter
  (more counters of the same kind), and the stores no route uses.
- **OAuth tokens**: bulk revocation and the deletion of expired rows, which
  nothing calls; the verification of access tokens, which only reads.
- **Routing of callbacks**: the choice of the first row of a resource key, a
  single read.
- **The Redis and MySQL drivers of the cache**: the drivers are configuration;
  the in-memory default, which a restart empties, allows more.
- **SDKs, portals, tooling**: other programs.

## 7. Plan

Done, in the order of importance: `Billing` with its promise and proofs, `Quota`
with proofs, `CallbackPush`, `HttpClient`, `Onboarding`, `RequestGate` with
proofs, `Gateway`; then `PackageCatalog`, `AdminSessions`, `RateLimit`,
`OAuthTokens`, `LogRetention`, renewals in `RequestGate`, and the proofs about
sessions, tokens, onboarding, pushes and the HTTP client; then the safety
properties that were only model-checked, the refinements of `Entitlement` and
`Session`, and the bounded progress of approvals and calls.

Next:

1. What the snapshots of `LogRetention` do keep: a day whose calls are all within
   the age at its last snapshot is kept whole.
2. Proration of an upgrade over small numbers, against its definition in
   rationals, inside `Billing`'s credit.
3. The choice of the application for a custody event, composed of `RequestGate`'s
   rows and `CallbackPush`.
