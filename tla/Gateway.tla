------------------------------ MODULE Gateway ------------------------------
(***************************************************************************)
(* A call of a developer from end to end: the gate, then forwardRequest    *)
(* (controllers/thirdparty/forward.controller.ts) with the quota, the      *)
(* payload check, the call of the custody backend, and, for                *)
(* merchant/register, the handler that stores the merchant's access key    *)
(* (config/forward-routes.ts).                                             *)
(*                                                                         *)
(* The quota is the result of services/quota.service.ts (module Quota);    *)
(* the client sends a call once (module HttpClient, AtMostOnce).  The      *)
(* messages without an authorization are the registrations of merchants;   *)
(* several messages may register the same one.                             *)
(***************************************************************************)
EXTENDS RequestGate, FiniteSets

CONSTANTS
  Merchants,
  Existing,  \* the merchants custody has from the start
  Named      \* the merchant a registration is about

ASSUME MerchantAssumption == Existing \subseteq Merchants /\ Named \in [Msgs -> Merchants]

VARIABLES
  fwd,       \* where forwardRequest is with a request
  flight,    \* the call to the backend made for it
  executed,  \* how often the backend has executed a message
  charged,   \* the requests the quota has counted
  merchants, \* the merchants custody has: it gives the key of a new one only
  stored     \* the rows of oauth_resource with the key of a merchant

fwdVars == <<fwd, flight, executed, charged, merchants, stored>>
vars == <<gateVars, fwdVars>>

Answers == {"refused", "failed", "ok", "okKey", "okId"}
FwdPcs == {"none", "charging", "waiting", "handling", "dead"} \cup Answers
Flights == {"none", "sent", "served", "servedKey", "declined"}

FwdInit ==
  /\ Init
  /\ fwd = [p \in Reqs |-> "none"]
  /\ flight = [p \in Reqs |-> "none"]
  /\ executed = [m \in Msgs |-> 0]
  /\ charged = {} /\ merchants = Existing /\ stored = {}

Step(p, pc) == fwd' = [fwd EXCEPT ![p] = pc]
IsRegistration(p) == Of(p).auth = NoAuth
Merchant(p) == Named[req[p].msg]
Row(p) == <<Of(p).app, Merchant(p)>>

(* The route, its parameters and its backend are looked up; then the quota *)
(* is asked.                                                               *)
Route(p) ==
  /\ At(p, "accepted") /\ fwd[p] = "none"
  /\ \E found \in BOOLEAN : Step(p, IF found THEN "charging" ELSE "refused")
  /\ UNCHANGED <<gateVars, flight, executed, charged, merchants, stored>>

Send(p) ==
  /\ Step(p, "waiting")
  /\ flight' = [flight EXCEPT ![p] = "sent"]

(* The quota refuses, or the service behind it fails. *)
OverQuota(p) ==
  /\ fwd[p] = "charging"
  /\ Step(p, "refused")
  /\ UNCHANGED <<gateVars, flight, executed, charged, merchants, stored>>

(* The call is counted; the payload check after it may still refuse it.    *)
Charge(p) ==
  /\ fwd[p] = "charging"
  /\ charged' = charged \cup {p}
  /\ \/ Send(p)
     \/ IsRegistration(p) /\ Step(p, "refused") /\ UNCHANGED flight
  /\ UNCHANGED <<gateVars, executed, merchants, stored>>

(* The backend executes a call, also one nobody waits for any more.  It    *)
(* leaves the access key out of the answer for a merchant that exists.     *)
Serve(p) ==
  LET creates == IsRegistration(p) /\ Merchant(p) \notin merchants IN
  /\ flight[p] = "sent"
  /\ \/ /\ flight' = [flight EXCEPT ![p] = IF creates THEN "servedKey" ELSE "served"]
        /\ merchants' = IF creates THEN merchants \cup {Merchant(p)} ELSE merchants
        /\ executed' = [executed EXCEPT ![req[p].msg] = @ + 1]
     \/ flight' = [flight EXCEPT ![p] = "declined"] /\ UNCHANGED <<merchants, executed>>
  /\ UNCHANGED <<gateVars, fwd, charged, stored>>

\* Bug: a refusal of custody is passed on with its own code.
ResponseRaw(p) ==
  /\ fwd[p] = "waiting" /\ flight[p] \in {"served", "servedKey", "declined"}
  /\ Step(p, IF flight[p] = "servedKey" THEN "handling" ELSE flight[p])
  /\ UNCHANGED <<gateVars, flight, executed, charged, merchants, stored>>

(* The answer arrives.  With a key in it the handler writes the row first. *)
Response(p) ==
  /\ fwd[p] = "waiting" /\ flight[p] \in {"served", "servedKey", "declined"}
  /\ Step(p, CASE flight[p] = "servedKey" -> "handling"
               [] flight[p] = "served" -> "ok"
               [] OTHER -> "failed")
  /\ UNCHANGED <<gateVars, flight, executed, charged, merchants, stored>>

\* Bug: a call that has timed out is sent again.
TimeoutResends(p) ==
  /\ fwd[p] = "waiting"
  /\ Send(p)
  /\ UNCHANGED <<gateVars, executed, charged, merchants, stored>>

(* The call fails or takes longer than its timeout. *)
Timeout(p) ==
  /\ fwd[p] = "waiting"
  /\ Step(p, "failed")
  /\ UNCHANGED <<gateVars, flight, executed, charged, merchants, stored>>

\* Bug: when the row cannot be written, the answer goes on without the key.
HandleFailsOpen(p) ==
  /\ fwd[p] = "handling"
  /\ \/ Step(p, "okId") /\ stored' = stored \cup {Row(p)}
     \/ Step(p, "ok") /\ stored' \in {stored, stored \cup {Row(p)}}
  /\ UNCHANGED <<gateVars, flight, executed, charged, merchants>>

(* responseHandler: the key is stored and replaced by the id of its row.   *)
(* If that fails the developer gets an error, and the row may be there.    *)
Handle(p) ==
  /\ fwd[p] = "handling"
  /\ \/ Step(p, "okId") /\ stored' = stored \cup {Row(p)}
     \/ Step(p, "failed") /\ stored' \in {stored, stored \cup {Row(p)}}
  /\ UNCHANGED <<gateVars, flight, executed, charged, merchants>>

Forward(p) ==
  \/ Route(p) \/ OverQuota(p) \/ Charge(p) \/ Serve(p)
  \/ Response(p) \/ Timeout(p) \/ Handle(p)

(* A restart also ends the forwarding; what was sent stays sent. *)
FwdRestart ==
  /\ Restart
  /\ fwd' = [p \in Reqs |-> IF At(p, "accepted") /\ fwd[p] \notin Answers THEN "dead" ELSE fwd[p]]
  /\ UNCHANGED <<flight, executed, charged, merchants, stored>>

FwdNext ==
  \/ \E p \in Reqs : Gate(p) /\ UNCHANGED fwdVars
  \/ \E p \in Reqs : Forward(p)
  \/ Tick /\ UNCHANGED fwdVars
  \/ \E a \in Switched : Switch(a) /\ UNCHANGED fwdVars
  \/ \E r \in Auths : Revoke(r) /\ UNCHANGED fwdVars
  \/ \E r \in Auths : VerifyOauthToken(r) /\ UNCHANGED fwdVars
  \/ \E r \in Auths, date \in Dates : CreateAuthorization(r, date) /\ UNCHANGED fwdVars
  \/ FwdRestart

FwdSpec == FwdInit /\ [][FwdNext]_vars

-----------------------------------------------------------------------------
TypeOK ==
  /\ GateTypeOK
  /\ fwd \in [Reqs -> FwdPcs] /\ flight \in [Reqs -> Flights]
  /\ executed \in [Msgs -> Nat]
  /\ charged \subseteq Reqs /\ merchants \subseteq Merchants
  /\ stored \subseteq Apps \X Merchants

(* Custody executes no call more often than the quota has counted it, and  *)
(* what a developer signed once, a payout say, at most once, whatever is   *)
(* copied, repeated, answered late or lost, except when copies meet inside *)
(* the gate or a restart comes between them.                               *)
ExecutedOnce ==
  \A m \in Msgs :
    /\ executed[m] <= Cardinality({p \in charged : req[p].msg = m})
    /\ m \notin excused => executed[m] <= 1

(* Custody gives out the access key of a merchant once, to the call that   *)
(* creates it, and the developer must never see it (forward-routes.ts:281).*)
(* An answer with an id names a row that is written.  An answer of success *)
(* without an id says nothing of a row (forward-routes.ts:285): it is only *)
(* ever about a merchant custody had from the start, or one that another   *)
(* call created, and that call has the row, is still on its way to it, was *)
(* told an error, or was ended by a restart.  So no developer whose call   *)
(* created the merchant takes a key that is lost for a success.            *)
KeyNotLostSilently ==
  \A p \in Reqs :
    /\ fwd[p] # "okKey"
    /\ fwd[p] = "okId" => Row(p) \in stored
    /\ fwd[p] = "ok" /\ IsRegistration(p) /\ Merchant(p) \notin Existing =>
         \E q \in Reqs \ {p} :
           /\ flight[q] = "servedKey" /\ Merchant(q) = Merchant(p)
           /\ fwd[q] \in {"waiting", "handling", "failed", "dead"} \/ Row(q) \in stored
=============================================================================
