----------------------------- MODULE HttpClient -----------------------------
(***************************************************************************)
(* The axios wrapper for calls to the backend services: services/          *)
(* http-client.service.ts.  The response interceptor answers a retryable   *)
(* error with retryRequest, whose own requests go through the same         *)
(* interceptor: every failing retry opens a further retryRequest inside    *)
(* the one that sent it.  A call is a stack of such loops.                 *)
(***************************************************************************)
EXTENDS Integers, Sequences

CONSTANTS
  Calls,        \* requests
  Config,       \* the client of each call: maxRetries as its creator passes it
                \* (or Undefined), byFactory when createHttpClient built it
  Undefined,    \* the value of a missing option
  MaxFailures   \* bound: failures the backend and the network produce

ASSUME ClientAssumption ==
  /\ Config \in [Calls -> [maxRetries: Nat \cup {Undefined}, byFactory: BOOLEAN]]
  /\ Undefined \notin Nat
  /\ MaxFailures \in Nat

VARIABLES
  call,     \* where each call is
  frames,   \* attempt counters of its open retryRequest loops, innermost last
  served,   \* how often the backend has executed the call
  failures

vars == <<call, frames, served, failures>>

\* Failures of one request: the interceptor retries the first three.
Errors == {"timeout", "server", "busy", "client", "network"}
IsRetryable(e) == e \in {"timeout", "server", "busy"}

\* In these the backend may have executed the request.
MayBeServed(e) == e \in {"timeout", "server", "network"}

\* Bug or fix: the default is applied after the spread.
EffectiveRetriesDefaulted(c) ==
  IF Config[c].maxRetries = Undefined THEN 3 ELSE Config[c].maxRetries

(* The option after the constructor: a missing key gets the default 3, but *)
(* the spread of config overwrites it again, and createHttpClient always   *)
(* passes the key.                                                         *)
EffectiveRetries(c) ==
  IF Config[c].maxRetries = Undefined /\ ~Config[c].byFactory THEN 3 ELSE Config[c].maxRetries

\* undefined > 0 is false.
MayRetry(c) == EffectiveRetries(c) # Undefined /\ EffectiveRetries(c) > 0

TypeOK ==
  /\ call \in [Calls -> [state: {"idle", "sending", "waiting", "throwing", "ok", "failed"},
                         error: Errors \cup {"none"}]]
  /\ frames \in [Calls -> Seq(Nat \ {0})]
  /\ served \in [Calls -> Nat]
  /\ failures \in 0..MaxFailures

Init ==
  /\ call = [c \in Calls |-> [state |-> "idle", error |-> "none"]]
  /\ frames = [c \in Calls |-> <<>>]
  /\ served = [c \in Calls |-> 0]
  /\ failures = 0

SetState(c, s) == call' = [call EXCEPT ![c].state = s]

Request(c) ==
  /\ call[c].state = "idle"
  /\ SetState(c, "sending")
  /\ UNCHANGED <<frames, served, failures>>

(* The backend executes the request and its answer arrives: every open     *)
(* loop returns it.                                                        *)
Succeed(c) ==
  /\ call[c].state = "sending"
  /\ served' = [served EXCEPT ![c] = @ + 1]
  /\ SetState(c, "ok")
  /\ frames' = [frames EXCEPT ![c] = <<>>]
  /\ UNCHANGED failures

(* One round of retryRequest: the counter of the loop, then the wait.      *)
StartAttempt(c, others, attempt) == frames' = [frames EXCEPT ![c] = Append(others, attempt)]

(* A request fails.  A retryable error opens a loop in the interceptor,    *)
(* any other is thrown to the loop that sent the request.                  *)
Fail(c, e, s) ==
  LET retry == IsRetryable(e) /\ MayRetry(c) IN
  /\ call[c].state = "sending"
  /\ failures < MaxFailures
  /\ failures' = failures + 1
  /\ s \in (IF MayBeServed(e) THEN {0, 1} ELSE {0})
  /\ served' = [served EXCEPT ![c] = @ + s]
  /\ call' = [call EXCEPT ![c].error = e, ![c].state = IF retry THEN "waiting" ELSE "throwing"]
  /\ IF retry THEN StartAttempt(c, frames[c], 1) ELSE UNCHANGED frames

\* Bug: the delay is a promise nobody resolves for the second loop.
ResendOnce(c) ==
  /\ call[c].state = "waiting" /\ Len(frames[c]) = 1
  /\ SetState(c, "sending")
  /\ UNCHANGED <<frames, served, failures>>

(* The wait is over: the innermost loop sends the request again. *)
Resend(c) ==
  /\ call[c].state = "waiting"
  /\ SetState(c, "sending")
  /\ UNCHANGED <<frames, served, failures>>

(* The innermost loop catches the error: it throws it further after its    *)
(* last attempt or when it is not retryable, else it waits once more.      *)
(* With no loop left the caller gets it.                                   *)
Catch(c) ==
  LET n == Len(frames[c])
      outer == SubSeq(frames[c], 1, n - 1)
      giveUp == frames[c][n] >= EffectiveRetries(c) \/ ~IsRetryable(call[c].error)
  IN
  /\ call[c].state = "throwing"
  /\ CASE n = 0 -> SetState(c, "failed") /\ UNCHANGED frames
       [] n > 0 /\ giveUp -> frames' = [frames EXCEPT ![c] = outer] /\ UNCHANGED call
       [] OTHER -> StartAttempt(c, outer, frames[c][n] + 1) /\ SetState(c, "waiting")
  /\ UNCHANGED <<served, failures>>

Next == \E c \in Calls :
          \/ Request(c) \/ Succeed(c) \/ Resend(c) \/ Catch(c)
          \/ \E e \in Errors, s \in {0, 1} : Fail(c, e, s)

Spec == Init /\ [][Next]_vars

\* The backend or the timeout ends every request, timers fire, loops run.
FairSpec == Spec /\ \A c \in Calls : WF_vars(Succeed(c)) /\ WF_vars(Resend(c)) /\ WF_vars(Catch(c))

-----------------------------------------------------------------------------
(* Once the backend stops failing, every call ends. *)
CallsEnd == \A c \in Calls : call[c].state = "sending" ~> call[c].state \in {"ok", "failed"}

(* A call made by the gateway, whose client comes from createHttpClient    *)
(* without maxRetries, is executed by the backend at most once: a payout   *)
(* that times out is not sent a second time behind the developer's back.   *)
AtMostOnce ==
  \A c \in Calls : Config[c].byFactory /\ Config[c].maxRetries = Undefined => served[c] <= 1
=============================================================================
