---------------------------- MODULE CallbackPush ----------------------------
(***************************************************************************)
(* Event pushes to the developers' callback URLs: services/                *)
(* application-callback.service.ts (pushEvent, sendWithRetry) with its     *)
(* three callers (the custody callback route, the OAuth verification and   *)
(* the registration of an authorization).  A push lives in the process     *)
(* only: it sends, waits, sends again, and is gone when the process stops. *)
(* The network may lose a request or an answer and may deliver a request   *)
(* after its sender has given up on it.                                    *)
(*                                                                         *)
(* Time is discrete; timers fire when they are due.                        *)
(***************************************************************************)
EXTENDS Integers, FiniteSets, Sequences

CONSTANTS
  Pushes,       \* calls of pushEvent
  MaxRetries,   \* CALLBACK_CONFIG.maxRetries
  RetryDelays,  \* CALLBACK_CONFIG.retryDelays, a sequence of waits
  Timeout,      \* CALLBACK_CONFIG.timeout
  StartBy,      \* bound: no push starts after this time
  MaxCrashes    \* bound: restarts of the process

ASSUME RetryAssumption ==
  /\ MaxRetries \in Nat
  /\ RetryDelays \in Seq(Nat \ {0}) /\ Len(RetryDelays) > 0
  /\ Timeout \in Nat \ {0} /\ StartBy \in Nat /\ MaxCrashes \in Nat

VARIABLES
  push,     \* the state of each call of pushEvent
  msg,      \* where the request or the answer of each attempt is
  logged,   \* the error flags each push handed to createApiLog, in order
  clock,
  crashes   \* restarts so far

vars == <<push, msg, logged, clock, crashes>>

MaxAttempts == MaxRetries + 1
Attempts == 1..MaxAttempts

\* Who calls pushEvent.
Origins == {"custody", "verify", "register"}

\* What pushEvent finds before it sends anything.
Kinds == {"plain", "large", "nourl", "badurl"}

\* The answers of a receiver: accepted (2xx), refused (3xx and 4xx but 429),
\* too many requests (429), server error (5xx).
Statuses == {"accepted", "refused", "busy", "broken"}
NoStatus == "none"

PushRow == [state: {"idle", "sending", "waiting", "settled", "lost"},
            origin: Origins, kind: Kinds, attempt: 0..MaxAttempts,
            started: Nat, due: Nat, last: Statuses \cup {NoStatus, "network"},
            success: BOOLEAN]

MsgRow == [place: {"unsent", "request", "answer", "read"},
           status: Statuses \cup {NoStatus}]

Unsent == [place |-> "unsent", status |-> NoStatus]

Init ==
  /\ push = [p \in Pushes |-> [state |-> "idle", origin |-> "verify", kind |-> "plain",
                               attempt |-> 0, started |-> 0, due |-> 0,
                               last |-> NoStatus, success |-> FALSE]]
  /\ msg = [p \in Pushes |-> [a \in Attempts |-> Unsent]]
  /\ logged = [p \in Pushes |-> <<>>]
  /\ clock = 0
  /\ crashes = 0

-----------------------------------------------------------------------------
\* Bug: the index is one too far along the ladder.
RetryDelayShifted(a) == IF a < Len(RetryDelays) THEN RetryDelays[a + 1]
                        ELSE RetryDelays[Len(RetryDelays)]

(* The wait before the retry that follows attempt a. *)
RetryDelay(a) == IF a <= Len(RetryDelays) THEN RetryDelays[a]
                 ELSE RetryDelays[Len(RetryDelays)]

Retryable(status) == status \in {"busy", "broken", "network"}

(* The top of the loop: one POST. *)
Send(p, row, a) ==
  /\ push' = [push EXCEPT ![p] = [row EXCEPT !.state = "sending", !.attempt = a,
                                             !.due = clock + Timeout]]
  /\ msg' = [msg EXCEPT ![p][a] = [place |-> "request", status |-> NoStatus]]

(* A caller starts a push.  The custody route answers without a push when  *)
(* the application has no URL; a large payload, a missing or an unsafe URL *)
(* end pushEvent before it sends or logs.                                  *)
Start(p, origin, kind) ==
  LET row == [push[p] EXCEPT !.origin = origin, !.kind = kind, !.started = clock]
  IN
  /\ push[p].state = "idle"
  /\ clock <= StartBy
  /\ ~ (origin = "custody" /\ kind = "nourl")
  /\ \/ /\ kind = "plain"
        /\ Send(p, row, 1)
     \/ /\ kind # "plain"
        /\ push' = [push EXCEPT ![p] = [row EXCEPT !.state = "settled",
                                                   !.success = (kind = "nourl")]]
        /\ UNCHANGED msg
  /\ UNCHANGED <<logged, clock, crashes>>

(* onSettled and the finally of pushEvent: one log entry for the push. *)
Settle(p, status) ==
  /\ push' = [push EXCEPT ![p].state = "settled", ![p].last = status,
                          ![p].success = (status = "accepted")]
  /\ logged' = [logged EXCEPT ![p] = Append(@, status # "accepted")]

\* Bug: one attempt too many.
ConcludeOffByOne(p, status) ==
  \/ /\ Retryable(status) /\ push[p].attempt <= MaxAttempts
     /\ push' = [push EXCEPT ![p].state = "waiting", ![p].last = status,
                             ![p].due = clock + RetryDelay(push[p].attempt)]
     /\ UNCHANGED logged
  \/ /\ ~ (Retryable(status) /\ push[p].attempt <= MaxAttempts)
     /\ Settle(p, status)

\* Bug: the loop goes on after a success as long as attempts are left.
ConcludeNoReturn(p, status) ==
  \/ /\ push[p].attempt < MaxAttempts
     /\ push' = [push EXCEPT ![p].state = "waiting", ![p].last = status,
                             ![p].due = clock + RetryDelay(push[p].attempt)]
     /\ UNCHANGED logged
  \/ /\ push[p].attempt >= MaxAttempts
     /\ Settle(p, status)

\* Bug: a failed attempt that will be repeated is logged already.
ConcludeLogsAttempt(p, status) ==
  \/ /\ Retryable(status) /\ push[p].attempt < MaxAttempts
     /\ push' = [push EXCEPT ![p].state = "waiting", ![p].last = status,
                             ![p].due = clock + RetryDelay(push[p].attempt)]
     /\ logged' = [logged EXCEPT ![p] = Append(@, TRUE)]
  \/ /\ ~ (Retryable(status) /\ push[p].attempt < MaxAttempts)
     /\ Settle(p, status)

(* An attempt has ended with status, "network" when it has no answer. *)
Conclude(p, status) ==
  \/ /\ Retryable(status) /\ push[p].attempt < MaxAttempts
     /\ push' = [push EXCEPT ![p].state = "waiting", ![p].last = status,
                             ![p].due = clock + RetryDelay(push[p].attempt)]
     /\ UNCHANGED logged
  \/ /\ ~ (Retryable(status) /\ push[p].attempt < MaxAttempts)
     /\ Settle(p, status)

(* The answer of the attempt the push is waiting for arrives. *)
Receive(p) ==
  LET a == push[p].attempt IN
  /\ push[p].state = "sending"
  /\ msg[p][a].place = "answer"
  /\ msg' = [msg EXCEPT ![p][a].place = "read"]
  /\ Conclude(p, msg[p][a].status)
  /\ UNCHANGED <<clock, crashes>>

\* Bug: without a timeout, only an attempt the receiver has handled can end.
NetworkErrorNoTimeout(p) ==
  /\ push[p].state = "sending"
  /\ msg[p][push[p].attempt].place = "answer"
  /\ Conclude(p, "network")
  /\ UNCHANGED <<msg, clock, crashes>>

(* The attempt ends without an answer: the connection breaks, or the       *)
(* request times out.  What is under way for it can no longer be read.     *)
NetworkError(p) ==
  /\ push[p].state = "sending"
  /\ Conclude(p, "network")
  /\ UNCHANGED <<msg, clock, crashes>>

(* The wait is over: the next attempt. *)
RetryTimer(p) ==
  /\ push[p].state = "waiting"
  /\ clock = push[p].due
  /\ Send(p, push[p], push[p].attempt + 1)
  /\ UNCHANGED <<logged, clock, crashes>>

-----------------------------------------------------------------------------
(* The receiver handles a request, which may have been given up already.   *)
(* A message that is lost is one that no Handle or Receive ever takes.     *)
Handle(p, a, status) ==
  /\ msg[p][a].place = "request"
  /\ msg' = [msg EXCEPT ![p][a].place = "answer", ![p][a].status = status]
  /\ UNCHANGED <<push, logged, clock, crashes>>

(* The process restarts: nothing of a push in progress is kept. *)
Crash ==
  /\ crashes < MaxCrashes
  /\ crashes' = crashes + 1
  /\ push' = [p \in Pushes |-> IF push[p].state \in {"sending", "waiting"}
                               THEN [push[p] EXCEPT !.state = "lost"] ELSE push[p]]
  /\ UNCHANGED <<msg, logged, clock>>

(* Time passes until a timer is due, and while something still can start. *)
Tick ==
  /\ \A p \in Pushes : push[p].state \in {"sending", "waiting"} => clock < push[p].due
  /\ \/ \E p \in Pushes : push[p].state \in {"sending", "waiting"}
     \/ clock < StartBy
  /\ clock' = clock + 1
  /\ UNCHANGED <<push, msg, logged, crashes>>

Next ==
  \/ \E p \in Pushes, o \in Origins, k \in Kinds : Start(p, o, k)
  \/ \E p \in Pushes : Receive(p) \/ NetworkError(p) \/ RetryTimer(p)
  \/ \E p \in Pushes, a \in Attempts, s \in Statuses : Handle(p, a, s)
  \/ Crash
  \/ Tick

Spec == Init /\ [][Next]_vars

\* The clock goes on, and the process runs the timers that are due.
FairSpec == Spec /\ WF_vars(Tick)
                 /\ \A p \in Pushes : WF_vars(NetworkError(p)) /\ WF_vars(RetryTimer(p))

-----------------------------------------------------------------------------
(* Every push, message and log entry has its type. *)
TypeOK ==
  /\ push \in [Pushes -> PushRow]
  /\ msg \in [Pushes -> [Attempts -> MsgRow]]
  /\ logged \in [Pushes -> Seq(BOOLEAN)]
  /\ clock \in Nat
  /\ crashes \in Nat

\* A request the receiver has accepted.
AcceptedBy(p, a) == msg[p][a].status = "accepted"

(* A receiver sees an event again only because its acceptance was never    *)
(* read: once the platform has read a 2xx answer it sends nothing more.    *)
(* A push reports success exactly when it has read such an answer.         *)
RepeatsOnlyUnread ==
  \A p \in Pushes, a \in Attempts :
    AcceptedBy(p, a) /\ msg[p][a].place = "read"
      => /\ \A b \in Attempts : b > a => msg[p][b].place = "unsent"
         /\ push[p].state = "settled" /\ push[p].success

\* The documented waits of the first n retries together; the last wait of the
\* ladder repeats.
Waits[n \in 0..MaxRetries] ==
  IF n = 0 THEN 0
  ELSE Waits[n - 1] + RetryDelays[IF n <= Len(RetryDelays) THEN n ELSE Len(RetryDelays)]

\* The longest a push may take by its documentation.
Window == MaxAttempts * Timeout + Waits[MaxRetries]

(* A push is over within the waits of the ladder and one timeout for each  *)
(* attempt (callback-webhook-spec.md:522).                                 *)
WithinWindow ==
  \A p \in Pushes : push[p].state \in {"sending", "waiting"}
                      => clock - push[p].started <= Window

(* A push that settles has one entry in the API log, an error entry unless *)
(* it was accepted; one that has not settled, or sent nothing, has none.   *)
LogMatchesResult ==
  \A p \in Pushes :
    logged[p] = IF push[p].state = "settled" /\ push[p].kind = "plain"
                THEN << ~push[p].success >> ELSE <<>>

(* Every push that starts settles, unless the process stops under it: the  *)
(* custody service, which waits for it, gets its answer.                   *)
EveryPushEnds ==
  \A p \in Pushes : push[p].state \in {"sending", "waiting"}
                      ~> push[p].state \in {"settled", "lost"}
=============================================================================
