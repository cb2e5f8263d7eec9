----------------------------- MODULE RateLimit -----------------------------
(***************************************************************************)
(* The limiters in front of the API: the default limiter of all routes     *)
(* (middleware/rate-limit.middleware.ts, services/rate-limit.service.ts)   *)
(* and the strict one of the sensitive administrator routes                *)
(* (middleware/admin-rate-limit.middleware.ts).  Both count in the memory  *)
(* of the process.  The promises awaited in checkAllWindows are already    *)
(* resolved, so a request is counted in all windows before Node takes the  *)
(* next one: its way through the limiters is one step.                     *)
(***************************************************************************)
EXTENDS Integers

CONSTANTS
  Clients,  \* the keys of the counters: application and address
  Length,   \* of each window
  Limit,    \* requests in each window
  MaxTime   \* bound: the clock

Windows == {"minute", "hour", "day", "strict"}

ASSUME LimitAssumption ==
  /\ Length \in [Windows -> Nat] /\ Limit \in [Windows -> Nat \ {0}]
  /\ MaxTime \in Nat

VARIABLES
  now,
  win,     \* the counters of each client
  passed,  \* how many requests each limiter let through before each time (history)
  today    \* requests let through in the client's running day (history)

limits == <<win, passed, today>>

Limiters == {"default", "strict"}
Counter == [n : Nat, until : Nat \cup {-1}]
NoCounter == [n |-> 0, until |-> -1]
\* The times, and the end of the last one.
Instants == 0..(MaxTime + 1)
NonePassed == [l \in Limiters |-> [t \in Instants |-> 0]]

InitLimits ==
  /\ now = 0
  /\ win = [c \in Clients |-> [w \in Windows |-> NoCounter]]
  /\ passed = [c \in Clients |-> NonePassed]
  /\ today = [c \in Clients |-> 0]

-----------------------------------------------------------------------------
Running(e) == now <= e.until

(* MemoryRateLimitStorage.increment: a window starts with its first hit. *)
Increment(e, w) ==
  IF Running(e) THEN [e EXCEPT !.n = @ + 1] ELSE [n |-> 1, until |-> now + Length[w]]

Hit(c, w) == Increment(win[c][w], w)
Within(e, w) == e.n <= Limit[w]

\* Bug: what remains of the day is read.
DayReportedRead(c) == Hit(c, "day")

(* The day's counter of an admitted request: counted once to decide and    *)
(* once to report what remains.                                            *)
DayReported(c) == Increment(Hit(c, "day"), "day")

(* checkAllWindows: the first window that refuses the request. *)
CheckAllWindows(c) ==
  CASE ~Within(Hit(c, "minute"), "minute") -> "minute"
    [] Within(Hit(c, "minute"), "minute") /\ ~Within(Hit(c, "hour"), "hour") -> "hour"
    [] OTHER -> IF Within(Hit(c, "day"), "day") THEN "none" ELSE "day"

\* The counters afterwards: a window behind the one that refuses is not hit.
Counted(c) ==
  LET by == CheckAllWindows(c) IN
  [w \in Windows |->
     CASE w = "minute" -> Hit(c, w)
       [] w = "hour" /\ by # "minute" -> Hit(c, w)
       [] w = "day" /\ by = "day" -> Hit(c, w)
       [] w = "day" /\ by = "none" -> DayReported(c)
       [] OTHER -> win[c][w]]

\* Bug: the request is compared as if it were counted already.
IsLimitedOver(c) == Running(win[c]["strict"]) /\ win[c]["strict"].n > Limit["strict"]

\* isLimited: asked before the request is counted.
IsLimited(c) == Running(win[c]["strict"]) /\ win[c]["strict"].n >= Limit["strict"]

\* One request more that was let through now.
OneMore(f) == [t \in Instants |-> IF t > now THEN f[t] + 1 ELSE f[t]]

\* The requests let through since the day's window started.
DayStarts(c) == ~Running(win[c]["day"])

PassDefault(c) ==
  /\ CheckAllWindows(c) = "none"
  /\ today' = [today EXCEPT ![c] = IF DayStarts(c) THEN 1 ELSE @ + 1]

(* A request is let through by the default limiter. *)
Admit(c) ==
  /\ PassDefault(c)
  /\ win' = [win EXCEPT ![c] = Counted(c)]
  /\ passed' = [passed EXCEPT ![c]["default"] = OneMore(@)]
  /\ UNCHANGED now

(* A request is refused by the default limiter. *)
Refuse(c) ==
  /\ CheckAllWindows(c) # "none"
  /\ win' = [win EXCEPT ![c] = Counted(c)]
  /\ today' = [today EXCEPT ![c] = IF CheckAllWindows(c) = "day" /\ DayStarts(c) THEN 0 ELSE @]
  /\ UNCHANGED <<now, passed>>

(* A login, refresh or change of password of an administrator: both        *)
(* limiters; one that the strict limiter refuses has been counted by the   *)
(* default one.                                                            *)
Sensitive(c) ==
  /\ PassDefault(c)
  /\ \/ /\ IsLimited(c)
        /\ win' = [win EXCEPT ![c] = Counted(c)]
        /\ passed' = [passed EXCEPT ![c]["default"] = OneMore(@)]
     \/ /\ ~IsLimited(c)
        /\ win' = [win EXCEPT ![c] = [Counted(c) EXCEPT !["strict"] = Hit(c, "strict")]]
        /\ passed' = [passed EXCEPT ![c] = [l \in Limiters |-> OneMore(passed[c][l])]]
  /\ UNCHANGED now

Tick ==
  /\ now < MaxTime
  /\ now' = now + 1
  /\ UNCHANGED limits

(* The process restarts; what was let through before belongs to another life. *)
Forget ==
  /\ win' = [c \in Clients |-> [w \in Windows |-> NoCounter]]
  /\ passed' = [c \in Clients |-> NonePassed]
  /\ today' = [c \in Clients |-> 0]
  /\ UNCHANGED now

-----------------------------------------------------------------------------
LimitsTypeOK ==
  /\ now \in 0..MaxTime
  /\ win \in [Clients -> [Windows -> Counter]]
  /\ passed \in [Clients -> [Limiters -> [Instants -> Nat]]]
  /\ today \in [Clients -> Nat]

\* The windows that each limiter asks.
Asked == [default |-> {"minute", "hour", "day"}, strict |-> {"strict"}]

PassedIn(c, l, from, to) == passed[c][l][to + 1] - passed[c][l][from]

(* Over any stretch of time as long as a window, wherever it starts, a     *)
(* limiter lets through less than twice the limit of that window: windows  *)
(* that start with their first request (rate-limit.service.ts:77) allow    *)
(* more than the limit around their end, but never that much.              *)
LessThanTwice ==
  \A c \in Clients, l \in Limiters, from \in 0..now :
    \A w \in Asked[l] :
      LET to == IF from + Length[w] < now THEN from + Length[w] ELSE now IN
      PassedIn(c, l, from, to) < 2 * Limit[w]

(* A day gives a client half of its daily limit, rounded up, and neither   *)
(* more nor less: an accepted request counts twice                         *)
(* (rate-limit.service.ts:208), and no refused one takes from the day      *)
(* while it still has a request left.                                      *)
DayGivesHalf ==
  \A c \in Clients :
    LET half == (Limit["day"] + 1) \div 2 IN
    /\ today[c] <= half
    /\ Running(win[c]["day"]) /\ win[c]["day"].n >= Limit["day"] => today[c] = half
=============================================================================
