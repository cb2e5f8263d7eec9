---------------------------- MODULE LogRetention ---------------------------
(***************************************************************************)
(* The API log of a developer and its clean-up (services/api-log.service.ts*)
(* repositories/implementations/api-log.repository.ts): once a day, and    *)
(* sometimes twice, the calls of each day are counted into a snapshot, old *)
(* rows lose their payload and older ones are deleted.  Developers share   *)
(* nothing but the tables.  An instant is a part of a day; a statement is  *)
(* a step, and calls are logged at any time between two of them.           *)
(***************************************************************************)
EXTENDS Integers, FiniteSetsExt

CONSTANTS
  DayLength,             \* instants of a day
  CleanupHours,          \* the instants of a day at which the timer may fire
  SlimDays, DeleteDays,  \* the two ages
  MaxTime, MaxCalls,     \* bounds: the clock, calls at one instant
  MayFail                \* TRUE when a statement may fail

VARIABLES
  now,
  logs,     \* api_logs: how many rows were created at an instant and are still there
  slimmed,  \* the instants whose rows have no payload any more
  snapshot, \* api_log_snapshots: the calls of a day, or None
  job,      \* the clean-up
  fired,    \* whether the timer has fired today
  logged    \* rows ever created at an instant (history)

vars == <<now, logs, slimmed, snapshot, job, fired, logged>>

None == -1
Instants == 0..MaxTime
DayOf(t) == t \div DayLength
Days == {DayOf(t) : t \in Instants}
Idle == [pc |-> "idle", counts |-> [d \in {} |-> 0]]

\* How many rows of a day and of some instants a table of rows has.
CountOf(table, d, among) ==
  MapThenSumSet(LAMBDA t : table[t], {t \in among : DayOf(t) = d})

Init ==
  /\ now = 0
  /\ logs = [t \in Instants |-> 0]
  /\ slimmed = {}
  /\ snapshot = [d \in Days |-> None]
  /\ job = Idle /\ fired = FALSE
  /\ logged = [t \in Instants |-> 0]

-----------------------------------------------------------------------------
(* createApiLog: a row of the running day; one that fails leaves no trace. *)
CreateApiLog ==
  /\ logged[now] < MaxCalls
  /\ logs' = [logs EXCEPT ![now] = @ + 1]
  /\ logged' = [logged EXCEPT ![now] = @ + 1]
  /\ UNCHANGED <<now, slimmed, snapshot, job, fired>>

(* The timer of startCleanupScheduler fires.  The time of its next run is  *)
(* drawn anew and may still be today.  The SELECT of buildDailySnapshot    *)
(* counts, for each day, the rows from the time of day at which the        *)
(* deletion begins up to now.                                              *)
StartCleanup ==
  LET range == {t \in Instants : t >= now - DeleteDays * DayLength /\ t < now}
      found == {d \in Days : CountOf(logs, d, range) > 0}
  IN
  /\ job.pc = "idle" /\ now % DayLength \in CleanupHours
  /\ job' = [pc |-> "upsert", counts |-> [d \in found |-> CountOf(logs, d, range)]]
  /\ fired' = TRUE
  /\ UNCHANGED <<now, logs, slimmed, snapshot, logged>>

(* One row of the result: INSERT ... ON DUPLICATE KEY UPDATE.  An error is *)
(* caught and the next row taken.                                          *)
Upsert(d, ok) ==
  /\ job.pc = "upsert" /\ d \in DOMAIN job.counts /\ (ok \/ MayFail)
  /\ snapshot' = IF ok THEN [snapshot EXCEPT ![d] = job.counts[d]] ELSE snapshot
  /\ job' = [job EXCEPT !.counts = [e \in DOMAIN job.counts \ {d} |-> job.counts[e]]]
  /\ UNCHANGED <<now, logs, slimmed, fired, logged>>

(* slimOlderThan. *)
Slim ==
  /\ job.pc = "upsert" /\ DOMAIN job.counts = {}
  /\ slimmed' = slimmed \cup {t \in Instants : t < now - SlimDays * DayLength}
  /\ job' = [job EXCEPT !.pc = "delete"]
  /\ UNCHANGED <<now, logs, snapshot, fired, logged>>

(* cleanup. *)
Delete ==
  /\ job.pc = "delete"
  /\ logs' = [t \in Instants |-> IF t < now - DeleteDays * DayLength THEN 0 ELSE logs[t]]
  /\ job' = Idle
  /\ UNCHANGED <<now, slimmed, snapshot, fired, logged>>

(* A statement fails, or the process restarts: the clean-up is over, and   *)
(* nothing makes up for it before the timer fires again.                   *)
Fail ==
  /\ MayFail /\ job.pc # "idle"
  /\ job' = Idle
  /\ UNCHANGED <<now, logs, slimmed, snapshot, fired, logged>>

(* A clean-up takes less than an instant.  The timer fires every day.      *)
Tick ==
  /\ now < MaxTime /\ job.pc = "idle"
  /\ DayOf(now + 1) # DayOf(now) => fired
  /\ now' = now + 1
  /\ fired' = (fired /\ DayOf(now') = DayOf(now))
  /\ UNCHANGED <<logs, slimmed, snapshot, job, logged>>

Next ==
  \/ CreateApiLog
  \/ StartCleanup
  \/ \E d \in Days, ok \in BOOLEAN : Upsert(d, ok)
  \/ Slim
  \/ Delete
  \/ Fail
  \/ Tick

Spec == Init /\ [][Next]_vars

-----------------------------------------------------------------------------
(* "Built before logs are slimmed/deleted so that long-period trends       *)
(* remain queryable" (repository.interfaces.ts:171), "Rows already         *)
(* snapshotted are idempotent" (api-log.service.ts:97): when clean-up has  *)
(* deleted calls of a day whose snapshot was taken, that snapshot counts   *)
(* all calls of the day.                                                   *)
SnapshotsOutliveTheLog ==
  \A d \in Days :
    snapshot[d] # None /\ CountOf(logs, d, Instants) < CountOf(logged, d, Instants)
      => snapshot[d] = CountOf(logged, d, Instants)
=============================================================================
