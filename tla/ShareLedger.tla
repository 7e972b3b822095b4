---------------------------- MODULE ShareLedger ----------------------------
(***************************************************************************)
(* The share ledger of src/stats.rs: shares staged per minute in memory,   *)
(* flushed to the minute table by the stats writer, and rolled up into the *)
(* hourly table once they are old.                                         *)
(*                                                                         *)
(*   shares      each is one call of record_ledger by its session          *)
(*   ticker      the 10 s task closing a minute nobody adds to any more    *)
(*   shutdown    shutdown_persist, on a signal                             *)
(*   writer      StatsWriter; write_ledger_minute and roll_up_ledger are   *)
(*               two transactions                                          *)
(*                                                                         *)
(* A sum is represented by the set of shares it sums, so that a row tells  *)
(* which shares it counts: `work`, `accepted` and `rejected` are summed by *)
(* the same statements.  The ledger only ever looks at whole minutes, so   *)
(* the minute is the unit of time.  Whether a name is in worker_states is  *)
(* the environment's choice.                                               *)
(***************************************************************************)
EXTENDS StatsWriter, Integers, FiniteSets

CONSTANTS
    Shares,         \* calls of record_ledger over the whole run
    Workers,        \* worker names
    WorkerOf,       \* the worker each share is credited to
    MaxWorkers,     \* MAX_LEDGER_WORKERS (10 000 in the code)
    HourLen,        \* minutes per row of the hourly table (60 in the code)
    FineRetention,  \* LEDGER_FINE_RETENTION_SECS, in minutes (8 days)
    MaxFailures,    \* bound: transactions the disk fails
    MaxRestarts,    \* bound: process ends
    MaxSteps,       \* bound: backward clock steps
    MaxTime         \* bound: minutes of wall clock

ASSUME ShareLedgerAssumption ==
    /\ IsFiniteSet(Workers)
    /\ WorkerOf \in [Shares -> Workers]
    /\ {"ticker", "shutdown"} \cap Shares = {}
    /\ HourLen \in Nat \ {0}
    /\ {MaxWorkers, FineRetention, MaxFailures, MaxRestarts, MaxSteps, MaxTime} \subseteq Nat

VARIABLES
    openMinute,  \* LedgerAccum.minute_ts
    staged,      \* LedgerAccum.pending, as the shares it sums
    task,        \* the callers: program counter, clock reading, closed minute
    workerId,    \* tables users and workers: id by name, 0 if there is no row
    workerIds,   \* WriterState.worker_ids, the writer's cache of workerId
    intervals,   \* table share_intervals
    hourly,      \* table share_intervals_hourly
    now, failures, restarts, steps,
    \* history
    recorded,    \* shares that have entered the ledger
    forfeited,   \* of these, the ones lost to a crash, the worker cap or an overflow
    covered      \* the ones the shutdown in progress has answered for

accumVars == <<openMinute, staged>>
tableVars == <<workerId, workerIds, intervals, hourly>>
envVars == <<now, failures, restarts, steps>>
historyVars == <<recorded, forfeited, covered>>
vars == <<writerVars, accumVars, task, tableVars, envVars, historyVars>>

-----------------------------------------------------------------------------
Tasks == Shares \cup {"ticker", "shutdown"}

(* StoreWrite, the variants of the ledger.  A Flush carries no entries. *)
Ledger(minute, entries) == [kind |-> "Ledger", minute_ts |-> minute, entries |-> entries]
Flush == [kind |-> "Flush", minute_ts |-> 0, entries |-> {}]

MutLedgerNotDurable(write) == FALSE
IsDurable(write) == write.kind = "Ledger"

NoMinute == Ledger(0, {})
Idle == [pc |-> "idle", ts |-> 0, closed |-> NoMinute]

Larger(m, n) == IF m >= n THEN m ELSE n
Hour(m) == (m \div HourLen) * HourLen

Init ==
    /\ WriterInit
    /\ openMinute = 0 /\ staged = {}
    /\ task = [t \in Tasks |-> Idle]
    /\ workerId = [w \in Workers |-> 0]
    /\ workerIds = [w \in Workers |-> 0]
    /\ intervals = {} /\ hourly = {}
    /\ now = 0 /\ failures = 0 /\ restarts = 0 /\ steps = 0
    /\ recorded = {} /\ forfeited = {} /\ covered = {}

-----------------------------------------------------------------------------
(* now_secs, read before the accumulator's lock is taken. *)
ReadClock(t) ==
    /\ task[t].pc = "idle"
    /\ t = "shutdown" => restarts < MaxRestarts
    /\ task' = [task EXCEPT ![t].pc = "roll", ![t].ts = now]
    /\ UNCHANGED <<writerVars, accumVars, tableVars, envVars, historyVars>>

(* take_open: what is staged, if anything is. *)
Taken == IF staged = {} THEN NoMinute ELSE Ledger(openMinute, staged)

(* roll_to: the minute that ends is taken whole.  The stamp moves even if  *)
(* it was empty, and never backwards.                                      *)
Closes(minute) == minute > openMinute
ClosedMinute(minute) == IF Closes(minute) THEN Taken ELSE NoMinute

MutIdleStamp(minute) ==
    IF Closes(minute) /\ staged # {} THEN minute ELSE openMinute

NewStamp(minute) == IF Closes(minute) THEN minute ELSE openMinute

(* What the caller does once the minute is on its way. *)
After(t) == CASE t = "ticker" -> "idle"
              [] t = "shutdown" -> "take_open"
              [] OTHER -> "done"

(* The caller out of the lock, with the minute it closed if any.  The      *)
(* clock reading of a share is kept as history.                            *)
Rolled(t, closed) ==
    [pc |-> IF closed.entries = {} THEN After(t) ELSE "persist",
     ts |-> IF t \in Shares THEN task[t].ts ELSE 0, closed |-> closed]

(* record_ledger, for a name worker_states knows ... *)
RecordLedger(s) ==
    /\ task[s].pc = "roll"
    /\ openMinute' = NewStamp(task[s].ts)
    /\ staged' = (staged \ ClosedMinute(task[s].ts).entries) \cup {s}
    /\ task' = [task EXCEPT ![s] = Rolled(s, ClosedMinute(task[s].ts))]
    /\ recorded' = recorded \cup {s}
    /\ UNCHANGED <<writerVars, tableVars, envVars, forfeited, covered>>

(* ... and for one it does not know. *)
RefuseUnknown(s) ==
    /\ task[s].pc = "roll"
    /\ task' = [task EXCEPT ![s].pc = "done"]
    /\ UNCHANGED <<writerVars, accumVars, tableVars, envVars, historyVars>>

(* flush_ledger_at, from the ticker or the shutdown's last snapshot. *)
FlushLedgerAt(t) ==
    /\ task[t].pc = "roll"
    /\ openMinute' = NewStamp(task[t].ts)
    /\ staged' = staged \ ClosedMinute(task[t].ts).entries
    /\ task' = [task EXCEPT ![t] = Rolled(t, ClosedMinute(task[t].ts))]
    /\ UNCHANGED <<writerVars, tableVars, envVars, historyVars>>

(* persist_ledger_minute, outside the lock. *)
PersistLedgerMinute(t, pc, after) ==
    /\ task[t].pc = pc
    /\ task' = [task EXCEPT ![t].pc = after, ![t].closed = NoMinute]
    /\ Enqueue(task[t].closed)
    /\ UNCHANGED <<accumVars, tableVars, envVars, historyVars>>

Persist(t) == PersistLedgerMinute(t, "persist", After(t))

-----------------------------------------------------------------------------
(* shutdown_persist, after its snapshot: flush_ledger_partial and flush. *)
HeldBySessions == UNION {task[t].closed.entries : t \in Tasks \ {"shutdown"}}

MutTakenAndDropped ==
    /\ task["shutdown"].pc = "take_open"
    /\ staged' = {}
    /\ task' = [task EXCEPT !["shutdown"].pc = "send_flush"]
    /\ covered' = recorded \ HeldBySessions
    /\ UNCHANGED <<writerVars, openMinute, tableVars, envVars, recorded, forfeited>>

TakeOpen ==
    /\ task["shutdown"].pc = "take_open"
    /\ staged' = {}
    /\ task' = [task EXCEPT !["shutdown"].pc = IF staged = {} THEN "send_flush"
                                               ELSE "persist_open",
                            !["shutdown"].closed = Taken]
    /\ covered' = recorded \ HeldBySessions
    /\ UNCHANGED <<writerVars, openMinute, tableVars, envVars, recorded, forfeited>>

PersistOpen == PersistLedgerMinute("shutdown", "persist_open", "send_flush")

SendFlush ==
    /\ task["shutdown"].pc = "send_flush"
    /\ task' = [task EXCEPT !["shutdown"].pc = "wait"]
    /\ Enqueue(Flush)
    /\ UNCHANGED <<accumVars, tableVars, envVars, historyVars>>

-----------------------------------------------------------------------------
(* Writer: write_ledger_minute, resolving every name to the id of its row. *)
Names(entries) == {WorkerOf[s] : s \in entries}
Rows == Cardinality({w \in Workers : workerId[w] # 0})

(* resolve_worker_id for names neither cached nor in the table, in the     *)
(* hash map's order: the next ids, while the cap has room.                 *)
Unseen(entries) == {w \in Names(entries) : workerIds[w] = 0 /\ workerId[w] = 0}

MutCapOffByOne(entries) ==
    {new \in SUBSET Unseen(entries) :
        \/ new = Unseen(entries) /\ Rows + Cardinality(new) <= MaxWorkers + 1
        \/ Cardinality(new) < Cardinality(Unseen(entries))
           /\ Rows + Cardinality(new) = Larger(Rows, MaxWorkers + 1)}

Admitted(entries) ==
    {new \in SUBSET Unseen(entries) :
        \/ new = Unseen(entries) /\ Rows + Cardinality(new) <= MaxWorkers
        \/ Cardinality(new) < Cardinality(Unseen(entries))
           /\ Rows + Cardinality(new) = Larger(Rows, MaxWorkers)}

InsertWorkers(new) ==
    \E ids \in Bijection(new, (Rows + 1)..(Rows + Cardinality(new))) :
        workerId' = [w \in Workers |-> IF w \in new THEN ids[w] ELSE workerId[w]]

(* The id a name is filed under: the cached one, if there is one. *)
Resolved(w) == IF workerIds[w] # 0 THEN workerIds[w] ELSE workerId'[w]

NewRows(write) ==
    {[worker_id |-> Resolved(WorkerOf[s]), ts |-> write.minute_ts, share |-> s] :
        s \in {e \in write.entries : Resolved(WorkerOf[e]) # 0}}

(* roll_up_ledger: whole hours past the retention. *)
Cutoff(minute) == Hour(IF minute > FineRetention THEN minute - FineRetention ELSE 0)
Due(rows, minute) == {r \in rows : r.ts < Cutoff(minute)}
RolledUp(rows) == {[r EXCEPT !.ts = Hour(r.ts)] : r \in rows}

WriteLedgerMinute(write) ==
    /\ \E new \in Admitted(write.entries) : InsertWorkers(new)
    /\ workerIds' = [w \in Workers |->
                        IF w \in Names(write.entries) THEN Resolved(w) ELSE workerIds[w]]
    /\ forfeited' = forfeited \cup {s \in write.entries : Resolved(WorkerOf[s]) = 0}

ApplyUnchanged == UNCHANGED <<accumVars, now, restarts, steps, recorded, covered>>

ApplyLedger ==
    /\ Attempting
    /\ Current.kind = "Ledger"
    /\ WriteApplied
    /\ WriteLedgerMinute(Current)
    /\ LET rows == intervals \cup NewRows(Current)
           due == Due(rows, Current.minute_ts)
       IN  /\ intervals' = rows \ due
           /\ hourly' = hourly \cup RolledUp(due)
    /\ UNCHANGED <<task, failures>>
    /\ ApplyUnchanged

(* The minute is committed and the rollup fails: the write is still done. *)
MutRollupFailureParks ==
    /\ Attempting
    /\ Current.kind = "Ledger"
    /\ failures < MaxFailures
    /\ failures' = failures + 1
    /\ WriteFailed(TRUE)
    /\ WriteLedgerMinute(Current)
    /\ intervals' = intervals \cup NewRows(Current)
    /\ UNCHANGED <<task, hourly>>
    /\ ApplyUnchanged

RollUpFails ==
    /\ Attempting
    /\ Current.kind = "Ledger"
    /\ failures < MaxFailures
    /\ failures' = failures + 1
    /\ WriteApplied
    /\ WriteLedgerMinute(Current)
    /\ intervals' = intervals \cup NewRows(Current)
    /\ UNCHANGED <<task, hourly>>
    /\ ApplyUnchanged

(* The oldest parked minute, if this failure is about to evict it. *)
Evicted == IF retries = 0 /\ Full THEN Head(backlog).entries ELSE {}

MutCacheKept ==
    /\ Attempting
    /\ Current.kind = "Ledger"
    /\ failures < MaxFailures
    /\ failures' = failures + 1
    /\ WriteFailed(IsDurable(Current))
    /\ \E new \in Admitted(Current.entries) :
       \E ids \in Bijection(new, (Rows + 1)..(Rows + Cardinality(new))) :
           workerIds' = [w \in Workers |-> IF w \in new THEN ids[w] ELSE workerIds[w]]
    /\ forfeited' = forfeited \cup Evicted
    /\ UNCHANGED <<task, workerId, intervals, hourly>>
    /\ ApplyUnchanged

(* The minute's transaction fails and rolls back, and the cache is cleared. *)
LedgerFails ==
    /\ Attempting
    /\ Current.kind = "Ledger"
    /\ failures < MaxFailures
    /\ failures' = failures + 1
    /\ WriteFailed(IsDurable(Current))
    /\ workerIds' = [w \in Workers |-> 0]
    /\ forfeited' = forfeited \cup Evicted
    /\ UNCHANGED <<task, workerId, intervals, hourly>>
    /\ ApplyUnchanged

(* A Flush is acknowledged whatever the backlog still holds. *)
ApplyFlush ==
    /\ Attempting
    /\ Current.kind = "Flush"
    /\ WriteApplied
    /\ task' = [task EXCEPT !["shutdown"].pc = "acked"]
    /\ UNCHANGED <<accumVars, tableVars, envVars, historyVars>>

WriterReceives ==
    /\ ReceiveWrite \/ ReceiveTimeout
    /\ UNCHANGED <<accumVars, task, tableVars, envVars, historyVars>>

-----------------------------------------------------------------------------
InTables == {r.share : r \in intervals \cup hourly}

(* The process ends and boots again; only the tables survive.  The open    *)
(* minute is stamped from the clock at boot.                               *)
Reboot ==
    /\ restarts < MaxRestarts
    /\ restarts' = restarts + 1
    /\ WriterLost
    /\ openMinute' = now
    /\ staged' = {}
    /\ workerIds' = [w \in Workers |-> 0]
    /\ task' = [t \in Tasks |-> IF t \in Shares /\ task[t].pc # "idle"
                                THEN [pc |-> "done", ts |-> task[t].ts, closed |-> NoMinute]
                                ELSE Idle]
    /\ forfeited' = forfeited \cup (recorded \ InTables)
    /\ covered' = {}
    /\ UNCHANGED <<workerId, intervals, hourly, now, failures, steps, recorded>>

(* A crash, or the shutdown giving up on its flush after five seconds. *)
Crash == task["shutdown"].pc # "acked" /\ Reboot

(* main returns once the flush is acknowledged; until then sessions run.   *)
Exit == task["shutdown"].pc = "acked" /\ Reboot

Tick ==
    /\ now < MaxTime
    /\ now' = now + 1
    /\ UNCHANGED <<writerVars, accumVars, task, tableVars, failures, restarts, steps,
                   historyVars>>

(* The wall clock is stepped backwards. *)
StepBack ==
    /\ steps < MaxSteps
    /\ steps' = steps + 1
    /\ now' \in 0..(now - 1)
    /\ UNCHANGED <<writerVars, accumVars, task, tableVars, failures, restarts, historyVars>>

Call(t) == ReadClock(t) \/ Persist(t)

Shutdown == TakeOpen \/ PersistOpen \/ SendFlush

ApplyWrite == ApplyLedger \/ ApplyFlush

Next ==
    \/ \E t \in Tasks : Call(t)
    \/ \E s \in Shares : RecordLedger(s) \/ RefuseUnknown(s)
    \/ \E t \in {"ticker", "shutdown"} : FlushLedgerAt(t)
    \/ Shutdown
    \/ WriterReceives
    \/ ApplyWrite
    \/ RollUpFails
    \/ LedgerFails
    \/ Crash
    \/ Exit
    \/ Tick
    \/ StepBack

Spec == Init /\ [][Next]_vars

(* Fairness: a call once begun goes on, the ticker keeps ticking, time     *)
(* passes, the writer thread runs.  Shares, signals, failures, crashes and *)
(* clock steps need never happen.                                          *)
Fairness ==
    /\ \A s \in Shares : WF_vars(RecordLedger(s) \/ RefuseUnknown(s) \/ Persist(s))
    /\ WF_vars(Call("ticker") \/ FlushLedgerAt("ticker"))
    /\ WF_vars(Persist("shutdown") \/ FlushLedgerAt("shutdown") \/ Shutdown)
    /\ WF_vars(Tick)
    /\ WF_vars(WriterReceives)
    /\ WF_vars(ApplyWrite)
    /\ WF_vars(Exit)

LiveSpec == Spec /\ Fairness

-----------------------------------------------------------------------------
Write == [kind : {"Ledger", "Flush"}, minute_ts : Nat, entries : SUBSET Shares]
TaskState ==
    [pc : {"idle", "roll", "persist", "take_open", "persist_open", "send_flush", "wait",
           "acked", "done"},
     ts : Nat, closed : Write]
Row == [worker_id : Nat \ {0}, ts : Nat, share : Shares]

(* Types of the accumulator, the callers' locals, the queue and the tables; *)
(* the workers table stays within its cap.                                  *)
TypeOK ==
    /\ WriterTypeOK(Write)
    /\ openMinute \in Nat /\ staged \subseteq Shares
    /\ task \in [Tasks -> TaskState]
    /\ workerId \in [Workers -> Nat] /\ workerIds \in [Workers -> Nat]
    /\ Rows <= MaxWorkers
    /\ intervals \subseteq Row /\ hourly \subseteq Row
    /\ now \in Nat /\ failures \in 0..MaxFailures
    /\ restarts \in 0..MaxRestarts /\ steps \in 0..MaxSteps
    /\ {recorded, forfeited, covered} \subseteq SUBSET Shares

-----------------------------------------------------------------------------
(* Where a recorded share can be: staged, in the closed minute a caller    *)
(* holds, in a write, in a row of either table.                            *)
InWrites(s, writes) == Cardinality({i \in DOMAIN writes : s \in writes[i].entries})

Copies(s) ==
    Cardinality({s} \cap staged)
    + Cardinality({t \in Tasks : s \in task[t].closed.entries})
    + InWrites(s, backlog) + InWrites(s, inHand) + InWrites(s, queue)
    + Cardinality({r \in intervals : r.share = s})
    + Cardinality({r \in hourly : r.share = s})

(* Work is conserved: a recorded share is in exactly one place on its way  *)
(* from record_ledger to a table, however flushes, failed transactions,    *)
(* failed rollups, retries and crashes interleave.  So no retry counts a   *)
(* minute twice and no rollup counts or loses an hour; a share leaves the  *)
(* ledger only by a process death, the worker cap or an overflow.          *)
EveryShareOnce ==
    \A s \in recorded : Copies(s) = IF s \in forfeited THEN 0 ELSE 1

(* Work is credited to the worker that did it (worker_ids, the writer's    *)
(* cache of ids): the id of every row is the id the workers table has for  *)
(* the share's worker, and no two workers have the same, even though a     *)
(* failed transaction takes back ids it had handed out.                    *)
RowsNameTheirWorker ==
    /\ \A r \in intervals \cup hourly : workerId[WorkerOf[r.share]] = r.worker_id
    /\ \A v, w \in Workers : workerId[v] = workerId[w] /\ workerId[v] # 0 => v = w

(* roll_to: neither an idle stretch, nor a clock stepped back, nor a       *)
(* reading gone stale while waiting for the lock files a share under a     *)
(* minute before the one it was submitted in; the rollup keeps its hour.   *)
NeverFiledEarly ==
    /\ \A r \in intervals : r.ts >= task[r.share].ts
    /\ \A r \in hourly : r.ts >= Hour(task[r.share].ts)

(* A clean shutdown keeps what it answered for: when flush is acknowledged *)
(* and nothing is parked, every share recorded before flush_ledger_partial *)
(* is in a table, save those in a minute some other task had closed and    *)
(* not yet queued.                                                         *)
ShutdownKeepsItsWord ==
    task["shutdown"].pc = "acked" /\ backlog = <<>> => covered \subseteq InTables \cup forfeited

(* A quiet pool persists its last minute (flush_ledger_at from the         *)
(* ticker): a share staged before the end of time reaches a table with no  *)
(* further share to push it, or dies with the process or the worker cap.   *)
StagedIsFiled ==
    \A s \in Shares : (s \in staged /\ openMinute < MaxTime) ~> (s \in InTables \cup forfeited)

=============================================================================
