------------------------- MODULE ShareLedgerProofs -------------------------
(***************************************************************************)
(* Proofs about ShareLedger, for any shares, workers, caps and bounds.     *)
(*                                                                         *)
(*   TypeOK               with the cap on the workers table                *)
(*   RowsNameTheirWorker  from IdInv: ids are handed out upwards, so the   *)
(*                        next ones are new, and a cached id is the one in *)
(*                        the table because a rollback empties the cache   *)
(*   NeverFiledEarly      from FileInv: the stamp a share travels under,   *)
(*                        from the accumulator to its row, is never below  *)
(*                        the minute its session read                      *)
(*   EveryShareOnce       from OnceInv: a recorded share is in exactly one *)
(*                        place (accumulator, a caller's closed minute,    *)
(*                        the writer, the tables) and there only once      *)
(*   ShutdownKeepsItsWord from WordInv: what was recorded before the final *)
(*                        flush is ahead of it in the writer until applied *)
(***************************************************************************)
EXTENDS ShareLedger, StatsWriterProofs, FiniteSetTheorems

(* The writes of the ledger are writes. *)
LEMMA WriteTypes ==
    /\ Flush \in Write
    /\ NoMinute \in Write
    /\ \A m \in Nat, e \in SUBSET Shares : Ledger(m, e) \in Write
BY Zenon DEF Flush, NoMinute, Ledger, Write

(* The closed minute and the new stamp that roll_to computes are typed. *)
LEMMA RollTypes ==
    ASSUME TypeOK, NEW t \in Tasks
    PROVE  /\ task[t] \in TaskState
           /\ Taken \in Write
           /\ ClosedMinute(task[t].ts) \in Write
           /\ ClosedMinute(task[t].ts).entries \subseteq Shares
           /\ NewStamp(task[t].ts) \in Nat
<1>1. task[t] \in TaskState /\ task[t].ts \in Nat
  BY Zenon DEF TypeOK, TaskState
<1>2. Taken \in Write
  BY WriteTypes, Zenon DEF TypeOK, Taken
<1>3. ClosedMinute(task[t].ts) \in Write
  BY <1>2, WriteTypes, Zenon DEF ClosedMinute
<1>4. ClosedMinute(task[t].ts).entries \subseteq Shares
  BY <1>3, Zenon DEF Write
<1> QED
  BY <1>1, <1>2, <1>3, <1>4, Zenon DEF NewStamp, TypeOK

(* resolve_worker_id hands out the ids above those in use, within the cap, *)
(* and changes no id that is in use.                                       *)
LEMMA WorkersInserted ==
    ASSUME TypeOK, NEW entries \in SUBSET Shares,
           NEW new \in Admitted(entries), InsertWorkers(new)
    PROVE  /\ workerId' \in [Workers -> Nat]
           /\ Rows \in Nat /\ Rows' \in Nat /\ Rows <= Rows' /\ Rows' <= MaxWorkers
           /\ \A w \in Workers : w \notin new => workerId'[w] = workerId[w]
           /\ \A w \in new : w \in Workers /\ workerId[w] = 0
                             /\ workerId'[w] > Rows /\ workerId'[w] <= Rows'
           /\ \A v, w \in new : workerId'[v] = workerId'[w] => v = w
<1>1. new \subseteq Unseen(entries) /\ new \subseteq Workers
  BY ShareLedgerAssumption DEF Admitted, Unseen, Names
<1>2. \A w \in new : workerId[w] = 0
  BY <1>1, Zenon DEF Unseen
<1> DEFINE Old == {w \in Workers : workerId[w] # 0}
<1>3. IsFiniteSet(new) /\ IsFiniteSet(Old) /\ new \cap Old = {}
  BY <1>1, <1>2, FS_Subset, ShareLedgerAssumption, Zenon
<1>4. Rows \in Nat /\ Cardinality(new) \in Nat
  BY <1>3, FS_CardinalityType, Zenon DEF Rows
<1>5. Cardinality(Old \cup new) = Rows + Cardinality(new)
  <2>1. Cardinality(Old \cup new)
            = Cardinality(Old) + Cardinality(new) - Cardinality(Old \cap new)
    BY <1>3, FS_Union, Zenon
  <2>2. Old \cap new = {}
    BY <1>3, Zenon
  <2>3. Cardinality(Old \cap new) = 0
    BY <2>2, FS_EmptySet, Zenon
  <2>4. Cardinality(Old) = Rows
    BY Zenon DEF Rows
  <2> DEFINE a == Cardinality(Old)
             b == Cardinality(Old \cap new)
             c == Cardinality(Old \cup new)
  <2>5. c = a + Cardinality(new) - b /\ b = 0 /\ a = Rows
    BY <2>1, <2>3, <2>4, Zenon
  <2> HIDE DEF a, b, c
  <2>6. c = Rows + Cardinality(new)
    BY <1>4, <2>5
  <2> QED
    BY <2>6, Zenon DEF c
<1>6. PICK ids \in Bijection(new, (Rows + 1)..(Rows + Cardinality(new))) :
         workerId' = [w \in Workers |-> IF w \in new THEN ids[w] ELSE workerId[w]]
  BY Zenon DEF InsertWorkers
<1>7. /\ ids \in [new -> (Rows + 1)..(Rows + Cardinality(new))]
      /\ \A v, w \in new : ids[v] = ids[w] => v = w
  BY Zenon DEF Bijection, Injection, Surjection, IsInjective
<1>8. /\ \A w \in Workers : w \notin new => workerId'[w] = workerId[w]
      /\ \A w \in new : workerId'[w] = ids[w]
  BY <1>1, <1>6, Zenon
<1>9. \A w \in new : ids[w] \in Nat /\ ids[w] > Rows /\ ids[w] <= Rows + Cardinality(new)
  BY <1>4, <1>7
<1>10. workerId' \in [Workers -> Nat]
  BY <1>6, <1>9, Zenon DEF TypeOK
<1>11. {w \in Workers : workerId'[w] # 0} = Old \cup new
  BY <1>1, <1>4, <1>8, <1>9 DEF TypeOK
<1>12. Rows' = Rows + Cardinality(new)
  BY <1>5, <1>11, Zenon DEF Rows
<1>13. Rows' <= MaxWorkers
  BY <1>4, <1>12, ShareLedgerAssumption DEF Admitted, Larger, TypeOK
<1> QED
  BY <1>1, <1>2, <1>4, <1>7, <1>8, <1>9, <1>10, <1>12, <1>13

(* One committed minute keeps the workers table, the cache and the rows    *)
(* typed, and every row is filed under an id.                              *)
LEMMA MinuteWritten ==
    ASSUME TypeOK, NEW write \in Write, WriteLedgerMinute(write)
    PROVE  /\ workerId' \in [Workers -> Nat] /\ workerIds' \in [Workers -> Nat]
           /\ Rows' <= MaxWorkers
           /\ NewRows(write) \subseteq Row
           /\ forfeited' \subseteq Shares
<1>1. write.entries \in SUBSET Shares /\ write.minute_ts \in Nat
  BY Zenon DEF Write
<1>2. PICK new \in Admitted(write.entries) : InsertWorkers(new)
  BY Zenon DEF WriteLedgerMinute
<1>3. workerId' \in [Workers -> Nat] /\ Rows' <= MaxWorkers
  BY <1>1, <1>2, WorkersInserted, Zenon
<1>4. \A w \in Workers : Resolved(w) \in Nat
  BY <1>3, Zenon DEF Resolved, TypeOK
<1>5. workerIds' \in [Workers -> Nat]
  BY <1>4, Zenon DEF WriteLedgerMinute, TypeOK
<1>6. NewRows(write) \subseteq Row
  BY <1>1, <1>4, ShareLedgerAssumption DEF NewRows, Row
<1>7. forfeited' \subseteq Shares
  BY <1>1, Zenon DEF WriteLedgerMinute, TypeOK
<1> QED
  BY <1>3, <1>5, <1>6, <1>7, Zenon

(* The start of an hour is itself a minute. *)
LEMMA HourType ==
    ASSUME NEW m \in Nat
    PROVE  Hour(m) \in Nat
BY ShareLedgerAssumption DEF Hour

(* The rollup keeps rows rows. *)
LEMMA RolledUpTypes ==
    ASSUME NEW rows \in SUBSET Row
    PROVE  RolledUp(rows) \subseteq Row
BY HourType, Zenon DEF RolledUp, Row

(* Updating one caller keeps them all typed. *)
LEMMA TaskUpdate ==
    ASSUME TypeOK, NEW t \in Tasks, NEW s \in TaskState, task' = [task EXCEPT ![t] = s]
    PROVE  task' \in [Tasks -> TaskState]
BY Zenon DEF TypeOK

-----------------------------------------------------------------------------
(* The pool starts typed: nothing staged, queued or stored. *)
LEMMA TypeInit == Init => TypeOK
<1> SUFFICES ASSUME Init PROVE TypeOK
  BY Zenon
<1> USE DEF Init
<1>1. WriterTypeOK(Write)
  BY WriterStarts, Zenon
<1>2. Idle \in TaskState
  BY WriteTypes, Zenon DEF Idle, TaskState
<1>3. Rows = 0
  <2>1. {w \in Workers : workerId[w] # 0} = {}
    BY Zenon
  <2> QED
    BY <2>1, FS_EmptySet, Zenon DEF Rows
<1> QED
  BY <1>1, <1>2, <1>3, ShareLedgerAssumption DEF TypeOK

(* Every step of the callers, the writer and the clock keeps the types. *)
LEMMA TypeStep == TypeOK /\ [Next]_vars => TypeOK'
<1> SUFFICES ASSUME TypeOK, [Next]_vars PROVE TypeOK'
  BY Zenon
<1> USE ShareLedgerAssumption
<1>w. ASSUME UNCHANGED writerVars PROVE WriterTypeOK(Write)'
  BY <1>w, WriterIdle, Zenon DEF TypeOK
<1>r. ASSUME UNCHANGED workerId PROVE (Rows <= MaxWorkers)'
  BY <1>r, Zenon DEF Rows, TypeOK
<1>c. ASSUME Attempting PROVE Current \in Write /\ IsDurable(Current) \in BOOLEAN
  BY <1>c, CurrentInFlight, Zenon DEF TypeOK, IsDurable
<1>1. ASSUME NEW t \in Tasks, ReadClock(t) PROVE TypeOK'
  <2> DEFINE s == [task[t] EXCEPT !.pc = "roll", !.ts = now]
  <2>1. s \in TaskState
    BY RollTypes, Zenon DEF TaskState, TypeOK
  <2>2. task' = [task EXCEPT ![t] = s]
    BY <1>1, Zenon DEF ReadClock
  <2> HIDE DEF s
  <2>3. task' \in [Tasks -> TaskState]
    BY <2>1, <2>2, TaskUpdate, Zenon
  <2> QED
    BY <1>1, <1>w, <1>r, <2>3, Zenon
    DEF ReadClock, TypeOK, accumVars, tableVars, envVars, historyVars
<1>2. ASSUME NEW t \in Tasks, NEW m \in Write
      PROVE  Rolled(t, m) \in TaskState
  BY RollTypes, Zenon DEF Rolled, TaskState, After
<1>3. ASSUME NEW s \in Shares, RecordLedger(s) PROVE TypeOK'
  <2>1. s \in Tasks
    BY Zenon DEF Tasks
  <2>2. task' \in [Tasks -> TaskState]
    BY <1>2, <1>3, <2>1, RollTypes, TaskUpdate, Zenon DEF RecordLedger
  <2>3. openMinute' \in Nat /\ staged' \subseteq Shares /\ recorded' \subseteq Shares
    BY <1>3, <2>1, RollTypes, Zenon DEF RecordLedger, TypeOK
  <2> QED
    BY <1>3, <1>w, <1>r, <2>2, <2>3 DEF RecordLedger, TypeOK, tableVars, envVars
<1>4. ASSUME NEW s \in Shares, RefuseUnknown(s) PROVE TypeOK'
  <2>1. s \in Tasks
    BY Zenon DEF Tasks
  <2> DEFINE r == [task[s] EXCEPT !.pc = "done"]
  <2>2. r \in TaskState
    BY <2>1, RollTypes, Zenon DEF TaskState
  <2>3. task' = [task EXCEPT ![s] = r]
    BY <1>4, Zenon DEF RefuseUnknown
  <2> HIDE DEF r
  <2>4. task' \in [Tasks -> TaskState]
    BY <2>1, <2>2, <2>3, TaskUpdate, Zenon
  <2> QED
    BY <1>4, <1>w, <1>r, <2>4, Zenon
    DEF RefuseUnknown, TypeOK, accumVars, tableVars, envVars, historyVars
<1>5. ASSUME NEW t \in {"ticker", "shutdown"}, FlushLedgerAt(t) PROVE TypeOK'
  <2>1. t \in Tasks
    BY Zenon DEF Tasks
  <2>2. task' \in [Tasks -> TaskState]
    BY <1>2, <1>5, <2>1, RollTypes, TaskUpdate, Zenon DEF FlushLedgerAt
  <2>3. openMinute' \in Nat /\ staged' \subseteq Shares
    BY <1>5, <2>1, RollTypes, Zenon DEF FlushLedgerAt, TypeOK
  <2> QED
    BY <1>5, <1>w, <1>r, <2>2, <2>3
    DEF FlushLedgerAt, TypeOK, tableVars, envVars, historyVars
<1>6. ASSUME NEW t \in Tasks, NEW pc, NEW after, PersistLedgerMinute(t, pc, after),
             after \in {"idle", "take_open", "done", "send_flush"}
      PROVE  TypeOK'
  <2> DEFINE s == [task[t] EXCEPT !.pc = after, !.closed = NoMinute]
  <2>1. s \in TaskState /\ task[t].closed \in Write
    BY <1>6, RollTypes, WriteTypes, Zenon DEF TaskState
  <2>2. task' = [task EXCEPT ![t] = s]
    BY <1>6, Zenon DEF PersistLedgerMinute
  <2> HIDE DEF s
  <2>3. task' \in [Tasks -> TaskState]
    BY <2>1, <2>2, TaskUpdate, Zenon
  <2>4. WriterTypeOK(Write)'
    BY <1>6, <2>1, EnqueueStep, Zenon DEF PersistLedgerMinute, TypeOK
  <2> QED
    BY <1>6, <1>r, <2>3, <2>4, Zenon
    DEF PersistLedgerMinute, TypeOK, accumVars, tableVars, envVars, historyVars
<1>7. CASE TakeOpen
  <2> DEFINE t == "shutdown"
             s == [task[t] EXCEPT !.pc = IF staged = {} THEN "send_flush" ELSE "persist_open",
                                  !.closed = Taken]
  <2>1. t \in Tasks
    BY Zenon DEF Tasks
  <2>2. s \in TaskState
    BY <2>1, RollTypes, Zenon DEF TaskState
  <2>3. task' = [task EXCEPT ![t] = s]
    BY <1>7, Zenon DEF TakeOpen
  <2>4. staged' \subseteq Shares /\ covered' \subseteq Shares
    BY <1>7, Zenon DEF TakeOpen, TypeOK
  <2> HIDE DEF t, s
  <2>5. task' \in [Tasks -> TaskState]
    BY <2>1, <2>2, <2>3, TaskUpdate, Zenon
  <2> QED
    BY <1>7, <1>w, <1>r, <2>4, <2>5 DEF TakeOpen, TypeOK, tableVars, envVars
<1>8. ASSUME NEW pc \in {"wait", "acked"}, task' = [task EXCEPT !["shutdown"].pc = pc]
      PROVE  task' \in [Tasks -> TaskState]
  <2> DEFINE t == "shutdown"
             s == [task[t] EXCEPT !.pc = pc]
  <2>1. t \in Tasks
    BY Zenon DEF Tasks
  <2>2. s \in TaskState
    BY <2>1, RollTypes, Zenon DEF TaskState
  <2>3. task' = [task EXCEPT ![t] = s]
    BY <1>8, Zenon
  <2> HIDE DEF t, s
  <2> QED
    BY <2>1, <2>2, <2>3, TaskUpdate, Zenon
<1>9. CASE SendFlush
  <2>1. task' \in [Tasks -> TaskState]
    BY <1>8, <1>9, Zenon DEF SendFlush
  <2>2. WriterTypeOK(Write)'
    BY <1>9, WriteTypes, EnqueueStep, Zenon DEF SendFlush, TypeOK
  <2> QED
    BY <1>9, <1>r, <2>1, <2>2, Zenon
    DEF SendFlush, TypeOK, accumVars, tableVars, envVars, historyVars
<1>10. ASSUME Attempting, Current.kind = "Ledger", WriteApplied,
              WriteLedgerMinute(Current), ApplyUnchanged, UNCHANGED task,
              intervals' \subseteq intervals \cup NewRows(Current),
              hourly' \subseteq Row, failures' \in 0..MaxFailures
       PROVE  TypeOK'
  <2>1. /\ workerId' \in [Workers -> Nat] /\ workerIds' \in [Workers -> Nat]
        /\ Rows' <= MaxWorkers
        /\ NewRows(Current) \subseteq Row
        /\ forfeited' \subseteq Shares
    BY <1>10, <1>c, MinuteWritten, Zenon
  <2>2. WriterTypeOK(Write)'
    BY <1>10, AppliedStep, Zenon DEF TypeOK
  <2>3. intervals' \subseteq Row
    BY <1>10, <2>1, Zenon DEF TypeOK
  <2> QED
    BY <1>10, <2>1, <2>2, <2>3, Zenon DEF ApplyUnchanged, TypeOK, accumVars
<1>11. CASE ApplyLedger
  <2>1. NewRows(Current) \subseteq Row
    BY <1>11, <1>c, MinuteWritten, Zenon DEF ApplyLedger
  <2> DEFINE rows == intervals \cup NewRows(Current)
             due == Due(rows, Current.minute_ts)
  <2>2. due \subseteq Row
    BY <2>1, Zenon DEF TypeOK, Due
  <2>3. intervals' = rows \ due /\ hourly' = hourly \cup RolledUp(due)
    BY <1>11, Zenon DEF ApplyLedger
  <2> HIDE DEF due
  <2>4. hourly' \subseteq Row
    BY <2>2, <2>3, RolledUpTypes, Zenon DEF TypeOK
  <2>5. failures' \in 0..MaxFailures
    BY <1>11, Zenon DEF ApplyLedger, TypeOK
  <2> QED
    BY <1>10, <1>11, <2>3, <2>4, <2>5, Zenon DEF ApplyLedger
<1>12. CASE RollUpFails
  <2>1. hourly' \subseteq Row /\ failures' \in 0..MaxFailures
    BY <1>12 DEF RollUpFails, TypeOK
  <2> QED
    BY <1>10, <1>12, <2>1, Zenon DEF RollUpFails
<1>13. CASE LedgerFails
  <2>1. WriterTypeOK(Write)'
    BY <1>13, <1>c, FailedStep, Zenon DEF LedgerFails, TypeOK
  <2>2. Evicted \subseteq Shares
    <3>1. CASE retries = 0 /\ Full
      <4>1. backlog \in Seq(Write) /\ backlog # <<>>
        BY <3>1, MaxBacklogAssumption DEF Full, TypeOK, WriterTypeOK
      <4>2. Head(backlog) \in Write
        BY <4>1, RangeTail, Zenon
      <4> QED
        BY <3>1, <4>2, Zenon DEF Evicted, Write
    <3> QED
      BY <3>1, Zenon DEF Evicted
  <2>3. workerIds' \in [Workers -> Nat] /\ failures' \in 0..MaxFailures
        /\ forfeited' \subseteq Shares
    BY <1>13, <2>2 DEF LedgerFails, TypeOK
  <2> QED
    BY <1>13, <1>r, <2>1, <2>3, Zenon DEF LedgerFails, ApplyUnchanged, TypeOK, accumVars
<1>14. CASE ApplyFlush
  <2>1. task' \in [Tasks -> TaskState]
    BY <1>8, <1>14, Zenon DEF ApplyFlush
  <2>2. WriterTypeOK(Write)'
    BY <1>14, AppliedStep, Zenon DEF ApplyFlush, TypeOK
  <2> QED
    BY <1>14, <1>r, <2>1, <2>2, Zenon
    DEF ApplyFlush, TypeOK, accumVars, tableVars, envVars, historyVars
<1>15. CASE WriterReceives
  <2>1. WriterTypeOK(Write)'
    BY <1>15, ReceiveStep, Zenon DEF WriterReceives, TypeOK
  <2> QED
    BY <1>15, <1>r, <2>1, Zenon
    DEF WriterReceives, TypeOK, accumVars, tableVars, envVars, historyVars
<1>16. CASE Reboot
  <2>1. WriterTypeOK(Write)'
    BY <1>16, LostStep, Zenon DEF Reboot
  <2>2. Idle \in TaskState
    BY WriteTypes, Zenon DEF Idle, TaskState
  <2>3. ASSUME NEW t \in Tasks
        PROVE  [pc |-> "done", ts |-> task[t].ts, closed |-> NoMinute] \in TaskState
    BY WriteTypes, Zenon DEF TaskState, TypeOK
  <2>4. task' \in [Tasks -> TaskState]
    BY <1>16, <2>2, <2>3, Zenon DEF Reboot
  <2>5. workerIds' \in [Workers -> Nat] /\ forfeited' \subseteq Shares
        /\ restarts' \in 0..MaxRestarts
    <3>1. /\ workerIds' = [w \in Workers |-> 0]
          /\ forfeited' = forfeited \cup (recorded \ InTables)
          /\ restarts < MaxRestarts /\ restarts' = restarts + 1
      BY <1>16, Zenon DEF Reboot
    <3> QED
      BY <3>1 DEF TypeOK
  <2> QED
    BY <1>16, <1>r, <2>1, <2>4, <2>5, Zenon DEF Reboot, TypeOK
<1>17. CASE Tick
  BY <1>17, <1>w, <1>r DEF Tick, TypeOK, accumVars, tableVars, historyVars
<1>18. CASE StepBack
  <2>1. now' \in Nat /\ steps' \in 0..MaxSteps
    BY <1>18 DEF StepBack, TypeOK
  <2> QED
    BY <1>18, <1>w, <1>r, <2>1, Zenon DEF StepBack, TypeOK, accumVars, tableVars, historyVars
<1>19. CASE UNCHANGED vars
  BY <1>19, <1>w, <1>r, Zenon DEF vars, TypeOK, accumVars, tableVars, envVars, historyVars
<1>20. ASSUME NEW t \in Tasks, Persist(t) PROVE TypeOK'
  BY <1>6, <1>20, Zenon DEF Persist, After
<1>21. CASE PersistOpen
  <2>1. "shutdown" \in Tasks
    BY Zenon DEF Tasks
  <2> QED
    BY <1>6, <1>21, <2>1, Zenon DEF PersistOpen
<1> QED
  BY <1>1, <1>3, <1>4, <1>5, <1>7, <1>9, <1>11, <1>12, <1>13, <1>14, <1>15, <1>16, <1>17,
     <1>18, <1>19, <1>20, <1>21
  DEF Next, Call, Shutdown, ApplyWrite, Crash, Exit

(* Every reachable state of the ledger is typed and the workers table      *)
(* never exceeds MAX_LEDGER_WORKERS.                                       *)
THEOREM LedgerTypeCorrect == Spec => []TypeOK
BY TypeInit, TypeStep, PTL DEF Spec

-----------------------------------------------------------------------------
(* The workers table and its cache: ids in use are at most the number of   *)
(* rows, no two workers share one, and a cached id is the table's.         *)
IdInv ==
    /\ \A w \in Workers : workerId[w] <= Rows
    /\ \A w \in Workers : workerIds[w] # 0 => workerIds[w] = workerId[w]
    /\ RowsNameTheirWorker

(* A committed minute hands out new ids only, caches the ids it used and   *)
(* files every share under its worker's id.                                *)
LEMMA MinuteNamed ==
    ASSUME TypeOK, IdInv, NEW write \in Write, WriteLedgerMinute(write)
    PROVE  /\ \A w \in Workers : workerId[w] # 0 => workerId'[w] = workerId[w]
           /\ \A w \in Workers : workerId'[w] <= Rows'
           /\ \A w \in Workers : workerIds'[w] # 0 => workerIds'[w] = workerId'[w]
           /\ \A v, w \in Workers : workerId'[v] = workerId'[w] /\ workerId'[v] # 0 => v = w
           /\ \A r \in NewRows(write) : workerId'[WorkerOf[r.share]] = r.worker_id
<1>1. write.entries \in SUBSET Shares
  BY Zenon DEF Write
<1>2. PICK new \in Admitted(write.entries) : InsertWorkers(new)
  BY Zenon DEF WriteLedgerMinute
<1>3. /\ workerId' \in [Workers -> Nat]
      /\ Rows \in Nat /\ Rows' \in Nat /\ Rows <= Rows'
      /\ \A w \in Workers : w \notin new => workerId'[w] = workerId[w]
      /\ \A w \in new : w \in Workers /\ workerId[w] = 0
                        /\ workerId'[w] > Rows /\ workerId'[w] <= Rows'
      /\ \A v, w \in new : workerId'[v] = workerId'[w] => v = w
  BY <1>1, <1>2, WorkersInserted
<1>4. \A w \in Workers : workerId[w] \in Nat /\ workerIds[w] \in Nat /\ workerId[w] <= Rows
  BY Zenon DEF TypeOK, IdInv
<1>5. \A w \in Workers : workerId[w] # 0 => workerId'[w] = workerId[w]
  BY <1>3, Zenon
<1>6. \A w \in Workers : workerId'[w] <= Rows'
  BY <1>3, <1>4
<1>7. \A w \in Workers : Resolved(w) # 0 => Resolved(w) = workerId'[w]
  BY <1>4, <1>5, Zenon DEF Resolved, IdInv
<1>8. \A w \in Workers : workerIds'[w] # 0 => workerIds'[w] = workerId'[w]
  BY <1>5, <1>7, Zenon DEF WriteLedgerMinute, IdInv
<1>9. \A v, w \in Workers : workerId'[v] = workerId'[w] /\ workerId'[v] # 0 => v = w
  BY <1>3, <1>4 DEF IdInv, RowsNameTheirWorker
<1>10. \A r \in NewRows(write) : workerId'[WorkerOf[r.share]] = r.worker_id
  BY <1>1, <1>7, ShareLedgerAssumption DEF NewRows
<1> QED
  BY <1>5, <1>6, <1>8, <1>9, <1>10, Zenon

(* Steps that leave the workers table and the rows alone, and at most empty *)
(* the cache, keep the ids right.                                           *)
LEMMA IdFrame ==
    ASSUME TypeOK, IdInv, UNCHANGED <<workerId, intervals, hourly>>,
           UNCHANGED workerIds \/ workerIds' = [w \in Workers |-> 0]
    PROVE  IdInv'
<1>1. Rows' = Rows
  BY Zenon DEF Rows
<1> QED
  BY <1>1, Zenon DEF IdInv, RowsNameTheirWorker

(* Both ways a committed minute ends: the rollup done, or failed. *)
LEMMA IdCommitted ==
    ASSUME TypeOK, IdInv, Attempting, WriteLedgerMinute(Current),
           \A r \in intervals' \cup hourly' :
               \E q \in intervals \cup hourly \cup NewRows(Current) :
                   r.share = q.share /\ r.worker_id = q.worker_id
    PROVE  IdInv'
<1>1. Current \in Write
  BY CurrentInFlight, Zenon DEF TypeOK
<1>2. /\ \A w \in Workers : workerId[w] # 0 => workerId'[w] = workerId[w]
      /\ \A w \in Workers : workerId'[w] <= Rows'
      /\ \A w \in Workers : workerIds'[w] # 0 => workerIds'[w] = workerId'[w]
      /\ \A v, w \in Workers : workerId'[v] = workerId'[w] /\ workerId'[v] # 0 => v = w
      /\ \A r \in NewRows(Current) : workerId'[WorkerOf[r.share]] = r.worker_id
  BY <1>1, MinuteNamed, Zenon
<1>3. ASSUME NEW q \in intervals \cup hourly
      PROVE  workerId'[WorkerOf[q.share]] = q.worker_id
  <2>1. q \in Row /\ WorkerOf[q.share] \in Workers /\ q.worker_id # 0
    BY <1>3, ShareLedgerAssumption, Zenon DEF TypeOK, Row
  <2>2. workerId[WorkerOf[q.share]] = q.worker_id
    BY <1>3, Zenon DEF IdInv, RowsNameTheirWorker
  <2> QED
    BY <1>2, <2>1, <2>2, Zenon
<1>4. ASSUME NEW r \in intervals' \cup hourly'
      PROVE  workerId'[WorkerOf[r.share]] = r.worker_id
  BY <1>2, <1>3, <1>4
<1> QED
  BY <1>2, <1>4, Zenon DEF IdInv, RowsNameTheirWorker

(* Every step keeps the ids right; only the writer touches them. *)
LEMMA IdStep == TypeOK /\ IdInv /\ [Next]_vars => IdInv'
<1> SUFFICES ASSUME TypeOK, IdInv, [Next]_vars PROVE IdInv'
  BY Zenon
<1>1. CASE ApplyLedger
  <2> DEFINE rows == intervals \cup NewRows(Current)
             due == Due(rows, Current.minute_ts)
  <2>1. intervals' = rows \ due /\ hourly' = hourly \cup RolledUp(due)
    BY <1>1, Zenon DEF ApplyLedger
  <2>2. due \subseteq rows
    BY Zenon DEF Due
  <2>3. \A r \in RolledUp(due) : \E q \in due : r.share = q.share /\ r.worker_id = q.worker_id
    <3>1. due \subseteq Row
      BY <1>1, CurrentInFlight, MinuteWritten, Zenon DEF TypeOK, ApplyLedger, Due
    <3> HIDE DEF due
    <3> QED
      BY <3>1, Zenon DEF RolledUp, Row
  <2> HIDE DEF due
  <2>4. \A r \in intervals' \cup hourly' :
            \E q \in intervals \cup hourly \cup NewRows(Current) :
                r.share = q.share /\ r.worker_id = q.worker_id
    BY <2>1, <2>2, <2>3, Zenon
  <2> QED
    BY <1>1, <2>4, IdCommitted, Zenon DEF ApplyLedger
<1>2. CASE RollUpFails
  BY <1>2, IdCommitted, Zenon DEF RollUpFails
<1>3. CASE LedgerFails
  BY <1>3, IdFrame, Zenon DEF LedgerFails
<1>4. CASE Reboot
  <2>1. UNCHANGED <<workerId, intervals, hourly>> /\ workerIds' = [w \in Workers |-> 0]
    BY <1>4, Zenon DEF Reboot
  <2> QED
    BY <2>1, IdFrame, Zenon
<1>5. CASE UNCHANGED tableVars
  BY <1>5, IdFrame, Zenon DEF tableVars
<1>6. ASSUME ~ApplyLedger, ~RollUpFails, ~LedgerFails, ~Reboot
      PROVE  UNCHANGED tableVars
  BY <1>6, Zenon DEF Next, vars, Call, ReadClock, Persist, PersistLedgerMinute, RecordLedger,
     RefuseUnknown, FlushLedgerAt, Shutdown, TakeOpen, PersistOpen, SendFlush, WriterReceives,
     ApplyWrite, ApplyFlush, Crash, Exit, Tick, StepBack
<1> QED
  BY <1>1, <1>2, <1>3, <1>4, <1>5, <1>6, Zenon

(* Work is credited to the worker that did it, whatever transactions fail  *)
(* between a name's first share and its row.                               *)
THEOREM WorkIsCredited == Spec => []RowsNameTheirWorker
<1>1. Init => IdInv
  <2> SUFFICES ASSUME Init PROVE IdInv
    BY Zenon
  <2>1. {w \in Workers : workerId[w] # 0} = {}
    BY Zenon DEF Init
  <2>2. Rows = 0
    BY <2>1, FS_EmptySet, Zenon DEF Rows
  <2> QED
    BY <2>2 DEF Init, IdInv, RowsNameTheirWorker
<1>2. IdInv => RowsNameTheirWorker
  BY Zenon DEF IdInv
<1> QED
  BY <1>1, <1>2, LedgerTypeCorrect, IdStep, PTL DEF Spec

-----------------------------------------------------------------------------
(* A share's reading of the clock is behind it once it is recorded, and    *)
(* whatever it travels in is stamped no earlier.                           *)
StampedBy(m, s) == s \in recorded /\ m >= task[s].ts
Stamped(write) == \A s \in write.entries : StampedBy(write.minute_ts, s)

FileInv ==
    /\ \A s \in recorded : task[s].pc \notin {"idle", "roll"}
    /\ \A s \in staged : StampedBy(openMinute, s)
    /\ \A t \in Tasks : Stamped(task[t].closed)
    /\ \A w \in InFlight : Stamped(w)
    /\ \A r \in intervals : StampedBy(r.ts, r.share)
    /\ \A r \in hourly : r.share \in recorded /\ r.ts >= Hour(task[r.share].ts)

(* No step moves the reading of a recorded share. *)
ReadingsKept == \A s \in recorded : s \in recorded' /\ task'[s].ts = task[s].ts

(* The hour of a later minute is no earlier. *)
LEMMA HourMonotone ==
    ASSUME NEW m \in Nat, NEW n \in Nat, m <= n
    PROVE  Hour(m) <= Hour(n)
<1> DEFINE a == m \div HourLen
           b == n \div HourLen
<1>1. a \in Nat /\ b \in Nat /\ HourLen \in Nat /\ HourLen > 0
  BY ShareLedgerAssumption
<1>2. a <= b
  BY ShareLedgerAssumption
<1> HIDE DEF a, b
<1>3. a * HourLen <= b * HourLen
  BY <1>1, <1>2
<1> QED
  BY <1>3, Zenon DEF Hour, a, b

(* Steps that only move writes along keep every stamp right. *)
LEMMA FileFrame ==
    ASSUME FileInv, ReadingsKept,
           \A s \in recorded' : task'[s].pc \notin {"idle", "roll"},
           \A s \in staged' : StampedBy(openMinute, s)',
           \A t \in Tasks : Stamped(task[t].closed)',
           \A w \in InFlight' : w \in InFlight \/ Stamped(w)',
           UNCHANGED <<intervals, hourly>>
    PROVE  FileInv'
<1>1. ASSUME NEW w, Stamped(w) PROVE Stamped(w)'
  BY <1>1, Zenon DEF ReadingsKept, Stamped, StampedBy
<1>2. \A w \in InFlight' : Stamped(w)'
  BY <1>1, Zenon DEF FileInv
<1>3. \A r \in intervals' : StampedBy(r.ts, r.share)'
  BY Zenon DEF FileInv, ReadingsKept, StampedBy
<1>4. \A r \in hourly' : r.share \in recorded' /\ r.ts >= Hour(task'[r.share].ts)
  BY Zenon DEF FileInv, ReadingsKept
<1> QED
  BY <1>2, <1>3, <1>4, Zenon DEF FileInv

(* Steps that leave the callers alone keep the stamps of what they hold. *)
LEMMA FileQuiet ==
    ASSUME TypeOK, FileInv, UNCHANGED <<accumVars, task, recorded, intervals, hourly>>,
           InFlight' \subseteq InFlight
    PROVE  FileInv'
<1>1. ReadingsKept
  BY Zenon DEF ReadingsKept
<1> QED
  BY <1>1, FileFrame, Zenon DEF FileInv, Stamped, StampedBy, accumVars

(* A committed minute's rows are stamped as the write was, rolled up or not. *)
LEMMA FileCommitted ==
    ASSUME TypeOK, FileInv, Attempting, WriteApplied, UNCHANGED <<accumVars, task, recorded>>,
           WriteLedgerMinute(Current),
           intervals' \subseteq intervals \cup NewRows(Current),
           \A h \in hourly' \ hourly :
               \E r \in intervals \cup NewRows(Current) : h.share = r.share /\ h.ts = Hour(r.ts)
    PROVE  FileInv'
<1>1. Current \in Write /\ Current \in InFlight
  BY CurrentInFlight, Zenon DEF TypeOK
<1>2. InFlight' \subseteq InFlight
  BY AppliedStep, Zenon DEF TypeOK
<1>3. ASSUME NEW r \in intervals \cup NewRows(Current)
      PROVE  StampedBy(r.ts, r.share) /\ r \in Row
  <2>1. CASE r \in intervals
    BY <2>1, Zenon DEF FileInv, TypeOK
  <2>2. CASE r \in NewRows(Current)
    <3>1. r.ts = Current.minute_ts /\ r.share \in Current.entries
      BY <2>2 DEF NewRows
    <3>2. r \in Row
      BY <1>1, <2>2, MinuteWritten, Zenon
    <3> QED
      BY <1>1, <3>1, <3>2, Zenon DEF FileInv, Stamped
  <2> QED
    BY <1>3, <2>1, <2>2, Zenon
<1>4. ASSUME NEW h \in hourly'
      PROVE  h.share \in recorded /\ h.ts >= Hour(task[h.share].ts)
  <2>1. CASE h \in hourly
    BY <2>1, Zenon DEF FileInv
  <2>2. CASE h \notin hourly
    <3>1. PICK r \in intervals \cup NewRows(Current) : h.share = r.share /\ h.ts = Hour(r.ts)
      BY <1>4, <2>2, Zenon
    <3>2. /\ r.share \in recorded /\ r.ts >= task[r.share].ts
          /\ r.ts \in Nat /\ task[r.share].ts \in Nat
      BY <1>3, Zenon DEF StampedBy, Row, TypeOK, TaskState, Tasks
    <3>3. Hour(task[r.share].ts) <= Hour(r.ts)
      BY <3>2, HourMonotone, Zenon
    <3>4. Hour(task[r.share].ts) \in Nat /\ Hour(r.ts) \in Nat
      BY <3>2, HourType, Zenon
    <3> QED
      BY <3>1, <3>2, <3>3, <3>4, Zenon
  <2> QED
    BY <2>1, <2>2, Zenon
<1> QED
  BY <1>2, <1>3, <1>4, Zenon DEF FileInv, Stamped, StampedBy, accumVars

(* What a caller takes out of the accumulator is stamped as it was staged, *)
(* and the stamp only moves forward.                                       *)
LEMMA RollStamped ==
    ASSUME TypeOK, FileInv, NEW t \in Tasks
    PROVE  /\ Stamped(Taken) /\ Stamped(ClosedMinute(task[t].ts))
           /\ ClosedMinute(task[t].ts).entries \subseteq staged
           /\ NewStamp(task[t].ts) >= openMinute /\ NewStamp(task[t].ts) >= task[t].ts
<1>1. openMinute \in Nat /\ task[t].ts \in Nat
  BY Zenon DEF TypeOK, TaskState
<1>2. Stamped(NoMinute) /\ NoMinute.entries = {}
  BY Zenon DEF NoMinute, Ledger, Stamped
<1>3. Stamped(Taken) /\ Taken.entries \subseteq staged
  BY <1>2, Zenon DEF Taken, Stamped, Ledger, FileInv
<1>4. Stamped(ClosedMinute(task[t].ts)) /\ ClosedMinute(task[t].ts).entries \subseteq staged
  BY <1>2, <1>3, Zenon DEF ClosedMinute
<1>5. NewStamp(task[t].ts) >= openMinute /\ NewStamp(task[t].ts) >= task[t].ts
  BY <1>1 DEF NewStamp, Closes
<1> QED
  BY <1>3, <1>4, <1>5, Zenon

(* Every step keeps every stamp right. *)
LEMMA FileStep == TypeOK /\ FileInv /\ [Next]_vars => FileInv'
<1> SUFFICES ASSUME TypeOK, FileInv, [Next]_vars PROVE FileInv'
  BY Zenon
<1> USE ShareLedgerAssumption
<1>i. /\ recorded \subseteq Shares /\ Shares \subseteq Tasks
      /\ "ticker" \in Tasks /\ "shutdown" \in Tasks
      /\ "ticker" \notin recorded /\ "shutdown" \notin recorded
      /\ DOMAIN task = Tasks
      /\ \A t \in Tasks : task[t] \in TaskState
  BY Zenon DEF TypeOK, Tasks
<1>w. ASSUME UNCHANGED writerVars PROVE InFlight' = InFlight
  BY <1>w, WriterIdle, Zenon DEF TypeOK
<1>k. ASSUME NEW w, Stamped(w), ReadingsKept PROVE Stamped(w)'
  BY <1>k, Zenon DEF ReadingsKept, Stamped, StampedBy
<1>n. Stamped(NoMinute)'
  BY Zenon DEF NoMinute, Ledger, Stamped
<1>1. ASSUME NEW t \in Tasks, ReadClock(t) PROVE FileInv'
  <2>1. t \notin recorded
    BY <1>1, Zenon DEF ReadClock, FileInv
  <2>2. \A u \in Tasks : /\ task'[u].closed = task[u].closed
                         /\ u # t => task'[u] = task[u]
    BY <1>1, <1>i DEF ReadClock, TaskState
  <2>3. ReadingsKept /\ UNCHANGED <<recorded, staged, openMinute, intervals, hourly>>
    BY <1>1, <1>i, <2>1, <2>2, Zenon
    DEF ReadClock, ReadingsKept, accumVars, tableVars, historyVars
  <2>4. \A s \in recorded' : task'[s].pc \notin {"idle", "roll"}
    BY <1>i, <2>1, <2>2, <2>3, Zenon DEF FileInv
  <2>5. \A s \in staged' : StampedBy(openMinute, s)'
    BY <2>3, Zenon DEF FileInv, StampedBy, ReadingsKept
  <2>6. \A u \in Tasks : Stamped(task[u].closed)'
    BY <1>i, <2>2, <2>3 DEF FileInv, Stamped, StampedBy, ReadingsKept
  <2>7. InFlight' = InFlight
    BY <1>1, <1>w, Zenon DEF ReadClock
  <2> QED
    BY <2>3, <2>4, <2>5, <2>6, <2>7, FileFrame, Zenon
<1>2. ASSUME NEW t \in Tasks, NEW c, c = ClosedMinute(task[t].ts),
             task' = [task EXCEPT ![t] = Rolled(t, c)],
             openMinute' = NewStamp(task[t].ts),
             staged' = (staged \ c.entries) \cup ({t} \cap Shares),
             recorded' = recorded \cup ({t} \cap Shares),
             t \notin recorded,
             UNCHANGED <<writerVars, intervals, hourly>>
      PROVE  FileInv'
  <2>1. /\ Stamped(c) /\ c.entries \subseteq staged
        /\ openMinute' >= openMinute /\ openMinute' >= task[t].ts
    BY <1>2, RollStamped, Zenon
  <2>2. \A u \in Tasks : u # t => task'[u] = task[u]
    BY <1>2, <1>i, Zenon
  <2>3. /\ task'[t].closed = c
        /\ t \in Shares => task'[t].ts = task[t].ts /\ task'[t].pc \in {"done", "persist"}
    BY <1>2, <1>i, Zenon DEF Rolled, After
  <2>4. ReadingsKept
    BY <1>2, <1>i, <2>2, Zenon DEF ReadingsKept
  <2>5. \A s \in recorded' : task'[s].pc \notin {"idle", "roll"}
    BY <1>2, <1>i, <2>2, <2>3 DEF FileInv
  <2>6. ASSUME NEW s \in staged' PROVE StampedBy(openMinute, s)'
    <3>1. CASE s = t
      <4>1. t \in Shares /\ s \in recorded' /\ task'[s].ts = task[s].ts
        BY <1>2, <2>3, <2>6, <3>1 DEF TypeOK
      <4> QED
        BY <2>1, <3>1, <4>1, Zenon DEF StampedBy
    <3>2. CASE s # t
      <4>1. s \in staged /\ s \in recorded /\ openMinute >= task[s].ts
        BY <1>2, <2>6, <3>2, Zenon DEF FileInv, StampedBy
      <4>2. s \in recorded' /\ task'[s] = task[s]
        BY <1>2, <1>i, <2>2, <3>2, <4>1, Zenon
      <4>3. openMinute \in Nat /\ openMinute' \in Nat /\ task[s].ts \in Nat
        BY <1>2, <1>i, <4>1, RollTypes, Zenon DEF TypeOK, TaskState
      <4> QED
        BY <2>1, <4>1, <4>2, <4>3 DEF StampedBy
    <3> QED
      BY <3>1, <3>2, Zenon
  <2>7. \A u \in Tasks : Stamped(task[u].closed)'
    <3>1. \A u \in Tasks : Stamped(task[u].closed)
      BY Zenon DEF FileInv
    <3> QED
      BY <2>1, <2>2, <2>3, <2>4, <3>1, Zenon DEF Stamped, StampedBy, ReadingsKept
  <2>8. InFlight' = InFlight
    BY <1>2, <1>w, Zenon
  <2> QED
    BY <1>2, <2>4, <2>5, <2>6, <2>7, <2>8, FileFrame, Zenon
<1>3. ASSUME NEW s \in Shares, RecordLedger(s) PROVE FileInv'
  <2>1. s \notin recorded /\ {s} \cap Shares = {s}
    BY <1>3, Zenon DEF RecordLedger, FileInv
  <2> QED
    BY <1>2, <1>3, <1>i, <2>1, Zenon DEF RecordLedger, tableVars
<1>4. ASSUME NEW s \in Shares, RefuseUnknown(s) PROVE FileInv'
  <2>1. s \notin recorded
    BY <1>4, Zenon DEF RefuseUnknown, FileInv
  <2>2. \A u \in Tasks : /\ task'[u].closed = task[u].closed
                         /\ u # s => task'[u] = task[u]
    BY <1>4, <1>i DEF RefuseUnknown, TaskState
  <2>3. ReadingsKept /\ UNCHANGED <<recorded, staged, openMinute, intervals, hourly>>
    BY <1>4, <1>i, <2>1, <2>2, Zenon
    DEF RefuseUnknown, ReadingsKept, accumVars, tableVars, historyVars
  <2>4. \A r \in recorded' : task'[r].pc \notin {"idle", "roll"}
    BY <1>i, <2>1, <2>2, <2>3, Zenon DEF FileInv
  <2>5. \A r \in staged' : StampedBy(openMinute, r)'
    BY <2>3, Zenon DEF FileInv, StampedBy, ReadingsKept
  <2>6. \A u \in Tasks : Stamped(task[u].closed)'
    BY <1>i, <2>2, <2>3 DEF FileInv, Stamped, StampedBy, ReadingsKept
  <2>7. InFlight' = InFlight
    BY <1>4, <1>w, Zenon DEF RefuseUnknown
  <2> QED
    BY <2>3, <2>4, <2>5, <2>6, <2>7, FileFrame, Zenon
<1>5. ASSUME NEW t \in {"ticker", "shutdown"}, FlushLedgerAt(t) PROVE FileInv'
  <2>1. t \in Tasks /\ t \notin recorded /\ {t} \cap Shares = {}
    BY <1>i, Zenon
  <2> QED
    BY <1>2, <1>5, <2>1, Zenon DEF FlushLedgerAt, tableVars, historyVars
<1>6. ASSUME NEW t \in Tasks, NEW pc \in {"persist", "persist_open"}, NEW after,
             PersistLedgerMinute(t, pc, after),
             after \notin {"idle", "roll"} \/ t \notin recorded
      PROVE  FileInv'
  <2>1. \A u \in Tasks : /\ task'[u].ts = task[u].ts
                         /\ u # t => task'[u] = task[u]
    BY <1>6, <1>i DEF PersistLedgerMinute, TaskState
  <2>2. task'[t].pc = after /\ task'[t].closed = NoMinute
    BY <1>6, <1>i DEF PersistLedgerMinute, TaskState
  <2>3. ReadingsKept /\ UNCHANGED <<recorded, staged, openMinute, intervals, hourly>>
    BY <1>6, <1>i, <2>1, Zenon
    DEF PersistLedgerMinute, ReadingsKept, accumVars, tableVars, historyVars
  <2>4. \A s \in recorded' : task'[s].pc \notin {"idle", "roll"}
    BY <1>6, <1>i, <2>1, <2>2, <2>3 DEF FileInv
  <2>5. \A s \in staged' : StampedBy(openMinute, s)'
    BY <2>3, Zenon DEF FileInv, StampedBy, ReadingsKept
  <2>6. \A u \in Tasks : Stamped(task[u].closed)'
    <3>1. \A u \in Tasks : u # t => Stamped(task[u].closed)'
      BY <2>1, <2>3, Zenon DEF FileInv, Stamped, StampedBy, ReadingsKept
    <3>2. Stamped(task[t].closed)'
      BY <2>2 DEF Stamped, NoMinute, Ledger
    <3> QED
      BY <3>1, <3>2, Zenon
  <2>7. task[t].closed \in Write
    BY <1>i, Zenon DEF TaskState
  <2>8. InFlight' = InFlight \cup {task[t].closed}
    BY <1>6, <2>7, EnqueueStep, Zenon DEF PersistLedgerMinute, TypeOK
  <2>9. PICK c : c = task[t].closed
    BY Zenon
  <2>10. Stamped(c)'
    BY <1>k, <2>3, <2>9, Zenon DEF FileInv
  <2>11. \A w \in InFlight' : w \in InFlight \/ Stamped(w)'
    BY <2>8, <2>9, <2>10, Zenon
  <2> QED
    BY <2>3, <2>4, <2>5, <2>6, <2>11, FileFrame
<1>7. CASE TakeOpen
  <2> DEFINE t == "shutdown"
  <2>1. t \in Tasks /\ t \notin recorded
    BY <1>i, Zenon
  <2>2. \A u \in Tasks : u # t => task'[u] = task[u]
    BY <1>7, <1>i, Zenon DEF TakeOpen
  <2>3. task'[t].closed = Taken /\ staged' = {}
    BY <1>7, <1>i, Zenon DEF TakeOpen, TaskState
  <2> HIDE DEF t
  <2>4. ReadingsKept /\ UNCHANGED <<recorded, intervals, hourly>>
    BY <1>7, <1>i, <2>1, <2>2, Zenon DEF TakeOpen, ReadingsKept, tableVars
  <2>5. \A s \in recorded' : task'[s].pc \notin {"idle", "roll"}
    BY <1>i, <2>1, <2>2, <2>4, Zenon DEF FileInv
  <2>6. \A u \in Tasks : Stamped(task[u].closed)'
    <3>1. Stamped(Taken)
      BY <2>1, RollStamped, Zenon
    <3> QED
      BY <2>2, <2>3, <2>4, <3>1, Zenon DEF FileInv, Stamped, StampedBy, ReadingsKept
  <2>7. InFlight' = InFlight
    BY <1>7, <1>w, Zenon DEF TakeOpen
  <2> QED
    BY <2>3, <2>4, <2>5, <2>6, <2>7, FileFrame, Zenon
<1>8. ASSUME NEW pc \in {"wait", "acked"}, task' = [task EXCEPT !["shutdown"].pc = pc],
             UNCHANGED <<accumVars, recorded, intervals, hourly>>,
             InFlight' \subseteq InFlight \cup {Flush}
      PROVE  FileInv'
  <2>1. \A u \in Tasks : /\ task'[u].closed = task[u].closed /\ task'[u].ts = task[u].ts
                         /\ u # "shutdown" => task'[u] = task[u]
    BY <1>8, <1>i DEF TaskState
  <2>2. ReadingsKept
    BY <1>8, <1>i, <2>1, Zenon DEF ReadingsKept
  <2>3. \A s \in recorded' : task'[s].pc \notin {"idle", "roll"}
    BY <1>8, <1>i, <2>1 DEF FileInv
  <2>4. \A s \in staged' : StampedBy(openMinute, s)'
    BY <1>8, <2>2 DEF FileInv, StampedBy, ReadingsKept, accumVars
  <2>5. \A u \in Tasks : Stamped(task[u].closed)'
    BY <1>i, <2>1, <2>2 DEF FileInv, Stamped, StampedBy, ReadingsKept
  <2>6. Stamped(Flush)'
    BY Zenon DEF Flush, Stamped
  <2> QED
    BY <1>8, <2>2, <2>3, <2>4, <2>5, <2>6, FileFrame, Zenon
<1>9. CASE SendFlush
  <2>1. InFlight' = InFlight \cup {Flush}
    BY <1>9, WriteTypes, EnqueueStep DEF SendFlush, TypeOK
  <2> QED
    BY <1>8, <1>9, <2>1, Zenon DEF SendFlush, tableVars, historyVars
<1>10. CASE ApplyFlush
  <2>1. InFlight' \subseteq InFlight
    BY <1>10, AppliedStep, Zenon DEF ApplyFlush, TypeOK
  <2> QED
    BY <1>8, <1>10, <2>1 DEF ApplyFlush, tableVars, historyVars
<1>11. CASE ApplyLedger
  <2> DEFINE rows == intervals \cup NewRows(Current)
             due == Due(rows, Current.minute_ts)
  <2>1. intervals' = rows \ due /\ hourly' = hourly \cup RolledUp(due)
    BY <1>11, Zenon DEF ApplyLedger
  <2>2. due \subseteq rows
    BY Zenon DEF Due
  <2>3. \A h \in RolledUp(due) : \E r \in due : h.share = r.share /\ h.ts = Hour(r.ts)
    <3>1. due \subseteq Row
      BY <1>11, CurrentInFlight, MinuteWritten DEF TypeOK, ApplyLedger, Due
    <3> HIDE DEF due
    <3> QED
      BY <3>1, Zenon DEF RolledUp, Row
  <2> HIDE DEF due
  <2> QED
    BY <1>11, <2>1, <2>2, <2>3, FileCommitted, Zenon DEF ApplyLedger, ApplyUnchanged
<1>12. CASE RollUpFails
  BY <1>12, FileCommitted, Zenon DEF RollUpFails, ApplyUnchanged
<1>13. CASE LedgerFails
  <2>1. InFlight' \subseteq InFlight
    BY <1>13, FailedStep, Zenon DEF LedgerFails, TypeOK, IsDurable
  <2> QED
    BY <1>13, <2>1, FileQuiet, Zenon DEF LedgerFails, ApplyUnchanged
<1>14. CASE WriterReceives
  <2>1. InFlight' = InFlight
    BY <1>14, ReceiveStep, Zenon DEF WriterReceives, TypeOK
  <2> QED
    BY <1>14, <2>1, FileQuiet, Zenon DEF WriterReceives, tableVars, historyVars
<1>15. CASE Reboot
  <2>1. /\ staged' = {} /\ UNCHANGED <<recorded, intervals, hourly>>
        /\ task' = [t \in Tasks |-> IF t \in Shares /\ task[t].pc # "idle"
                                THEN [pc |-> "done", ts |-> task[t].ts, closed |-> NoMinute]
                                ELSE Idle]
    BY <1>15, Zenon DEF Reboot
  <2>5. ASSUME NEW t \in Tasks PROVE task'[t].closed = NoMinute
    <3>1. \/ task'[t] = [pc |-> "done", ts |-> task[t].ts, closed |-> NoMinute]
          \/ task'[t] = Idle
      BY <2>1, Zenon
    <3> QED
      BY <3>1 DEF Idle
  <2>6. ASSUME NEW s \in recorded
        PROVE  task'[s].ts = task[s].ts /\ task'[s].pc = "done"
    <3>1. s \in Tasks /\ s \in Shares /\ task[s].pc # "idle"
      BY <1>i, Zenon DEF FileInv
    <3>2. task'[s] = [pc |-> "done", ts |-> task[s].ts, closed |-> NoMinute]
      BY <2>1, <3>1, Zenon
    <3> QED
      BY <3>2
  <2>7. ReadingsKept
    BY <2>1, <2>6, Zenon DEF ReadingsKept
  <2>8. \A u \in Tasks : Stamped(task[u].closed)'
    BY <2>5 DEF Stamped, NoMinute, Ledger
  <2>9. InFlight' = {}
    BY <1>15, LostStep, Zenon DEF Reboot
  <2> QED
    BY <2>1, <2>6, <2>7, <2>8, <2>9, FileFrame
<1>16. CASE Tick \/ StepBack \/ UNCHANGED vars
  <2>1. UNCHANGED <<writerVars, accumVars, task, recorded, intervals, hourly>>
    BY <1>16, Zenon DEF Tick, StepBack, vars, tableVars, historyVars
  <2> QED
    BY <1>w, <2>1, FileQuiet, Zenon
<1>17. ASSUME NEW t \in Tasks, Persist(t) PROVE FileInv'
  BY <1>6, <1>17, <1>i, Zenon DEF Persist, After
<1>18. CASE PersistOpen
  BY <1>6, <1>18, <1>i, Zenon DEF PersistOpen
<1> QED
  BY <1>1, <1>3, <1>4, <1>5, <1>7, <1>9, <1>10, <1>11, <1>12, <1>13, <1>14, <1>15, <1>16,
     <1>17, <1>18
  DEF Next, Call, Shutdown, ApplyWrite, Crash, Exit

(* A share is never filed under a minute before the one its session read,  *)
(* nor under an earlier hour once rolled up.                               *)
THEOREM SharesAreNotBackdated == Spec => []NeverFiledEarly
<1>1. Init => FileInv
  <2> SUFFICES ASSUME Init PROVE FileInv
    BY Zenon
  <2>1. InFlight = {}
    BY WriterStarts, Zenon DEF Init
  <2>2. Stamped(NoMinute)
    BY Zenon DEF Stamped, NoMinute, Ledger
  <2> QED
    BY <2>1, <2>2, Zenon DEF Init, FileInv, Idle
<1>2. FileInv => NeverFiledEarly
  BY Zenon DEF FileInv, NeverFiledEarly, StampedBy
<1> QED
  BY <1>1, <1>2, LedgerTypeCorrect, FileStep, PTL DEF Spec

-----------------------------------------------------------------------------
(* Work is conserved.  A share is in a write at one index, in one of the   *)
(* writer's three sequences ...                                            *)
Sits(s, writes) == \E i \in DOMAIN writes : s \in writes[i].entries
Single(s, writes) ==
    \A i, j \in DOMAIN writes : s \in writes[i].entries /\ s \in writes[j].entries => i = j

InWriter(s) == Sits(s, backlog) \/ Sits(s, inHand) \/ Sits(s, queue)
WriterOnce(s) ==
    /\ Single(s, backlog) /\ Single(s, inHand) /\ Single(s, queue)
    /\ ~(Sits(s, backlog) /\ Sits(s, inHand))
    /\ ~(Sits(s, backlog) /\ Sits(s, queue))
    /\ ~(Sits(s, inHand) /\ Sits(s, queue))

(* ... in one caller's closed minute, in one row of one table ... *)
IsHeld(s) == \E t \in Tasks : s \in task[t].closed.entries
HeldByOne(s) ==
    \A t, u \in Tasks : s \in task[t].closed.entries /\ s \in task[u].closed.entries => t = u

RowOf(s, rows) == \E r \in rows : r.share = s
OneRow(s, rows) == \A q, r \in rows : q.share = s /\ r.share = s => q = r
Filed(s) == RowOf(s, intervals) \/ RowOf(s, hourly)
FiledOnce(s) ==
    OneRow(s, intervals) /\ OneRow(s, hourly) /\ ~(RowOf(s, intervals) /\ RowOf(s, hourly))

(* ... and in one of the four places if it has been recorded and is not    *)
(* forfeited; in none otherwise.                                           *)
OnePlace(s) ==
    /\ WriterOnce(s) /\ HeldByOne(s) /\ FiledOnce(s)
    /\ s \in staged => ~IsHeld(s) /\ ~InWriter(s) /\ ~Filed(s)
    /\ IsHeld(s) => ~InWriter(s) /\ ~Filed(s)
    /\ InWriter(s) => ~Filed(s)
    /\ s \in forfeited => s \in recorded
    /\ s \in recorded \ forfeited <=> s \in staged \/ IsHeld(s) \/ InWriter(s) \/ Filed(s)

(* A caller holds a minute only until it has queued it.  A Flush is empty, *)
(* and the shutdown waits for it.                                          *)
Shape ==
    /\ \A t \in Tasks : /\ task[t].closed.kind = "Ledger"
                        /\ task[t].pc \notin {"persist", "persist_open"} => task[t].closed.entries = {}
    /\ \A w \in InFlight : w.kind = "Flush" => w.entries = {} /\ task["shutdown"].pc \in {"wait", "acked"}

OnceInv == Shape /\ \A s \in Shares : OnePlace(s)

(* What a shutdown answered for waits before its Flush, or is parked, or   *)
(* has arrived.                                                            *)
IsFlush(writes) == \E i \in DOMAIN writes : writes[i].kind = "Flush"
BeforeFlush(s) ==
    /\ IsFlush(inHand) => ~Sits(s, queue)
    /\ \A i, j \in DOMAIN queue : s \in queue[i].entries /\ queue[j].kind = "Flush" => i < j

AnsweredFor(s, pc) ==
    /\ s \notin staged /\ pc \in {"persist_open", "send_flush", "wait", "acked"}
    /\ \A t \in Tasks \ {"shutdown"} : s \notin task[t].closed.entries
    /\ s \in task["shutdown"].closed.entries => pc = "persist_open"
    /\ pc = "acked" => ~Sits(s, inHand) /\ ~Sits(s, queue)
    /\ BeforeFlush(s)

WordInv ==
    /\ covered \subseteq recorded
    /\ ~IsFlush(backlog)
    /\ \A s \in covered : AnsweredFor(s, task["shutdown"].pc)

(* Where a share sits after a write is appended, or the first one taken. *)
LEMMA SitsAppend ==
    ASSUME NEW q \in Seq(Write), NEW w \in Write, NEW s
    PROVE  /\ Sits(s, Append(q, w)) <=> Sits(s, q) \/ s \in w.entries
           /\ Single(s, q) /\ ~(Sits(s, q) /\ s \in w.entries) => Single(s, Append(q, w))
           /\ IsFlush(Append(q, w)) <=> IsFlush(q) \/ w.kind = "Flush"
<1>1. /\ DOMAIN Append(q, w) = DOMAIN q \cup {Len(q) + 1} /\ Len(q) + 1 \notin DOMAIN q
      /\ \A i \in DOMAIN q : Append(q, w)[i] = q[i]
      /\ Append(q, w)[Len(q) + 1] = w
  OBVIOUS
<1> QED
  BY <1>1, Zenon DEF Sits, Single, IsFlush

\* Where a share sits in a queue: at its head, or behind it.
LEMMA SitsTail ==
    ASSUME NEW q \in Seq(Write), q # <<>>, NEW s
    PROVE  /\ Sits(s, q) <=> s \in Head(q).entries \/ Sits(s, Tail(q))
           /\ Single(s, q) => Single(s, Tail(q)) /\ ~(s \in Head(q).entries /\ Sits(s, Tail(q)))
           /\ IsFlush(q) <=> Head(q).kind = "Flush" \/ IsFlush(Tail(q))
<1>1. /\ Len(q) \in Nat \ {0} /\ DOMAIN q = 1..Len(q) /\ DOMAIN Tail(q) = 1..(Len(q) - 1)
      /\ Head(q) = q[1] /\ \A i \in 1..(Len(q) - 1) : Tail(q)[i] = q[i + 1]
  OBVIOUS
<1>2. \A n \in Nat \ {0} : /\ 1 \in 1..n
                           /\ \A i \in 1..(n - 1) : i + 1 \in 1..n /\ i + 1 # 1
                           /\ \A i, j \in 1..(n - 1) : i + 1 = j + 1 => i = j
                           /\ \A i \in 1..n : i # 1 => \E j \in 1..(n - 1) : i = j + 1
  <2>1. \A n \in Nat \ {0} : \A i \in 1..n : i # 1 => i - 1 \in 1..(n - 1) /\ i = (i - 1) + 1
    OBVIOUS
  <2> QED
    BY <2>1
<1>3. /\ 1 \in DOMAIN q /\ \A i \in DOMAIN Tail(q) : i + 1 \in DOMAIN q /\ i + 1 # 1 /\ Tail(q)[i] = q[i + 1]
      /\ \A i, j \in DOMAIN Tail(q) : i + 1 = j + 1 => i = j
      /\ \A i \in DOMAIN q : i # 1 => \E j \in DOMAIN Tail(q) : i = j + 1
  BY <1>1, <1>2, Zenon
<1>5. Sits(s, q) <=> s \in Head(q).entries \/ Sits(s, Tail(q))
  BY <1>1, <1>3 DEF Sits
<1>6. Single(s, q) => Single(s, Tail(q)) /\ ~(s \in Head(q).entries /\ Sits(s, Tail(q)))
  BY <1>1, <1>3, Zenon DEF Sits, Single
<1>7. IsFlush(q) <=> Head(q).kind = "Flush" \/ IsFlush(Tail(q))
  BY <1>1, <1>3 DEF IsFlush
<1> QED
  BY <1>5, <1>6, <1>7, Zenon

\* The same of the empty queue, and of a queue of one write.
LEMMA SitsOne ==
    ASSUME NEW w \in Write, NEW s
    PROVE  /\ ~Sits(s, <<>>) /\ Single(s, <<>>) /\ ~IsFlush(<<>>)
           /\ Sits(s, <<w>>) <=> s \in w.entries
           /\ Single(s, <<w>>) /\ (IsFlush(<<w>>) <=> w.kind = "Flush")
<1>1. DOMAIN <<>> = {} /\ DOMAIN <<w>> = {1} /\ <<w>>[1] = w
  OBVIOUS
<1> QED
  BY <1>1, Zenon DEF Sits, Single, IsFlush

(* `next` holds one write. *)
LEMMA InHandOne ==
    ASSUME WriterTypeOK(Write), inHand # <<>>
    PROVE  Head(inHand) \in Write /\ inHand = <<Head(inHand)>>
<1>1. inHand \in Seq(Write) /\ Len(inHand) <= 1
  BY Zenon DEF WriterTypeOK
<1>2. Len(inHand) \in Nat \ {0} /\ Head(inHand) \in Write
  BY <1>1, RangeTail, Zenon
<1>3. \A n \in Nat \ {0} : n <= 1 => n = 1
  OBVIOUS
<1>4. Len(inHand) = 1
  BY <1>1, <1>2, <1>3, Zenon
<1> QED
  BY <1>1, <1>2, <1>4

(* The writer moves a share from sequence to sequence, and never copies it. *)
LEMMA OnceEnqueue ==
    ASSUME WriterTypeOK(Write), NEW w \in Write, Enqueue(w), NEW s
    PROVE  /\ InWriter(s)' <=> InWriter(s) \/ s \in w.entries
           /\ WriterOnce(s) /\ ~(InWriter(s) /\ s \in w.entries) => WriterOnce(s)'
<1>1. queue \in Seq(Write) /\ queue' = Append(queue, w) /\ inHand' = inHand /\ backlog' = backlog
  BY Zenon DEF WriterTypeOK, Enqueue
<1>2. /\ Sits(s, queue') <=> Sits(s, queue) \/ s \in w.entries
      /\ Single(s, queue) /\ ~(Sits(s, queue) /\ s \in w.entries) => Single(s, queue')
  BY <1>1, SitsAppend, Zenon
<1> QED
  BY <1>1, <1>2, Zenon DEF InWriter, WriterOnce

\* Taking a write in hand moves shares within the writer.
LEMMA OnceReceive ==
    ASSUME WriterTypeOK(Write), ReceiveWrite \/ ReceiveTimeout, NEW s
    PROVE  (InWriter(s)' <=> InWriter(s)) /\ (WriterOnce(s) => WriterOnce(s)')
<1>1. CASE ReceiveWrite
  <2>1. /\ queue \in Seq(Write) /\ queue # <<>> /\ inHand = <<>>
        /\ inHand' = <<Head(queue)>> /\ queue' = Tail(queue) /\ backlog' = backlog
    BY <1>1, Zenon DEF WriterTypeOK, ReceiveWrite, Waiting
  <2>2. Head(queue) \in Write
    BY <2>1, RangeTail, Zenon
  <2>3. /\ Sits(s, queue) <=> Sits(s, inHand') \/ Sits(s, queue')
        /\ Single(s, queue) => Single(s, queue') /\ ~(Sits(s, inHand') /\ Sits(s, queue'))
        /\ Single(s, inHand') /\ ~Sits(s, inHand)
    BY <2>1, <2>2, SitsTail, SitsOne, Zenon
  <2> QED
    BY <2>1, <2>3, Zenon DEF InWriter, WriterOnce
<1>2. CASE ReceiveTimeout
  BY <1>2, Zenon DEF ReceiveTimeout, InWriter, WriterOnce
<1> QED
  BY <1>1, <1>2, Zenon

\* A write that is applied takes its shares out of the writer, and no others.
LEMMA OnceApplied ==
    ASSUME WriterTypeOK(Write), Attempting, WriteApplied, NEW s
    PROVE  /\ s \in Current.entries => InWriter(s)
           /\ WriterOnce(s) => WriterOnce(s)' /\ (InWriter(s)' <=> InWriter(s) /\ s \notin Current.entries)
<1>1. CASE RetryApplied
  <2>1. /\ backlog \in Seq(Write) /\ backlog # <<>> /\ Current = Head(backlog)
        /\ backlog' = Tail(backlog) /\ inHand' = inHand /\ queue' = queue
    BY <1>1 DEF WriterTypeOK, RetryApplied, Current
  <2>2. /\ Sits(s, backlog) <=> s \in Current.entries \/ Sits(s, backlog')
        /\ Single(s, backlog) => Single(s, backlog') /\ ~(s \in Current.entries /\ Sits(s, backlog'))
    BY <2>1, SitsTail
  <2> QED
    BY <2>1, <2>2, Zenon DEF InWriter, WriterOnce
<1>2. CASE HandleApplied
  <2>1. /\ inHand # <<>> /\ Current = Head(inHand)
        /\ backlog' = backlog /\ inHand' = <<>> /\ queue' = queue
    BY <1>2 DEF HandleApplied, Current
  <2>2. /\ Sits(s, inHand) <=> s \in Current.entries
        /\ Single(s, inHand') /\ ~Sits(s, inHand')
    BY <2>1, InHandOne, SitsOne
  <2> QED
    BY <2>1, <2>2, Zenon DEF InWriter, WriterOnce
<1> QED
  BY <1>1, <1>2, Zenon DEF WriteApplied

\* A write that fails keeps its shares in the writer, but for those evicted.
LEMMA OnceFailed ==
    ASSUME WriterTypeOK(Write), Attempting, WriteFailed(TRUE), NEW s
    PROVE  /\ s \in Evicted => InWriter(s)
           /\ WriterOnce(s) => WriterOnce(s)' /\ (InWriter(s)' <=> InWriter(s) /\ s \notin Evicted)
<1>1. CASE RetryFailed
  <2>1. Evicted = {} /\ UNCHANGED <<queue, inHand, backlog>>
    BY <1>1 DEF RetryFailed, Evicted
  <2> QED
    BY <2>1, Zenon DEF InWriter, WriterOnce
<1>2. CASE HandleFailed(TRUE)
  <2>1. /\ backlog \in Seq(Write) /\ inHand # <<>> /\ inHand' = <<>> /\ queue' = queue
        /\ retries = 0 /\ backlog' = Park(Head(inHand))
    BY <1>2, Zenon DEF WriterTypeOK, HandleFailed
  <2>2. Head(inHand) \in Write /\ inHand = <<Head(inHand)>>
    BY <2>1, InHandOne
  <2>3. /\ Sits(s, inHand) <=> s \in Head(inHand).entries
        /\ Single(s, inHand') /\ ~Sits(s, inHand')
    BY <2>1, <2>2, SitsOne
  <2>4. CASE ~Full
    <3>1. backlog' = Append(backlog, Head(inHand)) /\ Evicted = {}
      BY <2>1, <2>4, Zenon DEF Park, Evicted
    <3>2. /\ Sits(s, backlog') <=> Sits(s, backlog) \/ s \in Head(inHand).entries
          /\ Single(s, backlog) /\ ~(Sits(s, backlog) /\ s \in Head(inHand).entries) => Single(s, backlog')
      BY <2>1, <2>2, <3>1, SitsAppend, Zenon
    <3> QED
      BY <2>1, <2>3, <3>1, <3>2, Zenon DEF InWriter, WriterOnce
  <2>5. CASE Full
    <3>1. backlog # <<>>
      BY <2>5, MaxBacklogAssumption DEF Full
    <3>2. /\ backlog' = Append(Tail(backlog), Head(inHand)) /\ Evicted = Head(backlog).entries
          /\ Tail(backlog) \in Seq(Write)
      BY <2>1, <2>5, <3>1, RangeTail DEF Park, Evicted
    <3>3. /\ Sits(s, backlog') <=> Sits(s, Tail(backlog)) \/ s \in Head(inHand).entries
          /\ Single(s, Tail(backlog)) /\ ~(Sits(s, Tail(backlog)) /\ s \in Head(inHand).entries)
               => Single(s, backlog')
      BY <2>2, <3>2, SitsAppend, Zenon
    <3>4. /\ Sits(s, backlog) <=> s \in Evicted \/ Sits(s, Tail(backlog))
          /\ Single(s, backlog) => Single(s, Tail(backlog)) /\ ~(s \in Evicted /\ Sits(s, Tail(backlog)))
      BY <2>1, <3>1, <3>2, SitsTail
    <3> QED
      BY <2>1, <2>3, <3>3, <3>4, Zenon DEF InWriter, WriterOnce
  <2> QED
    BY <2>4, <2>5
<1> QED
  BY <1>1, <1>2, Zenon DEF WriteFailed

\* A dead process has no writer.
LEMMA OnceLost ==
    ASSUME WriterLost, NEW s
    PROVE  ~InWriter(s)' /\ WriterOnce(s)'
<1>1. Flush \in Write
  BY WriteTypes, Zenon
<1> QED
  BY <1>1, SitsOne, Zenon DEF WriterLost, InWriter, WriterOnce

(* A caller that holds nothing takes a minute; one that holds a minute lets it go. *)
LEMMA HeldTaken ==
    ASSUME NEW t \in Tasks, NEW c, task[t].closed.entries = {}, task'[t].closed.entries = c,
           \A u \in Tasks \ {t} : task'[u].closed.entries = task[u].closed.entries, NEW s
    PROVE  /\ IsHeld(s)' <=> IsHeld(s) \/ s \in c
           /\ HeldByOne(s) /\ ~(IsHeld(s) /\ s \in c) => HeldByOne(s)'
BY Zenon DEF IsHeld, HeldByOne

\* A caller that lets go of its minute takes no other caller's shares along.
LEMMA HeldReleased ==
    ASSUME NEW t \in Tasks, task'[t].closed.entries = {},
           \A u \in Tasks \ {t} : task'[u].closed.entries = task[u].closed.entries, NEW s, HeldByOne(s)
    PROVE  /\ IsHeld(s)' <=> IsHeld(s) /\ s \notin task[t].closed.entries
           /\ HeldByOne(s)'
BY Zenon DEF IsHeld, HeldByOne

(* A committed minute has one row for each share that it could file. *)
LEMMA MinuteRows ==
    ASSUME NEW write \in Write, NEW s
    PROVE  /\ RowOf(s, NewRows(write)) <=> s \in write.entries /\ Resolved(WorkerOf[s]) # 0
           /\ OneRow(s, NewRows(write))
<1>1. \A r \in NewRows(write) :
         /\ r.share \in write.entries /\ Resolved(WorkerOf[r.share]) # 0
         /\ r = [worker_id |-> Resolved(WorkerOf[r.share]), ts |-> write.minute_ts, share |-> r.share]
  BY DEF NewRows
<1>2. ASSUME s \in write.entries, Resolved(WorkerOf[s]) # 0 PROVE RowOf(s, NewRows(write))
  <2>1. [worker_id |-> Resolved(WorkerOf[s]), ts |-> write.minute_ts, share |-> s] \in NewRows(write)
    BY <1>2, Zenon DEF NewRows
  <2> QED
    BY <2>1, Zenon DEF RowOf
<1>3. RowOf(s, NewRows(write)) => s \in write.entries /\ Resolved(WorkerOf[s]) # 0
  BY <1>1, Zenon DEF RowOf
<1>4. OneRow(s, NewRows(write))
  BY <1>1, Zenon DEF OneRow
<1> QED
  BY <1>2, <1>3, <1>4

\* A share is in rows of two sets just if it is in a row of either.
LEMMA RowsJoined ==
    ASSUME NEW A, NEW B, NEW s
    PROVE  /\ RowOf(s, A \cup B) <=> RowOf(s, A) \/ RowOf(s, B)
           /\ OneRow(s, A) /\ OneRow(s, B) /\ ~(RowOf(s, A) /\ RowOf(s, B)) => OneRow(s, A \cup B)
BY Zenon DEF RowOf, OneRow

(* The rollup takes a row out of one table and puts it into the other. *)
LEMMA RowsRolledUp ==
    ASSUME NEW rows \in SUBSET Row, NEW due \in SUBSET rows, NEW s, OneRow(s, rows)
    PROVE  /\ RowOf(s, rows) <=> RowOf(s, rows \ due) \/ RowOf(s, RolledUp(due))
           /\ ~(RowOf(s, rows \ due) /\ RowOf(s, RolledUp(due)))
           /\ OneRow(s, rows \ due) /\ OneRow(s, RolledUp(due))
<1>1. \A r \in due : [r EXCEPT !.ts = Hour(r.ts)].share = r.share
  BY Zenon DEF Row
<1>2. /\ \A r \in due : [r EXCEPT !.ts = Hour(r.ts)] \in RolledUp(due)
      /\ \A h \in RolledUp(due) : \E r \in due : h = [r EXCEPT !.ts = Hour(r.ts)]
  BY Zenon DEF RolledUp
<1>3. RowOf(s, RolledUp(due)) <=> RowOf(s, due)
  <2>1. ASSUME NEW r \in due, r.share = s PROVE RowOf(s, RolledUp(due))
    <3>1. [r EXCEPT !.ts = Hour(r.ts)] \in RolledUp(due) /\ [r EXCEPT !.ts = Hour(r.ts)].share = s
      BY <1>1, <1>2, <2>1
    <3> QED
      BY <3>1, Zenon DEF RowOf
  <2>2. ASSUME NEW h \in RolledUp(due), h.share = s PROVE RowOf(s, due)
    <3>1. PICK r \in due : h = [r EXCEPT !.ts = Hour(r.ts)]
      BY <1>2, Zenon
    <3>2. r.share = s
      BY <1>1, <2>2, <3>1
    <3> QED
      BY <3>2, Zenon DEF RowOf
  <2> QED
    BY <2>1, <2>2, Zenon DEF RowOf
<1>4. OneRow(s, RolledUp(due))
  <2> SUFFICES ASSUME NEW g \in RolledUp(due), NEW h \in RolledUp(due), g.share = s, h.share = s PROVE g = h
    BY Zenon DEF OneRow
  <2>1. PICK q \in due : g = [q EXCEPT !.ts = Hour(q.ts)]
    BY <1>2, Zenon
  <2>2. PICK r \in due : h = [r EXCEPT !.ts = Hour(r.ts)]
    BY <1>2, Zenon
  <2>3. q.share = s /\ r.share = s
    BY <1>1, <2>1, <2>2
  <2>4. q = r
    BY <2>3, Zenon DEF OneRow
  <2> QED
    BY <2>1, <2>2, <2>4
<1> QED
  BY <1>3, <1>4, Zenon DEF RowOf, OneRow

\* A closed minute holds all that was staged, or nothing.
LEMMA ClosedShape ==
    ASSUME TypeOK, NEW t \in Tasks
    PROVE  /\ Taken.kind = "Ledger" /\ Taken.entries = staged
           /\ ClosedMinute(task[t].ts).kind = "Ledger"
           /\ ClosedMinute(task[t].ts).entries \in {{}, staged}
BY Zenon DEF ClosedMinute, Taken, NoMinute, Ledger

(* A step of one caller, with nothing new for the writer but its minute. *)
LEMMA ShapeCaller ==
    ASSUME TypeOK, Shape, NEW t \in Tasks, NEW v, task' = [task EXCEPT ![t] = v],
           v.closed.kind = "Ledger", v.pc \notin {"persist", "persist_open"} => v.closed.entries = {},
           \A w \in InFlight' : w \in InFlight \/ w.kind = "Ledger",
           t = "shutdown" => task[t].pc \notin {"wait", "acked"}
    PROVE  Shape'
<1>1. DOMAIN task = Tasks /\ task'[t] = v /\ \A u \in Tasks \ {t} : task'[u] = task[u]
  BY Zenon DEF TypeOK
<1>2. \A u \in Tasks : /\ task'[u].closed.kind = "Ledger"
                       /\ task'[u].pc \notin {"persist", "persist_open"} => task'[u].closed.entries = {}
  BY <1>1, Zenon DEF Shape
<1>3. ASSUME NEW w \in InFlight', w.kind = "Flush"
      PROVE  w.entries = {} /\ task'["shutdown"].pc \in {"wait", "acked"}
  <2>1. w \in InFlight /\ w.entries = {} /\ task["shutdown"].pc \in {"wait", "acked"}
    BY <1>3, Zenon DEF Shape
  <2>2. t # "shutdown" /\ "shutdown" \in Tasks
    BY <2>1 DEF Tasks
  <2> QED
    BY <1>1, <2>1, <2>2
<1> QED
  BY <1>2, <1>3 DEF Shape

\* Every step keeps the shape of what callers hold and what is queued.
LEMMA ShapeStep ==
    ASSUME TypeOK, Shape, [Next]_vars
    PROVE  Shape'
<1> USE ShareLedgerAssumption
<1>i. /\ Shares \subseteq Tasks /\ "ticker" \in Tasks /\ "shutdown" \in Tasks
      /\ DOMAIN task = Tasks /\ \A t \in Tasks : task[t] \in TaskState
      /\ "shutdown" \notin Shares
  BY Zenon DEF TypeOK, Tasks
<1>w. ASSUME UNCHANGED writerVars PROVE InFlight' = InFlight
  BY <1>w, WriterIdle DEF TypeOK
<1>q. ASSUME NEW w \in Write, Enqueue(w) PROVE InFlight' = InFlight \cup {w}
  BY <1>q, EnqueueStep DEF TypeOK
<1>f. ASSUME UNCHANGED task, InFlight' \subseteq InFlight PROVE Shape'
  BY <1>f, Zenon DEF Shape
<1>1. ASSUME NEW t \in Tasks, ReadClock(t) PROVE Shape'
  <2>1. task' = [task EXCEPT ![t] = [task[t] EXCEPT !.pc = "roll", !.ts = now]] /\ task[t].pc = "idle"
    BY <1>1, Zenon DEF ReadClock
  <2>2. [task[t] EXCEPT !.pc = "roll", !.ts = now].closed = task[t].closed
    BY <1>i, Zenon DEF TaskState
  <2>3. task[t].closed.kind = "Ledger" /\ task[t].closed.entries = {}
    BY <2>1 DEF Shape
  <2>4. InFlight' = InFlight
    BY <1>1, <1>w DEF ReadClock
  <2> QED
    BY <2>1, <2>2, <2>3, <2>4, ShapeCaller, Zenon
<1>2. ASSUME NEW t \in Tasks, task[t].pc = "roll", UNCHANGED writerVars,
             task' = [task EXCEPT ![t] = Rolled(t, ClosedMinute(task[t].ts))]
      PROVE  Shape'
  <2>1. /\ Rolled(t, ClosedMinute(task[t].ts)).closed.kind = "Ledger"
        /\ Rolled(t, ClosedMinute(task[t].ts)).pc # "persist" =>
             Rolled(t, ClosedMinute(task[t].ts)).closed.entries = {}
    BY ClosedShape, Zenon DEF Rolled
  <2>2. InFlight' = InFlight
    BY <1>2, <1>w, Zenon
  <2> QED
    BY <1>2, <2>1, <2>2, ShapeCaller, Zenon
<1>3. ASSUME NEW s \in Shares, RecordLedger(s) PROVE Shape'
  BY <1>2, <1>3, <1>i, Zenon DEF RecordLedger
<1>4. ASSUME NEW s \in Shares, RefuseUnknown(s) PROVE Shape'
  <2>1. task' = [task EXCEPT ![s] = [task[s] EXCEPT !.pc = "done"]] /\ task[s].pc = "roll"
    BY <1>4 DEF RefuseUnknown
  <2>2. [task[s] EXCEPT !.pc = "done"].closed = task[s].closed
    BY <1>i, Zenon DEF TaskState
  <2>3. task[s].closed.kind = "Ledger" /\ task[s].closed.entries = {}
    BY <1>i, <2>1 DEF Shape
  <2>4. InFlight' = InFlight
    BY <1>4, <1>w DEF RefuseUnknown
  <2> QED
    BY <1>i, <2>1, <2>2, <2>3, <2>4, ShapeCaller, Zenon
<1>5. ASSUME NEW t \in {"ticker", "shutdown"}, FlushLedgerAt(t) PROVE Shape'
  BY <1>2, <1>5, <1>i, Zenon DEF FlushLedgerAt
<1>6. ASSUME NEW t \in Tasks, NEW pc \in {"persist", "persist_open"}, NEW after,
             PersistLedgerMinute(t, pc, after)
      PROVE  Shape'
  <2>1. /\ task' = [task EXCEPT ![t] = [task[t] EXCEPT !.pc = after, !.closed = NoMinute]] /\ task[t].pc = pc
        /\ Enqueue(task[t].closed)
    BY <1>6, Zenon DEF PersistLedgerMinute
  <2>2. [task[t] EXCEPT !.pc = after, !.closed = NoMinute].closed = NoMinute
    BY <1>i, Zenon DEF TaskState
  <2>3. NoMinute.kind = "Ledger" /\ NoMinute.entries = {}
    BY Zenon DEF NoMinute, Ledger
  <2>4. InFlight' = InFlight \cup {task[t].closed} /\ task[t].closed.kind = "Ledger"
    BY <1>i, <1>q, <2>1 DEF Shape, TaskState
  <2> QED
    BY <2>1, <2>2, <2>3, <2>4, ShapeCaller, Zenon
<1>7. CASE TakeOpen
  <2>1. /\ task["shutdown"].pc = "take_open"
        /\ task' = [task EXCEPT !["shutdown"] =
                     [task["shutdown"] EXCEPT !.pc = IF staged = {} THEN "send_flush" ELSE "persist_open",
                                              !.closed = Taken]]
    BY <1>7, Zenon DEF TakeOpen
  <2> SUFFICES ASSUME NEW v, v = [task["shutdown"] EXCEPT
                                    !.pc = IF staged = {} THEN "send_flush" ELSE "persist_open",
                                    !.closed = Taken]
               PROVE  Shape'
    BY Zenon
  <2>2. v.closed = Taken /\ (v.pc # "persist_open" => staged = {})
    BY <1>i DEF TaskState
  <2>3. InFlight' = InFlight
    BY <1>7, <1>w DEF TakeOpen
  <2> QED
    BY <1>i, <2>1, <2>2, <2>3, ShapeCaller, ClosedShape, Zenon
<1>8. ASSUME NEW pc \in {"wait", "acked"}, task' = [task EXCEPT !["shutdown"].pc = pc],
             task["shutdown"].pc \in {"send_flush", "wait", "acked"}, InFlight' \subseteq InFlight \cup {Flush}
      PROVE  Shape'
  <2>1. /\ task'["shutdown"].pc = pc /\ task'["shutdown"].closed = task["shutdown"].closed
        /\ \A u \in Tasks \ {"shutdown"} : task'[u] = task[u]
    BY <1>8, <1>i DEF TaskState
  <2>2. Flush.entries = {}
    BY Zenon DEF Flush
  <2> QED
    BY <1>8, <1>i, <2>1, <2>2 DEF Shape
<1>9. CASE SendFlush
  BY <1>8, <1>9, <1>q, WriteTypes, Zenon DEF SendFlush
<1>10. ASSUME Attempting, WriteApplied PROVE InFlight' \subseteq InFlight /\ Current \in InFlight
  BY <1>10, AppliedStep, CurrentInFlight, Zenon DEF TypeOK
<1>11. CASE ApplyFlush
  <2>1. task["shutdown"].pc \in {"wait", "acked"}
    BY <1>10, <1>11, Zenon DEF ApplyFlush, Shape
  <2> QED
    BY <1>8, <1>10, <1>11, <2>1, Zenon DEF ApplyFlush
<1>12. CASE ApplyLedger \/ RollUpFails
  BY <1>10, <1>12, <1>f, Zenon DEF ApplyLedger, RollUpFails
<1>13. CASE LedgerFails
  BY <1>13, <1>f, FailedStep, Zenon DEF LedgerFails, TypeOK, IsDurable
<1>14. CASE WriterReceives
  BY <1>14, <1>f, ReceiveStep, Zenon DEF WriterReceives, TypeOK
<1>15. CASE Reboot
  <2>1. InFlight' = {}
    BY <1>15, LostStep, Zenon DEF Reboot
  <2>2. \A t \in Tasks : task'[t].closed = NoMinute
    BY <1>15, Zenon DEF Reboot, Idle
  <2>3. NoMinute.kind = "Ledger" /\ NoMinute.entries = {}
    BY Zenon DEF NoMinute, Ledger
  <2> QED
    BY <2>1, <2>2, <2>3, Zenon DEF Shape
<1>16. CASE Tick \/ StepBack \/ UNCHANGED vars
  BY <1>16, <1>f, <1>w, Zenon DEF Tick, StepBack, vars
<1> QED
  BY <1>1, <1>3, <1>4, <1>5, <1>6, <1>7, <1>9, <1>11, <1>12, <1>13, <1>14, <1>15, <1>16, <1>i
     DEF Next, Call, Persist, Shutdown, PersistOpen, ApplyWrite, Crash, Exit

(* Steps that leave every share where it is. *)
LEMMA PlaceKept ==
    ASSUME NEW s \in Shares, OnePlace(s), UNCHANGED <<staged, intervals, hourly, recorded, forfeited>>,
           \A t \in Tasks : task'[t].closed.entries = task[t].closed.entries,
           InWriter(s)' <=> InWriter(s), WriterOnce(s) => WriterOnce(s)'
    PROVE  OnePlace(s)'
<1>1. (IsHeld(s)' <=> IsHeld(s)) /\ (HeldByOne(s)' <=> HeldByOne(s))
  BY Zenon DEF IsHeld, HeldByOne
<1>2. (Filed(s)' <=> Filed(s)) /\ (FiledOnce(s)' <=> FiledOnce(s))
  BY Zenon DEF Filed, FiledOnce
<1> QED
  BY <1>1, <1>2, Zenon DEF OnePlace

(* roll_to and take_open: a minute goes from the accumulator to a caller that held none. *)
LEMMA PlaceClosed ==
    ASSUME NEW s \in Shares, OnePlace(s), NEW t \in Tasks, NEW c \in SUBSET staged, NEW new,
           task[t].closed.entries = {}, task'[t].closed.entries = c,
           \A u \in Tasks \ {t} : task'[u].closed.entries = task[u].closed.entries,
           staged' = (staged \ c) \cup new, recorded' = recorded \cup new, s \in new => s \notin recorded,
           s \in new => s \notin forfeited,
           UNCHANGED <<writerVars, intervals, hourly, forfeited>>
    PROVE  OnePlace(s)'
<1>1. /\ IsHeld(s)' <=> IsHeld(s) \/ s \in c
      /\ HeldByOne(s) /\ ~(IsHeld(s) /\ s \in c) => HeldByOne(s)'
  BY HeldTaken, Zenon
<1>2. (Filed(s)' <=> Filed(s)) /\ (FiledOnce(s)' <=> FiledOnce(s))
  BY Zenon DEF Filed, FiledOnce
<1>3. (InWriter(s)' <=> InWriter(s)) /\ (WriterOnce(s)' <=> WriterOnce(s))
  BY Zenon DEF InWriter, WriterOnce, writerVars
<1> QED
  BY <1>1, <1>2, <1>3, Zenon DEF OnePlace

(* persist_ledger_minute: from the caller to the queue. *)
LEMMA PlaceQueued ==
    ASSUME TypeOK, NEW s \in Shares, OnePlace(s), NEW t \in Tasks, Enqueue(task[t].closed),
           task'[t].closed.entries = {},
           \A u \in Tasks \ {t} : task'[u].closed.entries = task[u].closed.entries,
           UNCHANGED <<staged, recorded, intervals, hourly, forfeited>>
    PROVE  OnePlace(s)'
<1>1. /\ IsHeld(s)' <=> IsHeld(s) /\ s \notin task[t].closed.entries
      /\ HeldByOne(s)' /\ (s \in task[t].closed.entries => IsHeld(s))
  BY HeldReleased, Zenon DEF OnePlace, IsHeld
<1>2. (Filed(s)' <=> Filed(s)) /\ (FiledOnce(s)' <=> FiledOnce(s))
  BY Zenon DEF Filed, FiledOnce
<1>3. task[t].closed \in Write /\ WriterTypeOK(Write)
  BY Zenon DEF TypeOK, TaskState
<1>4. /\ InWriter(s)' <=> InWriter(s) \/ s \in task[t].closed.entries
      /\ WriterOnce(s) /\ ~(InWriter(s) /\ s \in task[t].closed.entries) => WriterOnce(s)'
  BY <1>3, OnceEnqueue
<1> QED
  BY <1>1, <1>2, <1>4, Zenon DEF OnePlace

(* A committed minute: from the writer to a table, or forfeited at the worker cap. *)
LEMMA PlaceFiled ==
    ASSUME TypeOK, NEW s \in Shares, OnePlace(s), Attempting, WriteApplied, WriteLedgerMinute(Current),
           UNCHANGED <<task, staged, recorded>>,
           NEW due \in SUBSET (intervals \cup NewRows(Current)),
           intervals' = (intervals \cup NewRows(Current)) \ due, hourly' = hourly \cup RolledUp(due)
    PROVE  OnePlace(s)'
<1> SUFFICES ASSUME NEW rows, rows = intervals \cup NewRows(Current) PROVE OnePlace(s)'
  BY Zenon
<1>1. WriterTypeOK(Write) /\ Current \in Write /\ s \in Workers \cup Shares
  BY CurrentInFlight, Zenon DEF TypeOK
<1>2. rows \in SUBSET Row
  BY <1>1, MinuteWritten DEF TypeOK
<1>3. /\ WriterOnce(s)' /\ (s \in Current.entries => InWriter(s))
      /\ InWriter(s)' <=> InWriter(s) /\ s \notin Current.entries
  BY <1>1, OnceApplied DEF OnePlace
<1>4. s \in forfeited' <=> s \in forfeited \/ (s \in Current.entries /\ Resolved(WorkerOf[s]) = 0)
  BY Zenon DEF WriteLedgerMinute
<1>5. /\ RowOf(s, NewRows(Current)) <=> s \in Current.entries /\ Resolved(WorkerOf[s]) # 0
      /\ OneRow(s, NewRows(Current))
  BY <1>1, MinuteRows
<1>6. /\ RowOf(s, rows) <=> RowOf(s, intervals) \/ RowOf(s, NewRows(Current))
      /\ OneRow(s, intervals) /\ ~(RowOf(s, intervals) /\ RowOf(s, NewRows(Current))) => OneRow(s, rows)
  BY <1>5, RowsJoined
<1>7. /\ OneRow(s, intervals) /\ OneRow(s, hourly) /\ ~(RowOf(s, intervals) /\ RowOf(s, hourly))
      /\ InWriter(s) => ~RowOf(s, intervals) /\ ~RowOf(s, hourly)
  BY Zenon DEF OnePlace, FiledOnce, Filed
<1>8. OneRow(s, rows) /\ ~(RowOf(s, rows) /\ RowOf(s, hourly))
  BY <1>3, <1>5, <1>6, <1>7, Zenon
<1>9. /\ RowOf(s, rows) <=> RowOf(s, rows \ due) \/ RowOf(s, RolledUp(due))
      /\ ~(RowOf(s, rows \ due) /\ RowOf(s, RolledUp(due)))
      /\ OneRow(s, rows \ due) /\ OneRow(s, RolledUp(due))
  BY <1>2, <1>8, RowsRolledUp
<1>10. /\ RowOf(s, hourly \cup RolledUp(due)) <=> RowOf(s, hourly) \/ RowOf(s, RolledUp(due))
       /\ OneRow(s, hourly \cup RolledUp(due))
  BY <1>7, <1>8, <1>9, RowsJoined
<1>11. /\ Filed(s)' <=> Filed(s) \/ (s \in Current.entries /\ Resolved(WorkerOf[s]) # 0)
       /\ FiledOnce(s)'
  BY <1>5, <1>6, <1>7, <1>8, <1>9, <1>10, Zenon DEF Filed, FiledOnce
<1>12. (IsHeld(s)' <=> IsHeld(s)) /\ (HeldByOne(s)' <=> HeldByOne(s))
  BY Zenon DEF IsHeld, HeldByOne
<1> QED
  BY <1>3, <1>4, <1>11, <1>12, Zenon DEF OnePlace

\* Every step keeps each share in at most one place.
LEMMA PlacesStep ==
    ASSUME TypeOK, FileInv, OnceInv, [Next]_vars, NEW s \in Shares
    PROVE  OnePlace(s)'
<1> USE ShareLedgerAssumption
<1>i. /\ Shares \subseteq Tasks /\ "ticker" \in Tasks /\ "shutdown" \in Tasks
      /\ DOMAIN task = Tasks /\ \A t \in Tasks : task[t] \in TaskState
      /\ recorded \subseteq Shares /\ WriterTypeOK(Write)
  BY Zenon DEF TypeOK, Tasks
<1>p. OnePlace(s) /\ Shape
  BY Zenon DEF OnceInv
<1>h. \A t \in Tasks : task[t].pc \notin {"persist", "persist_open"} => task[t].closed.entries = {}
  BY <1>p, Zenon DEF Shape
<1>w. ASSUME UNCHANGED writerVars PROVE (InWriter(s)' <=> InWriter(s)) /\ (WriterOnce(s)' <=> WriterOnce(s))
  BY <1>w, Zenon DEF writerVars, InWriter, WriterOnce
<1>1. ASSUME NEW t \in Tasks, ReadClock(t) PROVE OnePlace(s)'
  <2>1. \A u \in Tasks : task'[u].closed = task[u].closed
    BY <1>1, <1>i DEF ReadClock, TaskState
  <2> QED
    BY <1>1, <1>p, <1>w, <2>1, PlaceKept, Zenon DEF ReadClock, accumVars, tableVars, historyVars
<1>2. ASSUME NEW t \in Tasks, task[t].pc = "roll", NEW c, c = ClosedMinute(task[t].ts),
             task' = [task EXCEPT ![t] = Rolled(t, c)], NEW new,
             staged' = (staged \ c.entries) \cup new, recorded' = recorded \cup new,
             s \in new => s \notin recorded, UNCHANGED <<writerVars, tableVars, forfeited>>
      PROVE  OnePlace(s)'
  <2>1. task'[t].closed = c /\ \A u \in Tasks \ {t} : task'[u] = task[u]
    BY <1>2, <1>i DEF Rolled
  <2>2. c.entries \in SUBSET staged /\ task[t].closed.entries = {}
    BY <1>2, <1>h, ClosedShape
  <2>3. UNCHANGED <<intervals, hourly>>
    BY <1>2, Zenon DEF tableVars
  <2>4. s \in new => s \notin forfeited
    BY <1>2, <1>p DEF OnePlace
  <2> QED
    BY <1>2, <1>p, <2>1, <2>2, <2>3, <2>4, PlaceClosed
<1>3. ASSUME NEW x \in Shares, RecordLedger(x) PROVE OnePlace(s)'
  <2>1. x \notin recorded
    BY <1>3, Zenon DEF RecordLedger, FileInv
  <2> QED
    BY <1>2, <1>3, <1>i, <2>1, Zenon DEF RecordLedger
<1>4. ASSUME NEW x \in Shares, RefuseUnknown(x) PROVE OnePlace(s)'
  <2>1. \A u \in Tasks : task'[u].closed = task[u].closed
    BY <1>4, <1>i DEF RefuseUnknown, TaskState
  <2> QED
    BY <1>4, <1>p, <1>w, <2>1, PlaceKept DEF RefuseUnknown, accumVars, tableVars, historyVars
<1>5. ASSUME NEW t \in {"ticker", "shutdown"}, FlushLedgerAt(t) PROVE OnePlace(s)'
  <2>1. staged' = (staged \ ClosedMinute(task[t].ts).entries) \cup {} /\ recorded' = recorded \cup {}
    BY <1>5, Zenon DEF FlushLedgerAt, historyVars
  <2> QED
    BY <1>2, <1>5, <1>i, <2>1, Zenon DEF FlushLedgerAt, historyVars
<1>6. ASSUME NEW t \in Tasks, NEW pc, NEW after, PersistLedgerMinute(t, pc, after) PROVE OnePlace(s)'
  <2>1. task'[t].closed.entries = {} /\ \A u \in Tasks \ {t} : task'[u] = task[u]
    BY <1>6, <1>i DEF PersistLedgerMinute, TaskState, NoMinute, Ledger
  <2> QED
    BY <1>6, <1>p, <2>1, PlaceQueued, Zenon DEF PersistLedgerMinute, accumVars, tableVars, historyVars
<1>7. CASE TakeOpen
  <2>1. task'["shutdown"].closed = Taken /\ \A u \in Tasks \ {"shutdown"} : task'[u] = task[u]
    BY <1>7, <1>i DEF TakeOpen, TaskState
  <2>2. Taken.entries = staged /\ task["shutdown"].closed.entries = {}
    BY <1>7, <1>h, <1>i, ClosedShape DEF TakeOpen
  <2>3. staged' = (staged \ staged) \cup {} /\ recorded' = recorded \cup {}
    BY <1>7, Zenon DEF TakeOpen
  <2>4. UNCHANGED <<writerVars, intervals, hourly, forfeited>> /\ staged \in SUBSET staged /\ s \notin {}
    BY <1>7, Zenon DEF TakeOpen, tableVars
  <2> QED
    BY <1>i, <1>p, <2>1, <2>2, <2>3, <2>4, PlaceClosed, Zenon
<1>8. ASSUME NEW pc, task' = [task EXCEPT !["shutdown"].pc = pc]
      PROVE  \A u \in Tasks : task'[u].closed = task[u].closed
  BY <1>8, <1>i DEF TaskState
<1>9. CASE SendFlush
  <2>1. Flush.entries = {} /\ Flush \in Write
    BY WriteTypes, Zenon DEF Flush
  <2>2. (InWriter(s)' <=> InWriter(s)) /\ (WriterOnce(s) => WriterOnce(s)')
    BY <1>9, <1>i, <2>1, OnceEnqueue DEF SendFlush
  <2> QED
    BY <1>8, <1>9, <1>p, <2>2, PlaceKept DEF SendFlush, accumVars, tableVars, historyVars
<1>10. CASE ApplyFlush
  <2>1. Current.entries = {}
    BY <1>10, <1>i, <1>p, CurrentInFlight DEF ApplyFlush, Shape
  <2>2. (InWriter(s)' <=> InWriter(s)) /\ (WriterOnce(s) => WriterOnce(s)')
    BY <1>10, <1>i, <1>p, <2>1, OnceApplied DEF ApplyFlush, OnePlace
  <2> QED
    BY <1>8, <1>10, <1>p, <2>2, PlaceKept DEF ApplyFlush, accumVars, tableVars, historyVars
<1>11. CASE ApplyLedger
  <2> SUFFICES ASSUME NEW due, due = Due(intervals \cup NewRows(Current), Current.minute_ts) PROVE OnePlace(s)'
    BY Zenon
  <2>1. due \in SUBSET (intervals \cup NewRows(Current))
    BY Zenon DEF Due
  <2>2. intervals' = (intervals \cup NewRows(Current)) \ due /\ hourly' = hourly \cup RolledUp(due)
    BY <1>11, Zenon DEF ApplyLedger
  <2> QED
    BY <1>11, <1>p, <2>1, <2>2, PlaceFiled DEF ApplyLedger, ApplyUnchanged, accumVars
<1>12. CASE RollUpFails
  <2>1. RolledUp({}) = {} /\ {} \in SUBSET (intervals \cup NewRows(Current))
    BY Zenon DEF RolledUp
  <2>2. intervals' = (intervals \cup NewRows(Current)) \ {} /\ hourly' = hourly \cup RolledUp({})
    BY <1>12, <2>1 DEF RollUpFails
  <2> QED
    BY <1>12, <1>p, <2>1, <2>2, PlaceFiled DEF RollUpFails, ApplyUnchanged, accumVars
<1>13. CASE LedgerFails
  <2>1. /\ Attempting /\ WriteFailed(TRUE) /\ forfeited' = forfeited \cup Evicted
        /\ UNCHANGED <<task, intervals, hourly, staged, recorded>>
    BY <1>13, Zenon DEF LedgerFails, IsDurable, ApplyUnchanged, accumVars
  <2>2. /\ s \in Evicted => InWriter(s)
        /\ WriterOnce(s)' /\ (InWriter(s)' <=> InWriter(s) /\ s \notin Evicted)
    BY <1>i, <1>p, <2>1, OnceFailed DEF OnePlace
  <2>3. (IsHeld(s)' <=> IsHeld(s)) /\ (HeldByOne(s)' <=> HeldByOne(s))
    BY <2>1, Zenon DEF IsHeld, HeldByOne
  <2>4. (Filed(s)' <=> Filed(s)) /\ (FiledOnce(s)' <=> FiledOnce(s))
    BY <2>1, Zenon DEF Filed, FiledOnce
  <2> QED
    BY <1>p, <2>1, <2>2, <2>3, <2>4, Zenon DEF OnePlace
<1>14. CASE WriterReceives
  <2>1. (InWriter(s)' <=> InWriter(s)) /\ (WriterOnce(s) => WriterOnce(s)')
    BY <1>14, <1>i, OnceReceive DEF WriterReceives
  <2> QED
    BY <1>14, <1>p, <2>1, PlaceKept, ZenonT(30) DEF WriterReceives, accumVars, tableVars, historyVars
<1>15. CASE Reboot
  <2>1. ~InWriter(s)' /\ WriterOnce(s)'
    BY <1>15, OnceLost DEF Reboot
  <2>2. \A t \in Tasks : task'[t].closed.entries = {}
    BY <1>15, Zenon DEF Reboot, Idle, NoMinute, Ledger
  <2>3. ~IsHeld(s)' /\ HeldByOne(s)'
    BY <2>2, Zenon DEF IsHeld, HeldByOne
  <2>4. s \in InTables <=> Filed(s)
    BY Zenon DEF InTables, Filed, RowOf
  <2>5. /\ UNCHANGED <<intervals, hourly, recorded>> /\ staged' = {}
        /\ s \in forfeited' <=> s \in forfeited \/ (s \in recorded /\ ~Filed(s))
    BY <1>15, <2>4 DEF Reboot
  <2>6. (Filed(s)' <=> Filed(s)) /\ (FiledOnce(s)' <=> FiledOnce(s))
    BY <2>5, Zenon DEF Filed, FiledOnce
  <2> QED
    BY <1>p, <2>1, <2>3, <2>5, <2>6, Zenon DEF OnePlace
<1>16. CASE Tick \/ StepBack \/ UNCHANGED vars
  BY <1>16, <1>p, <1>w, PlaceKept, Zenon DEF Tick, StepBack, vars, accumVars, tableVars, historyVars
<1> QED
  BY <1>1, <1>3, <1>4, <1>5, <1>6, <1>7, <1>9, <1>10, <1>11, <1>12, <1>13, <1>14, <1>15, <1>16, <1>i
     DEF Next, Call, Persist, Shutdown, PersistOpen, ApplyWrite, Crash, Exit

\* A set without two different members has one or none.
LEMMA CountOne ==
    ASSUME NEW S, \A x, y \in S : x = y
    PROVE  Cardinality(S) = IF S = {} THEN 0 ELSE 1
<1>1. CASE S = {}
  BY <1>1, FS_EmptySet, Zenon
<1>2. CASE S # {}
  <2>1. PICK x : S = {x}
    BY <1>2
  <2> QED
    BY <1>2, <2>1, FS_Singleton
<1> QED
  BY <1>1, <1>2

(* The counts of the seven places, and their sum. *)
LEMMA PlacesAreCounted ==
    ASSUME NEW s \in Shares, OnePlace(s), s \in recorded
    PROVE  Copies(s) = IF s \in forfeited THEN 0 ELSE 1
<1>1. Cardinality({s} \cap staged) = IF s \in staged THEN 1 ELSE 0
  <2>1. Cardinality({s} \cap staged) = IF {s} \cap staged = {} THEN 0 ELSE 1
    BY CountOne, Zenon
  <2> QED
    BY <2>1, Zenon
<1>2. Cardinality({t \in Tasks : s \in task[t].closed.entries}) = IF IsHeld(s) THEN 1 ELSE 0
  <2> SUFFICES ASSUME NEW S, S = {t \in Tasks : s \in task[t].closed.entries}
               PROVE  Cardinality(S) = IF IsHeld(s) THEN 1 ELSE 0
    BY Zenon
  <2>1. (\A x, y \in S : x = y) /\ (S = {} <=> ~IsHeld(s))
    BY Zenon DEF OnePlace, HeldByOne, IsHeld
  <2> QED
    BY <2>1, CountOne, Zenon
<1>3. ASSUME NEW q, Single(s, q) PROVE InWrites(s, q) = IF Sits(s, q) THEN 1 ELSE 0
  <2> SUFFICES ASSUME NEW S, S = {i \in DOMAIN q : s \in q[i].entries}
               PROVE  Cardinality(S) = IF Sits(s, q) THEN 1 ELSE 0
    BY Zenon DEF InWrites
  <2>1. (\A x, y \in S : x = y) /\ (S = {} <=> ~Sits(s, q))
    BY <1>3, Zenon DEF Single, Sits
  <2> QED
    BY <2>1, CountOne, Zenon
<1>4. ASSUME NEW rows, OneRow(s, rows)
      PROVE  Cardinality({r \in rows : r.share = s}) = IF RowOf(s, rows) THEN 1 ELSE 0
  <2> SUFFICES ASSUME NEW S, S = {r \in rows : r.share = s}
               PROVE  Cardinality(S) = IF RowOf(s, rows) THEN 1 ELSE 0
    BY Zenon
  <2>1. (\A x, y \in S : x = y) /\ (S = {} <=> ~RowOf(s, rows))
    BY <1>4, Zenon DEF OneRow, RowOf
  <2> QED
    BY <2>1, CountOne, Zenon
<1>5. /\ InWrites(s, backlog) = IF Sits(s, backlog) THEN 1 ELSE 0
      /\ InWrites(s, inHand) = IF Sits(s, inHand) THEN 1 ELSE 0
      /\ InWrites(s, queue) = IF Sits(s, queue) THEN 1 ELSE 0
  BY <1>3, Zenon DEF OnePlace, WriterOnce
<1>6. /\ Cardinality({r \in intervals : r.share = s}) = IF RowOf(s, intervals) THEN 1 ELSE 0
      /\ Cardinality({r \in hourly : r.share = s}) = IF RowOf(s, hourly) THEN 1 ELSE 0
  BY <1>4, Zenon DEF OnePlace, FiledOnce
<1>7. \A a, b, c, d, e, f, g \in {0, 1} :
         /\ a = 1 => b = 0 /\ c = 0 /\ d = 0 /\ e = 0 /\ f = 0 /\ g = 0
         /\ b = 1 => c = 0 /\ d = 0 /\ e = 0 /\ f = 0 /\ g = 0
         /\ c = 1 => d = 0 /\ e = 0 /\ f = 0 /\ g = 0
         /\ d = 1 => e = 0 /\ f = 0 /\ g = 0
         /\ e = 1 => f = 0 /\ g = 0
         /\ f = 1 => g = 0
         => a + b + c + d + e + f + g = IF 1 \in {a, b, c, d, e, f, g} THEN 1 ELSE 0
  OBVIOUS
<1> DEFINE a == Cardinality({s} \cap staged)
           b == Cardinality({t \in Tasks : s \in task[t].closed.entries})
           c == InWrites(s, backlog)
           d == InWrites(s, inHand)
           e == InWrites(s, queue)
           f == Cardinality({r \in intervals : r.share = s})
           g == Cardinality({r \in hourly : r.share = s})
<1>8. Copies(s) = a + b + c + d + e + f + g
  BY Zenon DEF Copies
<1>9. /\ a = IF s \in staged THEN 1 ELSE 0
      /\ b = IF IsHeld(s) THEN 1 ELSE 0
      /\ c = IF Sits(s, backlog) THEN 1 ELSE 0
      /\ d = IF Sits(s, inHand) THEN 1 ELSE 0
      /\ e = IF Sits(s, queue) THEN 1 ELSE 0
      /\ f = IF RowOf(s, intervals) THEN 1 ELSE 0
      /\ g = IF RowOf(s, hourly) THEN 1 ELSE 0
  BY <1>1, <1>2, <1>5, <1>6, Zenon
<1> HIDE DEF a, b, c, d, e, f, g
<1>10. /\ {a, b, c, d, e, f, g} \subseteq {0, 1}
       /\ a = 1 => b = 0 /\ c = 0 /\ d = 0 /\ e = 0 /\ f = 0 /\ g = 0
       /\ b = 1 => c = 0 /\ d = 0 /\ e = 0 /\ f = 0 /\ g = 0
       /\ c = 1 => d = 0 /\ e = 0 /\ f = 0 /\ g = 0
       /\ d = 1 => e = 0 /\ f = 0 /\ g = 0
       /\ e = 1 => f = 0 /\ g = 0
       /\ f = 1 => g = 0
       /\ 1 \in {a, b, c, d, e, f, g} <=> s \notin forfeited
  BY <1>9 DEF OnePlace, InWriter, WriterOnce, Filed, FiledOnce
<1>11. a + b + c + d + e + f + g = IF 1 \in {a, b, c, d, e, f, g} THEN 1 ELSE 0
  BY <1>7, <1>10
<1> QED
  BY <1>8, <1>10, <1>11, Zenon

\* The invariants of the ledger together.
LEMMA LedgerInv == Spec => [](TypeOK /\ FileInv /\ OnceInv)
<1>1. ASSUME Init PROVE FileInv /\ OnceInv
  <2>1. /\ task = [t \in Tasks |-> Idle] /\ staged = {} /\ intervals = {} /\ hourly = {}
        /\ recorded = {} /\ forfeited = {} /\ queue = <<>> /\ inHand = <<>> /\ backlog = <<>>
    BY <1>1, Zenon DEF Init, WriterInit
  <2>2. InFlight = {}
    BY <1>1, WriterStarts, Zenon DEF Init
  <2>3. \A t \in Tasks : task[t].closed.entries = {} /\ task[t].closed.kind = "Ledger"
    BY <2>1, Zenon DEF Idle, NoMinute, Ledger
  <2>4. FileInv
    BY <2>1, <2>2, <2>3, Zenon DEF FileInv, Stamped
  <2>5. ASSUME NEW s \in Shares PROVE OnePlace(s)
    <3>1. ~InWriter(s) /\ WriterOnce(s)
      BY <2>1, SitsOne, WriteTypes, Zenon DEF InWriter, WriterOnce
    <3>2. ~IsHeld(s) /\ HeldByOne(s) /\ ~Filed(s) /\ FiledOnce(s)
      BY <2>1, <2>3, Zenon DEF IsHeld, HeldByOne, Filed, FiledOnce, RowOf, OneRow
    <3> QED
      BY <2>1, <3>1, <3>2, Zenon DEF OnePlace
  <2> QED
    BY <2>2, <2>3, <2>4, <2>5, Zenon DEF OnceInv, Shape
<1>2. ASSUME TypeOK, FileInv, OnceInv, [Next]_vars PROVE OnceInv'
  BY <1>2, ShapeStep, PlacesStep, Zenon DEF OnceInv
<1> QED
  BY <1>1, <1>2, LedgerTypeCorrect, FileStep, PTL DEF Spec

(* Work is conserved, for any number of shares, failures, retries and      *)
(* restarts.                                                               *)
THEOREM WorkIsConserved == Spec => []EveryShareOnce
<1>1. ASSUME TypeOK, OnceInv PROVE EveryShareOnce
  BY <1>1, PlacesAreCounted, Zenon DEF EveryShareOnce, OnceInv, TypeOK
<1> QED
  BY <1>1, LedgerInv, PTL

-----------------------------------------------------------------------------
(* No Flush is on its way before the shutdown has sent it. *)
LEMMA NoFlushYet ==
    ASSUME TypeOK, Shape, task["shutdown"].pc \notin {"wait", "acked"}
    PROVE  ~IsFlush(inHand) /\ ~IsFlush(queue) /\ \A j \in DOMAIN queue : queue[j].kind # "Flush"
<1>1. \A w \in InFlight : w.kind # "Flush"
  BY Zenon DEF Shape
<1>2. /\ \A j \in DOMAIN queue : queue[j] \in InFlight
      /\ \A j \in DOMAIN inHand : inHand[j] \in InFlight
  BY Zenon DEF InFlight, Range
<1> QED
  BY <1>1, <1>2 DEF IsFlush

(* Neither the writer's steps nor a later minute put a share behind the Flush. *)
LEMMA BeforeReceive ==
    ASSUME TypeOK, ReceiveWrite \/ ReceiveTimeout, NEW s, BeforeFlush(s)
    PROVE  /\ BeforeFlush(s)' /\ backlog' = backlog
           /\ ~Sits(s, inHand) /\ ~Sits(s, queue) => ~Sits(s, inHand)' /\ ~Sits(s, queue)'
<1>1. CASE ReceiveWrite
  <2>1. /\ queue \in Seq(Write) /\ queue # <<>>
        /\ inHand' = <<Head(queue)>> /\ queue' = Tail(queue) /\ backlog' = backlog
    BY <1>1 DEF TypeOK, WriterTypeOK, ReceiveWrite
  <2>2. Head(queue) \in Write
    BY <2>1, RangeTail
  <2>3. /\ Sits(s, queue) <=> Sits(s, inHand') \/ Sits(s, queue')
        /\ IsFlush(inHand') <=> Head(queue).kind = "Flush"
    BY <2>1, <2>2, SitsTail, SitsOne, Zenon
  <2>4. /\ Len(queue) \in Nat \ {0} /\ DOMAIN queue = 1..Len(queue) /\ DOMAIN Tail(queue) = 1..(Len(queue) - 1)
        /\ Head(queue) = queue[1] /\ \A i \in 1..(Len(queue) - 1) : Tail(queue)[i] = queue[i + 1]
    BY <2>1
  <2>5. \A i, j \in DOMAIN queue : s \in queue[i].entries /\ queue[j].kind = "Flush" => i < j
    BY Zenon DEF BeforeFlush
  <2>6. IsFlush(inHand') => ~Sits(s, queue')
    <3>1. Head(queue).kind = "Flush" => \A i \in DOMAIN queue : s \notin queue[i].entries
      BY <2>4, <2>5
    <3> QED
      BY <2>3, <3>1, Zenon DEF Sits
  <2>7. \A i, j \in DOMAIN queue' : s \in queue'[i].entries /\ queue'[j].kind = "Flush" => i < j
    <3>1. \A n \in Nat \ {0} : \A i \in 1..(n - 1) : i + 1 \in 1..n /\ i \in Nat
      OBVIOUS
    <3>2. \A i, j \in Nat : i + 1 < j + 1 => i < j
      OBVIOUS
    <3> SUFFICES ASSUME NEW i \in DOMAIN queue', NEW j \in DOMAIN queue',
                        s \in queue'[i].entries, queue'[j].kind = "Flush"
                 PROVE  i < j
      BY Zenon
    <3>3. i + 1 \in DOMAIN queue /\ j + 1 \in DOMAIN queue /\ i \in Nat /\ j \in Nat
      BY <2>1, <2>4, <3>1, Zenon
    <3>4. queue'[i] = queue[i + 1] /\ queue'[j] = queue[j + 1]
      BY <2>1, <2>4, Zenon
    <3> QED
      BY <2>5, <3>2, <3>3, <3>4, Zenon
  <2> QED
    BY <2>1, <2>3, <2>6, <2>7 DEF BeforeFlush
<1>2. CASE ReceiveTimeout
  BY <1>2 DEF ReceiveTimeout, BeforeFlush
<1> QED
  BY <1>1, <1>2

\* A share that is not behind the Flush is not behind it after another write is queued.
LEMMA BeforeEnqueue ==
    ASSUME TypeOK, NEW w \in Write, Enqueue(w), NEW s, BeforeFlush(s), w.kind = "Flush" \/ s \notin w.entries,
           w.kind = "Flush" => w.entries = {} /\ ~IsFlush(inHand)
    PROVE  /\ BeforeFlush(s)' /\ UNCHANGED <<backlog, inHand>>
           /\ Sits(s, queue)' <=> Sits(s, queue)
<1>1. /\ queue \in Seq(Write) /\ queue' = Append(queue, w) /\ UNCHANGED <<backlog, inHand>>
  BY Zenon DEF TypeOK, WriterTypeOK, Enqueue
<1>2. /\ DOMAIN queue' = DOMAIN queue \cup {Len(queue) + 1} /\ DOMAIN queue = 1..Len(queue) /\ Len(queue) \in Nat
      /\ \A i \in DOMAIN queue : queue'[i] = queue[i]
      /\ queue'[Len(queue) + 1] = w
  BY <1>1
<1>3. Sits(s, queue') <=> Sits(s, queue)
  BY <1>1, SitsAppend
<1>4. ASSUME NEW i \in DOMAIN queue', NEW j \in DOMAIN queue', s \in queue'[i].entries, queue'[j].kind = "Flush"
      PROVE  i < j
  <2>1. i \in DOMAIN queue
    BY <1>2, <1>4
  <2>2. CASE j \in DOMAIN queue
    BY <1>2, <1>4, <2>1, <2>2 DEF BeforeFlush
  <2>3. CASE j = Len(queue) + 1
    BY <1>2, <2>1, <2>3
  <2> QED
    BY <1>2, <2>2, <2>3
<1> QED
  BY <1>1, <1>3, <1>4 DEF BeforeFlush

\* Nor after the write in hand is done with.
LEMMA BeforeHandled ==
    ASSUME queue' = queue, inHand' \in {inHand, <<>>}, NEW s, BeforeFlush(s)
    PROVE  BeforeFlush(s)' /\ (~Sits(s, inHand) => ~Sits(s, inHand)')
<1>1. ~IsFlush(<<>>) /\ ~Sits(s, <<>>)
  BY SitsOne, WriteTypes, Zenon
<1> QED
  BY <1>1, Zenon DEF BeforeFlush

\* Every step keeps the shutdown's word.
LEMMA WordStep ==
    ASSUME TypeOK, FileInv, Shape, WordInv, [Next]_vars
    PROVE  WordInv'
<1> USE ShareLedgerAssumption
<1>i. /\ Shares \subseteq Tasks /\ "ticker" \in Tasks /\ "shutdown" \in Tasks /\ "shutdown" \notin Shares
      /\ DOMAIN task = Tasks /\ \A t \in Tasks : task[t] \in TaskState
      /\ recorded \subseteq Shares /\ covered \subseteq recorded /\ WriterTypeOK(Write) /\ ~IsFlush(backlog)
  BY Zenon DEF TypeOK, Tasks, WordInv
<1>a. \A s \in covered : AnsweredFor(s, task["shutdown"].pc)
  BY Zenon DEF WordInv
<1>f. ASSUME covered' = covered, recorded \subseteq recorded', ~IsFlush(backlog)',
             \A s \in covered : AnsweredFor(s, task["shutdown"].pc)'
      PROVE  WordInv'
  BY <1>f, <1>i, Zenon DEF WordInv
(* the callers other than the shutdown, and the shutdown before it answers for anything *)
<1>c. ASSUME covered' = covered, recorded \subseteq recorded', NEW t \in Tasks,
             task[t].pc \in {"idle", "roll", "persist"},
             \A u \in Tasks \ {t} : task'[u] = task[u], UNCHANGED <<backlog, inHand>>,
             \A s \in covered : /\ s \notin staged' /\ s \notin task'[t].closed.entries
                                /\ BeforeFlush(s)' /\ (Sits(s, queue)' <=> Sits(s, queue))
      PROVE  WordInv'
  <2>1. t = "shutdown" => covered = {}
    BY <1>c, <1>a, Zenon DEF AnsweredFor
  <2>2. \A s \in covered : AnsweredFor(s, task["shutdown"].pc)'
    BY <1>c, <1>a, <1>i, <2>1, ZenonT(30) DEF AnsweredFor
  <2> QED
    BY <1>c, <1>f, <1>i, <2>2, Zenon
<1>w. ASSUME UNCHANGED writerVars, NEW s \in covered
      PROVE  BeforeFlush(s)' /\ (Sits(s, queue)' <=> Sits(s, queue))
  BY <1>a, <1>w, Zenon DEF writerVars, BeforeFlush, AnsweredFor
<1>1. ASSUME NEW t \in Tasks, ReadClock(t) PROVE WordInv'
  <2>1. /\ task'[t].closed = task[t].closed /\ \A u \in Tasks \ {t} : task'[u] = task[u]
        /\ task[t].pc = "idle" /\ task[t].closed.entries = {}
    BY <1>1, <1>i DEF ReadClock, TaskState, Shape
  <2>2. UNCHANGED <<covered, recorded, staged, writerVars>>
    BY <1>1, Zenon DEF ReadClock, accumVars, historyVars
  <2> QED
    BY <1>c, <1>w, <1>a, <2>1, <2>2, Zenon DEF writerVars, AnsweredFor
<1>2. ASSUME NEW t \in Tasks, task[t].pc = "roll", NEW c, c = ClosedMinute(task[t].ts),
             task' = [task EXCEPT ![t] = Rolled(t, c)], NEW new,
             staged' = (staged \ c.entries) \cup new, recorded' = recorded \cup new,
             new \cap recorded = {}, UNCHANGED <<writerVars, covered>>
      PROVE  WordInv'
  <2>1. task'[t].closed = c /\ \A u \in Tasks \ {t} : task'[u] = task[u]
    BY <1>2, <1>i DEF Rolled
  <2>2. c.entries \subseteq staged
    BY <1>2, ClosedShape, ZenonT(30)
  <2>3. \A s \in covered : s \notin staged' /\ s \notin task'[t].closed.entries
    BY <1>2, <1>a, <1>i, <2>1, <2>2 DEF AnsweredFor
  <2> QED
    BY <1>2, <1>c, <1>w, <2>1, <2>3, Zenon DEF writerVars
<1>3. ASSUME NEW x \in Shares, RecordLedger(x) PROVE WordInv'
  <2>1. {x} \cap recorded = {} /\ x \in Tasks /\ UNCHANGED covered
    BY <1>3, <1>i, Zenon DEF RecordLedger, FileInv
  <2> QED
    BY <1>2, <1>3, <2>1, Zenon DEF RecordLedger
<1>4. ASSUME NEW x \in Shares, RefuseUnknown(x) PROVE WordInv'
  <2>1. /\ task'[x].closed = task[x].closed /\ \A u \in Tasks \ {x} : task'[u] = task[u]
        /\ task[x].pc = "roll" /\ task[x].closed.entries = {}
    BY <1>4, <1>i DEF RefuseUnknown, TaskState, Shape
  <2>2. UNCHANGED <<covered, recorded, staged, writerVars>>
    BY <1>4, Zenon DEF RefuseUnknown, accumVars, historyVars
  <2> QED
    BY <1>c, <1>w, <1>a, <1>i, <2>1, <2>2, Zenon DEF writerVars, AnsweredFor
<1>5. ASSUME NEW t \in {"ticker", "shutdown"}, FlushLedgerAt(t) PROVE WordInv'
  <2>1. staged' = (staged \ ClosedMinute(task[t].ts).entries) \cup {} /\ recorded' = recorded \cup {}
    BY <1>5, Zenon DEF FlushLedgerAt, historyVars
  <2>2. {} \cap recorded = {} /\ t \in Tasks /\ UNCHANGED covered
    BY <1>5, <1>i, Zenon DEF FlushLedgerAt, historyVars
  <2>3. /\ task[t].pc = "roll" /\ UNCHANGED writerVars
        /\ task' = [task EXCEPT ![t] = Rolled(t, ClosedMinute(task[t].ts))]
    BY <1>5, Zenon DEF FlushLedgerAt
  <2> QED
    BY <1>2, <2>1, <2>2, <2>3, Zenon
<1>6. ASSUME NEW t \in Tasks, Persist(t) PROVE WordInv'
  <2>1. /\ task'[t].closed.entries = {} /\ \A u \in Tasks \ {t} : task'[u] = task[u]
        /\ task[t].pc = "persist" /\ Enqueue(task[t].closed)
        /\ UNCHANGED <<staged, recorded, covered>>
    BY <1>6, <1>i DEF Persist, PersistLedgerMinute, TaskState, NoMinute, Ledger, accumVars, historyVars
  <2>2. task[t].closed \in Write /\ task[t].closed.kind = "Ledger"
    BY <1>i, Zenon DEF TaskState, Shape
  <2>3. \A s \in covered : BeforeFlush(s) /\ s \notin task[t].closed.entries /\ s \notin staged
    BY <1>a, <2>1 DEF AnsweredFor
  <2>4. UNCHANGED <<backlog, inHand>> /\ \A s \in covered : BeforeFlush(s)' /\ (Sits(s, queue)' <=> Sits(s, queue))
    BY <2>1, <2>2, <2>3, BeforeEnqueue DEF Enqueue
  <2> QED
    BY <1>c, <2>1, <2>3, <2>4, Zenon
<1>7. CASE TakeOpen
  <2>1. /\ task'["shutdown"].closed = Taken /\ \A u \in Tasks \ {"shutdown"} : task'[u] = task[u]
        /\ task'["shutdown"].pc = IF staged = {} THEN "send_flush" ELSE "persist_open"
        /\ task["shutdown"].pc = "take_open"
    BY <1>7, <1>i DEF TakeOpen, TaskState
  <2>2. UNCHANGED <<writerVars, recorded>> /\ staged' = {} /\ covered' = recorded \ HeldBySessions
    BY <1>7, Zenon DEF TakeOpen
  <2>3. UNCHANGED <<queue, inHand, backlog>> /\ ~IsFlush(inHand) /\ \A j \in DOMAIN queue : queue[j].kind # "Flush"
    BY <2>1, <2>2, NoFlushYet, Zenon DEF writerVars
  <2>4. Taken.entries = staged
    BY <1>i, ClosedShape
  <2>5. \A s \in covered' : AnsweredFor(s, task["shutdown"].pc)'
    BY <1>i, <2>1, <2>2, <2>3, <2>4 DEF AnsweredFor, BeforeFlush, HeldBySessions
  <2> QED
    BY <1>i, <2>2, <2>3, <2>5, Zenon DEF WordInv
<1>8. CASE PersistOpen
  <2>1. /\ task'["shutdown"].closed.entries = {} /\ task'["shutdown"].pc = "send_flush"
        /\ \A u \in Tasks \ {"shutdown"} : task'[u] = task[u]
        /\ task["shutdown"].pc = "persist_open" /\ Enqueue(task["shutdown"].closed)
        /\ UNCHANGED <<staged, recorded, covered>>
    BY <1>8, <1>i DEF PersistOpen, PersistLedgerMinute, TaskState, NoMinute, Ledger, accumVars, historyVars
  <2>2. task["shutdown"].closed \in Write /\ task["shutdown"].closed.kind = "Ledger"
    BY <1>i, Zenon DEF TaskState, Shape
  <2>3. ~IsFlush(inHand) /\ ~IsFlush(queue)
    BY <2>1, NoFlushYet, Zenon
  <2>4. UNCHANGED <<backlog, inHand>> /\ ~IsFlush(queue')
    <3>1. /\ queue \in Seq(Write) /\ queue' = Append(queue, task["shutdown"].closed)
          /\ UNCHANGED <<backlog, inHand>>
      BY <1>i, <2>1 DEF Enqueue, WriterTypeOK
    <3> QED
      BY <2>2, <2>3, <3>1, SitsAppend, Zenon
  <2>5. \A s : BeforeFlush(s)'
    BY <2>3, <2>4 DEF BeforeFlush, IsFlush
  <2>6. \A s \in covered : AnsweredFor(s, task["shutdown"].pc)'
    BY <1>a, <1>i, <2>1, <2>4, <2>5 DEF AnsweredFor
  <2> QED
    BY <1>f, <1>i, <2>1, <2>4, <2>6, Zenon
<1>9. CASE SendFlush
  <2>1. /\ task'["shutdown"].closed = task["shutdown"].closed /\ task'["shutdown"].pc = "wait"
        /\ \A u \in Tasks \ {"shutdown"} : task'[u] = task[u]
        /\ task["shutdown"].pc = "send_flush" /\ Enqueue(Flush)
        /\ UNCHANGED <<staged, recorded, covered>>
    BY <1>9, <1>i DEF SendFlush, TaskState, accumVars, historyVars
  <2>2. ~IsFlush(inHand) /\ Flush \in Write /\ Flush.entries = {} /\ Flush.kind = "Flush"
    <3>1. ~IsFlush(inHand)
      BY <2>1, NoFlushYet, Zenon
    <3>2. Flush \in Write /\ Flush.entries = {} /\ Flush.kind = "Flush"
      BY WriteTypes, Zenon DEF Flush
    <3> QED
      BY <3>1, <3>2
  <2>3. UNCHANGED <<backlog, inHand>> /\ \A s \in covered : BeforeFlush(s)'
    BY <1>a, <2>1, <2>2, BeforeEnqueue DEF Enqueue, AnsweredFor
  <2>4. \A s \in covered : AnsweredFor(s, task["shutdown"].pc)'
    BY <1>a, <1>i, <2>1, <2>3 DEF AnsweredFor
  <2> QED
    BY <1>f, <1>i, <2>1, <2>3, <2>4, Zenon
(* the writer *)
<1>10. ASSUME Attempting, WriteApplied \/ (WriteFailed(TRUE) /\ Current.kind = "Ledger")
       PROVE  queue' = queue /\ inHand' \in {inHand, <<>>} /\ ~IsFlush(backlog')
  <2>1. CASE RetryApplied
    <3>1. backlog \in Seq(Write) /\ backlog # <<>> /\ backlog' = Tail(backlog) /\ UNCHANGED <<queue, inHand>>
      BY <1>i, <2>1 DEF WriterTypeOK, RetryApplied
    <3> QED
      BY <1>i, <3>1, SitsTail, Zenon
  <2>2. CASE HandleApplied
    BY <1>i, <2>2, Zenon DEF HandleApplied
  <2>3. CASE RetryFailed
    BY <1>i, <2>3, Zenon DEF RetryFailed
  <2>4. CASE HandleFailed(TRUE) /\ Current.kind = "Ledger"
    <3>1. /\ backlog \in Seq(Write) /\ inHand # <<>> /\ inHand' = <<>> /\ queue' = queue
          /\ retries = 0 /\ backlog' = Park(Head(inHand)) /\ Head(inHand).kind = "Ledger"
      BY <1>i, <2>4 DEF WriterTypeOK, HandleFailed, Current
    <3>2. Head(inHand) \in Write
      BY <1>i, <3>1, InHandOne, Zenon
    <3>3. CASE ~Full
      BY <1>i, <3>1, <3>2, <3>3, SitsAppend, Zenon DEF Park
    <3>4. CASE Full
      <4>1. backlog # <<>>
        BY <3>4, MaxBacklogAssumption DEF Full
      <4>2. backlog' = Append(Tail(backlog), Head(inHand)) /\ Tail(backlog) \in Seq(Write) /\ ~IsFlush(Tail(backlog))
        BY <1>i, <3>1, <3>4, <4>1, RangeTail, SitsTail, Zenon DEF Park
      <4>3. IsFlush(Append(Tail(backlog), Head(inHand))) <=> IsFlush(Tail(backlog)) \/ Head(inHand).kind = "Flush"
        BY <3>2, <4>2, SitsAppend, Zenon
      <4> QED
        BY <3>1, <4>2, <4>3, Zenon
    <3> QED
      BY <3>1, <3>3, <3>4, Zenon
  <2> QED
    BY <1>10, <2>1, <2>2, <2>3, <2>4, Zenon DEF WriteApplied, WriteFailed
<1>11. ASSUME queue' = queue, inHand' \in {inHand, <<>>}, ~IsFlush(backlog'),
              UNCHANGED <<task, staged, recorded, covered>>
       PROVE  WordInv'
  <2>1. \A s \in covered : BeforeFlush(s)' /\ (~Sits(s, inHand) => ~Sits(s, inHand)')
    BY <1>11, <1>a, BeforeHandled, Zenon DEF AnsweredFor
  <2>2. \A s \in covered : AnsweredFor(s, task["shutdown"].pc)'
    BY <1>11, <1>a, <2>1, Zenon DEF AnsweredFor
  <2> QED
    BY <1>11, <1>f, <2>2, Zenon
<1>12. CASE ApplyLedger \/ RollUpFails \/ LedgerFails
  <2>1. /\ Attempting /\ (WriteApplied \/ (WriteFailed(TRUE) /\ Current.kind = "Ledger"))
        /\ UNCHANGED <<task, staged, recorded, covered>>
    BY <1>12, Zenon DEF ApplyLedger, RollUpFails, LedgerFails, IsDurable, ApplyUnchanged, accumVars
  <2> QED
    BY <1>10, <1>11, <2>1, Zenon
<1>13. CASE ApplyFlush
  <2>1. /\ Attempting /\ Current.kind = "Flush" /\ WriteApplied
        /\ UNCHANGED <<staged, recorded, covered>>
        /\ task'["shutdown"].closed = task["shutdown"].closed /\ task'["shutdown"].pc = "acked"
        /\ \A u \in Tasks \ {"shutdown"} : task'[u] = task[u]
    BY <1>13, <1>i, Zenon DEF ApplyFlush, TaskState, accumVars, historyVars
  <2>2. retries = 0 /\ inHand # <<>>
    <3>1. ASSUME retries > 0 PROVE FALSE
      <4>1. backlog \in Seq(Write) /\ backlog # <<>> /\ Current = Head(backlog)
        BY <1>i, <3>1 DEF WriterTypeOK, Current
      <4> QED
        BY <1>i, <2>1, <4>1, SitsTail, Zenon
    <3>2. retries \in Nat
      BY <1>i DEF WriterTypeOK
    <3> QED
      BY <2>1, <3>1, <3>2 DEF Attempting
  <2>3. queue' = queue /\ inHand' = <<>> /\ backlog' = backlog
    BY <2>1, <2>2 DEF WriteApplied, RetryApplied, HandleApplied
  <2>4. IsFlush(inHand)
    BY <1>i, <2>1, <2>2, InHandOne, SitsOne DEF Current
  <2>5. task["shutdown"].pc \in {"wait", "acked"}
    BY <1>i, <2>1, CurrentInFlight, Zenon DEF Shape
  <2>6. ASSUME NEW s \in covered PROVE AnsweredFor(s, task["shutdown"].pc)'
    <3>1. ~Sits(s, queue) /\ ~Sits(s, inHand')
      BY <1>a, <2>3, <2>4, SitsOne, WriteTypes, Zenon DEF AnsweredFor, BeforeFlush
    <3>2. BeforeFlush(s)'
      BY <1>a, <2>3, BeforeHandled, Zenon DEF AnsweredFor
    <3> QED
      BY <1>a, <1>i, <2>1, <2>3, <2>5, <3>1, <3>2, Zenon DEF AnsweredFor
  <2> QED
    BY <1>f, <1>i, <2>1, <2>3, <2>6, Zenon
<1>14. CASE WriterReceives
  <2>1. (ReceiveWrite \/ ReceiveTimeout) /\ UNCHANGED <<task, staged, recorded, covered>>
    BY <1>14, Zenon DEF WriterReceives, accumVars, historyVars
  <2>2. \A s \in covered : BeforeFlush(s)' /\ (~Sits(s, inHand) /\ ~Sits(s, queue) =>
                                                 ~Sits(s, inHand)' /\ ~Sits(s, queue)')
    BY <1>a, <2>1, BeforeReceive, Zenon DEF AnsweredFor
  <2>3. backlog' = backlog
    BY <2>1, Zenon DEF ReceiveWrite, ReceiveTimeout
  <2>4. \A s \in covered : AnsweredFor(s, task["shutdown"].pc)'
    BY <1>a, <2>1, <2>2 DEF AnsweredFor
  <2> QED
    BY <1>f, <1>i, <2>1, <2>3, <2>4, Zenon
<1>15. CASE Reboot
  <2>1. covered' = {} /\ backlog' = <<>>
    BY <1>15, Zenon DEF Reboot, WriterLost
  <2> QED
    BY <2>1, SitsOne, WriteTypes, Zenon DEF WordInv
<1>16. CASE Tick \/ StepBack \/ UNCHANGED vars
  BY <1>11, <1>16, <1>i DEF Tick, StepBack, vars, writerVars, accumVars, historyVars
<1> QED
  BY <1>1, <1>3, <1>4, <1>5, <1>6, <1>7, <1>8, <1>9, <1>12, <1>13, <1>14, <1>15, <1>16, <1>i
     DEF Next, Call, Shutdown, ApplyWrite, Crash, Exit

(* A shutdown whose flush was acknowledged has lost nothing it answered for, save what the *)
(* backlog holds.                                                                          *)
THEOREM ShutdownLosesNothing == Spec => []ShutdownKeepsItsWord
<1>1. Init => WordInv
  BY SitsOne, WriteTypes, Zenon DEF Init, WriterInit, WordInv
<1>2. ASSUME TypeOK, OnceInv, WordInv PROVE ShutdownKeepsItsWord
  <2> SUFFICES ASSUME task["shutdown"].pc = "acked", backlog = <<>>, NEW s \in covered, s \notin forfeited
               PROVE  s \in InTables
    BY Zenon DEF ShutdownKeepsItsWord
  <2>1. AnsweredFor(s, "acked") /\ s \in recorded /\ s \in Shares /\ OnePlace(s)
    BY <1>2 DEF WordInv, OnceInv, TypeOK
  <2>2. ~IsHeld(s)
    BY <2>1, Zenon DEF AnsweredFor, IsHeld
  <2>3. ~InWriter(s)
    BY <2>1, SitsOne, WriteTypes, Zenon DEF AnsweredFor, InWriter
  <2>4. Filed(s)
    BY <2>1, <2>2, <2>3 DEF OnePlace, AnsweredFor
  <2> QED
    BY <2>4, Zenon DEF Filed, RowOf, InTables
<1>3. ASSUME TypeOK, FileInv, OnceInv, WordInv, [Next]_vars PROVE WordInv'
  BY <1>3, WordStep, Zenon DEF OnceInv
<1> QED
  BY <1>1, <1>2, <1>3, LedgerInv, PTL DEF Spec
=============================================================================
