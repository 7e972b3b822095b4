-------------------------- MODULE PoolStatsProofs --------------------------
(***************************************************************************)
(* Proofs about PoolStats, for any set of blocks and reporters and any     *)
(* bounds: the types, the rounds, and the blocks, of which none is lost    *)
(* between memory and table, a verdict is final, and the counts on the     *)
(* dashboard are the ones a reboot would restore.                          *)
(***************************************************************************)
EXTENDS PoolStats, StatsWriterProofs, FiniteSetTheorems, TLAPS

(* Where each task may be, and what its locals hold there. *)
TasksOK ==
    /\ \A t \in Reporters :
          /\ task[t].pc # "enqueue_resolved"
          /\ task[t].pc \notin {"idle", "done"} => task[t].hash \in Blocks
    /\ task["sweeper"].pc \in {"idle", "bump_epoch", "enqueue_reset", "enqueue_resolved"}
    /\ task["sweeper"].pc # "idle" => /\ task["sweeper"].hash \in Blocks
                                      /\ task["sweeper"].resolution \in BlockResolution

(* The round's total in memory is never negative. *)
OffsetOK == roundOffset <= roundBase + shares

TypeInv == TypeOK /\ TasksOK /\ OffsetOK

-----------------------------------------------------------------------------
(* The writes each step may put on the queue are of the declared type. *)
LEMMA WriteTypes ==
    ASSUME NEW h \in Blocks, NEW m \in Nat, NEW n \in Nat, NEW e \in Nat,
           NEW won \in BOOLEAN, NEW r \in BlockResolution
    PROVE  /\ BlockFound(h, n, won, m) \in Write
           /\ BlockResolved(h, r) \in Write
           /\ RoundReset(h, e, n, m) \in Write
           /\ Snapshot(e, n) \in Write
BY Zenon DEF BlockFound, BlockResolved, RoundReset, Snapshot, Write

(* The pool boots on an empty file in a good state. *)
LEMMA TypeInit == Init => TypeInv
<1> SUFFICES ASSUME Init PROVE TypeInv
  BY Zenon
<1> USE DEF Init
<1>1. WriterTypeOK(Write)
  BY WriterStarts, Zenon
<1>2. Idle \in TaskState
  BY Zenon DEF Idle, TaskState
<1>3. task \in [Tasks -> TaskState] /\ TasksOK
  BY <1>2, PoolStatsAssumption, Zenon DEF TasksOK, Tasks, Idle
<1>4. foundBlocks \in [Blocks -> [status : BlockStatus, found_ts : Nat,
                                  won_at_submit : BOOLEAN, mark : Nat]]
  BY Zenon DEF Absent, BlockStatus
<1>5. snap \in [pc : {"idle", "totals", "enqueue"}, epoch : Nat, accepted : Nat]
  BY Zenon DEF SnapIdle
<1> QED
  BY <1>1, <1>3, <1>4, <1>5, PoolStatsAssumption DEF TypeInv, TypeOK, OffsetOK

(* Updating one task keeps every task typed. *)
LEMMA TaskUpdate ==
    ASSUME TypeOK, TasksOK, NEW t \in Tasks, NEW s \in TaskState,
           task' = [task EXCEPT ![t] = s],
           t \in Reporters => /\ s.pc # "enqueue_resolved"
                              /\ s.pc \notin {"idle", "done"} => s.hash \in Blocks,
           t = "sweeper" => /\ s.pc \in {"idle", "bump_epoch", "enqueue_reset", "enqueue_resolved"}
                            /\ s.pc # "idle" => s.hash \in Blocks /\ s.resolution \in BlockResolution
    PROVE  task' \in [Tasks -> TaskState] /\ TasksOK'
<1>1. task \in [Tasks -> TaskState]
  BY Zenon DEF TypeOK
<1>2. task' \in [Tasks -> TaskState]
  BY <1>1, Zenon
<1>3. \A u \in Tasks : task'[u] = IF u = t THEN s ELSE task[u]
  BY <1>1, Zenon
<1> QED
  BY <1>2, <1>3, PoolStatsAssumption, Zenon DEF TasksOK, Tasks

(* Every step of the pool, the writer and the environment keeps the types. *)
LEMMA TypeStep == TypeInv /\ [Next]_vars => TypeInv'
<1> SUFFICES ASSUME TypeInv, [Next]_vars PROVE TypeInv'
  BY Zenon
<1> USE PoolStatsAssumption DEF TypeInv, OffsetOK
<1>1. CASE ShareAccepted
  <2>1. WriterTypeOK(Write)'
    BY <1>1, WriterIdle, Zenon DEF ShareAccepted, TypeOK
  <2>2. TasksOK'
    BY <1>1, Zenon DEF ShareAccepted, TasksOK
  <2> QED
    BY <1>1, <2>1, <2>2 DEF ShareAccepted, TypeOK, memoryVars, tableVars, envVars
<1>2. ASSUME NEW t \in Reporters, RecordWin(t) PROVE TypeInv'
  <2>1. WriterTypeOK(Write)'
    BY <1>2, WriterIdle, Zenon DEF RecordWin, TypeOK
  <2>2. InReset(BlockOf[t], TRUE, "none") \in TaskState
    BY Zenon DEF InReset, TaskState, TypeOK
  <2>3. task' \in [Tasks -> TaskState] /\ TasksOK'
    BY <1>2, <2>2, TaskUpdate, Zenon DEF RecordWin, InReset, Tasks
  <2>4. blocksFound' \in Nat /\ roundOffset' \in Nat /\ OffsetOK'
    BY <1>2 DEF RecordWin, ZeroRound, TypeOK
  <2> QED
    BY <1>2, <2>1, <2>3, <2>4, Zenon DEF RecordWin, TypeOK, tableVars, envVars
<1>3. ASSUME NEW t \in Reporters, RecordInconclusive(t) PROVE TypeInv'
  <2>1. WriterTypeOK(Write)'
    BY <1>3, WriterIdle, Zenon DEF RecordInconclusive, TypeOK
  <2> DEFINE s == [Idle EXCEPT !.pc = "enroll", !.hash = BlockOf[t]]
  <2>2. s \in TaskState /\ s.pc = "enroll" /\ s.hash \in Blocks
    BY Zenon DEF Idle, TaskState
  <2>3. task' \in [Tasks -> TaskState] /\ TasksOK'
    BY <1>3, <2>2, TaskUpdate, Zenon DEF RecordInconclusive, Tasks
  <2> QED
    BY <1>3, <2>1, <2>3 DEF RecordInconclusive, TypeOK, roundVars, tableVars, envVars
<1>4. ASSUME NEW t \in Reporters, LookUpPending(t) PROVE TypeInv'
  <2>1. WriterTypeOK(Write)'
    BY <1>4, WriterIdle, Zenon DEF LookUpPending, TypeOK
  <2> DEFINE s == [task[t] EXCEPT !.pc = IF Pending(task[t].hash) THEN "done" ELSE "insert",
                                  !.ts = now]
  <2>2. task[t] \in TaskState /\ task[t].hash \in Blocks
    BY <1>4, Zenon DEF TypeOK, Tasks, TasksOK, LookUpPending
  <2>3. s \in TaskState /\ s.pc \in {"done", "insert"} /\ s.hash \in Blocks
    BY <2>2, Zenon DEF TaskState, TypeOK
  <2>4. task' = [task EXCEPT ![t] = s]
    BY <1>4, Zenon DEF LookUpPending
  <2>5. task' \in [Tasks -> TaskState] /\ TasksOK'
    <3> HIDE DEF s
    <3> QED
      BY <2>3, <2>4, TaskUpdate, Zenon DEF Tasks
  <2> QED
    BY <1>4, <2>1, <2>5, Zenon DEF LookUpPending, TypeOK, memoryVars, roundVars, tableVars, envVars
<1>5. ASSUME NEW t \in Reporters, InsertPending(t) PROVE TypeInv'
  <2>1. WriterTypeOK(Write)'
    BY <1>5, WriterIdle, Zenon DEF InsertPending, TypeOK
  <2> DEFINE s == [task[t] EXCEPT !.pc = "enqueue_found"]
  <2>2. task[t] \in TaskState /\ task[t].hash \in Blocks
    BY <1>5, Zenon DEF TypeOK, Tasks, TasksOK, InsertPending
  <2>3. s \in TaskState /\ s.pc = "enqueue_found" /\ s.hash \in Blocks
    BY <2>2, Zenon DEF TaskState
  <2>4. task' = [task EXCEPT ![t] = s]
    BY <1>5, Zenon DEF InsertPending
  <2>5. task' \in [Tasks -> TaskState] /\ TasksOK'
    <3> HIDE DEF s
    <3> QED
      BY <2>3, <2>4, TaskUpdate, Zenon DEF Tasks
  <2>6. pendingBlocks' \subseteq [hash : Blocks, won_at_submit : BOOLEAN]
    BY <1>5, <2>2 DEF InsertPending, TypeOK, TaskState
  <2> QED
    BY <1>5, <2>1, <2>5, <2>6, Zenon DEF InsertPending, TypeOK, roundVars, tableVars, envVars
<1>6. ASSUME NEW t \in Reporters, EnqueueFound(t) PROVE TypeInv'
  <2> DEFINE s == [task[t] EXCEPT !.pc = "done"]
  <2>2. task[t] \in TaskState /\ task[t].hash \in Blocks
    BY <1>6, Zenon DEF TypeOK, Tasks, TasksOK, EnqueueFound
  <2>3. s \in TaskState /\ s.pc = "done"
    BY <2>2, Zenon DEF TaskState
  <2>4. task' = [task EXCEPT ![t] = s]
    BY <1>6, Zenon DEF EnqueueFound
  <2>5. task' \in [Tasks -> TaskState] /\ TasksOK'
    <3> HIDE DEF s
    <3> QED
      BY <2>3, <2>4, TaskUpdate, Zenon DEF Tasks
  <2>6. BlockFound(task[t].hash, task[t].ts, task[t].won_at_submit, task[t].mark) \in Write
    BY <2>2, Zenon DEF BlockFound, Write, TaskState
  <2>7. WriterTypeOK(Write)'
    BY <1>6, <2>6, EnqueueStep, Zenon DEF EnqueueFound, TypeOK
  <2> QED
    BY <1>6, <2>5, <2>7, Zenon DEF EnqueueFound, TypeOK, memoryVars, roundVars, tableVars, envVars
<1>7. ASSUME NEW t \in Tasks, BumpEpoch(t) PROVE TypeInv'
  <2>1. WriterTypeOK(Write)'
    BY <1>7, WriterIdle, Zenon DEF BumpEpoch, TypeOK
  <2> DEFINE s == [task[t] EXCEPT !.pc = "enqueue_reset", !.epoch = roundEpoch + 1]
  <2>2. /\ task[t] \in TaskState /\ task[t].hash \in Blocks
        /\ t = "sweeper" => task[t].resolution \in BlockResolution
    BY <1>7, Zenon DEF TypeOK, Tasks, TasksOK, BumpEpoch
  <2>6. roundEpoch + 1 \in Nat
    BY DEF TypeOK
  <2>3. /\ s \in TaskState /\ s.pc = "enqueue_reset" /\ s.hash \in Blocks
        /\ t = "sweeper" => s.resolution \in BlockResolution
    BY <2>2, <2>6, Zenon DEF TaskState
  <2>4. task' = [task EXCEPT ![t] = s]
    BY <1>7, Zenon DEF BumpEpoch
  <2>5. task' \in [Tasks -> TaskState] /\ TasksOK'
    <3> HIDE DEF s
    <3> QED
      BY <2>3, <2>4, TaskUpdate, Zenon DEF Tasks
  <2> QED
    BY <1>7, <2>1, <2>5, <2>6, Zenon DEF BumpEpoch, TypeOK, memoryVars, tableVars, envVars
<1>8. ASSUME NEW t \in Tasks, EnqueueReset(t) PROVE TypeInv'
  <2> DEFINE s == [task[t] EXCEPT !.pc = IF t = "sweeper" THEN "enqueue_resolved" ELSE "enroll"]
  <2>2. /\ task[t] \in TaskState /\ task[t].hash \in Blocks
        /\ t = "sweeper" => task[t].resolution \in BlockResolution
    BY <1>8, Zenon DEF TypeOK, Tasks, TasksOK, EnqueueReset
  <2>3. /\ s \in TaskState /\ s.hash \in Blocks
        /\ t # "sweeper" => s.pc = "enroll"
        /\ t = "sweeper" => s.pc = "enqueue_resolved" /\ s.resolution \in BlockResolution
    BY <2>2, Zenon DEF TaskState
  <2>4. task' = [task EXCEPT ![t] = s]
    BY <1>8, Zenon DEF EnqueueReset
  <2>5. task' \in [Tasks -> TaskState] /\ TasksOK'
    <3> HIDE DEF s
    <3> QED
      BY <2>3, <2>4, TaskUpdate, Zenon DEF Tasks
  <2>6. RoundReset(task[t].hash, task[t].epoch, task[t].ts, task[t].mark) \in Write
    BY <2>2, Zenon DEF RoundReset, Write, TaskState
  <2>7. WriterTypeOK(Write)'
    BY <1>8, <2>6, EnqueueStep, Zenon DEF EnqueueReset, TypeOK
  <2> QED
    BY <1>8, <2>5, <2>7, Zenon DEF EnqueueReset, TypeOK, memoryVars, roundVars, tableVars, envVars
<1>9. ASSUME NEW p \in pendingBlocks, ResolveOrphanedWin(p) PROVE TypeInv'
  <2>1. WriterTypeOK(Write)'
    BY <1>9, WriterIdle, Zenon DEF ResolveOrphanedWin, TypeOK
  <2>2. Verdict(p, "orphaned") \in TaskState /\ Verdict(p, "orphaned").hash \in Blocks
    BY Zenon DEF Verdict, Idle, TaskState, TypeOK, BlockResolution
  <2>3. task' \in [Tasks -> TaskState] /\ TasksOK'
    BY <1>9, <2>2, TaskUpdate, Zenon DEF ResolveOrphanedWin, Verdict, Idle, Tasks, BlockResolution
  <2>4. blocksOrphaned' \in Nat /\ blocksFound' \in Nat
    BY <1>9 DEF ResolveOrphanedWin, Saturating, TypeOK
  <2> QED
    BY <1>9, <2>1, <2>3, <2>4, Zenon
    DEF ResolveOrphanedWin, Retire, TypeOK, roundVars, tableVars, envVars
<1>10. ASSUME NEW p \in pendingBlocks, ResolvePromoted(p) PROVE TypeInv'
  <2>1. WriterTypeOK(Write)'
    BY <1>10, WriterIdle, Zenon DEF ResolvePromoted, TypeOK
  <2>2. InReset(p.hash, FALSE, "confirmed") \in TaskState /\ p.hash \in Blocks
    BY Zenon DEF InReset, TaskState, TypeOK, BlockResolution
  <2>3. task' \in [Tasks -> TaskState] /\ TasksOK'
    BY <1>10, <2>2, TaskUpdate, Zenon DEF ResolvePromoted, InReset, Tasks, BlockResolution
  <2>4. blocksInconclusive' \in Nat /\ blocksFound' \in Nat
    BY <1>10 DEF ResolvePromoted, Saturating, TypeOK
  <2>5. roundOffset' \in Nat /\ OffsetOK'
    BY <1>10 DEF ResolvePromoted, ZeroRound, TypeOK
  <2> QED
    BY <1>10, <2>1, <2>3, <2>4, <2>5, Zenon DEF ResolvePromoted, Retire, TypeOK, tableVars, envVars
<1>11. ASSUME NEW p \in pendingBlocks, NEW r \in BlockResolution, ResolveAsCounted(p, r)
       PROVE  TypeInv'
  <2>1. WriterTypeOK(Write)'
    BY <1>11, WriterIdle, Zenon DEF ResolveAsCounted, TypeOK
  <2>2. Verdict(p, r) \in TaskState /\ Verdict(p, r).hash \in Blocks
    BY Zenon DEF Verdict, Idle, TaskState, TypeOK
  <2>3. task' \in [Tasks -> TaskState] /\ TasksOK'
    BY <1>11, <2>2, TaskUpdate, Zenon DEF ResolveAsCounted, Verdict, Idle, Tasks
  <2> QED
    BY <1>11, <2>1, <2>3, Zenon DEF ResolveAsCounted, Retire, TypeOK, roundVars, tableVars, envVars
<1>12. CASE EnqueueResolved
  <2>1. Idle \in TaskState /\ Idle.pc = "idle"
    BY Zenon DEF Idle, TaskState
  <2>2. task' \in [Tasks -> TaskState] /\ TasksOK'
    BY <1>12, <2>1, TaskUpdate, Zenon DEF EnqueueResolved, Tasks
  <2>3. BlockResolved(task["sweeper"].hash, task["sweeper"].resolution) \in Write
    BY <1>12, Zenon DEF EnqueueResolved, TasksOK, BlockResolved, Write
  <2>4. WriterTypeOK(Write)'
    BY <1>12, <2>3, EnqueueStep, Zenon DEF EnqueueResolved, TypeOK
  <2> QED
    BY <1>12, <2>2, <2>4, Zenon DEF EnqueueResolved, TypeOK, memoryVars, roundVars, tableVars, envVars
<1>13. CASE SnapshotEpoch
  <2>1. WriterTypeOK(Write)'
    BY <1>13, WriterIdle, Zenon DEF SnapshotEpoch, TypeOK
  <2>2. TasksOK'
    BY <1>13, Zenon DEF SnapshotEpoch, TasksOK
  <2>3. snapshots' \in 0..MaxSnapshots
    BY <1>13 DEF SnapshotEpoch, TypeOK
  <2> QED
    BY <1>13, <2>1, <2>2, <2>3, Zenon DEF SnapshotEpoch, TypeOK, memoryVars, roundVars, tableVars
<1>14. CASE SnapshotTotals
  <2>1. WriterTypeOK(Write)'
    BY <1>14, WriterIdle, Zenon DEF SnapshotTotals, TypeOK
  <2>2. TasksOK'
    BY <1>14, Zenon DEF SnapshotTotals, TasksOK
  <2>3. RoundSharesAccepted \in Nat
    BY DEF RoundSharesAccepted, TypeOK
  <2>4. snap' \in [pc : {"idle", "totals", "enqueue"}, epoch : Nat, accepted : Nat]
    BY <1>14, <2>3, Zenon DEF SnapshotTotals, TypeOK
  <2> QED
    BY <1>14, <2>1, <2>2, <2>4, Zenon
    DEF SnapshotTotals, TypeOK, memoryVars, roundVars, tableVars, envVars
<1>15. CASE SnapshotEnqueue
  <2>1. Snapshot(snap.epoch, snap.accepted) \in Write
    BY Zenon DEF Snapshot, Write, TypeOK
  <2>2. WriterTypeOK(Write)'
    BY <1>15, <2>1, EnqueueStep, Zenon DEF SnapshotEnqueue, TypeOK
  <2>3. TasksOK'
    BY <1>15, Zenon DEF SnapshotEnqueue, TasksOK
  <2> QED
    BY <1>15, <2>2, <2>3, Zenon
    DEF SnapshotEnqueue, SnapIdle, TypeOK, memoryVars, roundVars, tableVars, envVars
<1>16. CASE WriterReceives
  <2>1. WriterTypeOK(Write)'
    BY <1>16, ReceiveStep, Zenon DEF WriterReceives, TypeOK
  <2>2. TasksOK'
    BY <1>16, Zenon DEF WriterReceives, ApplyUnchanged, TasksOK
  <2> QED
    BY <1>16, <2>1, <2>2, Zenon
    DEF WriterReceives, ApplyUnchanged, TypeOK, memoryVars, roundVars, tableVars, envVars
<1>17. CASE ApplyWrite
  <2>1. TasksOK' /\ OffsetOK'
    BY <1>17, Zenon DEF ApplyWrite, ApplyBlockFound, ApplyBlockResolved, BlockResolvedOutran,
       ApplyRoundReset, ApplySnapshot, Applying, ApplyUnchanged, TasksOK, roundVars
  <2>2. CASE BlockResolvedOutran
    <3>1. IsDurable(Current) \in BOOLEAN
      BY DEF IsDurable
    <3>2. WriterTypeOK(Write)'
      BY <2>2, <3>1, FailedStep, Zenon DEF BlockResolvedOutran, TypeOK
    <3> QED
      BY <2>1, <2>2, <3>2, Zenon DEF BlockResolvedOutran, ApplyUnchanged, TypeOK,
         memoryVars, roundVars, tableVars, envVars
  <2>3. ASSUME NEW kind, Applying(kind)
        PROVE  WriterTypeOK(Write)' /\ Current \in Write /\ Current.kind = kind
    BY <2>3, AppliedStep, CurrentInFlight, Zenon DEF Applying, TypeOK
  <2>4. CASE ApplyBlockFound
    <3>1. Current \in Write /\ Current.kind = "BlockFound"
      BY <2>3, <2>4, Zenon DEF ApplyBlockFound
    <3>2. /\ Current.hash \in Blocks /\ Current.found_ts \in Nat
          /\ Current.won_at_submit \in BOOLEAN /\ Current.mark \in Nat
      BY <3>1, Zenon DEF Write
    <3>3. foundBlocks' \in [Blocks -> [status : BlockStatus, found_ts : Nat,
                                       won_at_submit : BOOLEAN, mark : Nat]]
      BY <2>4, <3>2, Zenon DEF ApplyBlockFound, TypeOK, BlockStatus
    <3> QED
      BY <2>1, <2>3, <2>4, <3>3, Zenon
      DEF ApplyBlockFound, Applying, ApplyUnchanged, TypeOK, memoryVars, roundVars, envVars
  <2>5. CASE ApplyBlockResolved
    <3>1. Current \in Write /\ Current.kind = "BlockResolved"
      BY <2>3, <2>5, Zenon DEF ApplyBlockResolved
    <3>2. Current.hash \in Blocks /\ Current.resolution \in BlockResolution
      BY <3>1, Zenon DEF Write
    <3>3. foundBlocks' \in [Blocks -> [status : BlockStatus, found_ts : Nat,
                                       won_at_submit : BOOLEAN, mark : Nat]]
      BY <2>5, <3>2 DEF ApplyBlockResolved, TypeOK, BlockStatus
    <3> QED
      BY <2>1, <2>3, <2>5, <3>3, Zenon
      DEF ApplyBlockResolved, Applying, ApplyUnchanged, TypeOK, memoryVars, roundVars, envVars
  <2>6. CASE ApplyRoundReset
    <3>1. Current \in Write /\ Current.kind = "RoundReset"
      BY <2>3, <2>6, Zenon DEF ApplyRoundReset
    <3>2. /\ Current.hash \in Blocks /\ Current.epoch \in Nat
          /\ Current.since_ts \in Nat /\ Current.mark \in Nat
      BY <3>1, Zenon DEF Write
    <3>3. {roundTotal', dbMark', writerEpoch', roundSince'} \subseteq Nat
      BY <2>6, <3>2 DEF ApplyRoundReset, Larger, TypeOK
    <3> QED
      BY <2>1, <2>3, <2>6, <3>3
      DEF ApplyRoundReset, Applying, ApplyUnchanged, TypeOK, memoryVars, roundVars, envVars
  <2>7. CASE ApplySnapshot
    <3>1. Current \in Write /\ Current.kind = "Snapshot"
      BY <2>3, <2>7, Zenon DEF ApplySnapshot
    <3>2. Current.accepted \in Nat
      BY <3>1, Zenon DEF Write
    <3>3. roundTotal' \in Nat
      BY <2>7, <3>2, Zenon DEF ApplySnapshot, Larger, TypeOK
    <3> QED
      BY <2>1, <2>3, <2>7, <3>3, Zenon
      DEF ApplySnapshot, Applying, ApplyUnchanged, TypeOK, memoryVars, roundVars, envVars
  <2> QED
    BY <1>17, <2>2, <2>4, <2>5, <2>6, <2>7, Zenon DEF ApplyWrite
<1>18. CASE DiskFails
  <2>1. IsDurable(Current) \in BOOLEAN
    BY DEF IsDurable
  <2>2. WriterTypeOK(Write)'
    BY <1>18, <2>1, FailedStep, Zenon DEF DiskFails, TypeOK
  <2>3. TasksOK'
    BY <1>18, Zenon DEF DiskFails, TasksOK
  <2>4. failures' \in 0..MaxFailures
    BY <1>18 DEF DiskFails, TypeOK
  <2> QED
    BY <1>18, <2>2, <2>3, <2>4, Zenon DEF DiskFails, TypeOK, memoryVars, roundVars, tableVars
<1>19. CASE Restart
  <2>1. WriterTypeOK(Write)'
    BY <1>19, LostStep, Zenon DEF Restart
  <2>2. {roundTotal', dbMark', roundSince', roundBase', roundOffset', shares'} \subseteq Nat
    <3>1. LastWin \subseteq Nat
      BY DEF LastWin, WinTimes, TypeOK
    <3> QED
      BY <1>19, <3>1 DEF Restart, TypeOK
  <2>3. {blocksFound', blocksOrphaned', blocksInconclusive'} \subseteq Nat
    <3>1. \A S \in SUBSET Blocks : Cardinality(S) \in Nat
      BY FS_Subset, FS_CardinalityType, Zenon
    <3>2. FoundRows \subseteq Blocks /\ OrphanedRows \subseteq Blocks /\ InconclusiveRows \subseteq Blocks
      BY Zenon DEF FoundRows, OrphanedRows, InconclusiveRows
    <3> QED
      BY <1>19, <3>1, <3>2, Zenon DEF Restart
  <2>4. task' \in [Tasks -> TaskState] /\ TasksOK'
    <3>1. Idle \in TaskState /\ [Idle EXCEPT !.pc = "done"] \in TaskState
      BY Zenon DEF Idle, TaskState
    <3>2. task' \in [Tasks -> TaskState]
      BY <1>19, <3>1, Zenon DEF Restart
    <3>3. /\ \A t \in Tasks : task'[t].pc \in {"idle", "done"}
          /\ task'["sweeper"].pc = "idle"
      BY <1>19, Zenon DEF Restart, Tasks, Idle
    <3> QED
      BY <3>2, <3>3, Zenon DEF TasksOK, Tasks
  <2>5. pendingBlocks' \subseteq [hash : Blocks, won_at_submit : BOOLEAN]
    BY <1>19 DEF Restart, TypeOK, Won
  <2>6. restarts' \in 0..MaxRestarts
    BY <1>19 DEF Restart, TypeOK
  <2>7. OffsetOK'
    BY <1>19, <2>2 DEF Restart
  <2> QED
    BY <1>19, <2>1, <2>2, <2>3, <2>4, <2>5, <2>6, <2>7, Zenon DEF Restart, SnapIdle, TypeOK
<1>20. CASE Tick
  <2>1. WriterTypeOK(Write)'
    BY <1>20, WriterIdle, Zenon DEF Tick, TypeOK
  <2>2. TasksOK'
    BY <1>20, Zenon DEF Tick, TasksOK
  <2>3. now' \in Nat
    BY <1>20 DEF Tick, TypeOK
  <2> QED
    BY <1>20, <2>1, <2>2, <2>3, Zenon DEF Tick, TypeOK, memoryVars, roundVars, tableVars
<1>21. CASE UNCHANGED vars
  <2>1. WriterTypeOK(Write)'
    BY <1>21, WriterIdle, Zenon DEF vars, TypeOK
  <2>2. TasksOK'
    BY <1>21, Zenon DEF vars, TasksOK
  <2> QED
    BY <1>21, <2>1, <2>2, Zenon DEF vars, TypeOK, memoryVars, roundVars, tableVars, envVars
<1> QED
  BY <1>1, <1>2, <1>3, <1>4, <1>5, <1>6, <1>7, <1>8, <1>9, <1>10, <1>11, <1>12, <1>13,
     <1>14, <1>15, <1>16, <1>17, <1>18, <1>19, <1>20, <1>21, Zenon
  DEF Next, Report, Sweep, TakeSnapshot

(* Types hold in every reachable state, for any blocks, reporters and      *)
(* bounds: no write, task or row is ever malformed.                        *)
THEOREM TypeCorrect == Spec => []TypeOK
<1>1. Spec => []TypeInv
  BY TypeInit, TypeStep, PTL DEF Spec
<1>2. TypeInv => TypeOK
  BY Zenon DEF TypeInv
<1> QED
  BY <1>1, <1>2, PTL

-----------------------------------------------------------------------------
(* The epoch handshake: no snapshot brings a finished round back. *)

(* A reset, or a snapshot, that the table has yet to see. *)
ResetUnderWay(e, m) ==
    \/ \E w \in InFlight : w.kind = "RoundReset" /\ w.epoch = e /\ w.mark = m
    \/ \E t \in Tasks : task[t].pc = "enqueue_reset" /\ task[t].epoch = e /\ task[t].mark = m

SnapshotUnderWay(e, n) ==
    \/ \E w \in InFlight : w.kind = "Snapshot" /\ w.epoch = e /\ w.accepted = n
    \/ snap.pc = "enqueue" /\ snap.epoch = e /\ snap.accepted = n

(* A total counted with the shares a reset cut off: at most all shares. *)
Fits(n, m) == n + m <= everShares

(* NoRoundResurrected, made inductive.  What the table holds and what      *)
(* memory holds both lie after the table's latest zeroing; memory lies     *)
(* after every reset on its way; and a snapshot on its way lies after the  *)
(* zeroing, and after every reset on its way, that its epoch can outlive.  *)
RoundInv ==
    /\ Fits(roundTotal, dbMark)
    /\ Fits(RoundSharesAccepted, dbMark)
    /\ snap.epoch <= roundEpoch /\ writerEpoch <= roundEpoch
    /\ \A t \in Tasks : task[t].pc = "bump_epoch" => Fits(RoundSharesAccepted, task[t].mark)
    /\ \A e, m \in Nat : ResetUnderWay(e, m) => e <= roundEpoch /\ Fits(RoundSharesAccepted, m)
    /\ \A e, n \in Nat : SnapshotUnderWay(e, n) =>
          /\ e <= roundEpoch /\ n <= everShares
          /\ writerEpoch <= e => Fits(n, dbMark)
          /\ \A f, m \in Nat : ResetUnderWay(f, m) /\ f <= e => Fits(n, m)

RoundTypes ==
    /\ {roundTotal, dbMark, everShares, RoundSharesAccepted, roundEpoch, writerEpoch} \subseteq Nat
    /\ snap \in [pc : {"idle", "totals", "enqueue"}, epoch : Nat, accepted : Nat]
    /\ task \in [Tasks -> TaskState]
    /\ WriterTypeOK(Write)

(* A step that starts no reset and no snapshot, and leaves the totals and  *)
(* the epochs alone, keeps the invariant.                                  *)
LEMMA RoundFrame ==
    ASSUME RoundInv, RoundTypes,
           UNCHANGED <<roundTotal, dbMark, everShares, RoundSharesAccepted, roundEpoch, writerEpoch>>,
           snap'.epoch <= roundEpoch,
           \A t \in Tasks : task'[t].pc = "bump_epoch" =>
                               Fits(RoundSharesAccepted, task'[t].mark),
           \A e, m \in Nat : ResetUnderWay(e, m)' => ResetUnderWay(e, m),
           \A e, n \in Nat : SnapshotUnderWay(e, n)' => SnapshotUnderWay(e, n)
    PROVE  RoundInv'
BY Zenon DEF RoundInv, Fits

(* The same, from how the tasks and the queue changed: no task entered     *)
(* round_reset and no reset or snapshot joined the queue.                  *)
LEMMA RoundQuiet ==
    ASSUME RoundInv, RoundTypes,
           UNCHANGED <<roundTotal, dbMark, everShares, RoundSharesAccepted, roundEpoch,
                       writerEpoch, snap>>,
           \A t \in Tasks : \/ task'[t] = task[t]
                            \/ task'[t].pc \notin {"bump_epoch", "enqueue_reset"},
           \A w \in InFlight' \ InFlight : w.kind \notin {"RoundReset", "Snapshot"}
    PROVE  RoundInv'
<1>1. \A e, m \in Nat : ResetUnderWay(e, m)' => ResetUnderWay(e, m)
  BY Zenon DEF ResetUnderWay
<1>2. \A e, n \in Nat : SnapshotUnderWay(e, n)' => SnapshotUnderWay(e, n)
  BY Zenon DEF SnapshotUnderWay
<1>3. \A t \in Tasks : task'[t].pc = "bump_epoch" => Fits(RoundSharesAccepted, task'[t].mark)
  BY Zenon DEF RoundInv
<1>4. snap'.epoch <= roundEpoch
  BY Zenon DEF RoundInv
<1> QED
  BY <1>1, <1>2, <1>3, <1>4, RoundFrame, Zenon

(* The tables and the counters of a new database agree. *)
LEMMA RoundStart == Init => RoundInv
<1> SUFFICES ASSUME Init PROVE RoundInv
  BY Zenon
<1>1. InFlight = {}
  BY WriterStarts, Zenon DEF Init
<1>2. /\ \A t \in Tasks : task[t].pc = "idle"
      /\ snap.pc = "idle" /\ snap.epoch = 0
  BY Zenon DEF Init, Idle, SnapIdle
<1>3. \A e, m \in Nat : ~ResetUnderWay(e, m) /\ ~SnapshotUnderWay(e, m)
  BY <1>1, <1>2, Zenon DEF ResetUnderWay, SnapshotUnderWay
<1> QED
  BY <1>2, <1>3 DEF Init, RoundInv, Fits, RoundSharesAccepted

(* Every step of a caller, the ticker, the writer or the environment keeps *)
(* the round invariant; one case per action.                               *)
LEMMA RoundStep == TypeInv /\ TypeInv' /\ RoundInv /\ [Next]_vars => RoundInv'
<1> SUFFICES ASSUME TypeInv, TypeInv', RoundInv, [Next]_vars PROVE RoundInv'
  BY Zenon
<1>t. RoundTypes /\ RoundTypes'
  BY DEF TypeInv, TypeOK, OffsetOK, RoundTypes, RoundSharesAccepted
<1>w. ASSUME UNCHANGED writerVars PROVE InFlight' = InFlight
  BY <1>t, <1>w, WriterIdle, Zenon DEF RoundTypes
<1>1. CASE ShareAccepted
  <2>1. /\ UNCHANGED <<roundTotal, dbMark, roundEpoch, writerEpoch, task, snap>>
        /\ everShares' = everShares + 1
        /\ RoundSharesAccepted' = RoundSharesAccepted + 1
    <3>1. shares \in Nat /\ roundBase \in Nat /\ roundOffset \in Nat
      BY Zenon DEF TypeInv, TypeOK
    <3>2. /\ UNCHANGED <<roundTotal, dbMark, roundEpoch, writerEpoch, task, snap>>
          /\ UNCHANGED <<roundBase, roundOffset>> /\ shares' = shares + 1 /\ everShares' = everShares + 1
      BY <1>1, Zenon DEF ShareAccepted, tableVars
    <3> QED
      BY <3>1, <3>2 DEF RoundSharesAccepted
  <2>2. InFlight' = InFlight
    BY <1>1, <1>w, Zenon DEF ShareAccepted
  <2>3. \A e, m \in Nat : /\ ResetUnderWay(e, m)' <=> ResetUnderWay(e, m)
                          /\ SnapshotUnderWay(e, m)' <=> SnapshotUnderWay(e, m)
    BY <2>1, <2>2, Zenon DEF ResetUnderWay, SnapshotUnderWay
  <2>4. \A t \in Tasks : task[t].mark \in Nat
    BY <1>t, Zenon DEF RoundTypes, TaskState
  <2> QED
    BY <1>t, <2>1, <2>3, <2>4 DEF RoundInv, Fits, RoundTypes
<1>2. ASSUME NEW t \in Tasks, NEW v, ZeroRound, task' = [task EXCEPT ![t] = v],
             v.pc = "bump_epoch", v.mark = everShares,
             UNCHANGED <<writerVars, shares, roundBase, roundEpoch, everShares, snap, tableVars>>
      PROVE RoundInv'
  <2>1. /\ UNCHANGED <<roundTotal, dbMark, roundEpoch, writerEpoch, everShares, snap>>
        /\ RoundSharesAccepted' = 0
    BY <1>2 DEF ZeroRound, tableVars, RoundSharesAccepted, TypeInv, TypeOK
  <2>2. InFlight' = InFlight
    BY <1>2, <1>w, Zenon
  <2>3. task'[t] = v /\ \A u \in Tasks \ {t} : task'[u] = task[u]
    BY <1>2, <1>t, Zenon DEF RoundTypes
  <2>4. \A e, m \in Nat : /\ ResetUnderWay(e, m)' => ResetUnderWay(e, m)
                          /\ SnapshotUnderWay(e, m)' => SnapshotUnderWay(e, m)
    BY <1>2, <2>1, <2>2, <2>3, Zenon DEF ResetUnderWay, SnapshotUnderWay
  <2>5. \A u \in Tasks : task[u].mark \in Nat
    BY <1>t, Zenon DEF RoundTypes, TaskState
  <2>6. \A u \in Tasks : task'[u].pc = "bump_epoch" => Fits(0, task'[u].mark)
    BY <1>2, <1>t, <2>3, <2>5 DEF RoundInv, Fits, RoundTypes
  <2> QED
    BY <1>t, <2>1, <2>4, <2>6 DEF RoundInv, Fits, RoundTypes
<1>3. ASSUME NEW t \in Reporters, RecordWin(t) PROVE RoundInv'
  <2> DEFINE v == InReset(BlockOf[t], TRUE, "none")
  <2>1. v.pc = "bump_epoch" /\ v.mark = everShares /\ t \in Tasks
    BY Zenon DEF InReset, Tasks
  <2>2. /\ ZeroRound /\ task' = [task EXCEPT ![t] = v]
        /\ UNCHANGED <<writerVars, shares, roundBase, roundEpoch, everShares, snap, tableVars>>
    BY <1>3, Zenon DEF RecordWin
  <2> HIDE DEF v
  <2> QED
    BY <1>2, <2>1, <2>2, Zenon
<1>4. ASSUME NEW p \in pendingBlocks, ResolvePromoted(p) PROVE RoundInv'
  <2> DEFINE v == InReset(p.hash, FALSE, "confirmed")
  <2>1. v.pc = "bump_epoch" /\ v.mark = everShares /\ "sweeper" \in Tasks
    BY Zenon DEF InReset, Tasks
  <2>2. /\ ZeroRound /\ task' = [task EXCEPT !["sweeper"] = v]
        /\ UNCHANGED <<writerVars, shares, roundBase, roundEpoch, everShares, snap, tableVars>>
    BY <1>4, Zenon DEF ResolvePromoted
  <2> HIDE DEF v
  <2> QED
    BY <1>2, <2>1, <2>2, Zenon
<1>5. ASSUME NEW t \in Tasks, BumpEpoch(t) PROVE RoundInv'
  <2>1. /\ UNCHANGED <<roundTotal, dbMark, writerEpoch, everShares, RoundSharesAccepted, snap>>
        /\ roundEpoch' = roundEpoch + 1
    BY <1>5, Zenon DEF BumpEpoch, tableVars, RoundSharesAccepted
  <2>2. InFlight' = InFlight
    BY <1>5, <1>w, Zenon DEF BumpEpoch
  <2>3. /\ task[t].pc = "bump_epoch" /\ task'[t].pc = "enqueue_reset"
        /\ task'[t].epoch = roundEpoch + 1 /\ task'[t].mark = task[t].mark
        /\ \A u \in Tasks \ {t} : task'[u] = task[u]
        /\ \A u \in Tasks : task[u].mark \in Nat
    BY <1>5, <1>t DEF BumpEpoch, RoundTypes, TaskState
  <2>4. \A e, m \in Nat : ResetUnderWay(e, m)' =>
            ResetUnderWay(e, m) \/ (e = roundEpoch + 1 /\ m = task[t].mark)
    BY <2>2, <2>3, Zenon DEF ResetUnderWay
  <2>5. \A e, n \in Nat : SnapshotUnderWay(e, n)' => SnapshotUnderWay(e, n)
    BY <2>1, <2>2, Zenon DEF SnapshotUnderWay
  <2>6. Fits(RoundSharesAccepted, task[t].mark)
    BY <2>3, Zenon DEF RoundInv
  <2>7. \A u \in Tasks : task'[u].pc = "bump_epoch" => Fits(RoundSharesAccepted, task'[u].mark)
    BY <2>3, Zenon DEF RoundInv
  <2> QED
    BY <1>t, <2>1, <2>4, <2>5, <2>6, <2>7 DEF RoundInv, Fits, RoundTypes
<1>6. ASSUME NEW t \in Tasks, EnqueueReset(t) PROVE RoundInv'
  <2> DEFINE w == RoundReset(task[t].hash, task[t].epoch, task[t].ts, task[t].mark)
  <2>1. UNCHANGED <<roundTotal, dbMark, everShares, RoundSharesAccepted, roundEpoch, writerEpoch, snap>>
    BY <1>6, Zenon DEF EnqueueReset, roundVars, tableVars, RoundSharesAccepted
  <2>2. /\ task[t].pc = "enqueue_reset" /\ task'[t].pc \in {"enqueue_resolved", "enroll"}
        /\ \A u \in Tasks \ {t} : task'[u] = task[u]
    BY <1>6, <1>t DEF EnqueueReset, RoundTypes, TaskState
  <2>3. w \in Write /\ w.kind = "RoundReset" /\ w.epoch = task[t].epoch /\ w.mark = task[t].mark
    <3>1. task[t] \in TaskState /\ task[t].hash \in Blocks
      BY <1>t, <2>2, Zenon DEF RoundTypes, TypeInv, TasksOK, Tasks
    <3> QED
      BY <3>1, Zenon DEF RoundReset, Write, TaskState
  <2>4. InFlight' = InFlight \cup {w}
    BY <1>t, <1>6, <2>3, EnqueueStep, Zenon DEF EnqueueReset, RoundTypes
  <2> HIDE DEF w
  <2>5. \A e, m \in Nat : ResetUnderWay(e, m)' => ResetUnderWay(e, m)
    BY <2>2, <2>3, <2>4 DEF ResetUnderWay
  <2>6. \A e, n \in Nat : SnapshotUnderWay(e, n)' => SnapshotUnderWay(e, n)
    BY <2>1, <2>3, <2>4, Zenon DEF SnapshotUnderWay
  <2>7. \A u \in Tasks : task'[u].pc = "bump_epoch" => Fits(RoundSharesAccepted, task'[u].mark)
    BY <2>2, Zenon DEF RoundInv
  <2>8. snap'.epoch <= roundEpoch
    BY <2>1, Zenon DEF RoundInv
  <2> QED
    BY <1>t, <2>1, <2>5, <2>6, <2>7, <2>8, RoundFrame, Zenon
<1>7. ASSUME NEW t \in Reporters,
             \/ RecordInconclusive(t) \/ LookUpPending(t) \/ InsertPending(t) \/ EnqueueFound(t)
      PROVE RoundInv'
  <2>1. UNCHANGED <<roundTotal, dbMark, everShares, RoundSharesAccepted, roundEpoch, writerEpoch, snap>>
    BY <1>7, Zenon DEF RecordInconclusive, LookUpPending, InsertPending, EnqueueFound, roundVars,
       tableVars, RoundSharesAccepted
  <2>2. /\ task'[t].pc \notin {"bump_epoch", "enqueue_reset"}
        /\ \A u \in Tasks \ {t} : task'[u] = task[u]
    <3>0. t \in Tasks /\ task \in [Tasks -> TaskState]
      BY <1>t, Zenon DEF Tasks, RoundTypes
    <3>1. CASE RecordInconclusive(t)
      BY <3>0, <3>1, Zenon DEF RecordInconclusive, Idle
    <3>2. CASE LookUpPending(t)
      BY <3>0, <3>2, Zenon DEF LookUpPending, TaskState
    <3>3. CASE InsertPending(t)
      BY <3>0, <3>3, Zenon DEF InsertPending, TaskState
    <3>4. CASE EnqueueFound(t)
      BY <3>0, <3>4, Zenon DEF EnqueueFound, TaskState
    <3> QED
      BY <1>7, <3>1, <3>2, <3>3, <3>4, Zenon
  <2>3. CASE EnqueueFound(t)
    <3> DEFINE w == BlockFound(task[t].hash, task[t].ts, task[t].won_at_submit, task[t].mark)
    <3>1. task[t] \in TaskState /\ task[t].hash \in Blocks
      BY <1>t, <2>3, Zenon DEF EnqueueFound, RoundTypes, TypeInv, TasksOK, Tasks
    <3>2. w \in Write /\ w.kind = "BlockFound"
      BY <3>1, Zenon DEF BlockFound, Write, TaskState
    <3>3. InFlight' = InFlight \cup {w}
      BY <1>t, <2>3, <3>2, EnqueueStep, Zenon DEF EnqueueFound, RoundTypes
    <3> HIDE DEF w
    <3> QED
      BY <1>t, <2>1, <2>2, <3>2, <3>3, RoundQuiet, Zenon
  <2>4. CASE ~EnqueueFound(t)
    <3>1. InFlight' = InFlight
      BY <1>7, <1>w, <2>4, Zenon DEF RecordInconclusive, LookUpPending, InsertPending
    <3> QED
      BY <1>t, <2>1, <2>2, <3>1, RoundQuiet, Zenon
  <2> QED
    BY <2>3, <2>4, Zenon
<1>8. ASSUME NEW p \in pendingBlocks,
             \/ ResolveOrphanedWin(p)
             \/ \E resolution \in BlockResolution : ResolveAsCounted(p, resolution)
      PROVE RoundInv'
  <2>1. UNCHANGED <<roundTotal, dbMark, everShares, RoundSharesAccepted, roundEpoch,
                    writerEpoch, snap, writerVars>>
    BY <1>8, Zenon DEF ResolveOrphanedWin, ResolveAsCounted, roundVars, tableVars, RoundSharesAccepted
  <2>2. \A r : Verdict(p, r).pc = "enqueue_resolved"
    BY Zenon DEF Verdict, Idle
  <2>3. \E r : task' = [task EXCEPT !["sweeper"] = Verdict(p, r)]
    BY <1>8, Zenon DEF ResolveOrphanedWin, ResolveAsCounted
  <2>4. \A t \in Tasks : task'[t] = task[t] \/ task'[t].pc = "enqueue_resolved"
    BY <1>t, <2>2, <2>3 DEF RoundTypes
  <2> QED
    BY <1>t, <1>w, <2>1, <2>4, RoundQuiet, Zenon
<1>9. CASE EnqueueResolved
  <2> DEFINE w == BlockResolved(task["sweeper"].hash, task["sweeper"].resolution)
  <2>1. UNCHANGED <<roundTotal, dbMark, everShares, RoundSharesAccepted, roundEpoch,
                    writerEpoch, snap>>
    BY <1>9, Zenon DEF EnqueueResolved, roundVars, tableVars, RoundSharesAccepted
  <2>2. \A t \in Tasks : task'[t] = task[t] \/ task'[t].pc = "idle"
    BY <1>9, <1>t, Zenon DEF EnqueueResolved, Idle, RoundTypes
  <2>3. w \in Write /\ w.kind = "BlockResolved"
    BY <1>9, Zenon DEF EnqueueResolved, BlockResolved, Write, TypeInv, TasksOK
  <2>4. InFlight' = InFlight \cup {w}
    BY <1>t, <1>9, <2>3, EnqueueStep, Zenon DEF EnqueueResolved, RoundTypes
  <2> HIDE DEF w
  <2> QED
    BY <1>t, <2>1, <2>2, <2>3, <2>4, RoundQuiet, Zenon
<1>10. CASE \/ ApplyBlockFound \/ ApplyBlockResolved \/ BlockResolvedOutran \/ DiskFails
            \/ WriterReceives \/ Tick \/ UNCHANGED vars
  <2>1. UNCHANGED <<roundTotal, dbMark, everShares, RoundSharesAccepted, roundEpoch,
                    writerEpoch, snap, task>>
    BY <1>10, Zenon DEF ApplyBlockFound, ApplyBlockResolved, BlockResolvedOutran, DiskFails,
       WriterReceives, Tick, vars, Applying, ApplyUnchanged, roundVars, tableVars,
       RoundSharesAccepted
  <2>2. InFlight' \subseteq InFlight
    <3>1. CASE ApplyBlockFound \/ ApplyBlockResolved
      BY <1>t, <3>1, AppliedStep, Zenon DEF ApplyBlockFound, ApplyBlockResolved, Applying, RoundTypes
    <3>2. CASE BlockResolvedOutran \/ DiskFails
      <4>1. Attempting /\ WriteFailed(IsDurable(Current)) /\ IsDurable(Current) \in BOOLEAN
        BY <3>2 DEF BlockResolvedOutran, DiskFails, IsDurable
      <4> QED
        BY <1>t, <4>1, FailedStep, Zenon DEF RoundTypes
    <3>3. CASE WriterReceives
      BY <1>t, <3>3, ReceiveStep, Zenon DEF WriterReceives, RoundTypes
    <3>4. CASE Tick \/ UNCHANGED vars
      BY <3>4, <1>w, Zenon DEF Tick, vars
    <3> QED
      BY <1>10, <3>1, <3>2, <3>3, <3>4, Zenon
  <2> QED
    BY <1>t, <2>1, <2>2, RoundQuiet, Zenon
<1>11. CASE SnapshotEpoch
  <2>1. UNCHANGED <<roundTotal, dbMark, everShares, RoundSharesAccepted, roundEpoch,
                    writerEpoch, task>>
    BY <1>11, Zenon DEF SnapshotEpoch, roundVars, tableVars, RoundSharesAccepted
  <2>2. InFlight' = InFlight /\ snap'.pc = "totals" /\ snap'.epoch = roundEpoch
    BY <1>11, <1>w, Zenon DEF SnapshotEpoch
  <2>3. \A e, m \in Nat : /\ ResetUnderWay(e, m)' => ResetUnderWay(e, m)
                          /\ SnapshotUnderWay(e, m)' => SnapshotUnderWay(e, m)
    BY <2>1, <2>2, Zenon DEF ResetUnderWay, SnapshotUnderWay
  <2>4. snap'.epoch <= roundEpoch
    BY <1>t, <2>2 DEF RoundTypes
  <2>5. \A t \in Tasks : task'[t].pc = "bump_epoch" => Fits(RoundSharesAccepted, task'[t].mark)
    BY <2>1, Zenon DEF RoundInv
  <2> QED
    BY <1>t, <2>1, <2>3, <2>4, <2>5, RoundFrame, Zenon
<1>12. CASE SnapshotTotals
  <2>1. UNCHANGED <<roundTotal, dbMark, everShares, RoundSharesAccepted, roundEpoch,
                    writerEpoch, task>>
    BY <1>12, Zenon DEF SnapshotTotals, roundVars, tableVars, RoundSharesAccepted
  <2>2. /\ InFlight' = InFlight /\ snap'.epoch = snap.epoch
        /\ snap'.accepted = RoundSharesAccepted
    BY <1>12, <1>t, <1>w, Zenon DEF SnapshotTotals, RoundTypes
  <2>3. \A e, m \in Nat : ResetUnderWay(e, m)' <=> ResetUnderWay(e, m)
    BY <2>1, <2>2, Zenon DEF ResetUnderWay
  <2>4. \A e, n \in Nat : SnapshotUnderWay(e, n)' =>
            SnapshotUnderWay(e, n) \/ (e = snap.epoch /\ n = RoundSharesAccepted)
    BY <2>2, Zenon DEF SnapshotUnderWay
  <2> QED
    BY <1>t, <2>1, <2>2, <2>3, <2>4 DEF RoundInv, Fits, RoundTypes
<1>13. CASE SnapshotEnqueue
  <2> DEFINE w == Snapshot(snap.epoch, snap.accepted)
  <2>1. UNCHANGED <<roundTotal, dbMark, everShares, RoundSharesAccepted, roundEpoch,
                    writerEpoch, task>>
    BY <1>13, Zenon DEF SnapshotEnqueue, roundVars, tableVars, RoundSharesAccepted
  <2>2. /\ snap.pc = "enqueue" /\ snap'.pc = "idle" /\ snap'.epoch = 0
        /\ w \in Write /\ w.kind = "Snapshot" /\ w.epoch = snap.epoch /\ w.accepted = snap.accepted
    BY <1>13, <1>t, Zenon DEF SnapshotEnqueue, SnapIdle, Snapshot, Write, RoundTypes
  <2>3. InFlight' = InFlight \cup {w}
    BY <1>t, <1>13, <2>2, EnqueueStep, Zenon DEF SnapshotEnqueue, RoundTypes
  <2> HIDE DEF w
  <2>4. \A e, m \in Nat : /\ ResetUnderWay(e, m)' => ResetUnderWay(e, m)
                          /\ SnapshotUnderWay(e, m)' => SnapshotUnderWay(e, m)
    BY <2>1, <2>2, <2>3, Zenon DEF ResetUnderWay, SnapshotUnderWay
  <2>5. snap'.epoch <= roundEpoch
    BY <1>t, <2>2 DEF RoundTypes
  <2>6. \A t \in Tasks : task'[t].pc = "bump_epoch" => Fits(RoundSharesAccepted, task'[t].mark)
    BY <2>1, Zenon DEF RoundInv
  <2> QED
    BY <1>t, <2>1, <2>4, <2>5, <2>6, RoundFrame, Zenon
<1>14. CASE ApplyRoundReset \/ ApplySnapshot
  <2>1. /\ Current \in Write /\ Current \in InFlight /\ InFlight' \subseteq InFlight
        /\ UNCHANGED <<task, snap, everShares, roundEpoch, RoundSharesAccepted>>
    BY <1>14, <1>t, AppliedStep, CurrentInFlight, Zenon
       DEF ApplyRoundReset, ApplySnapshot, Applying, ApplyUnchanged, roundVars, RoundTypes,
       RoundSharesAccepted
  <2>2. \A e, m \in Nat : /\ ResetUnderWay(e, m)' => ResetUnderWay(e, m)
                          /\ SnapshotUnderWay(e, m)' => SnapshotUnderWay(e, m)
    BY <2>1, Zenon DEF ResetUnderWay, SnapshotUnderWay
  <2>3. \A t \in Tasks : task'[t].pc = "bump_epoch" => Fits(RoundSharesAccepted, task'[t].mark)
    BY <2>1, Zenon DEF RoundInv
  <2>4. CASE ApplyRoundReset
    <3> DEFINE f == Current.epoch
               k == Current.mark
    <3>1. f \in Nat /\ k \in Nat /\ ResetUnderWay(f, k)
      BY <2>1, <2>4, Zenon DEF ApplyRoundReset, Applying, Write, ResetUnderWay
    <3>2. /\ roundTotal' = 0 /\ writerEpoch' = Larger(writerEpoch, f)
          /\ dbMark' = Larger(dbMark, k)
      BY <2>4, Zenon DEF ApplyRoundReset
    <3> HIDE DEF f, k
    <3>3. f <= roundEpoch /\ Fits(RoundSharesAccepted, k)
      BY <3>1, Zenon DEF RoundInv
    <3>4. \A e, n \in Nat : SnapshotUnderWay(e, n) /\ f <= e => Fits(n, k)
      BY <3>1, Zenon DEF RoundInv
    <3>5. /\ Fits(roundTotal, dbMark)' /\ Fits(RoundSharesAccepted, dbMark)'
          /\ snap'.epoch <= roundEpoch' /\ writerEpoch' <= roundEpoch'
      BY <1>t, <2>1, <3>1, <3>2, <3>3 DEF RoundInv, Fits, RoundTypes, Larger
    <3>6. ASSUME NEW e \in Nat, NEW n \in Nat, SnapshotUnderWay(e, n), writerEpoch' <= e
          PROVE  Fits(n, dbMark)'
      BY <1>t, <2>1, <3>1, <3>2, <3>4, <3>6 DEF RoundInv, Fits, RoundTypes, Larger
    <3> QED
      BY <2>1, <2>2, <2>3, <3>5, <3>6, Zenon DEF RoundInv, Fits
  <2>5. CASE ApplySnapshot
    <3> DEFINE f == Current.epoch
               k == Current.accepted
    <3>1. f \in Nat /\ k \in Nat /\ SnapshotUnderWay(f, k)
      BY <2>1, <2>5, Zenon DEF ApplySnapshot, Applying, Write, SnapshotUnderWay
    <3>2. /\ roundTotal' = IF f # writerEpoch THEN roundTotal ELSE Larger(roundTotal, k)
          /\ UNCHANGED <<writerEpoch, dbMark>>
      BY <2>5, Zenon DEF ApplySnapshot
    <3> HIDE DEF f, k
    <3>3. writerEpoch = f => Fits(k, dbMark)
      <4>1. \A e, n \in Nat : SnapshotUnderWay(e, n) /\ writerEpoch <= e => Fits(n, dbMark)
        BY Zenon DEF RoundInv
      <4>2. writerEpoch = f => writerEpoch <= f
        BY <3>1
      <4> QED
        BY <3>1, <4>1, <4>2, Zenon
    <3>4. roundTotal' = roundTotal \/ (writerEpoch = f /\ roundTotal' = k)
      BY <3>2, Zenon DEF Larger
    <3>5. Fits(roundTotal, dbMark)'
      BY <2>1, <3>2, <3>3, <3>4, Zenon DEF RoundInv, Fits
    <3> QED
      BY <2>1, <2>2, <2>3, <3>2, <3>5, Zenon DEF RoundInv, Fits
  <2> QED
    BY <1>14, <2>4, <2>5, Zenon
<1>15. CASE Restart
  <2>1. InFlight' = {}
    BY <1>15, LostStep, Zenon DEF Restart
  <2>2. \A t \in Tasks : task'[t].pc \in {"idle", "done"}
    BY <1>15, Zenon DEF Restart, Idle
  <2>3. snap'.pc = "idle" /\ snap'.epoch = 0 /\ writerEpoch' = 0 /\ roundEpoch' = 0
    BY <1>15, Zenon DEF Restart, SnapIdle
  <2>4. \A e, m \in Nat : ~ResetUnderWay(e, m)' /\ ~SnapshotUnderWay(e, m)'
    BY <2>1, <2>2, <2>3, Zenon DEF ResetUnderWay, SnapshotUnderWay
  <2>5. /\ roundTotal' = IF RecoversReset THEN 0 ELSE roundTotal
        /\ dbMark' = IF RecoversReset THEN everShares ELSE dbMark
        /\ roundBase' = roundTotal' /\ shares' = 0 /\ roundOffset' = 0
        /\ everShares' = everShares
    BY <1>15, Zenon DEF Restart
  <2>6. Fits(roundTotal, dbMark)'
    BY <1>t, <2>5 DEF RoundInv, Fits, RoundTypes
  <2>7. RoundSharesAccepted' = roundTotal'
    <3>1. roundTotal' \in Nat
      BY <1>t, Zenon DEF RoundTypes
    <3> QED
      BY <2>5, <3>1 DEF RoundSharesAccepted
  <2> QED
    BY <2>2, <2>3, <2>4, <2>6, <2>7 DEF RoundInv, Fits
<1> QED
  BY <1>1, <1>3, <1>4, <1>5, <1>6, <1>7, <1>8, <1>9, <1>10, <1>11, <1>12, <1>13, <1>14, <1>15, Zenon
     DEF Next, Report, Sweep, TakeSnapshot, ApplyWrite

(* NoRoundResurrected holds in every behaviour: round_reset bumps the      *)
(* epoch after zeroing, the ticker reads it before the totals and          *)
(* apply_write compares, which suffices whatever order resets and          *)
(* snapshots are parked, retried, dropped and applied in.                  *)
THEOREM RoundsStayFinished == Spec => []NoRoundResurrected
<1>1. Spec => []TypeInv
  BY TypeInit, TypeStep, PTL DEF Spec
<1>2. Spec => [](TypeInv /\ RoundInv)
  BY <1>1, RoundStart, RoundStep, PTL DEF Spec
<1>3. TypeInv /\ RoundInv => NoRoundResurrected
  BY DEF TypeInv, TypeOK, RoundInv, Fits, NoRoundResurrected
<1> QED
  BY <1>2, <1>3, PTL

-----------------------------------------------------------------------------
(* A boot after a recorded win. *)

(* Submit-time finds and resets, each with the second and the count of     *)
(* shares it was made at: in the hands of a task, on the queue, in a table.*)
FindAt(s, m) ==
    \/ \E w \in InFlight : w.kind = "BlockFound" /\ w.found_ts = s /\ w.mark = m
    \/ \E t \in Reporters : task[t].ts = s /\ task[t].mark = m
    \/ \E b \in Blocks : foundBlocks[b].found_ts = s /\ foundBlocks[b].mark = m

ResetAt(s, m) ==
    \/ \E w \in InFlight : w.kind = "RoundReset" /\ w.since_ts = s /\ w.mark = m
    \/ \E t \in Tasks : /\ task[t].pc \in {"bump_epoch", "enqueue_reset"}
                        /\ task[t].ts = s /\ task[t].mark = m
    \/ roundSince = s /\ dbMark = m

(* A reset stamped later than a find cut off at least the shares before    *)
(* that find, since the clock and the shares only grow.                    *)
WinsInv ==
    /\ \A s, m \in Nat : FindAt(s, m) \/ ResetAt(s, m) => s <= now /\ m <= everShares
    /\ \A s, m, u, k \in Nat : FindAt(s, m) /\ ResetAt(u, k) /\ s < u => m <= k

(* What may join them: a find of this second, or of no share, and a reset  *)
(* made now, or one that cuts off more than another with its stamp.        *)
LEMMA WinsFrame ==
    ASSUME WinsInv, now \in Nat, everShares \in Nat, now' \in Nat, everShares' \in Nat,
           now <= now', everShares <= everShares',
           \A s, m \in Nat : FindAt(s, m)' =>
               \/ FindAt(s, m)
               \/ s = now /\ m <= everShares
               \/ s <= now /\ m = 0,
           \A u, k \in Nat : ResetAt(u, k)' =>
               \/ ResetAt(u, k)
               \/ u <= now /\ k = everShares
               \/ k <= everShares /\ \E j \in Nat : j <= k /\ ResetAt(u, j)
    PROVE  WinsInv'
<1>1. ASSUME NEW s \in Nat, NEW m \in Nat, FindAt(s, m)'
      PROVE  s <= now /\ m <= everShares
  BY <1>1 DEF WinsInv
<1>2. ASSUME NEW u \in Nat, NEW k \in Nat, ResetAt(u, k)'
      PROVE  u <= now /\ k <= everShares
  BY <1>2 DEF WinsInv
<1>3. ASSUME NEW s \in Nat, NEW m \in Nat, NEW u \in Nat, NEW k \in Nat,
             FindAt(s, m)', ResetAt(u, k)', s < u
      PROVE  m <= k
  <2>1. CASE m = 0
    BY <2>1
  <2>2. CASE m # 0
    <3>1. FindAt(s, m)
      BY <1>2, <1>3, <2>2
    <3>2. k = everShares \/ \E j \in Nat : j <= k /\ ResetAt(u, j)
      BY <1>3
    <3>3. CASE k = everShares
      BY <1>1, <1>3, <3>3, Zenon
    <3>4. ASSUME NEW j \in Nat, j <= k, ResetAt(u, j) PROVE m <= k
      <4>1. m <= j
        BY <1>3, <3>1, <3>4, Zenon DEF WinsInv
      <4> QED
        BY <3>4, <4>1
    <3> QED
      BY <3>2, <3>3, <3>4, Zenon
  <2> QED
    BY <2>1, <2>2, Zenon
<1>4. \A s, m \in Nat : FindAt(s, m)' \/ ResetAt(s, m)' => s <= now' /\ m <= everShares'
  BY <1>1, <1>2
<1> QED
  BY <1>3, <1>4, Zenon DEF WinsInv

(* Steps that stamp nothing. *)
LEMMA WinsQuiet ==
    ASSUME WinsInv, now \in Nat, everShares \in Nat, now' \in Nat, everShares' \in Nat,
           now <= now', everShares <= everShares',
           UNCHANGED <<foundBlocks, roundSince, dbMark>>,
           \A t \in Tasks : \/ task'[t].ts = task[t].ts /\ task'[t].mark = task[t].mark
                            \/ t = "sweeper" /\ task'[t].pc \notin {"bump_epoch", "enqueue_reset"},
           \A t \in Tasks : task'[t].pc \in {"bump_epoch", "enqueue_reset"} =>
                            task[t].pc \in {"bump_epoch", "enqueue_reset"},
           \A w \in InFlight' \ InFlight : w.kind \notin {"BlockFound", "RoundReset"}
    PROVE  WinsInv'
<1>1. \A s, m \in Nat : FindAt(s, m)' => FindAt(s, m)
  BY PoolStatsAssumption, Zenon DEF FindAt, Tasks
<1>2. \A s, m \in Nat : ResetAt(s, m)' => ResetAt(s, m)
  BY Zenon DEF ResetAt
<1> QED
  BY <1>1, <1>2, WinsFrame, Zenon

\* At the start there is no win and no reset.
LEMMA WinsStart == Init => WinsInv
<1> SUFFICES ASSUME Init PROVE WinsInv
  BY Zenon
<1>1. InFlight = {}
  BY WriterStarts, Zenon DEF Init
<1>2. \A s, m \in Nat : FindAt(s, m) => s = 0 /\ m = 0
  BY <1>1, Zenon DEF Init, FindAt, Idle, Absent, Tasks
<1>3. \A s, m \in Nat : ResetAt(s, m) => s = 0 /\ m = 0
  BY <1>1, Zenon DEF Init, ResetAt, Idle
<1> QED
  BY <1>2, <1>3 DEF Init, WinsInv

(* Every step keeps finds and resets in order; one case per action. *)
LEMMA WinsStep == TypeInv /\ TypeInv' /\ WinsInv /\ [Next]_vars => WinsInv'
<1> SUFFICES ASSUME TypeInv, TypeInv', WinsInv, [Next]_vars PROVE WinsInv'
  BY Zenon
<1>t. /\ {now, everShares, roundSince, dbMark, now', everShares', roundSince', dbMark'} \subseteq Nat
      /\ task \in [Tasks -> TaskState] /\ WriterTypeOK(Write)
      /\ foundBlocks \in [Blocks -> [status : BlockStatus, found_ts : Nat,
                                     won_at_submit : BOOLEAN, mark : Nat]]
  BY Zenon DEF TypeInv, TypeOK
<1>n. now \in Nat /\ everShares \in Nat /\ now' \in Nat /\ everShares' \in Nat
  BY <1>t, Zenon
<1>s. \A n \in Nat : n <= n
  OBVIOUS
<1>w. ASSUME UNCHANGED writerVars PROVE InFlight' = InFlight
  BY <1>t, <1>w, WriterIdle, Zenon
<1>1. CASE ShareAccepted \/ TakeSnapshot \/ Tick \/ UNCHANGED vars
  <2>1. UNCHANGED <<foundBlocks, roundSince, dbMark, task>>
    BY <1>1, Zenon DEF ShareAccepted, TakeSnapshot, SnapshotEpoch, SnapshotTotals, SnapshotEnqueue,
       Tick, vars, tableVars
  <2>2. now <= now' /\ everShares <= everShares'
    BY <1>1, <1>n DEF ShareAccepted, TakeSnapshot, SnapshotEpoch, SnapshotTotals, SnapshotEnqueue,
       Tick, vars, envVars, roundVars
  <2>3. CASE SnapshotEnqueue
    <3>1. Snapshot(snap.epoch, snap.accepted) \in Write
      BY Zenon DEF Snapshot, Write, TypeInv, TypeOK
    <3>2. InFlight' = InFlight \cup {Snapshot(snap.epoch, snap.accepted)}
      BY <1>t, <2>3, <3>1, EnqueueStep, Zenon DEF SnapshotEnqueue
    <3>3. Snapshot(snap.epoch, snap.accepted).kind = "Snapshot"
      BY Zenon DEF Snapshot
    <3> QED
      BY <1>n, <2>1, <2>2, <3>2, <3>3, WinsQuiet, Zenon
  <2>4. CASE ~SnapshotEnqueue
    <3>1. UNCHANGED writerVars
      BY <1>1, <2>4, Zenon DEF ShareAccepted, TakeSnapshot, SnapshotEpoch, SnapshotTotals, Tick, vars
    <3> QED
      BY <1>n, <1>w, <2>1, <2>2, <3>1, WinsQuiet, Zenon
  <2> QED
    BY <2>3, <2>4, Zenon
<1>2. ASSUME NEW t \in Tasks, NEW v, task' = [task EXCEPT ![t] = v],
             v.ts = now, v.mark = everShares,
             UNCHANGED <<writerVars, everShares, now, tableVars>>
      PROVE WinsInv'
  <2>1. InFlight' = InFlight /\ UNCHANGED <<foundBlocks, roundSince, dbMark, now, everShares>>
    BY <1>2, <1>w, Zenon DEF tableVars
  <2>2. task'[t] = v /\ \A u \in Tasks \ {t} : task'[u] = task[u]
    BY <1>2, <1>t, Zenon
  <2>3. \A s, m \in Nat : FindAt(s, m)' => FindAt(s, m) \/ (s = now /\ m = everShares)
    BY <1>2, <2>1, <2>2, Zenon DEF FindAt, Tasks
  <2>4. \A s, m \in Nat : ResetAt(s, m)' => ResetAt(s, m) \/ (s = now /\ m = everShares)
    BY <1>2, <2>1, <2>2, Zenon DEF ResetAt
  <2> QED
    BY <1>n, <1>s, <2>1, <2>3, <2>4, WinsFrame, Zenon
<1>3. ASSUME NEW t \in Reporters, RecordWin(t) PROVE WinsInv'
  <2> DEFINE v == InReset(BlockOf[t], TRUE, "none")
  <2>1. v.ts = now /\ v.mark = everShares /\ t \in Tasks
    BY Zenon DEF InReset, Tasks
  <2>2. /\ task' = [task EXCEPT ![t] = v]
        /\ UNCHANGED <<writerVars, everShares, now, tableVars>>
    BY <1>3, Zenon DEF RecordWin, envVars
  <2> HIDE DEF v
  <2> QED
    BY <1>2, <2>1, <2>2, Zenon
<1>4. ASSUME NEW p \in pendingBlocks, ResolvePromoted(p) PROVE WinsInv'
  <2> DEFINE v == InReset(p.hash, FALSE, "confirmed")
  <2>1. v.ts = now /\ v.mark = everShares /\ "sweeper" \in Tasks
    BY Zenon DEF InReset, Tasks
  <2>2. /\ task' = [task EXCEPT !["sweeper"] = v]
        /\ UNCHANGED <<writerVars, everShares, now, tableVars>>
    BY <1>4, Zenon DEF ResolvePromoted, envVars
  <2> HIDE DEF v
  <2> QED
    BY <1>2, <2>1, <2>2, Zenon
<1>5. ASSUME NEW t \in Reporters, RecordInconclusive(t) PROVE WinsInv'
  <2>1. InFlight' = InFlight /\ UNCHANGED <<foundBlocks, roundSince, dbMark, now, everShares>>
    BY <1>5, <1>w, Zenon DEF RecordInconclusive, tableVars, roundVars, envVars
  <2>2. /\ task'[t].ts = 0 /\ task'[t].mark = 0 /\ task'[t].pc = "enroll"
        /\ \A u \in Tasks \ {t} : task'[u] = task[u]
    BY <1>5, <1>t, Zenon DEF RecordInconclusive, Idle, Tasks
  <2>3. \A s, m \in Nat : FindAt(s, m)' => FindAt(s, m) \/ (s <= now /\ m = 0)
    BY <1>n, <2>1, <2>2 DEF FindAt, Tasks
  <2>4. \A s, m \in Nat : ResetAt(s, m)' => ResetAt(s, m)
    BY <2>1, <2>2, Zenon DEF ResetAt
  <2> QED
    BY <1>n, <1>s, <2>1, <2>3, <2>4, WinsFrame, Zenon
<1>6. ASSUME NEW t \in Reporters, LookUpPending(t) PROVE WinsInv'
  <2>1. InFlight' = InFlight /\ UNCHANGED <<foundBlocks, roundSince, dbMark, now, everShares>>
    BY <1>6, <1>w, Zenon DEF LookUpPending, tableVars, roundVars, envVars
  <2>2. /\ task'[t].ts = now /\ task'[t].mark = task[t].mark /\ task'[t].pc \in {"done", "insert"}
        /\ \A u \in Tasks \ {t} : task'[u] = task[u]
    BY <1>6, <1>t, Zenon DEF LookUpPending, TaskState, Tasks
  <2>3. task[t].mark <= everShares
    <3>1. task[t].ts \in Nat /\ task[t].mark \in Nat
      BY <1>t, Zenon DEF TaskState, Tasks
    <3> QED
      BY <3>1, Zenon DEF WinsInv, FindAt
  <2>4. \A s, m \in Nat : FindAt(s, m)' => FindAt(s, m) \/ (s = now /\ m <= everShares)
    BY <2>1, <2>2, <2>3, Zenon DEF FindAt, Tasks
  <2>5. \A s, m \in Nat : ResetAt(s, m)' => ResetAt(s, m)
    BY <2>1, <2>2, Zenon DEF ResetAt
  <2> QED
    BY <1>n, <1>s, <2>1, <2>4, <2>5, WinsFrame, Zenon
<1>7. ASSUME NEW t \in Tasks, BumpEpoch(t) \/ (t \in Reporters /\ InsertPending(t)) PROVE WinsInv'
  <2>1. InFlight' = InFlight /\ UNCHANGED <<foundBlocks, roundSince, dbMark, now, everShares>>
    BY <1>7, <1>w, Zenon DEF BumpEpoch, InsertPending, tableVars, roundVars, envVars
  <2>2. /\ task'[t].ts = task[t].ts /\ task'[t].mark = task[t].mark
        /\ task'[t].pc = "enqueue_reset" => task[t].pc = "bump_epoch"
        /\ task'[t].pc # "bump_epoch"
        /\ \A u \in Tasks \ {t} : task'[u] = task[u]
    BY <1>7, <1>t DEF BumpEpoch, InsertPending, TaskState
  <2> QED
    BY <1>n, <1>s, <2>1, <2>2, WinsQuiet, Zenon
<1>8. ASSUME NEW t \in Tasks, EnqueueReset(t) PROVE WinsInv'
  <2> DEFINE w == RoundReset(task[t].hash, task[t].epoch, task[t].ts, task[t].mark)
  <2>1. UNCHANGED <<foundBlocks, roundSince, dbMark, now, everShares>>
    BY <1>8, Zenon DEF EnqueueReset, tableVars, roundVars, envVars
  <2>2. /\ task[t].pc = "enqueue_reset" /\ task'[t].pc \in {"enqueue_resolved", "enroll"}
        /\ task'[t].ts = task[t].ts /\ task'[t].mark = task[t].mark
        /\ \A u \in Tasks \ {t} : task'[u] = task[u]
    BY <1>8, <1>t, Zenon DEF EnqueueReset, TaskState
  <2>3. w \in Write /\ w.kind = "RoundReset" /\ w.since_ts = task[t].ts /\ w.mark = task[t].mark
    <3>1. task[t] \in TaskState /\ task[t].hash \in Blocks
      BY <1>t, <2>2, Zenon DEF TypeInv, TasksOK, Tasks
    <3> QED
      BY <3>1, Zenon DEF RoundReset, Write, TaskState
  <2>4. InFlight' = InFlight \cup {w}
    BY <1>t, <1>8, <2>3, EnqueueStep, Zenon DEF EnqueueReset
  <2> HIDE DEF w
  <2>5. \A s, m \in Nat : FindAt(s, m)' => FindAt(s, m)
    BY <2>1, <2>2, <2>3, <2>4, Zenon DEF FindAt, Tasks
  <2>6. \A s, m \in Nat : ResetAt(s, m)' => ResetAt(s, m)
    BY <2>1, <2>2, <2>3, <2>4 DEF ResetAt
  <2> QED
    BY <1>n, <1>s, <2>1, <2>5, <2>6, WinsFrame, Zenon
<1>9. ASSUME NEW t \in Reporters, EnqueueFound(t) PROVE WinsInv'
  <2> DEFINE w == BlockFound(task[t].hash, task[t].ts, task[t].won_at_submit, task[t].mark)
  <2>1. UNCHANGED <<foundBlocks, roundSince, dbMark, now, everShares>>
    BY <1>9, Zenon DEF EnqueueFound, tableVars, roundVars, envVars
  <2>2. /\ task[t].pc = "enqueue_found" /\ task'[t].pc = "done"
        /\ task'[t].ts = task[t].ts /\ task'[t].mark = task[t].mark
        /\ \A u \in Tasks \ {t} : task'[u] = task[u]
    BY <1>9, <1>t, Zenon DEF EnqueueFound, TaskState, Tasks
  <2>3. w \in Write /\ w.kind = "BlockFound" /\ w.found_ts = task[t].ts /\ w.mark = task[t].mark
    <3>1. task[t] \in TaskState /\ task[t].hash \in Blocks
      BY <1>t, <2>2, Zenon DEF TypeInv, TasksOK, Tasks
    <3> QED
      BY <3>1, Zenon DEF BlockFound, Write, TaskState
  <2>4. InFlight' = InFlight \cup {w}
    BY <1>t, <1>9, <2>3, EnqueueStep, Zenon DEF EnqueueFound
  <2> HIDE DEF w
  <2>5. \A s, m \in Nat : FindAt(s, m)' => FindAt(s, m)
    BY <2>1, <2>2, <2>3, <2>4 DEF FindAt, Tasks
  <2>6. \A s, m \in Nat : ResetAt(s, m)' => ResetAt(s, m)
    BY <2>1, <2>2, <2>3, <2>4, Zenon DEF ResetAt
  <2> QED
    BY <1>n, <1>s, <2>1, <2>5, <2>6, WinsFrame, Zenon
<1>10. ASSUME NEW p \in pendingBlocks,
             \/ ResolveOrphanedWin(p)
             \/ \E resolution \in BlockResolution : ResolveAsCounted(p, resolution)
      PROVE WinsInv'
  <2>1. UNCHANGED <<foundBlocks, roundSince, dbMark, now, everShares, writerVars>>
    BY <1>10, Zenon DEF ResolveOrphanedWin, ResolveAsCounted, roundVars, tableVars, envVars
  <2>2. \A r : Verdict(p, r).pc = "enqueue_resolved"
    BY Zenon DEF Verdict, Idle
  <2>3. \E r : task' = [task EXCEPT !["sweeper"] = Verdict(p, r)]
    BY <1>10, Zenon DEF ResolveOrphanedWin, ResolveAsCounted
  <2>4. /\ \A t \in Reporters : task'[t] = task[t]
        /\ task'["sweeper"].pc = "enqueue_resolved"
    BY <1>t, <2>2, <2>3, PoolStatsAssumption DEF Tasks
  <2> QED
    BY <1>n, <1>s, <1>w, <2>1, <2>4, WinsQuiet, Zenon DEF Tasks
<1>11. CASE EnqueueResolved
  <2> DEFINE w == BlockResolved(task["sweeper"].hash, task["sweeper"].resolution)
  <2>1. UNCHANGED <<foundBlocks, roundSince, dbMark, now, everShares>>
    BY <1>11, Zenon DEF EnqueueResolved, tableVars, roundVars, envVars
  <2>2. /\ \A t \in Reporters : task'[t] = task[t]
        /\ task'["sweeper"].pc = "idle"
    BY <1>11, <1>t, PoolStatsAssumption, Zenon DEF EnqueueResolved, Idle, Tasks
  <2>3. w \in Write /\ w.kind = "BlockResolved"
    BY <1>11, Zenon DEF EnqueueResolved, BlockResolved, Write, TypeInv, TasksOK
  <2>4. InFlight' = InFlight \cup {w}
    BY <1>t, <1>11, <2>3, EnqueueStep, Zenon DEF EnqueueResolved
  <2> HIDE DEF w
  <2> QED
    BY <1>n, <1>s, <2>1, <2>2, <2>3, <2>4, WinsQuiet, Zenon DEF Tasks
<1>12. CASE \/ ApplySnapshot \/ BlockResolvedOutran \/ DiskFails \/ WriterReceives
  <2>1. UNCHANGED <<foundBlocks, roundSince, dbMark, now, everShares, task>>
    BY <1>12, Zenon DEF ApplySnapshot, BlockResolvedOutran, DiskFails,
       WriterReceives, Applying, ApplyUnchanged, roundVars, tableVars, envVars
  <2>2. InFlight' \subseteq InFlight
    <3>1. CASE ApplySnapshot
      BY <1>t, <3>1, AppliedStep, Zenon DEF ApplySnapshot, Applying
    <3>2. CASE BlockResolvedOutran \/ DiskFails
      <4>1. Attempting /\ WriteFailed(IsDurable(Current)) /\ IsDurable(Current) \in BOOLEAN
        BY <3>2 DEF BlockResolvedOutran, DiskFails, IsDurable
      <4> QED
        BY <1>t, <4>1, FailedStep, Zenon
    <3>3. CASE WriterReceives
      BY <1>t, <3>3, ReceiveStep, Zenon DEF WriterReceives
    <3> QED
      BY <1>12, <3>1, <3>2, <3>3, Zenon
  <2> QED
    BY <1>n, <1>s, <2>1, <2>2, WinsQuiet, Zenon
<1>13. CASE ApplyBlockFound \/ ApplyBlockResolved \/ ApplyRoundReset
  <2>1. /\ Current \in Write /\ Current \in InFlight /\ InFlight' \subseteq InFlight
        /\ UNCHANGED <<task, now, everShares>>
    BY <1>13, <1>t, AppliedStep, CurrentInFlight, Zenon
       DEF ApplyBlockFound, ApplyBlockResolved, ApplyRoundReset, Applying, ApplyUnchanged, roundVars,
       envVars
  <2>2. CASE ApplyBlockFound \/ ApplyBlockResolved
    <3>1. /\ UNCHANGED <<roundSince, dbMark>> /\ Current.hash \in Blocks
          /\ Current.kind \in {"BlockFound", "BlockResolved"}
      BY <2>1, <2>2, Zenon DEF ApplyBlockFound, ApplyBlockResolved, Applying, Write
    <3>2. \A s, m \in Nat : ResetAt(s, m)' => ResetAt(s, m)
      BY <2>1, <3>1, Zenon DEF ResetAt
    <3>3. ASSUME NEW b \in Blocks
          PROVE  \/ /\ foundBlocks'[b].found_ts = foundBlocks[b].found_ts
                    /\ foundBlocks'[b].mark = foundBlocks[b].mark
                 \/ /\ Current.kind = "BlockFound"
                    /\ foundBlocks'[b].found_ts = Current.found_ts /\ foundBlocks'[b].mark = Current.mark
      <4>1. CASE ApplyBlockFound
        BY <1>t, <3>1, <4>1, Zenon DEF ApplyBlockFound, Applying
      <4>2. CASE ApplyBlockResolved
        BY <1>t, <3>1, <4>2, Zenon DEF ApplyBlockResolved
      <4> QED
        BY <2>2, <4>1, <4>2, Zenon
    <3>4. \A s, m \in Nat : FindAt(s, m)' => FindAt(s, m)
      BY <2>1, <3>3, Zenon DEF FindAt
    <3> QED
      BY <1>n, <1>s, <2>1, <3>2, <3>4, WinsFrame, Zenon
  <2>3. CASE ApplyRoundReset
    <3> DEFINE u == Current.since_ts
               k == Current.mark
    <3>1. u \in Nat /\ k \in Nat /\ ResetAt(u, k)
      BY <2>1, <2>3, Zenon DEF ApplyRoundReset, Applying, Write, ResetAt
    <3>2. foundBlocks' = foundBlocks /\ roundSince' = u /\ dbMark' = Larger(dbMark, k)
      BY <2>3, Zenon DEF ApplyRoundReset
    <3> HIDE DEF u, k
    <3>3. k <= Larger(dbMark, k) /\ Larger(dbMark, k) <= everShares
      <4>1. k <= everShares /\ dbMark <= everShares
        BY <1>t, <3>1, Zenon DEF WinsInv, ResetAt
      <4> QED
        BY <1>t, <3>1, <4>1 DEF Larger
    <3>4. \A s, m \in Nat : FindAt(s, m)' => FindAt(s, m)
      BY <2>1, <3>2, Zenon DEF FindAt
    <3>5. \A s, m \in Nat : ResetAt(s, m)' =>
              ResetAt(s, m) \/ (m <= everShares /\ \E j \in Nat : j <= m /\ ResetAt(s, j))
      BY <2>1, <3>1, <3>2, <3>3, Zenon DEF ResetAt
    <3> QED
      BY <1>n, <1>s, <2>1, <3>4, <3>5, WinsFrame, Zenon
  <2> QED
    BY <1>13, <2>2, <2>3, Zenon
<1>14. CASE Restart
  <2>1. InFlight' = {} /\ UNCHANGED <<foundBlocks, now, everShares>>
    BY <1>14, LostStep, Zenon DEF Restart
  <2>2. \A t \in Tasks : /\ task'[t].pc \in {"idle", "done"}
                         /\ task'[t].ts = 0 /\ task'[t].mark = 0
    BY <1>14, Zenon DEF Restart, Idle
  <2>3. \/ UNCHANGED <<roundSince, dbMark>>
        \/ roundSince' \in WinTimes /\ dbMark' = everShares
    BY <1>14, Zenon DEF Restart, LastWin
  <2>4. \A s \in WinTimes : s <= now
    <3>1. \A b \in Blocks : foundBlocks[b].found_ts \in Nat /\ foundBlocks[b].mark \in Nat
      BY <1>t, Zenon
    <3>2. \A b \in Blocks : foundBlocks[b].found_ts <= now
      BY <3>1, Zenon DEF WinsInv, FindAt
    <3> QED
      BY <3>2, Zenon DEF WinTimes
  <2>5. \A s, m \in Nat : FindAt(s, m)' => FindAt(s, m) \/ (s <= now /\ m = 0)
    BY <1>n, <2>1, <2>2 DEF FindAt, Tasks
  <2>6. \A s, m \in Nat : ResetAt(s, m)' => ResetAt(s, m) \/ (s <= now /\ m = everShares)
    BY <2>1, <2>2, <2>3, <2>4, Zenon DEF ResetAt
  <2> QED
    BY <1>n, <1>s, <2>1, <2>5, <2>6, WinsFrame, Zenon
<1> QED
  BY <1>1, <1>3, <1>4, <1>5, <1>6, <1>7, <1>8, <1>9, <1>10, <1>11, <1>12, <1>13, <1>14, Zenon
     DEF Next, Report, Sweep, ApplyWrite, Tasks

(* BootEndsWonRounds holds in every behaviour: a boot that finds a win     *)
(* newer than the table's reset zeroes the round, and one that does not    *)
(* finds a reset which came after the win, or in its second.               *)
THEOREM WonRoundsEnd == Spec => BootEndsWonRounds
<1> DEFINE Ended == restarts' # restarts =>
               \A b \in Blocks : Stored(b) /\ Won(b) /\ foundBlocks[b].found_ts # roundSince =>
                   roundBase' <= everShares - foundBlocks[b].mark
<1>1. ASSUME TypeInv, RoundInv, WinsInv, Next PROVE Ended
  <2>1. CASE ~Restart
    <3>1. restarts' = restarts
      BY <1>1, <2>1, Zenon DEF Next, ShareAccepted, Report, RecordWin, RecordInconclusive,
         LookUpPending, InsertPending, EnqueueFound, BumpEpoch, EnqueueReset, Sweep,
         ResolveOrphanedWin, ResolvePromoted, ResolveAsCounted, EnqueueResolved, TakeSnapshot,
         SnapshotEpoch, SnapshotTotals, SnapshotEnqueue, WriterReceives, ApplyWrite,
         ApplyBlockFound, ApplyBlockResolved, Applying, ApplyUnchanged, BlockResolvedOutran,
         ApplyRoundReset, ApplySnapshot, DiskFails, Tick, envVars
    <3> QED
      BY <3>1, Zenon
  <2>2. CASE Restart
    <3> SUFFICES ASSUME NEW b \in Blocks, Stored(b), Won(b), foundBlocks[b].found_ts # roundSince
                 PROVE  roundBase' <= everShares - foundBlocks[b].mark
      BY Zenon
    <3>1. /\ {roundTotal, everShares, dbMark, roundSince} \subseteq Nat
          /\ foundBlocks[b].found_ts \in Nat /\ foundBlocks[b].mark \in Nat
      BY <1>1, Zenon DEF TypeInv, TypeOK
    <3>2. FindAt(foundBlocks[b].found_ts, foundBlocks[b].mark) /\ ResetAt(roundSince, dbMark)
      BY Zenon DEF FindAt, ResetAt
    <3>3. foundBlocks[b].mark <= everShares
      BY <1>1, <3>1, <3>2, Zenon DEF WinsInv
    <3>4. CASE RecoversReset
      <4>1. roundBase' = 0
        BY <2>2, <3>4, Zenon DEF Restart
      <4> QED
        BY <3>1, <3>3, <4>1
    <3>5. CASE ~RecoversReset
      <4>1. roundBase' = roundTotal
        BY <2>2, <3>5, Zenon DEF Restart
      <4>2. foundBlocks[b].found_ts \in WinTimes
        BY Zenon DEF WinTimes
      <4>3. foundBlocks[b].found_ts < roundSince
        BY <3>1, <3>5, <4>2 DEF RecoversReset
      <4>4. foundBlocks[b].mark <= dbMark
        BY <1>1, <3>1, <3>2, <4>3, Zenon DEF WinsInv
      <4>5. roundTotal + dbMark <= everShares
        BY <1>1, Zenon DEF RoundInv, Fits
      <4> QED
        BY <3>1, <4>1, <4>4, <4>5
    <3> QED
      BY <3>4, <3>5, Zenon
  <2> QED
    BY <2>1, <2>2, Zenon
<1>2. Spec => [](TypeInv /\ RoundInv /\ WinsInv)
  <2>1. Spec => []TypeInv
    BY TypeInit, TypeStep, PTL DEF Spec
  <2> QED
    BY <2>1, RoundStart, RoundStep, WinsStart, WinsStep, PTL DEF Spec
<1>3. TypeInv /\ RoundInv /\ WinsInv /\ [Next]_vars => [Ended]_vars
  BY <1>1, Zenon
<1> QED
  BY <1>2, <1>3, PTL DEF Spec, BootEndsWonRounds

-----------------------------------------------------------------------------
(* The blocks *)

OwesFound(t, h) == task[t].pc = "enqueue_found" /\ task[t].hash = h
OwesVerdict(h) == task["sweeper"].pc # "idle" /\ task["sweeper"].hash = h
Tracked(b) == Pending(b) \/ ResolutionOwed(b)

(* NoBlockLost, made inductive: a row owed to the table belongs to a block *)
(* that is tracked, so that it is tracked once the row appears.            *)
TrackInv ==
    ~overflowed => \A b \in Blocks :
        /\ foundBlocks[b].status = "pending" => Tracked(b)
        /\ Tracked(b) => Stored(b) \/ FoundOwed(b)
        /\ FoundOwed(b) => Stored(b) \/ Tracked(b)

-----------------------------------------------------------------------------
(* A step that neither touches found_blocks nor the pending set, loses no  *)
(* write and moves no task into or out of an owing position, keeps blocks  *)
(* tracked.                                                                *)
LEMMA TrackFrame ==
    ASSUME TrackInv,
           UNCHANGED <<pendingBlocks, foundBlocks>>,
           ~overflowed' => ~overflowed,
           ~overflowed' => \A w : w.kind \in {"BlockFound", "BlockResolved"} =>
                                     (w \in InFlight' <=> w \in InFlight),
           \A t \in Reporters, h \in Blocks : OwesFound(t, h)' <=> OwesFound(t, h),
           \A h \in Blocks : OwesVerdict(h)' <=> OwesVerdict(h)
    PROVE  TrackInv'
<1> SUFFICES ASSUME ~overflowed', NEW b \in Blocks
             PROVE  /\ foundBlocks'[b].status = "pending" => Tracked(b)'
                    /\ Tracked(b)' => Stored(b)' \/ FoundOwed(b)'
                    /\ FoundOwed(b)' => Stored(b)' \/ Tracked(b)'
  BY Zenon DEF TrackInv
<1>1. FoundOwed(b)' <=> FoundOwed(b)
  BY DEF FoundOwed, OwesFound
<1>2. ResolutionOwed(b)' <=> ResolutionOwed(b)
  BY DEF ResolutionOwed, OwesVerdict
<1>3. Pending(b)' <=> Pending(b)
  BY Zenon DEF Pending
<1> QED
  BY <1>1, <1>2, <1>3, Zenon DEF TrackInv, Tracked, Stored

(* No step of the pool, the writer or a crash loses a block. *)
LEMMA TrackStep == TypeInv /\ TrackInv /\ [Next]_vars => TrackInv'
<1> SUFFICES ASSUME TypeInv, TrackInv, [Next]_vars PROVE TrackInv'
  BY Zenon
<1> USE PoolStatsAssumption
<1>t. task \in [Tasks -> TaskState] /\ WriterTypeOK(Write)
  BY Zenon DEF TypeInv, TypeOK
<1>w. ASSUME UNCHANGED writerVars PROVE InFlight' = InFlight /\ overflowed' = overflowed
  BY <1>t, <1>w, WriterIdle, Zenon
<1>1. CASE ShareAccepted \/ TakeSnapshot \/ Tick \/ UNCHANGED vars
  <2>1. UNCHANGED <<pendingBlocks, foundBlocks, task>>
    BY <1>1, Zenon DEF ShareAccepted, TakeSnapshot, SnapshotEpoch, SnapshotTotals, SnapshotEnqueue,
       Tick, vars, memoryVars, tableVars
  <2>2. CASE SnapshotEnqueue
    <3>1. Snapshot(snap.epoch, snap.accepted) \in Write
      BY Zenon DEF Snapshot, Write, TypeInv, TypeOK
    <3>2. InFlight' = InFlight \cup {Snapshot(snap.epoch, snap.accepted)} /\ overflowed' = overflowed
      BY <1>t, <2>2, <3>1, EnqueueStep, Zenon DEF SnapshotEnqueue
    <3> QED
      BY <2>1, <3>2, TrackFrame DEF Snapshot, OwesFound, OwesVerdict
  <2>3. CASE ~SnapshotEnqueue
    <3>1. UNCHANGED writerVars
      BY <1>1, <2>3, Zenon DEF ShareAccepted, TakeSnapshot, SnapshotEpoch, SnapshotTotals, Tick, vars
    <3> QED
      BY <1>w, <2>1, <3>1, TrackFrame DEF OwesFound, OwesVerdict
  <2> QED
    BY <2>2, <2>3, Zenon
<1>2. ASSUME NEW t \in Reporters, RecordWin(t) \/ RecordInconclusive(t) \/ LookUpPending(t)
      PROVE TrackInv'
  <2>1. UNCHANGED <<pendingBlocks, foundBlocks, writerVars>>
    BY <1>2, Zenon DEF RecordWin, RecordInconclusive, LookUpPending, memoryVars, tableVars
  <2>2. /\ \A u \in Tasks : u # t => task'[u] = task[u]
        /\ task[t].pc # "enqueue_found" /\ task'[t].pc # "enqueue_found"
    <3>1. CASE RecordWin(t)
      BY <3>1, <1>t, Zenon DEF RecordWin, InReset, Tasks, TaskState
    <3>2. CASE RecordInconclusive(t)
      BY <3>2, <1>t, Zenon DEF RecordInconclusive, Idle, Tasks, TaskState
    <3>3. CASE LookUpPending(t)
      BY <3>3, <1>t DEF LookUpPending, Tasks, TaskState
    <3> QED
      BY <1>2, <3>1, <3>2, <3>3, Zenon
  <2> QED
    BY <1>w, <2>1, <2>2, TrackFrame DEF OwesFound, OwesVerdict, Tasks
<1>3. ASSUME NEW t \in Tasks, BumpEpoch(t) PROVE TrackInv'
  <2>1. UNCHANGED <<pendingBlocks, foundBlocks, writerVars>>
    BY <1>3, Zenon DEF BumpEpoch, memoryVars, tableVars
  <2>2. /\ \A u \in Tasks : u # t => task'[u] = task[u]
        /\ task[t].pc = "bump_epoch" /\ task'[t].pc = "enqueue_reset"
        /\ task'[t].hash = task[t].hash
    BY <1>3, <1>t DEF BumpEpoch, TaskState
  <2> QED
    BY <1>w, <2>1, <2>2, TrackFrame DEF OwesFound, OwesVerdict, Tasks
<1>4. ASSUME NEW t \in Tasks, EnqueueReset(t) PROVE TrackInv'
  <2> DEFINE w == RoundReset(task[t].hash, task[t].epoch, task[t].ts, task[t].mark)
  <2>1. UNCHANGED <<pendingBlocks, foundBlocks>>
    BY <1>4, Zenon DEF EnqueueReset, memoryVars, tableVars
  <2>2. /\ \A u \in Tasks : u # t => task'[u] = task[u]
        /\ task[t].pc = "enqueue_reset" /\ task'[t].pc \in {"enqueue_resolved", "enroll"}
        /\ task'[t].hash = task[t].hash
    BY <1>4, <1>t DEF EnqueueReset, TaskState
  <2>3. w \in Write /\ w.kind = "RoundReset"
    <3>1. task[t] \in TaskState /\ task[t].hash \in Blocks
      BY <1>t, <2>2, Zenon DEF TypeInv, TasksOK, Tasks
    <3> QED
      BY <3>1, Zenon DEF RoundReset, Write, TaskState
  <2>4. InFlight' = InFlight \cup {w} /\ overflowed' = overflowed
    BY <1>t, <1>4, <2>3, EnqueueStep, Zenon DEF EnqueueReset
  <2> HIDE DEF w
  <2> QED
    BY <2>1, <2>2, <2>3, <2>4, TrackFrame, Zenon DEF OwesFound, OwesVerdict, Tasks
<1>5. ASSUME NEW t \in Reporters, InsertPending(t) PROVE TrackInv'
  <2>1. /\ InFlight' = InFlight /\ overflowed' = overflowed /\ foundBlocks' = foundBlocks
        /\ task[t].hash \in Blocks
    BY <1>5, <1>w, Zenon DEF InsertPending, tableVars, TypeInv, TasksOK
  <2>2. /\ \A u \in Tasks : u # t => task'[u] = task[u]
        /\ task[t].pc = "insert" /\ task'[t].pc = "enqueue_found" /\ task'[t].hash = task[t].hash
    BY <1>5, <1>t DEF InsertPending, TaskState, Tasks
  <2>3. \A b \in Blocks : ResolutionOwed(b)' <=> ResolutionOwed(b)
    BY <2>1, <2>2, Zenon DEF ResolutionOwed, Tasks
  <2>4. \A b \in Blocks : FoundOwed(b)' <=> FoundOwed(b) \/ b = task[t].hash
    BY <2>1, <2>2, Zenon DEF FoundOwed, Tasks
  <2>5. \A b \in Blocks : Pending(b)' <=> Pending(b) \/ b = task[t].hash
    <3> DEFINE q == [hash |-> task[t].hash, won_at_submit |-> task[t].won_at_submit]
    <3>1. pendingBlocks' = {p \in pendingBlocks : p.hash # task[t].hash} \cup {q}
      BY <1>5, Zenon DEF InsertPending
    <3>2. q.hash = task[t].hash
      BY Zenon
    <3> HIDE DEF q
    <3> QED
      BY <3>1, <3>2, Zenon DEF Pending
  <2> QED
    BY <2>1, <2>3, <2>4, <2>5, Zenon DEF TrackInv, Tracked, Stored
<1>6. ASSUME NEW t \in Reporters, EnqueueFound(t) PROVE TrackInv'
  <2> DEFINE w == BlockFound(task[t].hash, task[t].ts, task[t].won_at_submit, task[t].mark)
  <2>1. UNCHANGED <<pendingBlocks, foundBlocks>>
    BY <1>6, Zenon DEF EnqueueFound, memoryVars, tableVars
  <2>2. /\ \A u \in Tasks : u # t => task'[u] = task[u]
        /\ task[t].pc = "enqueue_found" /\ task'[t].pc = "done" /\ task'[t].hash = task[t].hash
    BY <1>6, <1>t DEF EnqueueFound, TaskState, Tasks
  <2>3. w \in Write /\ w.kind = "BlockFound" /\ w.hash = task[t].hash
    <3>1. task[t] \in TaskState /\ task[t].hash \in Blocks
      BY <1>t, <2>2, Zenon DEF TypeInv, TasksOK, Tasks
    <3> QED
      BY <3>1, Zenon DEF BlockFound, Write, TaskState
  <2>4. InFlight' = InFlight \cup {w} /\ overflowed' = overflowed
    BY <1>t, <1>6, <2>3, EnqueueStep, Zenon DEF EnqueueFound
  <2> HIDE DEF w
  <2>5. \A b \in Blocks : ResolutionOwed(b)' <=> ResolutionOwed(b)
    BY <2>2, <2>3, <2>4, Zenon DEF ResolutionOwed, Tasks
  <2>6. \A b \in Blocks : FoundOwed(b)' <=> FoundOwed(b)
    BY <2>2, <2>3, <2>4 DEF FoundOwed, Tasks
  <2> QED
    BY <2>1, <2>4, <2>5, <2>6, Zenon DEF TrackInv, Tracked, Stored, Pending
<1>7. ASSUME NEW p \in pendingBlocks, NEW v \in TaskState,
             task["sweeper"].pc = "idle",
             pendingBlocks' = pendingBlocks \ {p},
             task' = [task EXCEPT !["sweeper"] = v],
             v.pc # "idle", v.hash = p.hash,
             UNCHANGED <<writerVars, foundBlocks>>
      PROVE TrackInv'
  <2>1. InFlight' = InFlight /\ overflowed' = overflowed
    BY <1>7, <1>w, Zenon
  <2>2. task'["sweeper"] = v /\ \A u \in Reporters : task'[u] = task[u]
    BY <1>7, <1>t, Zenon DEF Tasks
  <2>3. \A b \in Blocks : FoundOwed(b)' <=> FoundOwed(b)
    BY <2>1, <2>2, Zenon DEF FoundOwed
  <2>4. \A b \in Blocks : ResolutionOwed(b)' <=> ResolutionOwed(b) \/ b = p.hash
    BY <1>7, <2>1, <2>2, Zenon DEF ResolutionOwed
  <2>5. \A b \in Blocks : Tracked(b)' <=> Tracked(b)
    BY <1>7, <2>4, Zenon DEF Tracked, Pending
  <2> QED
    BY <1>7, <2>1, <2>3, <2>5, Zenon DEF TrackInv, Stored
<1>8. ASSUME NEW p \in pendingBlocks,
             \/ ResolveOrphanedWin(p)
             \/ ResolvePromoted(p)
             \/ \E resolution \in BlockResolution : ResolveAsCounted(p, resolution)
      PROVE TrackInv'
  <2>1. p \in [hash : Blocks, won_at_submit : BOOLEAN]
    BY Zenon DEF TypeInv, TypeOK
  <2>2. \A r \in BlockResolution : /\ Verdict(p, r) \in TaskState
                                   /\ Verdict(p, r).pc # "idle" /\ Verdict(p, r).hash = p.hash
    BY <2>1, Zenon DEF Verdict, Idle, TaskState
  <2>3. /\ InReset(p.hash, FALSE, "confirmed") \in TaskState
        /\ InReset(p.hash, FALSE, "confirmed").pc # "idle"
        /\ InReset(p.hash, FALSE, "confirmed").hash = p.hash
    BY <2>1, Zenon DEF InReset, TaskState, BlockResolution, TypeInv, TypeOK
  <2>4. CASE ResolveOrphanedWin(p)
    BY <1>7, <2>2, <2>4, Zenon DEF ResolveOrphanedWin, Retire, BlockResolution, tableVars
  <2>5. CASE ResolvePromoted(p)
    BY <1>7, <2>3, <2>5, Zenon DEF ResolvePromoted, Retire, tableVars
  <2>6. ASSUME NEW r \in BlockResolution, ResolveAsCounted(p, r) PROVE TrackInv'
    BY <1>7, <2>2, <2>6, Zenon DEF ResolveAsCounted, Retire, tableVars
  <2> QED
    BY <1>8, <2>4, <2>5, <2>6, Zenon
<1>9. CASE EnqueueResolved
  <2> DEFINE w == BlockResolved(task["sweeper"].hash, task["sweeper"].resolution)
  <2>1. UNCHANGED <<pendingBlocks, foundBlocks>>
    BY <1>9, Zenon DEF EnqueueResolved, memoryVars, tableVars
  <2>2. /\ \A u \in Reporters : task'[u] = task[u]
        /\ task["sweeper"].pc = "enqueue_resolved" /\ task'["sweeper"].pc = "idle"
    BY <1>9, <1>t, Zenon DEF EnqueueResolved, Idle, TaskState, Tasks
  <2>3. w \in Write /\ w.kind = "BlockResolved" /\ w.hash = task["sweeper"].hash
    BY <2>2, Zenon DEF BlockResolved, Write, TypeInv, TasksOK
  <2>4. InFlight' = InFlight \cup {w} /\ overflowed' = overflowed
    BY <1>t, <1>9, <2>3, EnqueueStep, Zenon DEF EnqueueResolved
  <2> HIDE DEF w
  <2>5. \A b \in Blocks : ResolutionOwed(b)' <=> ResolutionOwed(b)
    BY <2>2, <2>3, <2>4, Zenon DEF ResolutionOwed
  <2>6. \A b \in Blocks : FoundOwed(b)' <=> FoundOwed(b)
    BY <2>2, <2>3, <2>4, Zenon DEF FoundOwed
  <2> QED
    BY <2>1, <2>4, <2>5, <2>6, Zenon DEF TrackInv, Tracked, Stored, Pending
<1>10. ASSUME Attempting, NEW kind, Current.kind = kind, WriteApplied
       PROVE  /\ overflowed' = overflowed /\ Current \in Write
              /\ Current \in InFlight
              /\ \A w : w # Current => (w \in InFlight' <=> w \in InFlight)
              /\ InFlight' \subseteq InFlight
  BY <1>t, <1>10, AppliedStep, CurrentInFlight, Zenon
<1>11. CASE ApplyBlockFound
  <2>0. Current.hash \in Blocks
    BY <1>10, <1>11, Zenon DEF ApplyBlockFound, Applying, Write
  <2> PICK h \in Blocks : h = Current.hash
    BY <2>0, Zenon
  <2>1. /\ UNCHANGED <<pendingBlocks, task>>
        /\ Current.kind = "BlockFound" /\ Current \in InFlight
        /\ overflowed' = overflowed
        /\ \A w : w # Current => (w \in InFlight' <=> w \in InFlight)
        /\ InFlight' \subseteq InFlight
    BY <1>10, <1>11, Zenon DEF ApplyBlockFound, Applying, ApplyUnchanged, memoryVars, Write
  <2>2. \A b \in Blocks : ResolutionOwed(b)' <=> ResolutionOwed(b)
    BY <2>1, Zenon DEF ResolutionOwed
  <2>3. FoundOwed(h) /\ \A b \in Blocks \ {h} : FoundOwed(b)' <=> FoundOwed(b)
    BY <2>1, Zenon DEF FoundOwed
  <2>4. /\ Stored(h)'
        /\ \A b \in Blocks \ {h} : foundBlocks'[b] = foundBlocks[b]
        /\ Stored(h) => foundBlocks' = foundBlocks
    BY <1>11, <2>1, Zenon DEF ApplyBlockFound, Stored, TypeInv, TypeOK
  <2>5. \A b \in Blocks : Tracked(b)' <=> Tracked(b)
    BY <2>1, <2>2, Zenon DEF Tracked, Pending
  <2> SUFFICES ASSUME ~overflowed, NEW b \in Blocks
               PROVE  /\ foundBlocks'[b].status = "pending" => Tracked(b)'
                      /\ Tracked(b)' => Stored(b)' \/ FoundOwed(b)'
                      /\ FoundOwed(b)' => Stored(b)' \/ Tracked(b)'
    BY <2>1, Zenon DEF TrackInv
  <2>6. CASE b = h
    BY <2>1, <2>3, <2>4, <2>5, <2>6, Zenon DEF TrackInv
  <2>7. CASE b # h
    BY <2>1, <2>3, <2>4, <2>5, <2>7, Zenon DEF TrackInv, Stored
  <2> QED
    BY <2>6, <2>7, Zenon
<1>12. CASE ApplyBlockResolved
  <2>0. Current.hash \in Blocks
    BY <1>10, <1>12, Zenon DEF ApplyBlockResolved, Applying, Write
  <2> PICK h \in Blocks : h = Current.hash
    BY <2>0, Zenon
  <2>1. /\ UNCHANGED <<pendingBlocks, task>>
        /\ Current.kind = "BlockResolved" /\ Current.resolution \in BlockResolution
        /\ overflowed' = overflowed
        /\ \A w : w # Current => (w \in InFlight' <=> w \in InFlight)
        /\ InFlight' \subseteq InFlight
    BY <1>10, <1>12, Zenon DEF ApplyBlockResolved, Applying, ApplyUnchanged, memoryVars, Write
  <2>2. \A b \in Blocks \ {h} : ResolutionOwed(b)' <=> ResolutionOwed(b)
    BY <2>1, Zenon DEF ResolutionOwed
  <2>3. \A b \in Blocks : FoundOwed(b)' <=> FoundOwed(b)
    BY <2>1, Zenon DEF FoundOwed
  <2>4. /\ Stored(h)' /\ foundBlocks'[h].status # "pending"
        /\ \A b \in Blocks \ {h} : foundBlocks'[b] = foundBlocks[b]
    BY <1>12, <2>1, Zenon DEF ApplyBlockResolved, Stored, TypeInv, TypeOK, BlockResolution
  <2>5. \A b \in Blocks \ {h} : Tracked(b)' <=> Tracked(b)
    BY <2>1, <2>2, Zenon DEF Tracked, Pending
  <2> SUFFICES ASSUME ~overflowed, NEW b \in Blocks
               PROVE  /\ foundBlocks'[b].status = "pending" => Tracked(b)'
                      /\ Tracked(b)' => Stored(b)' \/ FoundOwed(b)'
                      /\ FoundOwed(b)' => Stored(b)' \/ Tracked(b)'
    BY <2>1, Zenon DEF TrackInv
  <2>6. CASE b = h
    BY <2>4, <2>6, Zenon
  <2>7. CASE b # h
    BY <2>1, <2>3, <2>4, <2>5, <2>7, Zenon DEF TrackInv, Stored
  <2> QED
    BY <2>6, <2>7, Zenon
<1>13. CASE ApplyRoundReset \/ ApplySnapshot
  <2>1. /\ UNCHANGED <<pendingBlocks, foundBlocks, task>> /\ Attempting /\ WriteApplied
        /\ Current.kind \in {"RoundReset", "Snapshot"}
    BY <1>13, Zenon DEF ApplyRoundReset, ApplySnapshot, Applying, ApplyUnchanged, memoryVars
  <2>2. /\ overflowed' = overflowed
        /\ \A w : w # Current => (w \in InFlight' <=> w \in InFlight)
    BY <1>10, <2>1, Zenon
  <2> QED
    BY <2>1, <2>2, TrackFrame, Zenon DEF OwesFound, OwesVerdict
<1>14. CASE BlockResolvedOutran \/ DiskFails
  <2>1. /\ UNCHANGED <<pendingBlocks, foundBlocks, task>>
        /\ Attempting /\ WriteFailed(IsDurable(Current))
    BY <1>14, Zenon DEF BlockResolvedOutran, DiskFails, ApplyUnchanged, memoryVars, tableVars
  <2>2. IsDurable(Current) \in BOOLEAN
    BY DEF IsDurable
  <2>3. /\ InFlight' \subseteq InFlight
        /\ ~overflowed' => ~overflowed
        /\ ~overflowed' => InFlight \subseteq InFlight' \cup {Current}
        /\ ~overflowed' /\ IsDurable(Current) => InFlight' = InFlight
    BY <1>t, <2>1, <2>2, FailedStep, Zenon
  <2>4. ASSUME ~overflowed', NEW w, w.kind \in {"BlockFound", "BlockResolved"}
        PROVE  w \in InFlight' <=> w \in InFlight
    BY <2>3, <2>4, Zenon DEF IsDurable
  <2> QED
    BY <2>1, <2>3, <2>4, TrackFrame, Zenon DEF OwesFound, OwesVerdict
<1>15. CASE WriterReceives
  <2>1. InFlight' = InFlight /\ overflowed' = overflowed
    BY <1>t, <1>15, ReceiveStep, Zenon DEF WriterReceives
  <2>2. UNCHANGED <<pendingBlocks, foundBlocks, task>>
    BY <1>15, Zenon DEF WriterReceives, ApplyUnchanged, memoryVars, tableVars
  <2> QED
    BY <2>1, <2>2, TrackFrame, Zenon DEF OwesFound, OwesVerdict
<1>16. CASE Restart
  <2>1. InFlight' = {}
    BY <1>16, LostStep, Zenon DEF Restart
  <2>2. \A t \in Tasks : task'[t].pc \in {"idle", "done"}
    BY <1>16, Zenon DEF Restart, Idle
  <2>3. task'["sweeper"].pc = "idle"
    BY <1>16, Zenon DEF Restart, Idle, Tasks
  <2>4. \A b \in Blocks : ~FoundOwed(b)' /\ ~ResolutionOwed(b)'
    BY <2>1, <2>2, <2>3, Zenon DEF FoundOwed, ResolutionOwed, Tasks
  <2>5. \A b \in Blocks : Pending(b)' <=> foundBlocks[b].status = "pending"
    <3> DEFINE entry(b) == [hash |-> b, won_at_submit |-> Won(b)]
    <3>1. pendingBlocks' = {entry(b) : b \in {c \in Blocks : foundBlocks[c].status = "pending"}}
      BY <1>16, Zenon DEF Restart
    <3>2. \A b \in Blocks : entry(b).hash = b
      BY Zenon
    <3> HIDE DEF entry
    <3> QED
      BY <3>1, <3>2, Zenon DEF Pending
  <2>6. foundBlocks' = foundBlocks
    BY <1>16, Zenon DEF Restart
  <2> QED
    BY <2>4, <2>5, <2>6, Zenon DEF TrackInv, Tracked, Stored
<1> QED
  BY <1>1, <1>2, <1>3, <1>4, <1>5, <1>6, <1>8, <1>9, <1>11, <1>12, <1>13, <1>14, <1>15, <1>16, Zenon
     DEF Next, Report, Sweep, ApplyWrite

(* NoBlockLost holds in every behaviour: whatever the interleaving of      *)
(* enroll_pending_block, resolve_block and the writer, and whatever disk   *)
(* failures and crashes occur, a pending row keeps its place in the sweep  *)
(* or has its verdict on the way.                                          *)
THEOREM BlocksAreTracked == Spec => []NoBlockLost
<1>1. Init => TrackInv
  <2> SUFFICES ASSUME Init PROVE TrackInv
    BY Zenon
  <2>1. InFlight = {}
    BY WriterStarts, Zenon DEF Init
  <2> QED
    BY <2>1, PoolStatsAssumption, Zenon
       DEF Init, TrackInv, Tracked, Pending, ResolutionOwed, FoundOwed, Absent, Idle, Tasks
<1>2. Spec => [](TypeInv /\ TrackInv)
  BY <1>1, TypeInit, TypeStep, TrackStep, PTL DEF Spec
<1>3. TrackInv => NoBlockLost
  BY Zenon DEF TrackInv, NoBlockLost, Tracked
<1> QED
  BY <1>2, <1>3, PTL

-----------------------------------------------------------------------------
(* VerdictIsFinal holds in every behaviour: the INSERT OR IGNORE and the   *)
(* UPDATE guarded by status = 'pending' are the only statements that touch *)
(* found_blocks, and neither rewrites a settled row.                       *)
THEOREM VerdictsAreFinal == Spec => VerdictIsFinal
<1>1. TypeInv /\ [Next]_vars => [VerdictKept]_vars
  <2> SUFFICES ASSUME TypeInv, Next PROVE VerdictKept
    BY Zenon
  <2>1. CASE UNCHANGED foundBlocks
    BY <2>1, Zenon DEF VerdictKept
  <2>2. ASSUME ApplyBlockFound \/ ApplyBlockResolved
        PROVE  /\ Current \in Write
               /\ Current.kind \in {"BlockFound", "BlockResolved"}
               /\ Current.hash \in Blocks
               /\ foundBlocks \in [Blocks -> [status : BlockStatus, found_ts : Nat,
                                              won_at_submit : BOOLEAN, mark : Nat]]
    <3>1. Current \in Write /\ Current.kind \in {"BlockFound", "BlockResolved"}
      BY <2>2, CurrentInFlight, Zenon DEF ApplyBlockFound, ApplyBlockResolved, Applying, TypeInv, TypeOK
    <3> QED
      BY <3>1, Zenon DEF Write, TypeInv, TypeOK
  <2>3. CASE ApplyBlockFound
    <3>1. \A b \in Blocks : Stored(b) => foundBlocks'[b] = foundBlocks[b]
      BY <2>2, <2>3, Zenon DEF ApplyBlockFound, Stored
    <3> QED
      BY <3>1, Zenon DEF VerdictKept
  <2>4. CASE ApplyBlockResolved
    <3>1. Current.resolution \in BlockResolution
      BY <2>2, <2>4, Zenon DEF ApplyBlockResolved, Applying, Write
    <3> QED
      BY <2>2, <2>4, <3>1, Zenon DEF ApplyBlockResolved, VerdictKept, Stored
  <2>5. CASE ~ApplyBlockFound /\ ~ApplyBlockResolved
    <3>1. UNCHANGED foundBlocks
      BY <2>5, Zenon DEF Next, ShareAccepted, Report, RecordWin, RecordInconclusive, LookUpPending,
         InsertPending, EnqueueFound, BumpEpoch, EnqueueReset, Sweep, ResolveOrphanedWin,
         ResolvePromoted, ResolveAsCounted, EnqueueResolved, TakeSnapshot, SnapshotEpoch,
         SnapshotTotals, SnapshotEnqueue, WriterReceives, ApplyWrite, BlockResolvedOutran,
         ApplyRoundReset, ApplySnapshot, DiskFails, Restart, Tick, tableVars
    <3> QED
      BY <2>1, <3>1, Zenon
  <2> QED
    BY <2>3, <2>4, <2>5, Zenon
<1> QED
  BY <1>1, TypeInit, TypeStep, PTL DEF Spec, VerdictIsFinal

-----------------------------------------------------------------------------
(* The counts and the rows.  A block's report and its verdict are facts    *)
(* from the step that counts them on, wherever they are on the way to its  *)
(* row: in a task's hands, on the queue, in the table.                     *)
FoundQueued(b, won) == \E w \in InFlight : w.kind = "BlockFound" /\ w.hash = b /\ w.won_at_submit = won

Reported(b) == Stored(b) \/ \E t \in Reporters : task[t].hash = b
WonAt(b) ==
    \/ Stored(b) /\ Won(b)
    \/ \E t \in Reporters : task[t].hash = b /\ task[t].won_at_submit
Resolved(b, r) ==
    \/ foundBlocks[b].status = r
    \/ \E w \in InFlight : w.kind = "BlockResolved" /\ w.hash = b /\ w.resolution = r
    \/ task["sweeper"].pc # "idle" /\ task["sweeper"].hash = b /\ task["sweeper"].resolution = r

(* Before its reporter has enrolled it, nobody else knows of a block. *)
Early(t) == task[t].pc \in {"idle", "bump_epoch", "enqueue_reset", "enroll", "insert"}
Untouched(b) ==
    /\ ~Stored(b) /\ ~Pending(b)
    /\ \A won \in BOOLEAN : ~FoundQueued(b, won)
    /\ \A r \in BlockResolution : ~Resolved(b, r)

ReporterOK(t) ==
    /\ task[t].hash \in {"none", BlockOf[t]}
    /\ task[t].pc = "idle" => task[t].hash = "none"
    /\ task[t].pc \notin {"idle", "done"} => task[t].hash = BlockOf[t]
    /\ Early(t) => Untouched(BlockOf[t])
    /\ task[t].hash = BlockOf[t] /\ Stored(BlockOf[t]) =>
          (Won(BlockOf[t]) <=> task[t].won_at_submit)

QueuedOK ==
    \A b \in Blocks, won \in BOOLEAN : FoundQueued(b, won) =>
        \E t \in Reporters : task[t].hash = b /\ (task[t].won_at_submit <=> won)

PendingOK(p) ==
    /\ Reported(p.hash) /\ (p.won_at_submit <=> WonAt(p.hash))
    /\ \A r \in BlockResolution : ~Resolved(p.hash, r)

OneVerdict == \A b \in Blocks, q, r \in BlockResolution : Resolved(b, q) /\ Resolved(b, r) => q = r

(* A block has one submit-time outcome and at most one verdict. *)
ReportInv ==
    /\ \A t \in Reporters : ReporterOK(t)
    /\ QueuedOK
    /\ \A p \in pendingBlocks : PendingOK(p)
    /\ OneVerdict

(* The counters count these facts; unless the backlog overflows, they have *)
(* all arrived in the rows when nothing is on the way.                     *)
FoundSet == {b \in Blocks : IF WonAt(b) THEN ~Resolved(b, "orphaned")
                            ELSE Reported(b) /\ Resolved(b, "confirmed")}
OrphanedSet == {b \in Blocks : WonAt(b) /\ Resolved(b, "orphaned")}
InconclusiveSet == {b \in Blocks : Reported(b) /\ ~WonAt(b) /\ ~Resolved(b, "confirmed")}

Enrolled(t) ==
    task[t].pc = "done" /\ task[t].hash = BlockOf[t] =>
        Stored(BlockOf[t]) \/ \E won \in BOOLEAN : FoundQueued(BlockOf[t], won)

CountsInv ==
    ~overflowed =>
        /\ blocksFound = Cardinality(FoundSet)
        /\ blocksOrphaned = Cardinality(OrphanedSet)
        /\ blocksInconclusive = Cardinality(InconclusiveSet)
        /\ \A t \in Reporters : Enrolled(t)

(* Each block is reported once, by a submission or by its resubmit task.   *)
OneReporter == \A t, u \in Reporters : BlockOf[t] = BlockOf[u] => t = u

Same(b) ==
    /\ Reported(b)' <=> Reported(b)
    /\ WonAt(b)' <=> WonAt(b)
    /\ \A r \in BlockResolution : Resolved(b, r)' <=> Resolved(b, r)

(* Sets of blocks can be counted. *)
LEMMA CountingBlocks ==
    ASSUME NEW S \in SUBSET Blocks
    PROVE  /\ Cardinality(S) \in Nat
           /\ \A b \in Blocks \ S : Cardinality(S \cup {b}) = Cardinality(S) + 1
           /\ \A b \in S : Cardinality(S) > 0 /\ Cardinality(S \ {b}) = Cardinality(S) - 1
<1>1. IsFiniteSet(S) /\ Cardinality(S) \in Nat
  BY PoolStatsAssumption, FS_Subset, FS_CardinalityType, Zenon
<1>2. \A b \in Blocks \ S : Cardinality(S \cup {b}) = Cardinality(S) + 1
  BY <1>1, FS_AddElement, Zenon
<1>3. ASSUME NEW b \in S PROVE Cardinality(S) > 0 /\ Cardinality(S \ {b}) = Cardinality(S) - 1
  <2>1. Cardinality(S \ {b}) = Cardinality(S) - 1
    BY <1>1, FS_RemoveElement, Zenon
  <2>2. IsFiniteSet(S \ {b})
    BY <1>1, FS_RemoveElement, Zenon
  <2>3. Cardinality(S \ {b}) \in Nat
    BY <2>2, FS_CardinalityType, Zenon
  <2> QED
    BY <1>1, <2>1, <2>3
<1> QED
  BY <1>1, <1>2, <1>3, Zenon

(* The sets move with what was reported and decided. *)
LEMMA SetsKept ==
    ASSUME \A b \in Blocks : Same(b)
    PROVE  UNCHANGED <<FoundSet, OrphanedSet, InconclusiveSet>>
<1>1. "orphaned" \in BlockResolution /\ "confirmed" \in BlockResolution
  BY Zenon DEF BlockResolution
<1>2. FoundSet' = FoundSet
  BY <1>1, Zenon DEF Same, FoundSet
<1>3. OrphanedSet' = OrphanedSet
  BY <1>1, Zenon DEF Same, OrphanedSet
<1>4. InconclusiveSet' = InconclusiveSet
  BY <1>1, Zenon DEF Same, InconclusiveSet
<1> QED
  BY <1>2, <1>3, <1>4, Zenon

(* The one block that a step moves, when the others stay. *)
LEMMA SetsMoved ==
    ASSUME NEW c \in Blocks, \A b \in Blocks \ {c} : Same(b)
    PROVE  /\ FoundSet' \ {c} = FoundSet \ {c}
           /\ OrphanedSet' \ {c} = OrphanedSet \ {c}
           /\ InconclusiveSet' \ {c} = InconclusiveSet \ {c}
<1>1. "orphaned" \in BlockResolution /\ "confirmed" \in BlockResolution
  BY Zenon DEF BlockResolution
<1>2. FoundSet' \ {c} = FoundSet \ {c}
  BY <1>1, Zenon DEF Same, FoundSet
<1>3. OrphanedSet' \ {c} = OrphanedSet \ {c}
  BY <1>1, Zenon DEF Same, OrphanedSet
<1>4. InconclusiveSet' \ {c} = InconclusiveSet \ {c}
  BY <1>1, Zenon DEF Same, InconclusiveSet
<1> QED
  BY <1>2, <1>3, <1>4, Zenon

(* A step that keeps what was reported, won and decided keeps the counts. *)
LEMMA CountsKept ==
    ASSUME CountsInv, UNCHANGED <<blocksFound, blocksOrphaned, blocksInconclusive>>,
           ~overflowed' => ~overflowed,
           ~overflowed' => \A b \in Blocks : Same(b),
           ~overflowed' => \A t \in Reporters : Enrolled(t)'
    PROVE  CountsInv'
<1> SUFFICES ASSUME ~overflowed'
             PROVE  /\ blocksFound' = Cardinality(FoundSet')
                    /\ blocksOrphaned' = Cardinality(OrphanedSet')
                    /\ blocksInconclusive' = Cardinality(InconclusiveSet')
  BY Zenon DEF CountsInv
<1>1. UNCHANGED <<FoundSet, OrphanedSet, InconclusiveSet>>
  BY SetsKept, Zenon
<1> QED
  BY <1>1, Zenon DEF CountsInv

(* The writes about a block that are under way, before and after. *)
NoNewWrite == \A w \in InFlight' : w.kind \in {"BlockFound", "BlockResolved"} => w \in InFlight
NoLostWrite == \A w \in InFlight : w.kind \in {"BlockFound", "BlockResolved"} => w \in InFlight'

(* The reporters and the sweeper have the same block in hand. *)
SameHands ==
    /\ \A t \in Reporters : /\ task'[t].hash = task[t].hash
                            /\ task'[t].won_at_submit = task[t].won_at_submit
                            /\ Early(t)' => Early(t)
                            /\ task'[t].pc = "idle" <=> task[t].pc = "idle"
                            /\ task'[t].pc = "done" <=> task[t].pc = "done"
    /\ task'["sweeper"].pc = "idle" <=> task["sweeper"].pc = "idle"
    /\ task'["sweeper"].hash = task["sweeper"].hash
    /\ task'["sweeper"].resolution = task["sweeper"].resolution

(* Steps that are about no block, or move a report on inside round_reset. *)
LEMMA Undisturbed ==
    ASSUME ReportInv, CountsInv, SameHands, NoNewWrite,
           BlockOf \in [Reporters -> Blocks], pendingBlocks \subseteq [hash : Blocks, won_at_submit : BOOLEAN],
           UNCHANGED <<blocksFound, blocksOrphaned, blocksInconclusive, pendingBlocks, foundBlocks>>,
           ~overflowed' => ~overflowed /\ NoLostWrite
    PROVE  ReportInv' /\ CountsInv'
<1>1. \A b \in Blocks, won \in BOOLEAN : FoundQueued(b, won)' => FoundQueued(b, won)
  BY Zenon DEF FoundQueued, NoNewWrite
<1>2. \A b \in Blocks, r \in BlockResolution : Resolved(b, r)' => Resolved(b, r)
  BY Zenon DEF Resolved, NoNewWrite, SameHands
<1>3. \A b \in Blocks : /\ Stored(b)' <=> Stored(b)
                        /\ Won(b)' <=> Won(b)
                        /\ Pending(b)' <=> Pending(b)
                        /\ Reported(b)' <=> Reported(b)
                        /\ WonAt(b)' <=> WonAt(b)
  BY DEF Stored, Won, Pending, Reported, WonAt, SameHands
<1>4. \A b \in Blocks : Untouched(b) => Untouched(b)'
  BY <1>1, <1>2, <1>3, Zenon DEF Untouched
<1>5. ReportInv'
  <2>1. \A t \in Reporters : ReporterOK(t)'
    BY <1>3, <1>4 DEF ReportInv, ReporterOK, SameHands
  <2>2. QueuedOK'
    BY <1>1 DEF ReportInv, QueuedOK, SameHands
  <2>3. \A p \in pendingBlocks' : PendingOK(p)'
    BY <1>2, <1>3, Zenon DEF ReportInv, PendingOK
  <2>4. OneVerdict'
    BY <1>2, Zenon DEF ReportInv, OneVerdict
  <2> QED
    BY <2>1, <2>2, <2>3, <2>4, Zenon DEF ReportInv
<1>6. ASSUME ~overflowed' PROVE \A b \in Blocks : Same(b)
  <2>1. \A b \in Blocks, r \in BlockResolution : Resolved(b, r) => Resolved(b, r)'
    BY <1>6, Zenon DEF Resolved, NoLostWrite, SameHands
  <2> QED
    BY <1>2, <1>3, <2>1, Zenon DEF Same
<1>7. ASSUME ~overflowed', NEW t \in Reporters PROVE Enrolled(t)'
  <2>1. \A b \in Blocks, won \in BOOLEAN : FoundQueued(b, won) => FoundQueued(b, won)'
    BY <1>7, Zenon DEF FoundQueued, NoLostWrite
  <2>2. Enrolled(t)
    BY <1>7, Zenon DEF CountsInv
  <2> QED
    BY <1>3, <2>1, <2>2, Zenon DEF Enrolled, SameHands
<1>8. CountsInv'
  BY <1>6, <1>7, CountsKept, Zenon
<1> QED
  BY <1>5, <1>8, Zenon

(* What the lemmas below assume of the types. *)
CountsTypes ==
    /\ task \in [Tasks -> TaskState]
    /\ pendingBlocks \subseteq [hash : Blocks, won_at_submit : BOOLEAN]
    /\ foundBlocks \in [Blocks -> [status : BlockStatus, found_ts : Nat,
                                   won_at_submit : BOOLEAN, mark : Nat]]

(* Who has a block in hand is its only reporter. *)
LEMMA OnlyReporter ==
    ASSUME OneReporter, ReportInv, NEW t \in Reporters, NEW u \in Reporters, task[u].hash = BlockOf[t]
    PROVE  u = t
<1>1. BlockOf[t] # "none" /\ task[u].hash \in {"none", BlockOf[u]}
  BY PoolStatsAssumption, Zenon DEF ReportInv, ReporterOK
<1> QED
  BY <1>1, Zenon DEF OneReporter

(* record_block_outcome: a block that nobody has reported is counted.      *)
LEMMA NewReport ==
    ASSUME OneReporter, ReportInv, CountsInv, CountsTypes,
           NEW t \in Reporters, task[t].pc = "idle",
           NEW v, v.hash = BlockOf[t], v.won_at_submit \in BOOLEAN, v.pc \in {"bump_epoch", "enroll"},
           task' = [task EXCEPT ![t] = v],
           InFlight' = InFlight, overflowed' = overflowed,
           UNCHANGED <<pendingBlocks, foundBlocks, blocksOrphaned>>,
           v.won_at_submit => blocksFound' = blocksFound + 1 /\ UNCHANGED blocksInconclusive,
           ~v.won_at_submit => blocksInconclusive' = blocksInconclusive + 1 /\ UNCHANGED blocksFound
    PROVE  ReportInv' /\ CountsInv'
<1> SUFFICES ASSUME NEW c \in Blocks, c = BlockOf[t] PROVE ReportInv' /\ CountsInv'
  BY PoolStatsAssumption, Zenon
<1>1. /\ task'[t] = v /\ \A u \in Tasks \ {t} : task'[u] = task[u]
      /\ "sweeper" \in Tasks \ {t} /\ Reporters \subseteq Tasks
  BY PoolStatsAssumption, Zenon DEF CountsTypes, Tasks
<1>2. Untouched(c) /\ ~Reported(c) /\ ~WonAt(c)
  <2>1. Untouched(c) /\ task[t].hash = "none" /\ c # "none"
    BY PoolStatsAssumption, Zenon DEF ReportInv, ReporterOK, Early
  <2>2. \A u \in Reporters : task[u].hash # c
    BY <2>1, OnlyReporter, Zenon
  <2> QED
    BY <2>1, <2>2, Zenon DEF Reported, WonAt, Untouched
<1>3. \A b \in Blocks : /\ Stored(b)' <=> Stored(b)
                        /\ Won(b)' = Won(b)
                        /\ Pending(b)' <=> Pending(b)
                        /\ \A won \in BOOLEAN : FoundQueued(b, won)' <=> FoundQueued(b, won)
                        /\ \A r \in BlockResolution : Resolved(b, r)' <=> Resolved(b, r)
                        /\ Untouched(b)' <=> Untouched(b)
  <2>1. task'["sweeper"] = task["sweeper"]
    BY <1>1, Zenon
  <2> QED
    BY <2>1, Zenon DEF Stored, Won, Pending, FoundQueued, Resolved, Untouched
<1>4. \A b \in Blocks \ {c} : (Reported(b)' <=> Reported(b)) /\ (WonAt(b)' <=> WonAt(b))
  <2>1. \A b \in Blocks \ {c} : task[t].hash # b
    BY PoolStatsAssumption, Zenon DEF ReportInv, ReporterOK
  <2> QED
    BY <1>1, <1>3, <2>1 DEF Reported, WonAt
<1>5. Reported(c)' /\ (WonAt(c)' <=> v.won_at_submit)
  <2>1. \A u \in Reporters : task[u].hash # c
    BY <1>2, Zenon DEF Reported
  <2> QED
    BY <1>1, <1>2, <1>3, <2>1, Zenon DEF Reported, WonAt, Untouched
<1>6. ReportInv'
  <2>1. ReporterOK(t)'
    BY <1>1, <1>2, <1>3, Zenon DEF ReporterOK, Untouched
  <2>2. ASSUME NEW u \in Reporters \ {t} PROVE ReporterOK(u)'
    <3>1. ReporterOK(u) /\ task'[u] = task[u] /\ BlockOf[u] \in Blocks
      BY <1>1, PoolStatsAssumption, Zenon DEF ReportInv
    <3> QED
      BY <1>3, <3>1, Zenon DEF ReporterOK, Early
  <2>3. QueuedOK'
    <3>1. ASSUME NEW b \in Blocks, NEW won \in BOOLEAN, FoundQueued(b, won)
          PROVE  \E u \in Reporters : task'[u].hash = b /\ (task'[u].won_at_submit <=> won)
      <4>1. PICK u \in Reporters : task[u].hash = b /\ (task[u].won_at_submit <=> won)
        BY <3>1 DEF ReportInv, QueuedOK
      <4>2. u # t
        BY <4>1, PoolStatsAssumption, Zenon DEF ReportInv, ReporterOK
      <4> QED
        BY <1>1, <4>1, <4>2, Zenon
    <3> QED
      BY <1>3, <3>1 DEF QueuedOK
  <2>4. \A p \in pendingBlocks' : PendingOK(p)'
    <3>1. \A p \in pendingBlocks : PendingOK(p) /\ p.hash \in Blocks \ {c}
      BY <1>2, Zenon DEF ReportInv, CountsTypes, PendingOK
    <3> QED
      BY <1>3, <1>4, <3>1, Zenon DEF PendingOK
  <2>5. OneVerdict'
    BY <1>3, Zenon DEF ReportInv, OneVerdict
  <2> QED
    BY <2>1, <2>2, <2>3, <2>4, <2>5, Zenon DEF ReportInv
<1>7. CountsInv'
  <2> SUFFICES ASSUME ~overflowed
               PROVE  /\ blocksFound' = Cardinality(FoundSet')
                      /\ blocksOrphaned' = Cardinality(OrphanedSet')
                      /\ blocksInconclusive' = Cardinality(InconclusiveSet')
                      /\ \A u \in Reporters : Enrolled(u)'
    BY Zenon DEF CountsInv
  <2>1. \A b \in Blocks \ {c} : Same(b)
    BY <1>3, <1>4, Zenon DEF Same
  <2>2. /\ FoundSet' \ {c} = FoundSet \ {c}
        /\ OrphanedSet' \ {c} = OrphanedSet \ {c}
        /\ InconclusiveSet' \ {c} = InconclusiveSet \ {c}
    BY <2>1, SetsMoved, Zenon
  <2>3. c \notin FoundSet /\ c \notin OrphanedSet /\ c \notin InconclusiveSet
    BY <1>2, Zenon DEF FoundSet, OrphanedSet, InconclusiveSet
  <2>4. ~Resolved(c, "orphaned")' /\ ~Resolved(c, "confirmed")'
    BY <1>2, <1>3, Zenon DEF Untouched, BlockResolution
  <2>5. c \notin OrphanedSet' /\ (c \in FoundSet' <=> v.won_at_submit)
        /\ (c \in InconclusiveSet' <=> ~v.won_at_submit)
    BY <1>5, <2>4, Zenon DEF FoundSet, OrphanedSet, InconclusiveSet
  <2>6. OrphanedSet' = OrphanedSet
    BY <2>2, <2>3, <2>5
  <2>7. /\ FoundSet' = IF v.won_at_submit THEN FoundSet \cup {c} ELSE FoundSet
        /\ InconclusiveSet' = IF v.won_at_submit THEN InconclusiveSet ELSE InconclusiveSet \cup {c}
    BY <2>2, <2>3, <2>5
  <2>8. /\ Cardinality(FoundSet \cup {c}) = Cardinality(FoundSet) + 1
        /\ Cardinality(InconclusiveSet \cup {c}) = Cardinality(InconclusiveSet) + 1
    <3>1. FoundSet \in SUBSET Blocks /\ InconclusiveSet \in SUBSET Blocks
      BY Zenon DEF FoundSet, InconclusiveSet
    <3> QED
      BY <2>3, <3>1, CountingBlocks, Zenon
  <2>9. /\ blocksFound = Cardinality(FoundSet) /\ blocksOrphaned = Cardinality(OrphanedSet)
        /\ blocksInconclusive = Cardinality(InconclusiveSet) /\ \A u \in Reporters : Enrolled(u)
    BY Zenon DEF CountsInv
  <2>10. ASSUME NEW u \in Reporters PROVE Enrolled(u)'
    <3>1. CASE u = t
      BY <1>1, <3>1, Zenon DEF Enrolled
    <3>2. CASE u # t
      <4>1. task'[u] = task[u] /\ BlockOf[u] \in Blocks /\ Enrolled(u)
        BY <1>1, <2>9, <3>2, PoolStatsAssumption, Zenon
      <4> QED
        BY <1>3, <4>1, Zenon DEF Enrolled
    <3> QED
      BY <3>1, <3>2, Zenon
  <2> QED
    BY <2>6, <2>7, <2>8, <2>9, <2>10, Zenon
<1> QED
  BY <1>6, <1>7, Zenon

(* A step that moves a report or a verdict on towards its row: whatever    *)
(* is new on the queue, in the pending set or in the table was in hand, or *)
(* queued, before.                                                         *)
InHandOf(b, won) ==
    \E t \in Reporters : ~Early(t)' /\ task[t].hash = b /\ (task[t].won_at_submit <=> won)

\* A report goes forward, and is done only with its BlockFound queued.
ReportersMoveOn ==
    \A t \in Reporters : /\ task'[t].hash = task[t].hash
                         /\ task'[t].won_at_submit = task[t].won_at_submit
                         /\ Early(t)' => Early(t)
                         /\ task'[t].pc = "idle" <=> task[t].pc = "idle"
                         /\ task[t].pc = "done" => task'[t].pc = "done"
                         /\ task'[t].pc = "done" =>
                               task[t].pc = "done" \/ \E won \in BOOLEAN : FoundQueued(BlockOf[t], won)'

\* A row stays, and a new one was queued with that outcome.
RowsMoveOn ==
    \A b \in Blocks : /\ Stored(b) => Stored(b)' /\ Won(b)' = Won(b)
                      /\ Stored(b)' => Stored(b) \/ FoundQueued(b, Won(b)')

\* A BlockFound that is new on the queue was in a reporter's hand.
QueueMovesOn ==
    \A b \in Blocks, won \in BOOLEAN : FoundQueued(b, won)' => FoundQueued(b, won) \/ InHandOf(b, won)

\* So was a block that is new in the pending set, and it has no verdict.
PendingMovesOn ==
    \A p \in pendingBlocks' : \/ p \in pendingBlocks
                              \/ /\ InHandOf(p.hash, p.won_at_submit)
                                 /\ \A r \in BlockResolution : ~Resolved(p.hash, r)

\* No verdict is new.
VerdictsMoveOn == \A b \in Blocks, r \in BlockResolution : Resolved(b, r)' => Resolved(b, r)

\* Without an overflow, no verdict and no report is lost.
NoneIsLost ==
    ~overflowed' =>
        /\ ~overflowed
        /\ \A b \in Blocks, r \in BlockResolution : Resolved(b, r) => Resolved(b, r)'
        /\ \A b \in Blocks, won \in BOOLEAN :
               FoundQueued(b, won) => Stored(b)' \/ FoundQueued(b, won)'

HasReport(b, won) == \E t \in Reporters : task[t].hash = b /\ (task[t].won_at_submit <=> won)

(* A step that moves reports on and leaves the counters alone keeps what   *)
(* they count.                                                             *)
LEMMA MovedOn ==
    ASSUME OneReporter, ReportInv, CountsInv, CountsTypes, CountsTypes',
           UNCHANGED <<blocksFound, blocksOrphaned, blocksInconclusive>>,
           ReportersMoveOn, RowsMoveOn, QueueMovesOn, PendingMovesOn, VerdictsMoveOn, NoneIsLost
    PROVE  ReportInv' /\ CountsInv'
<1>t. \A b \in Blocks : Won(b) \in BOOLEAN /\ Won(b)' \in BOOLEAN
  BY Zenon DEF CountsTypes, Won
<1>q. ASSUME NEW b \in Blocks, NEW won \in BOOLEAN, FoundQueued(b, won) \/ InHandOf(b, won)
      PROVE  HasReport(b, won)
  BY <1>q DEF ReportInv, QueuedOK, InHandOf, HasReport
<1>u. ASSUME NEW t \in Reporters, NEW u \in Reporters, NEW b \in Blocks, task[t].hash = b, task[u].hash = b
      PROVE  t = u /\ b = BlockOf[t]
  <2>1. b = BlockOf[t] /\ b = BlockOf[u]
    BY <1>u, PoolStatsAssumption, Zenon DEF ReportInv, ReporterOK
  <2> QED
    BY <2>1, Zenon DEF OneReporter
<1>n. ASSUME NEW b \in Blocks, Stored(b)', ~Stored(b) PROVE HasReport(b, Won(b)')
  <2>1. FoundQueued(b, Won(b)') /\ Won(b)' \in BOOLEAN
    BY <1>t, <1>n, Zenon DEF RowsMoveOn
  <2> QED
    BY <1>q, <2>1, Zenon
<1>1. ASSUME NEW b \in Blocks PROVE Reported(b)' <=> Reported(b)
  <2>1. CASE Stored(b)' /\ ~Stored(b)
    BY <1>n, <2>1, Zenon DEF Reported, HasReport
  <2>2. CASE Stored(b)' <=> Stored(b)
    BY <2>2, Zenon DEF Reported, ReportersMoveOn
  <2> QED
    BY <2>1, <2>2, Zenon DEF RowsMoveOn
<1>2. ASSUME NEW b \in Blocks PROVE WonAt(b)' <=> WonAt(b)
  <2>1. CASE Stored(b)' /\ ~Stored(b)
    <3>1. PICK t \in Reporters : task[t].hash = b /\ (task[t].won_at_submit <=> Won(b)')
      BY <1>n, <2>1, Zenon DEF HasReport
    <3> QED
      BY <2>1, <3>1, Zenon DEF WonAt, ReportersMoveOn
  <2>2. CASE Stored(b)' <=> Stored(b)
    BY <2>2, Zenon DEF WonAt, RowsMoveOn, ReportersMoveOn
  <2> QED
    BY <2>1, <2>2, Zenon DEF RowsMoveOn
<1>3. ASSUME NEW t \in Reporters, NEW won \in BOOLEAN, Early(t)' PROVE ~InHandOf(BlockOf[t], won)
  BY <1>3, OnlyReporter, PoolStatsAssumption, Zenon DEF InHandOf
<1>4. ASSUME NEW t \in Reporters, Early(t)' PROVE Untouched(BlockOf[t])'
  <2>1. BlockOf[t] \in Blocks /\ Untouched(BlockOf[t])
    BY <1>4, PoolStatsAssumption, Zenon DEF ReportInv, ReporterOK, ReportersMoveOn
  <2>2. ~Stored(BlockOf[t])'
    BY <1>t, <2>1, Zenon DEF Untouched, RowsMoveOn
  <2>3. ~Pending(BlockOf[t])'
    <3>1. \A p \in pendingBlocks' : p.won_at_submit \in BOOLEAN
      BY Zenon DEF CountsTypes
    <3> QED
      BY <1>3, <1>4, <2>1, <3>1, Zenon DEF Untouched, Pending, PendingMovesOn
  <2>4. \A won \in BOOLEAN : ~FoundQueued(BlockOf[t], won)'
    BY <1>3, <1>4, <2>1, Zenon DEF Untouched, QueueMovesOn
  <2>5. \A r \in BlockResolution : ~Resolved(BlockOf[t], r)'
    BY <2>1, Zenon DEF Untouched, VerdictsMoveOn
  <2> QED
    BY <2>2, <2>3, <2>4, <2>5, Zenon DEF Untouched
<1>5. ASSUME NEW t \in Reporters PROVE ReporterOK(t)'
  <2>1. ReporterOK(t) /\ BlockOf[t] \in Blocks
    BY PoolStatsAssumption, Zenon DEF ReportInv
  <2>2. ASSUME task'[t].hash = BlockOf[t], Stored(BlockOf[t])'
        PROVE  Won(BlockOf[t])' <=> task'[t].won_at_submit
    <3>1. CASE Stored(BlockOf[t])
      BY <2>1, <2>2, <3>1, Zenon DEF ReporterOK, RowsMoveOn, ReportersMoveOn
    <3>2. CASE ~Stored(BlockOf[t])
      <4>1. PICK u \in Reporters : /\ task[u].hash = BlockOf[t]
                                   /\ task[u].won_at_submit <=> Won(BlockOf[t])'
        BY <1>n, <2>1, <2>2, <3>2, Zenon DEF HasReport
      <4>2. task[t].hash = BlockOf[t] /\ task'[t].won_at_submit = task[t].won_at_submit
        BY <2>2, Zenon DEF ReportersMoveOn
      <4> QED
        BY <1>u, <2>1, <4>1, <4>2, Zenon
    <3> QED
      BY <3>1, <3>2, Zenon
  <2> QED
    BY <1>4, <2>1, <2>2, Zenon DEF ReporterOK, ReportersMoveOn
<1>6. QueuedOK'
  <2>1. ASSUME NEW b \in Blocks, NEW won \in BOOLEAN, FoundQueued(b, won)' PROVE HasReport(b, won)
    BY <1>q, <2>1, Zenon DEF QueueMovesOn
  <2>2. ASSUME NEW b \in Blocks, NEW won \in BOOLEAN, HasReport(b, won) PROVE HasReport(b, won)'
    BY <2>2, Zenon DEF HasReport, ReportersMoveOn
  <2>3. \A b \in Blocks, won \in BOOLEAN : FoundQueued(b, won)' => HasReport(b, won)'
    BY <2>1, <2>2, Zenon
  <2> QED
    BY <2>3, Zenon DEF QueuedOK, HasReport
<1>7. ASSUME NEW p \in pendingBlocks' PROVE PendingOK(p)'
  <2>1. p.hash \in Blocks /\ p.won_at_submit \in BOOLEAN
    BY Zenon DEF CountsTypes
  <2>2. CASE p \in pendingBlocks
    BY <1>1, <1>2, <2>1, <2>2, Zenon DEF ReportInv, PendingOK, VerdictsMoveOn
  <2>3. CASE p \notin pendingBlocks
    <3>1. PICK t \in Reporters : task[t].hash = p.hash /\ (task[t].won_at_submit <=> p.won_at_submit)
      BY <2>3, Zenon DEF InHandOf, PendingMovesOn
    <3>2. Reported(p.hash)
      BY <3>1, Zenon DEF Reported
    <3>3. WonAt(p.hash) <=> p.won_at_submit
      BY <1>u, <2>1, <3>1 DEF WonAt, ReportInv, ReporterOK
    <3> QED
      BY <1>1, <1>2, <2>1, <2>3, <3>2, <3>3, Zenon DEF PendingOK, PendingMovesOn, VerdictsMoveOn
  <2> QED
    BY <2>2, <2>3, Zenon
<1>8. OneVerdict'
  BY Zenon DEF ReportInv, OneVerdict, VerdictsMoveOn
<1>9. ReportInv'
  BY <1>5, <1>6, <1>7, <1>8, Zenon DEF ReportInv
<1>10. ASSUME ~overflowed' PROVE \A b \in Blocks : Same(b)
  BY <1>1, <1>2, <1>10, Zenon DEF Same, VerdictsMoveOn, NoneIsLost
<1>11. ASSUME ~overflowed', NEW t \in Reporters PROVE Enrolled(t)'
  <2>1. Enrolled(t) /\ BlockOf[t] \in Blocks
    BY <1>11, PoolStatsAssumption, Zenon DEF CountsInv, NoneIsLost
  <2> QED
    BY <1>11, <2>1, Zenon DEF Enrolled, ReportersMoveOn, RowsMoveOn, NoneIsLost
<1>12. CountsInv'
  BY <1>10, <1>11, CountsKept, Zenon DEF NoneIsLost
<1> QED
  BY <1>9, <1>12, Zenon

(* resolve_block: a pending block gets its verdict, and moves between the  *)
(* counters when that reverses its submit-time outcome.                    *)
LEMMA NewVerdict ==
    ASSUME ReportInv, CountsInv, CountsTypes,
           NEW p \in pendingBlocks, NEW r \in BlockResolution,
           pendingBlocks' = pendingBlocks \ {p},
           task["sweeper"].pc = "idle",
           NEW v, v.pc # "idle", v.hash = p.hash, v.resolution = r,
           task' = [task EXCEPT !["sweeper"] = v],
           InFlight' = InFlight, overflowed' = overflowed, foundBlocks' = foundBlocks,
           p.won_at_submit /\ r = "orphaned" =>
               /\ blocksFound' = Saturating(blocksFound) /\ blocksOrphaned' = blocksOrphaned + 1
               /\ blocksInconclusive' = blocksInconclusive,
           ~p.won_at_submit /\ r = "confirmed" =>
               /\ blocksInconclusive' = Saturating(blocksInconclusive) /\ blocksFound' = blocksFound + 1
               /\ blocksOrphaned' = blocksOrphaned,
           (p.won_at_submit => r # "orphaned") /\ (~p.won_at_submit => r # "confirmed") =>
               UNCHANGED <<blocksFound, blocksOrphaned, blocksInconclusive>>
    PROVE  ReportInv' /\ CountsInv'
<1> SUFFICES ASSUME NEW c \in Blocks, c = p.hash PROVE ReportInv' /\ CountsInv'
  BY Zenon DEF CountsTypes
<1>1. /\ task'["sweeper"] = v /\ \A t \in Reporters : task'[t] = task[t]
      /\ p.won_at_submit \in BOOLEAN
  BY PoolStatsAssumption, Zenon DEF CountsTypes, Tasks
<1>2. /\ Reported(c) /\ (WonAt(c) <=> p.won_at_submit) /\ Pending(c)
      /\ \A q \in BlockResolution : ~Resolved(c, q)
  BY Zenon DEF ReportInv, PendingOK, Pending
<1>3. \A b \in Blocks : /\ Stored(b)' <=> Stored(b)
                        /\ Won(b)' = Won(b)
                        /\ Pending(b)' => Pending(b)
                        /\ \A won \in BOOLEAN : FoundQueued(b, won)' <=> FoundQueued(b, won)
                        /\ Reported(b)' <=> Reported(b)
                        /\ WonAt(b)' <=> WonAt(b)
  BY <1>1, Zenon DEF Stored, Won, Pending, FoundQueued, Reported, WonAt
<1>4. \A q \in BlockResolution : Resolved(c, q)' <=> q = r
  BY <1>1, <1>2, Zenon DEF Resolved
<1>5. \A b \in Blocks \ {c}, q \in BlockResolution : Resolved(b, q)' <=> Resolved(b, q)
  BY <1>1, Zenon DEF Resolved
<1>6. ReportInv'
  <2>1. ASSUME NEW t \in Reporters PROVE ReporterOK(t)'
    <3>1. ReporterOK(t) /\ BlockOf[t] \in Blocks /\ task'[t] = task[t]
      BY <1>1, PoolStatsAssumption, Zenon DEF ReportInv
    <3>2. ASSUME Early(t)' PROVE Untouched(BlockOf[t])'
      <4>1. Untouched(BlockOf[t])
        BY <3>1, <3>2, Zenon DEF ReporterOK, Early
      <4>2. BlockOf[t] # c
        BY <1>2, <4>1, Zenon DEF Untouched
      <4> QED
        BY <1>3, <1>5, <3>1, <4>1, <4>2, Zenon DEF Untouched
    <3> QED
      BY <1>3, <3>1, <3>2, Zenon DEF ReporterOK
  <2>2. QueuedOK'
    BY <1>1, <1>3 DEF ReportInv, QueuedOK
  <2>3. ASSUME NEW q \in pendingBlocks' PROVE PendingOK(q)'
    <3>1. /\ q \in pendingBlocks /\ PendingOK(q) /\ q # p
          /\ q \in [hash : Blocks, won_at_submit : BOOLEAN] /\ p \in [hash : Blocks, won_at_submit : BOOLEAN]
      BY Zenon DEF ReportInv, CountsTypes
    <3>2. q.hash \in Blocks \ {c}
      BY <1>2, <3>1 DEF PendingOK
    <3> QED
      BY <1>3, <1>5, <3>1, <3>2, Zenon DEF PendingOK
  <2>4. OneVerdict'
    BY <1>4, <1>5, Zenon DEF ReportInv, OneVerdict
  <2> QED
    BY <2>1, <2>2, <2>3, <2>4, Zenon DEF ReportInv
<1>7. CountsInv'
  <2> SUFFICES ASSUME ~overflowed
               PROVE  /\ blocksFound' = Cardinality(FoundSet')
                      /\ blocksOrphaned' = Cardinality(OrphanedSet')
                      /\ blocksInconclusive' = Cardinality(InconclusiveSet')
                      /\ \A u \in Reporters : Enrolled(u)'
    BY Zenon DEF CountsInv
  <2>1. \A b \in Blocks \ {c} : Same(b)
    BY <1>3, <1>5, Zenon DEF Same
  <2>2. /\ FoundSet' \ {c} = FoundSet \ {c}
        /\ OrphanedSet' \ {c} = OrphanedSet \ {c}
        /\ InconclusiveSet' \ {c} = InconclusiveSet \ {c}
    BY <2>1, SetsMoved, Zenon
  <2>3. "orphaned" \in BlockResolution /\ "confirmed" \in BlockResolution
    BY Zenon DEF BlockResolution
  <2>4. /\ c \in FoundSet <=> p.won_at_submit
        /\ c \notin OrphanedSet
        /\ c \in InconclusiveSet <=> ~p.won_at_submit
    BY <1>2, <2>3, Zenon DEF FoundSet, OrphanedSet, InconclusiveSet
  <2>5. /\ c \in FoundSet' <=> IF p.won_at_submit THEN r # "orphaned" ELSE r = "confirmed"
        /\ c \in OrphanedSet' <=> p.won_at_submit /\ r = "orphaned"
        /\ c \in InconclusiveSet' <=> ~p.won_at_submit /\ r # "confirmed"
    BY <1>2, <1>3, <1>4, <2>3, Zenon DEF FoundSet, OrphanedSet, InconclusiveSet
  <2>6. FoundSet \in SUBSET Blocks /\ OrphanedSet \in SUBSET Blocks /\ InconclusiveSet \in SUBSET Blocks
    BY Zenon DEF FoundSet, OrphanedSet, InconclusiveSet
  <2>7. /\ blocksFound = Cardinality(FoundSet) /\ blocksOrphaned = Cardinality(OrphanedSet)
        /\ blocksInconclusive = Cardinality(InconclusiveSet) /\ \A u \in Reporters : Enrolled(u)
    BY Zenon DEF CountsInv
  <2>8. ASSUME NEW u \in Reporters PROVE Enrolled(u)'
    BY <1>1, <1>3, <2>7, PoolStatsAssumption, Zenon DEF Enrolled
  <2>9. CASE p.won_at_submit /\ r = "orphaned"
    <3>1. /\ FoundSet' = FoundSet \ {c} /\ OrphanedSet' = OrphanedSet \cup {c}
          /\ InconclusiveSet' = InconclusiveSet
      BY <2>2, <2>4, <2>5, <2>9
    <3>2. Cardinality(FoundSet) > 0 /\ Cardinality(FoundSet \ {c}) = Cardinality(FoundSet) - 1
      BY <2>4, <2>6, <2>9, CountingBlocks, Zenon
    <3>3. Cardinality(OrphanedSet \cup {c}) = Cardinality(OrphanedSet) + 1
      BY <2>4, <2>6, CountingBlocks, Zenon
    <3> QED
      BY <2>7, <2>8, <2>9, <3>1, <3>2, <3>3, Zenon DEF Saturating
  <2>10. CASE ~p.won_at_submit /\ r = "confirmed"
    <3>1. /\ FoundSet' = FoundSet \cup {c} /\ OrphanedSet' = OrphanedSet
          /\ InconclusiveSet' = InconclusiveSet \ {c}
      BY <2>2, <2>4, <2>5, <2>10
    <3>2. /\ Cardinality(InconclusiveSet) > 0
          /\ Cardinality(InconclusiveSet \ {c}) = Cardinality(InconclusiveSet) - 1
      BY <2>4, <2>6, <2>10, CountingBlocks, Zenon
    <3>3. Cardinality(FoundSet \cup {c}) = Cardinality(FoundSet) + 1
      BY <2>4, <2>6, <2>10, CountingBlocks, Zenon
    <3> QED
      BY <2>7, <2>8, <2>10, <3>1, <3>2, <3>3, Zenon DEF Saturating
  <2>11. CASE (p.won_at_submit => r # "orphaned") /\ (~p.won_at_submit => r # "confirmed")
    <3>1. FoundSet' = FoundSet /\ OrphanedSet' = OrphanedSet /\ InconclusiveSet' = InconclusiveSet
      BY <2>2, <2>4, <2>5, <2>11
    <3> QED
      BY <2>7, <2>8, <2>11, <3>1, Zenon
  <2> QED
    BY <2>9, <2>10, <2>11, Zenon
<1> QED
  BY <1>6, <1>7, Zenon

(* Nothing on the way: the facts are the rows. *)
AtRest ==
    /\ InFlight = {} /\ task["sweeper"].pc = "idle"
    /\ \A t \in Reporters : task[t].hash = "none" \/ Stored(task[t].hash)

\* With nothing on the way, the blocks counted are those of the table's rows.
LEMMA RestIsRows ==
    ASSUME ReportInv, CountsTypes, AtRest
    PROVE  FoundSet = FoundRows /\ OrphanedSet = OrphanedRows /\ InconclusiveSet = InconclusiveRows
<1>1. \A b \in Blocks : Reported(b) <=> Stored(b)
  BY PoolStatsAssumption, Zenon DEF AtRest, Reported
<1>2. ASSUME NEW b \in Blocks PROVE WonAt(b) <=> Stored(b) /\ Won(b)
  <2>1. ASSUME NEW t \in Reporters, task[t].hash = b PROVE Stored(b) /\ (Won(b) <=> task[t].won_at_submit)
    BY <2>1, PoolStatsAssumption, Zenon DEF AtRest, ReportInv, ReporterOK
  <2> QED
    BY <2>1, Zenon DEF WonAt
<1>3. \A b \in Blocks, r \in BlockResolution : Resolved(b, r) <=> foundBlocks[b].status = r
  BY Zenon DEF AtRest, Resolved
<1>4. "orphaned" \in BlockResolution /\ "confirmed" \in BlockResolution
  BY Zenon DEF BlockResolution
<1>5. FoundSet = FoundRows
  BY <1>1, <1>2, <1>3, <1>4, Zenon DEF FoundSet, FoundRows
<1>6. OrphanedSet = OrphanedRows
  BY <1>2, <1>3, <1>4, Zenon DEF OrphanedSet, OrphanedRows, Stored
<1>7. InconclusiveSet = InconclusiveRows
  BY <1>1, <1>2, <1>3, <1>4, Zenon DEF InconclusiveSet, InconclusiveRows
<1> QED
  BY <1>5, <1>6, <1>7, Zenon

(* A boot reads the counts back, and knows of no report but the rows.      *)
LEMMA BootCounts ==
    ASSUME ReportInv, Restart
    PROVE  ReportInv' /\ CountsInv'
<1>2. InFlight' = {} /\ foundBlocks' = foundBlocks
  BY LostStep, Zenon DEF Restart
<1>3. /\ \A t \in Reporters : /\ task'[t].hash = "none"
                              /\ task'[t].pc \in {"idle", "done"}
                              /\ task'[t].pc = "idle" => task[t].pc = "idle"
      /\ task'["sweeper"].pc = "idle"
  BY PoolStatsAssumption, Zenon DEF Restart, Idle, Tasks
<1>4. pendingBlocks' = {[hash |-> b, won_at_submit |-> Won(b)] :
                            b \in {c \in Blocks : foundBlocks[c].status = "pending"}}
  BY Zenon DEF Restart
<1>5. \A b \in Blocks : /\ Stored(b)' <=> Stored(b)
                        /\ Won(b)' = Won(b)
                        /\ \A won \in BOOLEAN : ~FoundQueued(b, won)'
                        /\ Reported(b)' <=> Stored(b)
                        /\ WonAt(b)' <=> Stored(b) /\ Won(b)
                        /\ \A r \in BlockResolution : Resolved(b, r)' <=> foundBlocks[b].status = r
                        /\ Pending(b)' => Stored(b)
  <2>1. \A b \in Blocks : b # "none"
    BY PoolStatsAssumption, Zenon
  <2>2. \A b \in Blocks : (Stored(b)' <=> Stored(b)) /\ Won(b)' = Won(b)
    BY <1>2, Zenon DEF Stored, Won
  <2>3. \A b \in Blocks : (Reported(b)' <=> Stored(b)) /\ (WonAt(b)' <=> Stored(b) /\ Won(b))
    BY <1>3, <2>1, <2>2, Zenon DEF Reported, WonAt
  <2>4. \A b \in Blocks : \A r \in BlockResolution : Resolved(b, r)' <=> foundBlocks[b].status = r
    BY <1>2, <1>3, Zenon DEF Resolved
  <2>5. \A b \in Blocks : \A won \in BOOLEAN : ~FoundQueued(b, won)'
    BY <1>2, Zenon DEF FoundQueued
  <2>6. \A b \in Blocks : Pending(b)' => Stored(b)
    BY <1>4 DEF Pending, Stored
  <2> QED
    BY <2>2, <2>3, <2>4, <2>5, <2>6, Zenon
<1>6. ASSUME NEW t \in Reporters PROVE ReporterOK(t)'
  <2>1. BlockOf[t] \in Blocks /\ BlockOf[t] # "none"
    BY PoolStatsAssumption, Zenon
  <2>2. ASSUME Early(t)' PROVE Untouched(BlockOf[t])'
    <3>1. Untouched(BlockOf[t])
      BY <1>3, <2>2, Zenon DEF ReportInv, ReporterOK, Early
    <3>2. foundBlocks[BlockOf[t]].status \notin BlockResolution
      BY <3>1, Zenon DEF Untouched, Stored, BlockResolution
    <3> QED
      BY <1>5, <2>1, <3>1, <3>2, Zenon DEF Untouched
  <2> QED
    BY <1>3, <2>1, <2>2, Zenon DEF ReporterOK
<1>7. QueuedOK'
  BY <1>5, Zenon DEF QueuedOK
<1>8. ASSUME NEW p \in pendingBlocks' PROVE PendingOK(p)'
  <2>1. p.hash \in Blocks /\ foundBlocks[p.hash].status = "pending" /\ p.won_at_submit = Won(p.hash)
    BY <1>4
  <2>2. Stored(p.hash) /\ foundBlocks[p.hash].status \notin BlockResolution
    BY <2>1, Zenon DEF Stored, BlockResolution
  <2> QED
    BY <1>5, <2>1, <2>2, Zenon DEF PendingOK
<1>9. OneVerdict'
  BY <1>5, Zenon DEF OneVerdict
<1>10. ReportInv'
  BY <1>6, <1>7, <1>8, <1>9, Zenon DEF ReportInv
<1>11. "orphaned" \in BlockResolution /\ "confirmed" \in BlockResolution
  BY Zenon DEF BlockResolution
<1>12. FoundSet' = FoundRows
  BY <1>5, <1>11, Zenon DEF FoundSet, FoundRows
<1>13. OrphanedSet' = OrphanedRows /\ InconclusiveSet' = InconclusiveRows
  BY <1>5, <1>11, Zenon DEF OrphanedSet, OrphanedRows, InconclusiveSet, InconclusiveRows, Stored
<1>14. \A t \in Reporters : Enrolled(t)'
  BY <1>3, PoolStatsAssumption DEF Enrolled
<1>15. CountsInv'
  BY <1>12, <1>13, <1>14, Zenon DEF CountsInv, Restart
<1> QED
  BY <1>10, <1>15, Zenon

\* At the start nothing is reported and nothing is counted.
LEMMA CountsStart == Init => ReportInv /\ CountsInv
<1> SUFFICES ASSUME Init PROVE ReportInv /\ CountsInv
  BY Zenon
<1>1. InFlight = {}
  BY WriterStarts, Zenon DEF Init
<1>2. /\ \A t \in Reporters : task[t].hash = "none" /\ task[t].pc = "idle"
      /\ task["sweeper"].pc = "idle" /\ pendingBlocks = {}
      /\ \A b \in Blocks : foundBlocks[b].status = "absent"
  BY Zenon DEF Init, Idle, Tasks, Absent
<1>3. \A b \in Blocks : ~Reported(b) /\ ~WonAt(b) /\ Untouched(b)
  BY <1>1, <1>2, PoolStatsAssumption, Zenon
     DEF Reported, WonAt, Untouched, Stored, Pending, FoundQueued, Resolved, BlockResolution
<1>4. \A t \in Reporters : ReporterOK(t)
  BY <1>2, <1>3, PoolStatsAssumption DEF ReporterOK
<1>5. QueuedOK /\ OneVerdict
  BY <1>3, Zenon DEF QueuedOK, OneVerdict, Untouched
<1>6. FoundSet = {} /\ OrphanedSet = {} /\ InconclusiveSet = {}
  BY <1>3, Zenon DEF FoundSet, OrphanedSet, InconclusiveSet
<1>7. Cardinality({}) = 0 /\ \A t \in Reporters : Enrolled(t)
  BY <1>2, FS_EmptySet, Zenon DEF Enrolled
<1> QED
  BY <1>2, <1>4, <1>5, <1>6, <1>7, Zenon DEF ReportInv, CountsInv, Init

(* Every step keeps the counts right; one case per action. *)
LEMMA CountsStep ==
    ASSUME OneReporter, TypeInv, TypeInv', ReportInv, CountsInv, [Next]_vars
    PROVE  ReportInv' /\ CountsInv'
<1>t. /\ CountsTypes /\ CountsTypes' /\ WriterTypeOK(Write) /\ TasksOK
      /\ task \in [Tasks -> TaskState] /\ task' \in [Tasks -> TaskState]
  BY Zenon DEF TypeInv, TypeOK, CountsTypes
<1>c. /\ pendingBlocks \subseteq [hash : Blocks, won_at_submit : BOOLEAN]
      /\ BlockOf \in [Reporters -> Blocks]
  BY <1>t, PoolStatsAssumption, Zenon DEF CountsTypes
<1>w. ASSUME UNCHANGED writerVars PROVE InFlight' = InFlight /\ overflowed' = overflowed
  BY <1>t, <1>w, WriterIdle, Zenon
<1>f. ASSUME InFlight' \subseteq InFlight, InFlight \subseteq InFlight' PROVE NoNewWrite /\ NoLostWrite
  BY <1>f, Zenon DEF NoNewWrite, NoLostWrite
<1>h. ASSUME task' = task PROVE SameHands
  BY <1>h, Zenon DEF SameHands, Early
<1>1. CASE \/ ShareAccepted \/ SnapshotEpoch \/ SnapshotTotals \/ Tick \/ UNCHANGED vars
  <2>1. UNCHANGED <<writerVars, memoryVars, task, foundBlocks>>
    BY <1>1, Zenon DEF ShareAccepted, SnapshotEpoch, SnapshotTotals, Tick, vars, tableVars
  <2> QED
    BY <1>c, <1>w, <1>f, <1>h, <2>1, Undisturbed DEF memoryVars
<1>2. CASE SnapshotEnqueue
  <2>1. /\ Snapshot(snap.epoch, snap.accepted) \in Write
        /\ Snapshot(snap.epoch, snap.accepted).kind = "Snapshot"
    BY Zenon DEF Snapshot, Write, TypeInv, TypeOK
  <2>2. InFlight' = InFlight \cup {Snapshot(snap.epoch, snap.accepted)} /\ overflowed' = overflowed
    BY <1>t, <1>2, <2>1, EnqueueStep, Zenon DEF SnapshotEnqueue
  <2>3. NoNewWrite /\ NoLostWrite
    BY <2>1, <2>2, Zenon DEF NoNewWrite, NoLostWrite
  <2>4. UNCHANGED <<memoryVars, task, foundBlocks>>
    BY <1>2, Zenon DEF SnapshotEnqueue, tableVars
  <2> QED
    BY <1>c, <1>h, <2>2, <2>3, <2>4, Undisturbed, Zenon DEF memoryVars
<1>3. CASE WriterReceives
  <2>1. InFlight' = InFlight /\ overflowed' = overflowed
    BY <1>t, <1>3, ReceiveStep, Zenon DEF WriterReceives
  <2>2. UNCHANGED <<memoryVars, task, foundBlocks>>
    BY <1>3, Zenon DEF WriterReceives, ApplyUnchanged, tableVars
  <2> QED
    BY <1>c, <1>f, <1>h, <2>1, <2>2, Undisturbed, Zenon DEF memoryVars
<1>4. CASE ApplyRoundReset \/ ApplySnapshot
  <2>1. /\ InFlight' \subseteq InFlight /\ InFlight \subseteq InFlight' \cup {Current}
        /\ overflowed' = overflowed /\ Current.kind \in {"RoundReset", "Snapshot"}
    BY <1>t, <1>4, AppliedStep, Zenon DEF ApplyRoundReset, ApplySnapshot, Applying
  <2>2. NoNewWrite /\ NoLostWrite
    BY <2>1, Zenon DEF NoNewWrite, NoLostWrite
  <2>3. UNCHANGED <<memoryVars, task, foundBlocks>>
    BY <1>4, Zenon DEF ApplyRoundReset, ApplySnapshot, Applying, ApplyUnchanged
  <2> QED
    BY <1>c, <1>h, <2>1, <2>2, <2>3, Undisturbed, Zenon DEF memoryVars
<1>5. CASE BlockResolvedOutran \/ DiskFails
  <2>1. Attempting /\ WriteFailed(IsDurable(Current)) /\ IsDurable(Current) \in BOOLEAN
    BY <1>5 DEF BlockResolvedOutran, DiskFails, IsDurable
  <2>2. /\ InFlight' \subseteq InFlight
        /\ ~overflowed' => ~overflowed
        /\ ~overflowed' => InFlight \subseteq InFlight' \cup {Current}
        /\ ~overflowed' /\ IsDurable(Current) => InFlight' = InFlight
    BY <1>t, <2>1, FailedStep, Zenon
  <2>3. NoNewWrite
    BY <2>2, Zenon DEF NoNewWrite
  <2>4. ~overflowed' => NoLostWrite
    BY <2>2, Zenon DEF NoLostWrite, IsDurable
  <2>5. UNCHANGED <<memoryVars, task, foundBlocks>>
    BY <1>5, Zenon DEF BlockResolvedOutran, DiskFails, ApplyUnchanged, tableVars
  <2> QED
    BY <1>c, <1>h, <2>2, <2>3, <2>4, <2>5, Undisturbed, Zenon DEF memoryVars
<1>6. ASSUME NEW t \in Tasks, BumpEpoch(t) PROVE ReportInv' /\ CountsInv'
  <2>1. UNCHANGED <<writerVars, memoryVars, foundBlocks>>
    BY <1>6, Zenon DEF BumpEpoch, tableVars
  <2>2. /\ task[t].pc = "bump_epoch" /\ task'[t].pc = "enqueue_reset"
        /\ task'[t].hash = task[t].hash /\ task'[t].won_at_submit = task[t].won_at_submit
        /\ task'[t].resolution = task[t].resolution
        /\ \A u \in Tasks \ {t} : task'[u] = task[u]
    BY <1>t, <1>6 DEF BumpEpoch, TaskState
  <2>3. SameHands
    BY <2>2, Zenon DEF SameHands, Early, Tasks
  <2> QED
    BY <1>c, <1>w, <1>f, <2>1, <2>3, Undisturbed DEF memoryVars
<1>7. ASSUME NEW t \in Tasks, EnqueueReset(t) PROVE ReportInv' /\ CountsInv'
  <2> DEFINE w == RoundReset(task[t].hash, task[t].epoch, task[t].ts, task[t].mark)
  <2>1. UNCHANGED <<memoryVars, foundBlocks>>
    BY <1>7, Zenon DEF EnqueueReset, tableVars
  <2>2. /\ task[t].pc = "enqueue_reset"
        /\ task'[t].pc = IF t = "sweeper" THEN "enqueue_resolved" ELSE "enroll"
        /\ task'[t].hash = task[t].hash /\ task'[t].won_at_submit = task[t].won_at_submit
        /\ task'[t].resolution = task[t].resolution
        /\ \A u \in Tasks \ {t} : task'[u] = task[u]
    BY <1>t, <1>7 DEF EnqueueReset, TaskState
  <2>3. SameHands
    BY <2>2, PoolStatsAssumption, Zenon DEF SameHands, Early, Tasks
  <2>4. w \in Write /\ w.kind = "RoundReset"
    <3>1. task[t] \in TaskState /\ task[t].hash \in Blocks
      BY <1>t, <2>2, Zenon DEF TasksOK, Tasks
    <3> QED
      BY <3>1, Zenon DEF RoundReset, Write, TaskState
  <2>5. InFlight' = InFlight \cup {w} /\ overflowed' = overflowed
    BY <1>t, <1>7, <2>4, EnqueueStep, Zenon DEF EnqueueReset
  <2> HIDE DEF w
  <2>6. NoNewWrite /\ NoLostWrite
    BY <2>4, <2>5, Zenon DEF NoNewWrite, NoLostWrite
  <2> QED
    BY <1>c, <2>1, <2>3, <2>5, <2>6, Undisturbed, Zenon DEF memoryVars
<1>8. ASSUME NEW t \in Reporters, LookUpPending(t) PROVE ReportInv' /\ CountsInv'
  <2>1. UNCHANGED <<writerVars, memoryVars, foundBlocks>>
    BY <1>8, Zenon DEF LookUpPending, tableVars
  <2>2. ~Pending(task[t].hash)
    BY <1>8, Zenon DEF LookUpPending, ReportInv, ReporterOK, Early, Untouched
  <2>3. /\ task[t].pc = "enroll" /\ task'[t].pc = "insert"
        /\ task'[t].hash = task[t].hash /\ task'[t].won_at_submit = task[t].won_at_submit
        /\ \A u \in Tasks \ {t} : task'[u] = task[u]
    BY <1>t, <1>8, <2>2, Zenon DEF LookUpPending, TaskState, Tasks
  <2>4. SameHands
    BY <2>3, PoolStatsAssumption, Zenon DEF SameHands, Early, Tasks
  <2> QED
    BY <1>c, <1>w, <1>f, <2>1, <2>4, Undisturbed DEF memoryVars
<1>9. ASSUME NEW t \in Reporters, RecordWin(t) PROVE ReportInv' /\ CountsInv'
  <2> DEFINE v == InReset(BlockOf[t], TRUE, "none")
  <2>1. v.hash = BlockOf[t] /\ v.won_at_submit = TRUE /\ v.pc = "bump_epoch"
    BY Zenon DEF InReset
  <2>2. /\ task' = [task EXCEPT ![t] = v] /\ task[t].pc = "idle" /\ blocksFound' = blocksFound + 1
        /\ UNCHANGED <<writerVars, pendingBlocks, foundBlocks, blocksOrphaned, blocksInconclusive>>
    BY <1>9, Zenon DEF RecordWin, tableVars
  <2> HIDE DEF v
  <2> QED
    BY <1>t, <1>w, <2>1, <2>2, NewReport, Zenon
<1>10. ASSUME NEW t \in Reporters, RecordInconclusive(t) PROVE ReportInv' /\ CountsInv'
  <2> DEFINE v == [Idle EXCEPT !.pc = "enroll", !.hash = BlockOf[t]]
  <2>1. v.hash = BlockOf[t] /\ v.won_at_submit = FALSE /\ v.pc = "enroll"
    BY Zenon DEF Idle
  <2>2. /\ task' = [task EXCEPT ![t] = v] /\ task[t].pc = "idle"
        /\ blocksInconclusive' = blocksInconclusive + 1
        /\ UNCHANGED <<writerVars, pendingBlocks, foundBlocks, blocksOrphaned, blocksFound>>
    BY <1>10, Zenon DEF RecordInconclusive, tableVars
  <2> HIDE DEF v
  <2> QED
    BY <1>t, <1>w, <2>1, <2>2, NewReport, Zenon
<1>11. ASSUME NEW p \in pendingBlocks, ResolveOrphanedWin(p) PROVE ReportInv' /\ CountsInv'
  <2> DEFINE v == Verdict(p, "orphaned")
  <2>1. v.pc # "idle" /\ v.hash = p.hash /\ v.resolution = "orphaned" /\ "orphaned" \in BlockResolution
    BY Zenon DEF Verdict, Idle, BlockResolution
  <2>2. /\ p.won_at_submit /\ task["sweeper"].pc = "idle" /\ pendingBlocks' = pendingBlocks \ {p}
        /\ task' = [task EXCEPT !["sweeper"] = v]
        /\ blocksFound' = Saturating(blocksFound) /\ blocksOrphaned' = blocksOrphaned + 1
        /\ UNCHANGED <<writerVars, foundBlocks, blocksInconclusive>>
    BY <1>11, Zenon DEF ResolveOrphanedWin, Retire, tableVars
  <2> HIDE DEF v
  <2> QED
    BY <1>t, <1>w, <2>1, <2>2, NewVerdict, Zenon
<1>12. ASSUME NEW p \in pendingBlocks, ResolvePromoted(p) PROVE ReportInv' /\ CountsInv'
  <2> DEFINE v == InReset(p.hash, FALSE, "confirmed")
  <2>1. v.pc # "idle" /\ v.hash = p.hash /\ v.resolution = "confirmed" /\ "confirmed" \in BlockResolution
    BY Zenon DEF InReset, BlockResolution
  <2>2. /\ ~p.won_at_submit /\ task["sweeper"].pc = "idle" /\ pendingBlocks' = pendingBlocks \ {p}
        /\ task' = [task EXCEPT !["sweeper"] = v]
        /\ blocksInconclusive' = Saturating(blocksInconclusive) /\ blocksFound' = blocksFound + 1
        /\ UNCHANGED <<writerVars, foundBlocks, blocksOrphaned>>
    BY <1>12, Zenon DEF ResolvePromoted, Retire, tableVars
  <2> HIDE DEF v
  <2> QED
    BY <1>t, <1>w, <2>1, <2>2, NewVerdict, Zenon
<1>13. ASSUME NEW p \in pendingBlocks, NEW r \in BlockResolution, ResolveAsCounted(p, r)
       PROVE  ReportInv' /\ CountsInv'
  <2> DEFINE v == Verdict(p, r)
  <2>1. v.pc # "idle" /\ v.hash = p.hash /\ v.resolution = r
    BY Zenon DEF Verdict, Idle
  <2>2. p.won_at_submit \in BOOLEAN
    BY <1>c, Zenon
  <2>3. (p.won_at_submit => r # "orphaned") /\ (~p.won_at_submit => r # "confirmed")
    BY <1>13, <2>2, Zenon DEF ResolveAsCounted
  <2>4. /\ task["sweeper"].pc = "idle" /\ pendingBlocks' = pendingBlocks \ {p}
        /\ task' = [task EXCEPT !["sweeper"] = v]
        /\ UNCHANGED <<writerVars, foundBlocks, blocksFound, blocksOrphaned, blocksInconclusive>>
    BY <1>13, Zenon DEF ResolveAsCounted, Retire, tableVars
  <2> HIDE DEF v
  <2> QED
    BY <1>t, <1>w, <2>1, <2>3, <2>4, NewVerdict, Zenon
<1>14. ASSUME NEW t \in Reporters, InsertPending(t) PROVE ReportInv' /\ CountsInv'
  <2>1. /\ UNCHANGED <<writerVars, foundBlocks, blocksFound, blocksOrphaned, blocksInconclusive>>
        /\ pendingBlocks' = {p \in pendingBlocks : p.hash # task[t].hash} \cup
               {[hash |-> task[t].hash, won_at_submit |-> task[t].won_at_submit]}
    BY <1>14, Zenon DEF InsertPending, tableVars
  <2>2. /\ task[t].pc = "insert" /\ task'[t].pc = "enqueue_found"
        /\ task'[t].hash = task[t].hash /\ task'[t].won_at_submit = task[t].won_at_submit
        /\ \A u \in Tasks \ {t} : task'[u] = task[u]
    BY <1>t, <1>14 DEF InsertPending, TaskState, Tasks
  <2>3. task'["sweeper"] = task["sweeper"]
    BY <2>2, PoolStatsAssumption, Zenon DEF Tasks
  <2>4. \A u \in Reporters : u = t \/ task'[u] = task[u]
    BY <2>2, Zenon DEF Tasks
  <2>5. \A u \in Reporters : /\ task'[u].hash = task[u].hash
                             /\ task'[u].won_at_submit = task[u].won_at_submit
                             /\ Early(u)' => Early(u)
                             /\ task'[u].pc = "idle" <=> task[u].pc = "idle"
                             /\ task'[u].pc = "done" <=> task[u].pc = "done"
    BY <2>2, <2>4, Zenon DEF Early
  <2>6. /\ \A b \in Blocks : (Stored(b)' <=> Stored(b)) /\ Won(b)' = Won(b)
        /\ \A b \in Blocks, won \in BOOLEAN : FoundQueued(b, won)' <=> FoundQueued(b, won)
        /\ \A b \in Blocks, r \in BlockResolution : Resolved(b, r)' <=> Resolved(b, r)
    BY <1>w, <2>1, <2>3, Zenon DEF Stored, Won, FoundQueued, Resolved
  <2>7. \A r \in BlockResolution : ~Resolved(task[t].hash, r)
    BY <2>2, Zenon DEF ReportInv, ReporterOK, Early, Untouched
  <2>8. InHandOf(task[t].hash, task[t].won_at_submit)
    BY <2>2, Zenon DEF InHandOf, Early
  <2>9. \A p \in pendingBlocks' : \/ p \in pendingBlocks
                                  \/ /\ InHandOf(p.hash, p.won_at_submit)
                                     /\ \A r \in BlockResolution : ~Resolved(p.hash, r)
    BY <2>1, <2>7, <2>8
  <2>10. overflowed' = overflowed /\ UNCHANGED <<blocksFound, blocksOrphaned, blocksInconclusive>>
    BY <1>w, <2>1, Zenon
  <2>11. ReportersMoveOn
    BY <2>5, Zenon DEF ReportersMoveOn
  <2>12. RowsMoveOn /\ QueueMovesOn /\ VerdictsMoveOn /\ NoneIsLost
    BY <2>6, <2>10, Zenon DEF RowsMoveOn, QueueMovesOn, VerdictsMoveOn, NoneIsLost
  <2>13. PendingMovesOn
    BY <2>9, Zenon DEF PendingMovesOn
  <2> QED
    BY <1>t, <2>10, <2>11, <2>12, <2>13, MovedOn, Zenon
<1>15. ASSUME NEW t \in Reporters, EnqueueFound(t) PROVE ReportInv' /\ CountsInv'
  <2> DEFINE w == BlockFound(task[t].hash, task[t].ts, task[t].won_at_submit, task[t].mark)
  <2>1. UNCHANGED <<pendingBlocks, foundBlocks, blocksFound, blocksOrphaned, blocksInconclusive>>
    BY <1>15, Zenon DEF EnqueueFound, tableVars, memoryVars
  <2>2. /\ task[t].pc = "enqueue_found" /\ task'[t].pc = "done"
        /\ task'[t].hash = task[t].hash /\ task'[t].won_at_submit = task[t].won_at_submit
        /\ \A u \in Tasks \ {t} : task'[u] = task[u]
    BY <1>t, <1>15 DEF EnqueueFound, TaskState, Tasks
  <2>3. /\ w \in Write /\ w.kind = "BlockFound" /\ w.hash = task[t].hash
        /\ w.won_at_submit = task[t].won_at_submit /\ task[t].won_at_submit \in BOOLEAN
    <3>1. task[t] \in TaskState /\ task[t].hash \in Blocks
      BY <1>t, <2>2, Zenon DEF TasksOK, Tasks
    <3> QED
      BY <3>1, Zenon DEF BlockFound, Write, TaskState
  <2>4. InFlight' = InFlight \cup {w} /\ overflowed' = overflowed
    BY <1>t, <1>15, <2>3, EnqueueStep, Zenon DEF EnqueueFound
  <2> HIDE DEF w
  <2>5. task'["sweeper"] = task["sweeper"] /\ \A u \in Reporters : u = t \/ task'[u] = task[u]
    BY <2>2, PoolStatsAssumption, Zenon DEF Tasks
  <2>6. /\ \A b \in Blocks : (Stored(b)' <=> Stored(b)) /\ Won(b)' = Won(b)
        /\ \A b \in Blocks, r \in BlockResolution : Resolved(b, r)' <=> Resolved(b, r)
    BY <2>1, <2>3, <2>4, <2>5, Zenon DEF Stored, Won, Resolved
  <2>7. /\ task[t].hash = BlockOf[t] /\ InHandOf(task[t].hash, task[t].won_at_submit)
        /\ FoundQueued(task[t].hash, task[t].won_at_submit)'
    BY <2>2, <2>3, <2>4, Zenon DEF InHandOf, Early, ReportInv, ReporterOK, FoundQueued
  <2>8. \A b \in Blocks, won \in BOOLEAN : FoundQueued(b, won)' => FoundQueued(b, won) \/ InHandOf(b, won)
    BY <2>3, <2>4, <2>7, Zenon DEF FoundQueued
  <2>9. \A b \in Blocks, won \in BOOLEAN : FoundQueued(b, won) => FoundQueued(b, won)'
    BY <2>4, Zenon DEF FoundQueued
  <2>10. \A u \in Reporters : /\ task'[u].hash = task[u].hash
                              /\ task'[u].won_at_submit = task[u].won_at_submit
                              /\ Early(u)' => Early(u)
                              /\ task'[u].pc = "idle" <=> task[u].pc = "idle"
                              /\ task[u].pc = "done" => task'[u].pc = "done"
                              /\ task'[u].pc = "done" =>
                                    task[u].pc = "done" \/ \E won \in BOOLEAN : FoundQueued(BlockOf[u], won)'
    BY <2>2, <2>3, <2>5, <2>7, Zenon DEF Early
  <2>11. ReportersMoveOn
    BY <2>10, Zenon DEF ReportersMoveOn
  <2>12. RowsMoveOn /\ VerdictsMoveOn /\ QueueMovesOn
    BY <2>6, <2>8, Zenon DEF RowsMoveOn, VerdictsMoveOn, QueueMovesOn
  <2>13. PendingMovesOn
    BY <2>1, Zenon DEF PendingMovesOn
  <2>14. NoneIsLost
    BY <2>4, <2>6, <2>9, Zenon DEF NoneIsLost
  <2> QED
    BY <1>t, <2>1, <2>11, <2>12, <2>13, <2>14, MovedOn, Zenon
<1>16. CASE EnqueueResolved
  <2> DEFINE w == BlockResolved(task["sweeper"].hash, task["sweeper"].resolution)
  <2>1. UNCHANGED <<pendingBlocks, foundBlocks, blocksFound, blocksOrphaned, blocksInconclusive>>
    BY <1>16, Zenon DEF EnqueueResolved, tableVars, memoryVars
  <2>2. /\ task["sweeper"].pc # "idle" /\ task'["sweeper"].pc = "idle"
        /\ \A u \in Reporters : task'[u] = task[u]
    BY <1>t, <1>16, PoolStatsAssumption, Zenon DEF EnqueueResolved, Idle, Tasks
  <2>3. /\ w \in Write /\ w.kind = "BlockResolved" /\ w.hash = task["sweeper"].hash
        /\ w.resolution = task["sweeper"].resolution
    BY <1>t, <1>16, Zenon DEF EnqueueResolved, BlockResolved, Write, TasksOK
  <2>4. InFlight' = InFlight \cup {w} /\ overflowed' = overflowed
    BY <1>t, <1>16, <2>3, EnqueueStep, Zenon DEF EnqueueResolved
  <2> HIDE DEF w
  <2>5. \A b \in Blocks, r \in BlockResolution : Resolved(b, r)' <=> Resolved(b, r)
    BY <2>1, <2>2, <2>3, <2>4, Zenon DEF Resolved
  <2>6. /\ \A b \in Blocks : (Stored(b)' <=> Stored(b)) /\ Won(b)' = Won(b)
        /\ \A b \in Blocks, won \in BOOLEAN : FoundQueued(b, won)' <=> FoundQueued(b, won)
    BY <2>1, <2>3, <2>4, Zenon DEF Stored, Won, FoundQueued
  <2>7. ReportersMoveOn
    BY <2>2, Zenon DEF ReportersMoveOn, Early
  <2>8. RowsMoveOn /\ QueueMovesOn /\ VerdictsMoveOn /\ NoneIsLost
    BY <2>4, <2>5, <2>6, Zenon DEF RowsMoveOn, QueueMovesOn, VerdictsMoveOn, NoneIsLost
  <2>9. PendingMovesOn
    BY <2>1, Zenon DEF PendingMovesOn
  <2> QED
    BY <1>t, <2>1, <2>7, <2>8, <2>9, MovedOn, Zenon
<1>17. CASE ApplyBlockFound
  <2>1. /\ Current \in Write /\ Current \in InFlight /\ Current.kind = "BlockFound"
        /\ InFlight' \subseteq InFlight /\ InFlight \subseteq InFlight' \cup {Current}
        /\ overflowed' = overflowed
    BY <1>t, <1>17, AppliedStep, CurrentInFlight, Zenon DEF ApplyBlockFound, Applying
  <2>2. UNCHANGED <<task, pendingBlocks, blocksFound, blocksOrphaned, blocksInconclusive>>
    BY <1>17, Zenon DEF ApplyBlockFound, Applying, ApplyUnchanged, memoryVars
  <2>3. Current.hash \in Blocks /\ Current.won_at_submit \in BOOLEAN
    BY <2>1, Zenon DEF Write
  <2>4. \A b \in Blocks : Stored(b) \/ b # Current.hash => foundBlocks'[b] = foundBlocks[b]
    BY <1>17, <1>t, Zenon DEF ApplyBlockFound, CountsTypes
  <2>5. ~Stored(Current.hash) => /\ foundBlocks'[Current.hash].status = "pending"
                                 /\ foundBlocks'[Current.hash].won_at_submit = Current.won_at_submit
    BY <1>17, <1>t, <2>3, Zenon DEF ApplyBlockFound, CountsTypes
  <2>6. /\ \A b \in Blocks : Stored(b) => Stored(b)' /\ Won(b)' = Won(b)
        /\ \A b \in Blocks : b = Current.hash => Stored(b)'
        /\ \A b \in Blocks : Stored(b)' => Stored(b) \/ FoundQueued(b, Won(b)')
    <3>1. \A b \in Blocks : Stored(b) => Stored(b)' /\ Won(b)' = Won(b)
      BY <2>4, Zenon DEF Stored, Won
    <3>2. \A b \in Blocks : b = Current.hash => Stored(b)'
      BY <2>3, <2>5, <3>1, Zenon DEF Stored
    <3>3. ASSUME NEW b \in Blocks, Stored(b)', ~Stored(b) PROVE FoundQueued(b, Won(b)')
      <4>1. b = Current.hash
        BY <2>4, <3>3, Zenon DEF Stored
      <4>2. Won(b)' = Current.won_at_submit
        BY <2>5, <3>3, <4>1, Zenon DEF Won
      <4> QED
        BY <2>1, <4>1, <4>2, Zenon DEF FoundQueued
    <3> QED
      BY <3>1, <3>2, <3>3, Zenon
  <2>7. \A b \in Blocks, won \in BOOLEAN : /\ FoundQueued(b, won)' => FoundQueued(b, won)
                                           /\ FoundQueued(b, won) => Stored(b)' \/ FoundQueued(b, won)'
    <3>1. ASSUME NEW b \in Blocks, NEW won \in BOOLEAN, FoundQueued(b, won)
          PROVE  Stored(b)' \/ FoundQueued(b, won)'
      <4>1. PICK w \in InFlight : w.kind = "BlockFound" /\ w.hash = b /\ w.won_at_submit = won
        BY <3>1, Zenon DEF FoundQueued
      <4>2. CASE w = Current
        BY <2>6, <4>1, <4>2, Zenon
      <4>3. CASE w \in InFlight'
        BY <4>1, <4>3, Zenon DEF FoundQueued
      <4> QED
        BY <2>1, <4>2, <4>3, Zenon
    <3>2. \A b \in Blocks, won \in BOOLEAN : FoundQueued(b, won)' => FoundQueued(b, won)
      BY <2>1, Zenon DEF FoundQueued
    <3> QED
      BY <3>1, <3>2, Zenon
  <2>8. \A b \in Blocks, r \in BlockResolution : foundBlocks'[b].status = r <=> foundBlocks[b].status = r
    BY <2>3, <2>4, <2>5, Zenon DEF BlockResolution, Stored
  <2>9. \A b \in Blocks, r \in BlockResolution : Resolved(b, r)' <=> Resolved(b, r)
    BY <2>1, <2>2, <2>8, Zenon DEF Resolved
  <2>10. ReportersMoveOn /\ PendingMovesOn
    BY <2>2, Zenon DEF ReportersMoveOn, PendingMovesOn, Early
  <2>11. RowsMoveOn
    BY <2>6, Zenon DEF RowsMoveOn
  <2>12. QueueMovesOn /\ VerdictsMoveOn /\ NoneIsLost
    BY <2>1, <2>7, <2>9, Zenon DEF QueueMovesOn, VerdictsMoveOn, NoneIsLost
  <2> QED
    BY <1>t, <2>2, <2>10, <2>11, <2>12, MovedOn, Zenon
<1>18. CASE ApplyBlockResolved
  <2>1. /\ Current \in Write /\ Current \in InFlight /\ Current.kind = "BlockResolved"
        /\ InFlight' \subseteq InFlight /\ InFlight \subseteq InFlight' \cup {Current}
        /\ overflowed' = overflowed
    BY <1>t, <1>18, AppliedStep, CurrentInFlight, Zenon DEF ApplyBlockResolved, Applying
  <2>2. UNCHANGED <<task, pendingBlocks, blocksFound, blocksOrphaned, blocksInconclusive>>
    BY <1>18, Zenon DEF ApplyBlockResolved, Applying, ApplyUnchanged, memoryVars
  <2>3. Current.hash \in Blocks /\ Current.resolution \in BlockResolution
    BY <2>1, Zenon DEF Write
  <2>4. /\ \A b \in Blocks : /\ foundBlocks'[b].won_at_submit = foundBlocks[b].won_at_submit
                             /\ b # Current.hash => foundBlocks'[b] = foundBlocks[b]
        /\ Stored(Current.hash)
        /\ IF foundBlocks[Current.hash].status = "pending"
           THEN foundBlocks'[Current.hash].status = Current.resolution
           ELSE foundBlocks'[Current.hash] = foundBlocks[Current.hash]
    BY <1>18, <1>t, <2>3, Zenon DEF ApplyBlockResolved, CountsTypes
  <2>5. Resolved(Current.hash, Current.resolution)
    BY <2>1, Zenon DEF Resolved
  <2>6. foundBlocks'[Current.hash].status = Current.resolution
    <3>1. foundBlocks[Current.hash].status \in BlockStatus
      BY <1>t, <2>3, Zenon DEF CountsTypes
    <3>2. CASE foundBlocks[Current.hash].status # "pending"
      <4>1. /\ foundBlocks[Current.hash].status \in BlockResolution
            /\ Resolved(Current.hash, foundBlocks[Current.hash].status)
        BY <2>4, <3>1, <3>2, Zenon DEF Stored, BlockStatus, Resolved
      <4> QED
        BY <2>3, <2>4, <2>5, <3>2, <4>1, Zenon DEF ReportInv, OneVerdict
    <3> QED
      BY <2>4, <3>2, Zenon
  <2>7. \A b \in Blocks : (Stored(b)' <=> Stored(b)) /\ Won(b)' = Won(b)
    BY <2>3, <2>4, <2>6, Zenon DEF Stored, Won, BlockResolution
  <2>8. \A b \in Blocks, won \in BOOLEAN : FoundQueued(b, won)' <=> FoundQueued(b, won)
    BY <2>1, Zenon DEF FoundQueued
  <2>9. ASSUME NEW b \in Blocks, NEW r \in BlockResolution PROVE Resolved(b, r)' => Resolved(b, r)
    BY <2>1, <2>2, <2>4, <2>5, <2>6, Zenon DEF Resolved
  <2>10. ASSUME NEW b \in Blocks, NEW r \in BlockResolution PROVE Resolved(b, r) => Resolved(b, r)'
    <3>1. CASE foundBlocks[b].status = r
      <4>1. foundBlocks'[b].status = r
        BY <2>4, <3>1, Zenon DEF BlockResolution
      <4> QED
        BY <4>1, Zenon DEF Resolved
    <3> QED
      BY <2>1, <2>2, <2>6, <3>1, Zenon DEF Resolved
  <2>11. ReportersMoveOn /\ PendingMovesOn
    BY <2>2, Zenon DEF ReportersMoveOn, PendingMovesOn, Early
  <2>12. RowsMoveOn /\ QueueMovesOn /\ VerdictsMoveOn
    BY <2>7, <2>8, <2>9, Zenon DEF RowsMoveOn, QueueMovesOn, VerdictsMoveOn
  <2>13. NoneIsLost
    BY <2>1, <2>8, <2>10, Zenon DEF NoneIsLost
  <2> QED
    BY <1>t, <2>2, <2>11, <2>12, <2>13, MovedOn, Zenon
<1> QED
  BY <1>1, <1>2, <1>3, <1>4, <1>5, <1>6, <1>7, <1>8, <1>9, <1>10, <1>11, <1>12, <1>13, <1>14,
     <1>15, <1>16, <1>17, <1>18, BootCounts
  DEF Next, Report, Sweep, TakeSnapshot, ApplyWrite

(* CountsMatchLedger holds in every reachable state, when no block is      *)
(* reported twice: a counter moves in the step that makes the fact it      *)
(* counts, and once nothing is on the way every fact has reached its row.  *)
THEOREM CountsAreRestored == OneReporter => (Spec => []CountsMatchLedger)
<1> SUFFICES ASSUME OneReporter PROVE Spec => []CountsMatchLedger
  BY Zenon
<1>1. TypeInv /\ ReportInv /\ CountsInv => CountsMatchLedger
  <2> SUFFICES ASSUME TypeInv, ReportInv, CountsInv, Settled, ~overflowed
               PROVE  /\ blocksFound = Cardinality(FoundRows)
                      /\ blocksOrphaned = Cardinality(OrphanedRows)
                      /\ blocksInconclusive = Cardinality(InconclusiveRows)
    BY Zenon DEF CountsMatchLedger
  <2>1. CountsTypes /\ InFlight = {} /\ task["sweeper"].pc = "idle"
    BY Zenon DEF TypeInv, TypeOK, TasksOK, CountsTypes, Settled, Tasks
  <2>2. ASSUME NEW t \in Reporters PROVE task[t].hash = "none" \/ Stored(task[t].hash)
    <3>1. ReporterOK(t) /\ Enrolled(t) /\ task[t].pc \in {"idle", "done"}
      BY Zenon DEF ReportInv, CountsInv, Settled, Tasks
    <3>2. \A won \in BOOLEAN : ~FoundQueued(BlockOf[t], won)
      BY <2>1, Zenon DEF FoundQueued
    <3> QED
      BY <3>1, <3>2, Zenon DEF ReporterOK, Enrolled
  <2>3. FoundSet = FoundRows /\ OrphanedSet = OrphanedRows /\ InconclusiveSet = InconclusiveRows
    BY <2>1, <2>2, RestIsRows, Zenon DEF AtRest
  <2> QED
    BY <2>3, Zenon DEF CountsInv
<1>2. Spec => []TypeInv
  BY TypeInit, TypeStep, PTL DEF Spec
<1>3. TypeInv /\ TypeInv' /\ ReportInv /\ CountsInv /\ [Next]_vars => ReportInv' /\ CountsInv'
  BY CountsStep, Zenon
<1> QED
  BY <1>1, <1>2, <1>3, CountsStart, PTL DEF Spec
=============================================================================
