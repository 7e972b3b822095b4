----------------------------- MODULE PoolStats -----------------------------
(***************************************************************************)
(* Block accounting and round totals of src/stats.rs, with the SQLite      *)
(* tables behind them.                                                     *)
(*                                                                         *)
(*   reporters   the session or resubmit task that calls                   *)
(*               record_block_outcome, once per submitted block            *)
(*   sweeper     mining::confirm, the only caller of                       *)
(*               record_block_resolution; its sweeps never overlap, so the *)
(*               pending set it snapshots shrinks under no one else's hand *)
(*   snapshot    the 10 s ticker that persists the round totals            *)
(*   sessions    counting shares (share_accepted)                          *)
(*   writer      StatsWriter, applying one StoreWrite per transaction      *)
(*                                                                         *)
(* The tasks run on a multi-threaded runtime without a common lock, so a   *)
(* step of one may fall between any two steps of another, and the process  *)
(* may die between any two steps.  `shares_accepted` stands for every      *)
(* round-scoped total (rejects and work are reset, read and merged by the  *)
(* same statements).  Fields and variables marked history are not in the   *)
(* code; nothing but the properties reads them.                            *)
(***************************************************************************)
EXTENDS StatsWriter, Integers, FiniteSets

CONSTANTS
    Blocks,        \* block hashes
    Reporters,     \* calls of record_block_outcome over the whole run
    BlockOf,       \* the block each of them reports
    Outcomes,      \* what submitblock may answer: TRUE is a win
    Verdicts,      \* what the chain may decide of a pending block
    MaxShares,     \* bound: accepted shares
    MaxSnapshots,  \* bound: snapshot ticks
    MaxFailures,   \* bound: transactions the disk fails
    MaxRestarts,   \* bound: process deaths
    MaxTime        \* bound: seconds of wall clock

ASSUME PoolStatsAssumption ==
    /\ IsFiniteSet(Blocks)
    /\ "none" \notin Blocks
    /\ BlockOf \in [Reporters -> Blocks]
    /\ "sweeper" \notin Reporters
    /\ Outcomes \subseteq BOOLEAN
    /\ Verdicts \subseteq {"confirmed", "orphaned", "abandoned"}
    /\ {MaxShares, MaxSnapshots, MaxFailures, MaxRestarts, MaxTime} \subseteq Nat

VARIABLES
    \* memory: PoolStats
    blocksFound, blocksOrphaned, blocksInconclusive,
    pendingBlocks,  \* set of PendingBlock
    shares,         \* shares_accepted, this boot
    roundBase,      \* round_accepted_base, restored at boot
    roundOffset,    \* round_offset_accepted
    roundEpoch,     \* round_epoch
    \* control state of the tasks
    task,           \* reporters and sweeper, inside round_reset and around it
    snap,           \* the snapshot ticker
    \* the writer's WriterState and the tables
    writerEpoch,    \* WriterState.round_epoch
    foundBlocks,    \* table found_blocks, by hash
    roundTotal,     \* round_stats.shares_accepted
    roundSince,     \* round_stats.since_ts
    \* environment
    now,            \* now_secs()
    failures, restarts, snapshots,
    \* history
    everShares,     \* shares accepted since the file was created
    dbMark          \* everShares at the latest zeroing the table has seen

memoryVars == <<blocksFound, blocksOrphaned, blocksInconclusive, pendingBlocks>>
roundVars == <<shares, roundBase, roundOffset, roundEpoch, everShares>>
tableVars == <<writerEpoch, foundBlocks, roundTotal, roundSince, dbMark>>
envVars == <<now, failures, restarts, snapshots>>
vars == <<writerVars, memoryVars, roundVars, task, snap, tableVars, envVars>>

-----------------------------------------------------------------------------
Tasks == Reporters \cup {"sweeper"}

BlockResolution == {"confirmed", "orphaned", "abandoned"}
BlockStatus == {"absent", "pending"} \cup BlockResolution

Absent == [status |-> "absent", found_ts |-> 0, won_at_submit |-> FALSE, mark |-> 0]
Idle == [pc |-> "idle", hash |-> "none", won_at_submit |-> FALSE, resolution |-> "none",
         ts |-> 0, epoch |-> 0, mark |-> 0]
SnapIdle == [pc |-> "idle", epoch |-> 0, accepted |-> 0]

(* StoreWrite, the variants that touch these tables.  `mark`, and the hash *)
(* of a RoundReset, are history.                                           *)
BlockFound(h, t, won, m) ==
    [kind |-> "BlockFound", hash |-> h, found_ts |-> t, won_at_submit |-> won, mark |-> m]
BlockResolved(h, r) == [kind |-> "BlockResolved", hash |-> h, resolution |-> r]
RoundReset(h, e, t, m) ==
    [kind |-> "RoundReset", hash |-> h, epoch |-> e, since_ts |-> t, mark |-> m]
Snapshot(e, n) == [kind |-> "Snapshot", epoch |-> e, accepted |-> n]

IsDurable(write) == write.kind \in {"BlockFound", "BlockResolved", "RoundReset"}

Larger(m, n) == IF m >= n THEN m ELSE n

Stored(h) == foundBlocks[h].status # "absent"
Won(h) == foundBlocks[h].won_at_submit

Init ==
    /\ WriterInit
    /\ blocksFound = 0 /\ blocksOrphaned = 0 /\ blocksInconclusive = 0
    /\ pendingBlocks = {}
    /\ shares = 0 /\ roundBase = 0 /\ roundOffset = 0 /\ roundEpoch = 0
    /\ everShares = 0
    /\ task = [t \in Tasks |-> Idle]
    /\ snap = SnapIdle
    /\ writerEpoch = 0
    /\ foundBlocks = [b \in Blocks |-> Absent]
    /\ roundTotal = 0 /\ roundSince = 0
    /\ dbMark = 0
    /\ now = 0 /\ failures = 0 /\ restarts = 0 /\ snapshots = 0

-----------------------------------------------------------------------------
(* Sessions: share_accepted. *)
ShareAccepted ==
    /\ everShares < MaxShares
    /\ shares' = shares + 1
    /\ everShares' = everShares + 1
    /\ UNCHANGED <<writerVars, memoryVars, roundBase, roundOffset, roundEpoch,
                   task, snap, tableVars, envVars>>

RoundSharesAccepted == roundBase + shares - roundOffset

-----------------------------------------------------------------------------
(* round_reset, in the order that keeps it safe: zero the totals, then     *)
(* bump the epoch, then tell the writer.  ZeroRound is conjoined with the  *)
(* step that counts the block.                                             *)
ZeroRound == roundOffset' = roundBase + shares

InReset(h, won, resolution) ==
    [pc |-> "bump_epoch", hash |-> h, won_at_submit |-> won, resolution |-> resolution,
     ts |-> now, epoch |-> 0, mark |-> everShares]

BumpEpoch(t) ==
    /\ task[t].pc = "bump_epoch"
    /\ roundEpoch' = roundEpoch + 1
    /\ task' = [task EXCEPT ![t].pc = "enqueue_reset", ![t].epoch = roundEpoch + 1]
    /\ UNCHANGED <<writerVars, memoryVars, shares, roundBase, roundOffset, everShares,
                   snap, tableVars, envVars>>

EnqueueReset(t) ==
    /\ task[t].pc = "enqueue_reset"
    /\ Enqueue(RoundReset(task[t].hash, task[t].epoch, task[t].ts, task[t].mark))
    /\ task' = [task EXCEPT ![t].pc =
                    IF t = "sweeper" THEN "enqueue_resolved" ELSE "enroll"]
    /\ UNCHANGED <<memoryVars, roundVars, snap, tableVars, envVars>>

-----------------------------------------------------------------------------
(* Reporters: record_block_outcome, then enroll_pending_block. *)
RecordWin(t) ==
    /\ task[t].pc = "idle"
    /\ TRUE \in Outcomes
    /\ blocksFound' = blocksFound + 1
    /\ ZeroRound
    /\ task' = [task EXCEPT ![t] = InReset(BlockOf[t], TRUE, "none")]
    /\ UNCHANGED <<writerVars, blocksOrphaned, blocksInconclusive, pendingBlocks, shares,
                   roundBase, roundEpoch, everShares, snap, tableVars, envVars>>

RecordInconclusive(t) ==
    /\ task[t].pc = "idle"
    /\ FALSE \in Outcomes
    /\ blocksInconclusive' = blocksInconclusive + 1
    /\ task' = [task EXCEPT ![t] = [Idle EXCEPT !.pc = "enroll", !.hash = BlockOf[t]]]
    /\ UNCHANGED <<writerVars, blocksFound, blocksOrphaned, pendingBlocks, roundVars, snap,
                   tableVars, envVars>>

Pending(h) == \E p \in pendingBlocks : p.hash = h

(* enroll_pending_block reads the clock and looks the hash up ...          *)
LookUpPending(t) ==
    /\ task[t].pc = "enroll"
    /\ task' = [task EXCEPT ![t].pc = IF Pending(task[t].hash) THEN "done" ELSE "insert",
                            ![t].ts = now]
    /\ UNCHANGED <<writerVars, memoryVars, roundVars, snap, tableVars, envVars>>

(* ... and inserts it in a later step: the map holds one entry per hash.   *)
InsertPending(t) ==
    /\ task[t].pc = "insert"
    /\ pendingBlocks' = {p \in pendingBlocks : p.hash # task[t].hash} \cup
           {[hash |-> task[t].hash, won_at_submit |-> task[t].won_at_submit]}
    /\ task' = [task EXCEPT ![t].pc = "enqueue_found"]
    /\ UNCHANGED <<writerVars, blocksFound, blocksOrphaned, blocksInconclusive, roundVars,
                   snap, tableVars, envVars>>

EnqueueFound(t) ==
    /\ task[t].pc = "enqueue_found"
    /\ Enqueue(BlockFound(task[t].hash, task[t].ts, task[t].won_at_submit, task[t].mark))
    /\ task' = [task EXCEPT ![t].pc = "done"]
    /\ UNCHANGED <<memoryVars, roundVars, snap, tableVars, envVars>>

-----------------------------------------------------------------------------
(* Sweeper: resolve_block, called for one pending block at a time with the *)
(* verdict the node's answer gave it.  The chain is the environment here.  *)
Saturating(n) == IF n > 0 THEN n - 1 ELSE 0

(* The entry leaves the pending set before anything is counted. *)
Retire(p, resolution) ==
    /\ task["sweeper"].pc = "idle"
    /\ resolution \in Verdicts
    /\ pendingBlocks' = pendingBlocks \ {p}

(* What the sweeper still has to write once the counts are settled. *)
Verdict(p, resolution) ==
    [Idle EXCEPT !.pc = "enqueue_resolved", !.hash = p.hash, !.resolution = resolution]

MutOrphanStaysFound(p) ==
    /\ p.won_at_submit
    /\ Retire(p, "orphaned")
    /\ blocksOrphaned' = blocksOrphaned + 1
    /\ task' = [task EXCEPT !["sweeper"] = Verdict(p, "orphaned")]
    /\ UNCHANGED <<writerVars, blocksFound, blocksInconclusive, roundVars, snap,
                   tableVars, envVars>>

(* A win the chain reorged out. *)
ResolveOrphanedWin(p) ==
    /\ p.won_at_submit
    /\ Retire(p, "orphaned")
    /\ blocksOrphaned' = blocksOrphaned + 1
    /\ blocksFound' = Saturating(blocksFound)
    /\ task' = [task EXCEPT !["sweeper"] = Verdict(p, "orphaned")]
    /\ UNCHANGED <<writerVars, blocksInconclusive, roundVars, snap, tableVars, envVars>>

(* A lost height race that a reorg turned into a win: block_found, with    *)
(* its round reset, belongs to the step.                                   *)
ResolvePromoted(p) ==
    /\ ~p.won_at_submit
    /\ Retire(p, "confirmed")
    /\ blocksInconclusive' = Saturating(blocksInconclusive)
    /\ blocksFound' = blocksFound + 1
    /\ ZeroRound
    /\ task' = [task EXCEPT !["sweeper"] = InReset(p.hash, FALSE, "confirmed")]
    /\ UNCHANGED <<writerVars, blocksOrphaned, shares, roundBase, roundEpoch, everShares,
                   snap, tableVars, envVars>>

(* A verdict that leaves the submit-time count standing. *)
ResolveAsCounted(p, resolution) ==
    /\ <<p.won_at_submit, resolution>> \notin {<<TRUE, "orphaned">>, <<FALSE, "confirmed">>}
    /\ Retire(p, resolution)
    /\ task' = [task EXCEPT !["sweeper"] = Verdict(p, resolution)]
    /\ UNCHANGED <<writerVars, blocksFound, blocksOrphaned, blocksInconclusive, roundVars,
                   snap, tableVars, envVars>>

EnqueueResolved ==
    /\ task["sweeper"].pc = "enqueue_resolved"
    /\ Enqueue(BlockResolved(task["sweeper"].hash, task["sweeper"].resolution))
    /\ task' = [task EXCEPT !["sweeper"] = Idle]
    /\ UNCHANGED <<memoryVars, roundVars, snap, tableVars, envVars>>

-----------------------------------------------------------------------------
(* Snapshot ticker: record_hashrate_snapshot_at reads the epoch first and  *)
(* the totals second.                                                      *)
SnapshotEpoch ==
    /\ snap.pc = "idle"
    /\ snapshots < MaxSnapshots
    /\ snapshots' = snapshots + 1
    /\ snap' = [pc |-> "totals", epoch |-> roundEpoch, accepted |-> 0]
    /\ UNCHANGED <<writerVars, memoryVars, roundVars, task, tableVars,
                   now, failures, restarts>>

SnapshotTotals ==
    /\ snap.pc = "totals"
    /\ snap' = [snap EXCEPT !.pc = "enqueue", !.accepted = RoundSharesAccepted]
    /\ UNCHANGED <<writerVars, memoryVars, roundVars, task, tableVars, envVars>>

MutEpochReadLast ==
    /\ snap.pc = "enqueue"
    /\ Enqueue(Snapshot(roundEpoch, snap.accepted))
    /\ snap' = SnapIdle
    /\ UNCHANGED <<memoryVars, roundVars, task, tableVars, envVars>>

SnapshotEnqueue ==
    /\ snap.pc = "enqueue"
    /\ Enqueue(Snapshot(snap.epoch, snap.accepted))
    /\ snap' = SnapIdle
    /\ UNCHANGED <<memoryVars, roundVars, task, tableVars, envVars>>

-----------------------------------------------------------------------------
(* Writer: apply_write, one committed transaction per step. *)
ApplyUnchanged == UNCHANGED <<memoryVars, roundVars, task, snap, envVars>>

Applying(kind) == Attempting /\ Current.kind = kind /\ WriteApplied /\ ApplyUnchanged

(* INSERT OR IGNORE *)
ApplyBlockFound ==
    /\ Applying("BlockFound")
    /\ foundBlocks' =
           IF Stored(Current.hash) THEN foundBlocks
           ELSE [foundBlocks EXCEPT ![Current.hash] =
                    [status |-> "pending", found_ts |-> Current.found_ts,
                     won_at_submit |-> Current.won_at_submit, mark |-> Current.mark]]
    /\ UNCHANGED <<writerEpoch, roundTotal, roundSince, dbMark>>

MutVerdictOverwritten ==
    /\ Applying("BlockResolved")
    /\ Stored(Current.hash)
    /\ foundBlocks' = [foundBlocks EXCEPT ![Current.hash].status = Current.resolution]
    /\ UNCHANGED <<writerEpoch, roundTotal, roundSince, dbMark>>

(* UPDATE ... WHERE status = 'pending'; on a settled row, a replay dropped. *)
ApplyBlockResolved ==
    /\ Applying("BlockResolved")
    /\ Stored(Current.hash)
    /\ foundBlocks' =
           IF foundBlocks[Current.hash].status # "pending" THEN foundBlocks
           ELSE [foundBlocks EXCEPT ![Current.hash].status = Current.resolution]
    /\ UNCHANGED <<writerEpoch, roundTotal, roundSince, dbMark>>

MutOutrunDropped ==
    /\ Applying("BlockResolved")
    /\ ~Stored(Current.hash)
    /\ UNCHANGED tableVars

(* The resolution outran its BlockFound: no such row is an error. *)
BlockResolvedOutran ==
    /\ Attempting
    /\ Current.kind = "BlockResolved"
    /\ ~Stored(Current.hash)
    /\ WriteFailed(IsDurable(Current))
    /\ ApplyUnchanged
    /\ UNCHANGED tableVars

(* apply_round_reset, then the epoch the Snapshot arm compares with. *)
ApplyRoundReset ==
    /\ Applying("RoundReset")
    /\ roundTotal' = 0
    /\ roundSince' = Current.since_ts
    /\ writerEpoch' = Larger(writerEpoch, Current.epoch)
    /\ dbMark' = Larger(dbMark, Current.mark)
    /\ UNCHANGED foundBlocks

(* write_snapshot: MAX-merged, and only into the round it was taken in. *)
ApplySnapshot ==
    /\ Applying("Snapshot")
    /\ roundTotal' = IF Current.epoch # writerEpoch THEN roundTotal
                     ELSE Larger(roundTotal, Current.accepted)
    /\ UNCHANGED <<writerEpoch, foundBlocks, roundSince, dbMark>>

(* The transaction fails and rolls back: disk full, locked, gone. *)
DiskFails ==
    /\ Attempting
    /\ failures < MaxFailures
    /\ failures' = failures + 1
    /\ WriteFailed(IsDurable(Current))
    /\ UNCHANGED <<memoryVars, roundVars, task, snap, tableVars, now, restarts, snapshots>>

WriterReceives ==
    /\ ReceiveWrite \/ ReceiveTimeout
    /\ ApplyUnchanged
    /\ UNCHANGED tableVars

-----------------------------------------------------------------------------
(* Boot: StatsStore::open and Persisted::load.  The round boundary is      *)
(* re-derived from the last submit-time win, strictly newer only.          *)
WinTimes == {foundBlocks[b].found_ts : b \in {c \in Blocks : Stored(c) /\ Won(c)}}
LastWin == {ts \in WinTimes : \A u \in WinTimes : u <= ts}
MutRecoversLate == \E ts \in WinTimes : ts > roundSince + 1
RecoversReset == \E ts \in WinTimes : ts > roundSince

(* load_block_counts *)
FoundRows == {b \in Blocks : Stored(b) /\ IF Won(b) THEN foundBlocks[b].status # "orphaned"
                                          ELSE foundBlocks[b].status = "confirmed"}
OrphanedRows == {b \in Blocks : Won(b) /\ foundBlocks[b].status = "orphaned"}
InconclusiveRows == {b \in Blocks : Stored(b) /\ ~Won(b) /\ foundBlocks[b].status # "confirmed"}

(* The process dies, at any point, and the pool boots from the tables.     *)
(* A report caught in the middle dies with it.                             *)
Restart ==
    /\ restarts < MaxRestarts
    /\ restarts' = restarts + 1
    /\ WriterLost
    /\ roundTotal' = IF RecoversReset THEN 0 ELSE roundTotal
    /\ roundSince' \in IF RecoversReset THEN LastWin ELSE {roundSince}
    /\ dbMark' = IF RecoversReset THEN everShares ELSE dbMark
    /\ writerEpoch' = 0
    /\ blocksFound' = Cardinality(FoundRows)
    /\ blocksOrphaned' = Cardinality(OrphanedRows)
    /\ blocksInconclusive' = Cardinality(InconclusiveRows)
    /\ pendingBlocks' = {[hash |-> b, won_at_submit |-> Won(b)] :
                            b \in {c \in Blocks : foundBlocks[c].status = "pending"}}
    /\ shares' = 0
    /\ roundBase' = roundTotal'
    /\ roundOffset' = 0
    /\ roundEpoch' = 0
    /\ task' = [t \in Tasks |-> IF t \in Reporters /\ task[t].pc # "idle"
                                THEN [Idle EXCEPT !.pc = "done"] ELSE Idle]
    /\ snap' = SnapIdle
    /\ UNCHANGED <<foundBlocks, everShares, now, failures, snapshots>>

Tick ==
    /\ now < MaxTime
    /\ now' = now + 1
    /\ UNCHANGED <<writerVars, memoryVars, roundVars, task, snap, tableVars,
                   failures, restarts, snapshots>>

Report(t) ==
    \/ RecordWin(t)
    \/ RecordInconclusive(t)
    \/ LookUpPending(t)
    \/ InsertPending(t)
    \/ EnqueueFound(t)

Sweep ==
    \/ \E p \in pendingBlocks :
          \/ ResolveOrphanedWin(p)
          \/ ResolvePromoted(p)
          \/ \E resolution \in BlockResolution : ResolveAsCounted(p, resolution)
    \/ EnqueueResolved

TakeSnapshot == SnapshotEpoch \/ SnapshotTotals \/ SnapshotEnqueue

ApplyWrite ==
    \/ ApplyBlockFound
    \/ ApplyBlockResolved
    \/ BlockResolvedOutran
    \/ ApplyRoundReset
    \/ ApplySnapshot

Next ==
    \/ ShareAccepted
    \/ \E t \in Reporters : Report(t)
    \/ \E t \in Tasks : BumpEpoch(t) \/ EnqueueReset(t)
    \/ Sweep
    \/ TakeSnapshot
    \/ WriterReceives
    \/ ApplyWrite
    \/ DiskFails
    \/ Restart
    \/ Tick

Spec == Init /\ [][Next]_vars

(* Fairness: the writer thread, a report once begun and the sweep loop all *)
(* keep running; the node is assumed to settle every block in the end.     *)
(* Shares, wins, snapshots, failures and crashes owe nobody anything.      *)
Fairness ==
    /\ WF_vars(WriterReceives)
    /\ WF_vars(ApplyWrite)
    /\ WF_vars(Sweep)
    /\ \A t \in Reporters : WF_vars(LookUpPending(t) \/ InsertPending(t) \/ EnqueueFound(t))
    /\ \A t \in Tasks : WF_vars(BumpEpoch(t) \/ EnqueueReset(t))

LiveSpec == Spec /\ Fairness

-----------------------------------------------------------------------------
Write ==
    [kind : {"BlockFound"}, hash : Blocks, found_ts : Nat, won_at_submit : BOOLEAN,
     mark : Nat]
    \cup [kind : {"BlockResolved"}, hash : Blocks, resolution : BlockResolution]
    \cup [kind : {"RoundReset"}, hash : Blocks, epoch : Nat, since_ts : Nat, mark : Nat]
    \cup [kind : {"Snapshot"}, epoch : Nat, accepted : Nat]

TaskState ==
    [pc : {"idle", "bump_epoch", "enqueue_reset", "enroll", "insert", "enqueue_found",
           "enqueue_resolved", "done"},
     hash : Blocks \cup {"none"}, won_at_submit : BOOLEAN,
     resolution : BlockResolution \cup {"none"},
     ts : Nat, epoch : Nat, mark : Nat]

(* Types of the memory, the task locals, the queue and the tables. *)
TypeOK ==
    /\ WriterTypeOK(Write)
    /\ {blocksFound, blocksOrphaned, blocksInconclusive} \subseteq Nat
    /\ pendingBlocks \subseteq [hash : Blocks, won_at_submit : BOOLEAN]
    /\ {shares, roundBase, roundOffset, roundTotal, dbMark, everShares} \subseteq Nat
    /\ {roundEpoch, writerEpoch} \subseteq Nat
    /\ task \in [Tasks -> TaskState]
    /\ snap \in [pc : {"idle", "totals", "enqueue"}, epoch : Nat, accepted : Nat]
    /\ foundBlocks \in [Blocks -> [status : BlockStatus, found_ts : Nat,
                                   won_at_submit : BOOLEAN, mark : Nat]]
    /\ {roundSince, now} \subseteq Nat
    /\ failures \in 0..MaxFailures /\ restarts \in 0..MaxRestarts
    /\ snapshots \in 0..MaxSnapshots

-----------------------------------------------------------------------------
(* Owed: on its way to the table, or about to be put on its way. *)
FoundOwed(h) ==
    \/ \E w \in InFlight : w.kind = "BlockFound" /\ w.hash = h
    \/ \E t \in Reporters : task[t].pc = "enqueue_found" /\ task[t].hash = h

ResolutionOwed(h) ==
    \/ \E w \in InFlight : w.kind = "BlockResolved" /\ w.hash = h
    \/ task["sweeper"].pc # "idle" /\ task["sweeper"].hash = h

(* No block is lost between memory and found_blocks (enroll_pending_block, *)
(* resolve_block, load_pending_blocks).  A row still 'pending' is either   *)
(* in the set the sweeper works from or its verdict is owed to the table,  *)
(* so it cannot sit pending while the pool believes it resolved; and a     *)
(* block the pool tracks or has resolved has a row or is owed one, so its  *)
(* verdict will have something to land on.  Only an overflowing backlog    *)
(* may break this.                                                         *)
NoBlockLost ==
    ~overflowed => \A b \in Blocks :
        /\ foundBlocks[b].status = "pending" => Pending(b) \/ ResolutionOwed(b)
        /\ Pending(b) \/ ResolutionOwed(b) => Stored(b) \/ FoundOwed(b)

Settled ==
    /\ InFlight = {}
    /\ \A t \in Tasks : task[t].pc \in {"idle", "done"}

(* The dashboard's block counts are what a reboot would restore: whenever  *)
(* nothing is owed to the tables, the three in-memory counters equal       *)
(* load_block_counts, across wins, orphanings, promotions, failed writes   *)
(* and crashes (each block reported once).                                 *)
CountsMatchLedger ==
    Settled /\ ~overflowed =>
        /\ blocksFound = Cardinality(FoundRows)
        /\ blocksOrphaned = Cardinality(OrphanedRows)
        /\ blocksInconclusive = Cardinality(InconclusiveRows)

VerdictKept ==
    \A b \in Blocks : Stored(b) =>
        /\ foundBlocks'[b].found_ts = foundBlocks[b].found_ts
        /\ foundBlocks'[b].won_at_submit = foundBlocks[b].won_at_submit
        /\ foundBlocks'[b].status # foundBlocks[b].status =>
              /\ foundBlocks[b].status = "pending"
              /\ foundBlocks'[b].status \in BlockResolution

(* BlockResolution is terminal: a row once settled keeps its verdict, and  *)
(* no row is ever removed or has its submit-time verdict or enrolment time *)
(* rewritten, even when a block is reported, enrolled and resolved again.  *)
VerdictIsFinal == [][VerdictKept]_vars

(* A finished round is never resurrected (the epoch handshake of           *)
(* round_reset, record_hashrate_snapshot_at and apply_write): the          *)
(* persisted total never exceeds the shares accepted since the latest      *)
(* zeroing the table has seen, whatever order snapshots and resets land.   *)
NoRoundResurrected == roundTotal <= everShares - dbMark

(* A crash cannot bring back the round a recorded win ended: the total a   *)
(* boot restores counts no share older than any stored submit-time win,    *)
(* unless the table's reset stamp falls in that win's very second.         *)
BootEndsWonRounds ==
    [][restarts' # restarts =>
           \A b \in Blocks : Stored(b) /\ Won(b) /\ foundBlocks[b].found_ts # roundSince =>
               roundBase' <= everShares - foundBlocks[b].mark]_vars

(* A resolution parked in front of the BlockFound it needs: retry_backlog  *)
(* stops at it on every pass (see ResolutionLands).                        *)
Jammed ==
    \E i, j \in DOMAIN backlog :
        /\ i < j
        /\ backlog[i].kind = "BlockResolved" /\ ~Stored(backlog[i].hash)
        /\ backlog[j].kind = "BlockFound" /\ backlog[j].hash = backlog[i].hash

(* Every row that is pending is settled in the end: the verdict outlives   *)
(* failed writes and crashes, save behind a jammed backlog.                *)
PendingSettles ==
    \A b \in Blocks : foundBlocks[b].status = "pending" ~>
                      (foundBlocks[b].status \in BlockResolution \/ Jammed)

-----------------------------------------------------------------------------
(* What a comment of the source says, and the code does not do.            *)

(* stats.rs:1283 on a resolution that outran its BlockFound: "it parks     *)
(* behind and lands after".  A verdict owed to the table is settled in the *)
(* end, if the process is not killed first.                                *)
ResolutionLands ==
    \A b \in Blocks : ResolutionOwed(b) ~>
                      (foundBlocks[b].status \in BlockResolution \/ restarts > 0)
=============================================================================
