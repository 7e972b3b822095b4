# A TLA+ model of btcpool-rs

btcpool-rs is a solo Bitcoin mining pool: one process that takes block
templates from a Bitcoin node, hands them to miners as jobs over Stratum V1 or
V2, validates and accounts for the shares that come back, submits the blocks
among them, follows each block until the chain has decided it, and persists its
accounts in SQLite. This directory holds TLA+ modules for the parts of it whose
correctness depends on the order in which things happen or on arithmetic that
no test covers whole, TLC configurations that check them on small instances,
and TLAPS proofs of the properties that matter most.

Source paths below are relative to the repository root (`src/stats.rs` and so
on). `PROJECT.json` maps every definition to the lines it models.

## 1. The system and its models

| Part | State | What makes it hard | Modules |
|---|---|---|---|
| Stats writer thread (`stats.rs`) | channel, write in hand, backlog of parked writes | durable writes are retried out of order; the backlog is capped; a retry pass stops at its first failure | `StatsWriter` |
| Block ledger and rounds (`stats.rs`, `mining/accounting.rs`) | counters, pending blocks, round offsets, epoch; tables `found_blocks`, `round_stats` | no common lock; a snapshot may straddle a reset; crash between two writes | `PoolStats` over `StatsWriter` |
| Share ledger (`stats.rs`) | open minute, staged sums; tables of workers, minutes and hours; id cache | stale clock readings; a transaction fails after ids were cached; rollups and late minutes; the process ends mid-minute | `ShareLedger` over `StatsWriter` |
| Work charts (`stats.rs`, `network/dashboard.rs`) | the two ledger tables | the seam between minutes and hours moves, and minutes come late | `WorkHistory` |
| Hashrate meters (`stats.rs`, `mining/hashrate.rs`) | a meter per session, restored tails | tick, rename, prune, checkpoint and restart interleave | `RateMeters` |
| Worker presence (`stats.rs`) | `worker_states`, session counts | look-up and insert are two steps; the pruner runs in between | `Presence` |
| Block submission and confirmation (`mining/engine.rs`, `mining/confirm.rs`, `bitcoin/rpc.rs`) | attempts, archive, pending set | an answer is lost although the block was taken; reorgs; nodes that forget a block | `BlockFate` over `ChainNode` |
| RPC credentials (`bitcoin/rpc.rs`, `config.rs`) | client, remembered cookie | several callers meet a restarted node | `RpcAuth` |
| Template engine (`mining/engine.rs`) | current template, rules, freshness | await points inside a refresh; three ways to hear of a tip | `TemplateEngine` |
| Tip discovery, health, watchdog (`bitcoin/zmq.rs`, `main.rs`, `network/dashboard.rs`) | watch channel, backoff, ages | lost notifications; an engine that cannot report itself | `TipWatch` over `TemplateEngine` |
| Job broadcast (`mining/engine.rs`, both sessions) | bounded ring, each session's cache and job table | a session may read late, be overrun, or authorise at any moment | `TemplateFlow` over `TemplateEngine`, `IssuedJobs` |
| Sessions and share validation (`network/session.rs`, `protocol/sv2/`, `mining/validator.rs`, `mining/jobs.rs`) | identity, job table, id table, duplicate set, budgets | every table is bounded, and each is cut at another moment | `MiningSession` over `IssuedJobs`, refining `ShareContract` |
| Vardiff and credit (`mining/vardiff.rs`, `mining/credit.rs`) | difficulty, window, evidence | a change races work in flight | `DifficultyControl` |
| Reading messages (`network/session.rs`, `protocol/sv2/noise.rs`) | partial line or frame | `select!` drops the arm it does not take | `Framing` |
| Connection server and limits (`network/server.rs`, `security/mod.rs`) | slots, bans, windows | every way out must give its slot back; sweeps race checks | `Connections` over `Presence` |
| Template to block (`bitcoin/template.rs`, `protocol/sv2/job.rs`, `mining/validator.rs`) | none: conversions | byte orders, boundaries, rounding | `JobBuilding`, `BlockBuilding`, `Targets` |

The parts meet at few places, and the modules are cut there. `StatsWriter` is
extended by the two ledgers that queue writes on it; `ChainNode` by
`BlockFate`; `TemplateEngine` by `TipWatch`, which adds what wakes and watches
it, and by `TemplateFlow`, which adds who listens to it; `IssuedJobs`, one
session's job table, by `TemplateFlow`, which follows the tip of a job, and by
`MiningSession`, which follows its payee; `Presence`, the table all sessions
share, by `Connections`, whose tasks call it.

## 2. Modules

### StatsWriter

The single writer thread as a component other modules extend. Its state is the
channel (`queue`), the write taken off it (`inHand`), the parked writes
(`backlog`), how many of those the current retry pass has yet to try
(`retries`), and a history flag for an eviction (`overflowed`). `ReceiveWrite`
and `ReceiveTimeout` start an iteration of `writer_loop`; each begins with a
retry pass over the backlog, oldest first, which stops at its first failure;
then the received write is attempted. `WriteApplied` and `WriteFailed` are what
a transaction's end does to the queue; the extending module conjoins them with
what it does to the tables. A failed durable write is parked, evicting the
oldest parked write if the backlog is full. `WriterLost` is the process's death.
The last retry pass of the orderly `Drop` path is not modelled: every task holds
a clone of the store, so in production it does not run (`stats.rs`, comment on
`shutdown_persist`).

### PoolStats

Extends `StatsWriter` with `record_block_outcome` (by *reporters*: a session, or
the background resubmitter), `record_block_resolution` (by the *sweeper*), the
snapshot ticker, share counting, the arms of `apply_write`, and boot. Each
function is cut into one action per access to shared state, since nothing but
per-map locks orders the tasks: `RecordWin` (`block_found` and the zeroing of
`round_reset`), `BumpEpoch`, `EnqueueReset`, `LookUpPending`, `InsertPending`,
`EnqueueFound`; `ResolveOrphanedWin`, `ResolvePromoted`, `ResolveAsCounted`,
`EnqueueResolved`; `SnapshotEpoch`, `SnapshotTotals`, `SnapshotEnqueue`.

Abstractions: one total, `shares_accepted`, stands for every round-scoped one,
which the same statements zero, read and merge. The load and store of
`round_reset`'s offset is one step. Relaxed atomics are read and written in
program order (a map or channel operation with its own synchronisation lies
between those whose order matters). What the node says of a pending block is a
nondeterministic choice. The clock does not go backwards here. Trailing
clean-ups of `write_snapshot` touch no modelled table.

### ShareLedger

Extends `StatsWriter` with the ledger's callers (each share is one call of
`record_ledger`; the ticker; the shutdown), the accumulator behind its mutex, the
`Ledger` and `Flush` arms of `apply_write`, and the process's end and boot. A
caller reads the clock (`ReadClock`), rolls the accumulator under the lock
(`RecordLedger`, `FlushLedgerAt`) and enqueues the minute it closed after the
lock (`Persist`). `shutdown_persist` goes on with `TakeOpen`, `PersistOpen`,
`SendFlush`, and waits. A `Ledger` write commits the minute and then the rollup
in a second transaction: `ApplyLedger` (both), `RollUpFails` (the first only; a
crash between the two is this followed by `Crash`), `LedgerFails` (neither, and
the id cache is cleared). Ids are handed out in the arbitrary order of a hash
map and reused after a rollback, as SQLite does for the next `rowid`.

Abstractions: a sum is the *set of shares* it sums, which is what lets a property
say that a share is counted exactly once; saturation of the sums is left out.
The minute is the unit of time, since the ledger truncates every reading to it.
Whether a name is known to `worker_states` is the environment's choice
(`RefuseUnknown`). The five-second limit on the flush is `Crash`, which may
happen at any moment.

### ChainNode and BlockFate

`ChainNode` is the Bitcoin node, modelled from how `bitcoin/rpc.rs` uses it:
the height of the active chain, which of the pool's blocks are on it, stored and
ever connected, and the answers `submitblock` and `getblockheader` give. Other
blocks have no identity. The node may extend its chain, reorganise it by up to
`MaxReorg` blocks onto a longer branch, forget its side branches (a reindex or
a swap), and receive a submission whose caller has long timed out (`wire`).
Which parent a pool block has is left open, so more reorgs are possible here
than in a real chain; the chain never gets shorter.

`BlockFate` extends it with what the pool does about a found block. The ladder
of `submit_found_block` is `FindBlock` (which also starts the archive thread),
`Answered` and `AttemptFails` (one `submit_block` each, in line or in the
resubmit task), `GiveUp` and `RecordBlockOutcome`; the archive thread is
`ArchiveWritten` or `ArchiveFails`. The sweep is `SweepStarts`, then for each
block of its copy of the pending set `ProbeHeader` and `ProbeTip`, the two calls
of `block_chain_position` between which the chain may move, and `Decide`
(`classify_confirmation`, `is_abandoned`, `record_block_resolution`).
`ProbeFails` is an error of either call; the repetition `call_with_refresh`
makes on a rotated cookie is a stray submission in `Answered` and a block put
back in `ProbeFails`. `Restart` drops the ladder, the archive threads and the
sweep.

Abstractions: the pauses between attempts are left out, and the two-hour
deadline is any moment after the resubmit task's first attempt, at the latest
after `MaxAttempts`. A block's age is whether `ABANDON_AFTER` has passed.
Enrolling and resolving are single steps on a durable set: the steps inside them
are those of `PoolStats`, whose `NoBlockLost` is what makes the set durable, and
whose nondeterministic verdict is decided here.

### TemplateEngine, TipWatch, TemplateFlow, IssuedJobs

`TemplateEngine` cuts `refresh` at its await points: `GetBlockTemplate` (or its
failure), `check_template_rules`, `WithdrawTemplate`, `StoreTemplate` (with
`should_force_clean`) or `BuildFails`, `SendBroadcast`. A refresh starts on the
watch channel's signal or on the ntime timer. The node's tip moves, back to an
earlier tip included, its templates start and stop announcing an unknown rule,
its calls or the builds fail and recover, and the engine's task may die. A
template is named by the tip it builds on, the one field the clean flag and the
job tables depend on.

`TipWatch` adds the ZMQ supervisor (backoff, stability rule), the poll, the
freshness clock, `GET /health` and the watchdog. `TemplateFlow` adds the
broadcast ring and the sessions: subscribe, then cache the current template,
then take broadcasts, be overrun, authorise or open a channel, and leave. For
SV2 the device works on the last `SetNewPrevHash`, which goes out with clean
jobs only. `IssuedJobs` is the bounded table of `mining/jobs.rs`.

### ShareContract and MiningSession

`ShareContract` is what a pool session promises about shares, without saying
how. It remembers every job sent and every credit given. A submission is
credited if it names a live job among the last `Depth`, is good work, and is
not among the last `Memory` credits; it counts against the miner only if it
names no valid job, repeats, or is malformed, never for bad luck, a job retired
by a clean one, or another spelling of the worker's name.

`MiningSession` is the session as it is, of either protocol: `handle_configure`,
`handle_subscribe`, `handle_setup_connection`, `handle_authorize`,
`handle_open_extended`, `RecvJob`, `handle_submit_sv1`, `handle_submit_sv2`,
`EndSession`, each a whole handler, since the loop takes one event at a time. It
has bounded tables of jobs, of SV2 ids (with the counter that wraps and skips
zero) and of credited shares (cut at its size, and cleared by clean jobs and
changes of identity), and budgets for invalid shares and identities. The
refinement mapping (`Contract`) keeps the spelling, the identity, the jobs sent,
the credits and the blame as they are; `KeepsContract` is the contract's `Spec`
under it.

Abstractions: names are a small set with several spellings of one identity; the
work of a share is a nonce and version bits; how good it is, is one of `good`,
`low`, `malformed`, `short`.

### DifficultyControl

`check_retarget` (window, deadzone, largest factor, floor and ceiling, the rule
for a silent device), `suggest`, `apply_retarget`, `ShareCredit::credit` (the
effective difficulty, tolerance, evidence, redemption, grace), and the session
loop's calls of them on a share, a job and a hint, with the messages to the
device in flight. Instants are ages, counted no further than the code tells
apart. The floating-point estimate behind a retarget is any of `Optima`. A device
is honest, follows what it is told within the grace period, or is pinned.

### Presence and Connections

`Presence` is `active_sessions` of every worker, with `mark_worker_online` and
`prune_idle_workers` cut where the map's lock is released. `Connections` is the
accept loop (`Accept`, `ReserveSlot`, `CheckBan`, `CheckRate`), the task of each
connection (first byte, handshake, session loop, departure), the sweeps of bans
and rate windows, the pruner, and peers that die silently. A ban's check and
its removal are two steps, as in `is_banned`. A connection that is over may be
made again, so behaviours do not end.

### Framing

How bytes become messages: SV1's `read_line_bounded` inside `select!`, and SV2's
reader task with its bounded channel, with broadcasts taken at any moment.

### JobBuilding, BlockBuilding and Targets

`JobBuilding` holds the conversions as operators: the rules gate, the coinbase
with its extranonce field, the BIP 34 push, the merkle branch, the forms SV1 and
SV2 put on the wire, the header rebuilt from a share, the block submitted. A
hash is a short sequence of symbolic bytes, so that byte orders show. A loop is
a recursive function of the number of passes made: `Passes` of
`compute_merkle_branch_raw`, `Climb` of `merkle_root`, `Shifted` of the shifts
that take a number's bytes off. Beside them stand, external, what a device
hashes and what a node accepts. `BlockBuilding` takes one block through:
configuration, template, job, share. `BlockAssumption` is what a node promises
of a template: hashes of whole words, a height that is an int and not 0, a time
after the median of the blocks before, the version bits that it requires, and
transactions none of which weighs less than the least weight consensus allows
one, 240.

`Targets` is the arithmetic on difficulties, targets and hashes in a smaller
base with fewer digits, so that every hash can be tried; the reference is the
integer the digits stand for.

### RateMeters and WorkHistory

`RateMeters` models an average as the shares it still holds and what is left of
each. `add_share_diff`, `TickHashrates` and `RemoveIdle` (the ticker's look and
removal), renames, `CollectIdleWorkers` and `RetainOthers`, the checkpoint's time
and sums, death and boot are actions. `WorkHistory` is `get_work_history` and
`work_json` over the two tables while minutes are filed, late or not, and rolled
up; a sum is the set of minutes it sums.

### RpcAuth

`RpcClient::new` and `call_with_refresh`, one action per lock or file access, by
several callers, against a node that writes a new cookie at every start and
removes it, or not, when it stops.

### Proof and MC modules

`StatsWriterProofs` and `ShareLedgerProofs` are about the modules of those names;
`PoolStatsProofs` about `PoolStats`, its types and rounds first, then its blocks
and their counts; `ConnectionsProofs` about `Connections` and `Presence`; `NodeProofs` about what talks to the node,
`RpcAuth`, `TemplateFlow` and `BlockFate`; `SessionProofs` about `MiningSession`
and the meters of sessions, `RateMeters`; `WorkProofs` about the measure of work,
`DifficultyControl`, `Targets` and `WorkHistory`; `BlockProofs` about
`BlockBuilding` and the conversions of `JobBuilding`.
A leaf that names Zenon is one that needs no arithmetic.
`MCPoolStats`, `MCShareLedger`, `MCBlockFate`, `MCConnections` and `MCFraming`
name model values and the functions that cannot be written in a configuration.
`MCParts` puts six machines that share no variable into one model, of which a
behaviour moves one and the others rest.

## 3. Runs

Every run checks the reachable states exhaustively. Deadlock is checked in
`difficulty` and `connections`, whose behaviours never end; elsewhere
`CHECK_DEADLOCK FALSE` is set, since a pool with nothing to do waits and the
bounds end every behaviour.

| Run | Question | Instance |
|---|---|---|
| `blocks` | `NoBlockLost`: is a block ever lost between memory and table? `VerdictIsFinal`: is a settled row ever rewritten? | one block reported twice, any outcomes and verdicts, two failed writes, a backlog of two, one crash |
| `rounds` | `NoRoundResurrected`: does a finished round come back? `BootEndsWonRounds`: does the boot end every round a stored win ended? | two wins, a snapshot, two shares, two failed writes, a crash, two seconds of clock |
| `live` | `CountsMatchLedger`: do dashboard and ledger agree? `PendingSettles`: is every pending row settled in the end? | two blocks, two failed writes, a crash |
| `ledger` | `EveryShareOnce`, `RowsNameTheirWorker`, `NeverFiledEarly`, `ShutdownKeepsItsWord`, `StagedIsFiled`: is every share counted once, for its worker, not before its minute, kept by a shutdown that answered for it, and filed in the end? `TypeOK`: types and the cap of the workers table | two shares of two workers, a cap of one, a backlog of one, two failures, a crash or shutdown, one step of the clock, hours of two minutes |
| `fate` | `ConfirmedStays`, `OrphanedStaysOff`: are verdicts final? `OutcomeIsTrue`: is a counted win one, and a refused block refused? `FoundIsDecided`: is every found block decided? | one block, valid or not, depth two, reorgs of one block, three failures, a node that forgets, a restart |
| `watch` | `TipReachesEngine`: does a new tip reach the engine by whatever way is left? `FreezeIsReported`: is an engine that stopped reported, for good? | two tips, one move, a rule change, two faults, the engine's death, backoff up to three |
| `jobs` | `DrainedIsCurrent`, `DrainedIsOnOneTip`: is a session that has read its broadcasts on the engine's template, and on no other tip? `TipReachesMiners`: does a tip reach a ready miner? | two tips, two moves, a rule change, a fault, a ring and a table of two, a session that leaves and returns |
| `parts` | session: `KeepsContract`, `PaidIsCredited`; block: `HeadersAgree`, `BlocksAreValid`, `ConfiguredCoinbaseBuilds`; targets: `TargetsAreExact`, `AssignedWorkCounts`; meters: `MeteredOnce`, `DecaysByTheClock`; charts: `HistoryIsExact`; credentials: `RestartIsRecovered` | see below |
| `difficulty` | `HonestIsBelieved`: is an honest device ever judged to ignore its difficulty? `OverpayIsBounded`: how long is a pinned one overpaid? `HonestIsRedeemed`: is a wrong verdict taken back? | difficulties 2 to 8, an initial one below the floor, three changes, evidence and redemption of three shares, grace of two ticks |
| `connections` | `CountersMatch`, `LimitHolds`, `BanStands`, `PresenceIsExact`: do slots, limits, bans and presence stay true? `DeadPeerFreesSlot`: does a silent peer lose its slot? | three connections of both protocols from one address, two slots, one connection a minute, two worker names |

Two runs show that the source says more than the code does; TLC's counterexample
is the point:

| Run | The sentence | What happens |
|---|---|---|
| `outrun` | `stats.rs:1281`: a resolution that outran its `BlockFound` "parks behind and lands after" | if that `BlockFound` fails once, it is parked behind the resolution that waits for it, and the backlog is jammed until a restart |
| `framing` | `network/session.rs:410`: `read_line_bounded` reads "one line ... into `buf`" | a job broadcast taken while a line has arrived in part drops the bytes read so far; the handler gets the rest of the line as if it were a line. SV2 reads in a task of its own for this very reason |

### What the properties except

A property that needs an exception says so in its comment. They are what the
code leaves open:

* `OrphanedStaysOff`: a block that returns to the chain and is buried between the
  two calls of one probe (`straddled`).
* `DrainedIsOnOneTip`: a session overrun past a clean broadcast
  (`missedClean`); its older jobs stay valid until the next tip.
* `HonestIsBelieved`: a difficulty that left the credited one and came back with
  no share in between (`returned`): `ShareCredit` sees no change and opens no
  grace period. `HonestIsRedeemed` covers what follows.
* `PresenceIsExact`: two first sessions of one worker inserting at once, and an
  eviction of a worker who has just come back (`raced`); the count is then too
  low, never too high.
* `MeteredOnce`: a share between the ticker's look at a faded session and its
  removal, and those of a pruned worker.
* `RestartIsRecovered`: a caller outpaced by another that put in the new cookie
  first; it compares equal (`rpc.rs:225`) and gives up, although the comment at
  `rpc.rs:201` promises one retry.
* `PendingSettles`: a backlog jammed as in `outrun`.
* `BootEndsWonRounds`: wins in one second, and blocks promoted after submission.

Three more sentences of `stats.rs` are stronger than the code as `PoolStats` and
`ShareLedger` model it, and no property is stated about them: "an applied reset
never trips this" (641; the second may turn between the reset's clock reading
and the win's), "a partially-applied reset retried later is harmless" (1643; a
parked reset retried after a newer one moves `since_ts` back), and "a restart
costs no work" (2774; a session may record a share while the shutdown runs).

### Bounds and why they are enough

Two blocks and two reporters are what the races between two rounds, or between a
jammed block and an innocent one, need. Two writes of the same kind in flight
with one or two failures reorder any pair; a backlog of one or two, smaller than
the number of durable writes, makes eviction happen (four where it must not). One
crash separates any two steps, and after it the boot path runs on whatever it
left. In the ledger an hour has two minutes and the retention is none, so three
minutes of clock hold two hours, one of which is rolled up while late minutes of
it may still arrive. In `fate` one block suffices, since blocks meet only in the
sweep's work list: depth two and reorgs of one block are the smallest pair for
which the depth matters, a chain of four lets the height-one block be buried,
lost and brought back, and three failures take the ladder through the resubmit
task to its deadline.

In `jobs` sessions do not interact, so one is enough; a ring of two is overrun
by the third broadcast, two tips and two moves bring an old tip back, and a
table of two evicts. In `watch` a tip that moves once must be heard once, each
way of hearing of it may fail, and two faults are a fault and its recovery.

In `parts` the session has two identities, one with two spellings, a table of two
jobs and two ids, so that the third job evicts an entry and reuses an id, and a
duplicate set of one, so that the second credit evicts the first. Templates vary
one factor at a time around the boundaries: every height at which the push
changes its form, zero to eight transactions, the weights about the limit, the
chain's time ahead of and behind the clock, the rules; configurations and
scripts go up to and past the longest that fits. Base 4 with six digits, three of
them significant, has 4096 hashes, each tried against each difficulty. Two meters,
two workers and two shares are enough for a share to be in two places, with a
restart between. Charts have hours of four minutes over two and a half hours,
with windows in minutes, half hours and two hours. Two callers and three starts
of the node let one caller meet what another left.

In `difficulty` three changes are a raise, a return to the credited difficulty
and one change more, which is what the grace rule has to tell apart. In `connections` three connections
and two slots fill the pool and refuse one, a limit of one a minute refuses the
second from an address, and two names let a session rename itself.

The theorems of section 5 have no such bounds.

## 4. Fairness

Tasks of the runtime are polled until they are done and periodic tasks go on for
ever; that is what weak fairness stands for below. Failures, crashes, reorgs,
faults of the node, late landings, shares, signals and clock steps are never
forced. They are bounded, so the disk works in the end; a node may stay broken,
and the properties that depend on it except that.

* `PoolStats`: the writer thread (it wakes every retry interval while the
  backlog is not empty), the sweep (the node is assumed to decide every block in
  the end), and a report or a round reset once begun.
* `ShareLedger`: calls once begun, the ticker, the shutdown once begun, the clock
  and the writer.
* `BlockFate`: each block's ladder, the sweep, the chain's growth by other miners
  and the passing of time.
* `TipWatch`: a refresh under way, the ntime timer, the clock, the watchdog and
  the ZMQ supervisor. Nothing of the poll, which is optional, or of ZMQ.
* `TemplateFlow`: a refresh under way, the timer, a session's start; and strong
  fairness of a session taking a broadcast, since broadcasts are half a minute
  apart and an overrun session is disabled only until it has noticed.
* `DifficultyControl`: the miner goes on submitting and reads what it is sent.
* `Connections`: the clock, the task of a connection, and strong fairness of its
  deadline, since `select!` picks at random among arms that are ready.

## 5. Proofs

All for arbitrary constants satisfying the modules' named assumptions.

* `StatsWriterProofs`: for each step of the writer, how the set `InFlight` of
  writes somewhere in the queue changes. The proofs about the two ledgers use the
  queue only through these lemmas, so none of them argues about sequences.
* `TypeCorrect` (`PoolStats`), `LedgerTypeCorrect` (`ShareLedger`): types, with
  the backlog's cap and the workers table's.
* `BlocksAreTracked`: `NoBlockLost`. Not inductive: a resolution may be owed by a
  task that has removed the block from memory and not yet enqueued its verdict.
  The strengthening says where a block's enrolment and its verdict are between
  each pair of steps.
* `VerdictsAreFinal`: `VerdictIsFinal`, from the guards of the upserts.
* `RoundsStayFinished`: `NoRoundResurrected`. The inductive invariant bounds, for
  every epoch, the total a snapshot of that epoch may carry by the shares since
  the zeroing of that epoch, for snapshots being taken, queued or parked, and
  says which epoch the table is at; this is where the order *offsets, then epoch*
  in `round_reset` and *epoch, then totals* in the snapshot is used.
* `WonRoundsEnd`: `BootEndsWonRounds`, an action property of the boot. Where the
  boot zeroes the round there is little to show. Where it does not, the table's
  last reset is stamped no earlier than the win, and `WinsInv` says what that is
  worth: of a find and a reset, wherever either is between its task, the queue
  and the table, the one stamped later cut off, or counted, at least as many
  shares. It needs that the clock does not go back, which `Tick` states. Two in
  one second are not ordered by their stamps, hence the exception in the property.
* `CountsAreRestored`: `CountsMatchLedger`. The property speaks only of a pool with
  nothing on the way, so it is far from inductive. `CountsInv` says what the
  counters count at every moment: the blocks reported and resolved, wherever the
  report or the verdict is, in a task, in the queue or in the table. `ReportInv`
  says that a block has one submit-time outcome, the same in task, pending set,
  queue and row, and one verdict at most. The theorem has the hypothesis
  `OneReporter`, that no block is reported twice: `handle_submit` reports a block
  once, itself or through its resubmit task, and refuses a second share of the
  same header. `PoolStats` allows two reporters, and there the counters
  do count twice.
* `WorkIsCredited`: `RowsNameTheirWorker`. The invariant: a cached id is the
  table's, ids are distinct and are exactly those up to the number of rows, so
  that the next ids are fresh. Clearing the cache on failure is what keeps the
  first part.
* `SharesAreNotBackdated`: `NeverFiledEarly`. The invariant follows a share from
  the accumulator through a caller's hands and the writer to the tables: wherever
  it is, the minute it is filed under is not before the one its session read.
* `WorkIsConserved`: `EveryShareOnce`, a count, from `OnceInv`, which does not
  count: a share is in at most one of accumulator, closed minutes, writer and
  tables, there at one index, with one caller or in one row, and in one of them
  just if it was recorded and not forfeited (`OnePlace`); a caller holds a minute
  only until it has queued it (`Shape`). The lemmas `OnceEnqueue`, `OnceReceive`,
  `OnceApplied`, `OnceFailed` and `OnceLost` say so of the writer's three
  sequences alone, `RowsJoined` and `RowsRolledUp` of the tables;
  `PlacesAreCounted` turns places into the count.
* `ShutdownLosesNothing`: `ShutdownKeepsItsWord`, from `OnceInv` and `WordInv`:
  what the shutdown answered for has left the accumulator and every other
  caller's hands, and no part of it is behind the `Flush` in the queue
  (`BeforeFlush`). It is the one result that needs the order of the queue.
* `FateTypeCorrect`, `ConfirmedIsFinal`, `OrphanedIsFinal`, `OutcomesAreTrue`
  (`BlockFate`), for any depth larger than the deepest reorg. A confirmed block
  being on the chain is not inductive: the invariant says it is *buried*, at a
  height no reorg reaches, and that an orphaned one is *left behind*, off the
  chain at such a height; that what the probe read and has not used yet is still
  so; and that an outcome waiting to be recorded is true. `SubmitKeeps`,
  `ReorgKeeps` and `MovesKeep` say that no step of the node unmakes either.
  `OrphanedIsFinal` excepts the block that returned between the probe's two
  calls: there the code weighs an old position against a new tip, and the
  exception cannot be dropped.
* `MinersAreCurrent`, `MinersAreOnOneTip` (`TemplateFlow`): `DrainedIsCurrent` and
  `DrainedIsOnOneTip`, for any sessions, tips, ring and table. Both speak of a
  session that has read everything; the invariant says what holds of one that
  has not. Unless a clean broadcast is just about to be sent (`Settled`), a
  session's queue is on the engine's template from its last clean broadcast on
  (`EndsOn`), and a session with no clean broadcast before it, and none missed,
  already has the template cached, its device on that tip and no live job on
  another (`UpToDate`, `LiveOn`); in every state its newest job is the cached
  template's (`Steady`). What a job does to the table is the lemma `Issue`.
* `SessionTypeCorrect`, `CreditIsPaid`, `SessionKeepsContract` (`MiningSession`).
  The last is the refinement: the initial states are the contract's, and every
  handler is a step of the contract or a stutter. It rests on three invariants
  that tie a bounded table to the unbounded history: the job table is the end of
  the jobs sent, entry by entry, live where they are (`HistoryInv`); an SV2 id
  still in the id table names the very job sent with it, because ids wrap no
  sooner than jobs are forgotten, which needs `JOB_HISTORY_DEPTH <= JobIds`
  (`IdsInv`); and the duplicate set holds the latest credits, while a recent one
  that it has forgotten is of a job no longer live (`DedupInv`). `CreditIsPaid`
  follows from the first.
* `CountersAreRight`, `PresenceIsRight`, `BansStand`, `LimitIsKept`
  (`Connections`), for any finite set of connections (`PresenceAssumption`).
  `CountersMatch` needs that the acceptor has at most one connection at hand and
  that it is that one (`OneAtHand`). `PresenceIsExact` is not inductive: a session
  that authorizes again under its own name still has the name and is not counted,
  so the invariant counts those sessions apart (`Renewing`, `Counts`), and a
  session counted by nobody must be live (`CallersLive`). `BanStands` needs a bound
  on the bans, since a new one may replace one that runs. `LimitHolds` speaks of
  all arrivals within the minute, `WindowInv` says that they are the times the
  limiter still keeps and would count.
* `HonestDeviceIsBelieved`, `OverpayStaysBounded` (`DifficultyControl`). For the
  first, `FollowsInv`: the last message under way, or the target reached, is the
  session's difficulty, no message is older than the grace period, and none is
  younger than the assignment, so that a device that follows has read them all
  when the grace period is over. For the second, every overpaid share counts as
  evidence (`OverpayInv`).
* `SharesAreMeteredOnce`, `RatesDecayByTheClock` (`RateMeters`), from `MetersInv`:
  the sums of every meter are what each share's age leaves (`SoundMeters`), those
  of the checkpoint are no more than was left at the time it states
  (`SoundCheckpoint`), no share is in two meters (`HeldOnce`), what the ticker has
  listed as idle holds no average (`IdleIsEmpty`), and a dead process has no
  meters.
* `AuthRestartIsRecovered` (`RpcAuth`): no cookie read is newer than the file's
  and a running node's is in the file (`CookiesAreOld`), the client is never
  behind the cookie remembered for it (`ClientIsAhead`), and a call that nothing
  interferes with knows, at each of its steps, that its next one leads on
  (`CallKnows`).
* `TargetsStayExact`, `WorkIsCounted` (`Targets`), for any base, width and number
  of significant digits, among them the code's 256, 32 and 8. What digits stand
  for, a quotient's digits and the remainders carried along are recursive
  functions, and the theorems are about what they compute. The installed provers
  cannot use an induction principle with an operator as its parameter, so the
  induction is on a *set* of numbers: `LeastNumber`, from the well-foundedness of
  the naturals, gives `SetInduction` and `BoundedInduction`, and these the
  existence of functions defined by recursion (`Recursion`, `RecursionTo`).
  `LongDivision` says that the digits of the quotient and the last remainder are
  those of the numbers; `OrderIsNumeric` that comparing digits from the left
  compares numbers; `CompactIs` what the compact form's digits stand for;
  `Significant` and `TruncatedIs` that the digits read off a hash are its leading
  ones; `Reading` that the fixed-point quotient, shifted, is the quotient of the
  numbers rounded down. The invariant `TargetInv` adds that the target on the
  wire is never easier than the floor's.
* `ChartsAreExact` (`WorkHistory`). A sum of work is the set of minutes it sums,
  so no induction over buckets is needed. The invariant (`HistoryInv`): an hourly row
  is at the start of its hour and sums minutes of that hour, none of which is
  still in the other table; a minute there whose hour has a row came late.
* `HeadersStayAgreed`, `BlocksStayValid`, `CoinbasesBuild` (`BlockBuilding`), for
  any configurations, templates, payout lengths and delays that satisfy
  `BlockAssumption`. The invariant `BlockInv` says which choices were made at
  each stage, and that the stage is the outcome of the conversions applied to
  them; the rest is what the conversions compute, for which `BlockProofs` has the
  same induction over sets of numbers as `WorkProofs`.
  - *Root*: `BranchLeadsToRoot`. After each pass, the level and the branch of the
    pool and the row of the node's tree are `Abreast`: the row is the level with
    the climb so far in the coinbase's place. So the climb ends in the root, for
    any number of transactions.
  - *Height*: `HeightNumber`, `ReadsBack`. The bytes of a height of at most 31
    bits are one to four, and with the sign byte where the top bit is set they
    read back as the height and none can be spared.
  - *Coinbase*: `FoundInPlace`. `build_coinbase` looks for its script in the
    serialised bytes, and the script might occur earlier: the bytes before it are
    zeros, 255s and two ones (`Filler`), then the script's length, and no script
    begins as any of them goes on (`Telling`). `OneCoinbase`: what is assembled from prefix,
    extranonces and suffix is what is overwritten in place.
  - *Weight*: `WeightIs`. The 3 bytes that `check_block_weight` reserves for the
    count of transactions are enough since a template that passes has fewer than
    2^16 (`FewTransactions`), which is where the least weight of a transaction
    is used.

Only model-checked: liveness, which is out of the prover's reach. Every
invariant and every action property that a passing run checks is a theorem.

## 6. Not modelled

Listed with reasons in `PROJECT.json` under `components`. In short:

* best shares and best hashrates, raised and merged with MAX outside the epoch
  handshake: the code accepts a survivor of one share, so there is no promise;
* floating-point averages, in the meters and in vardiff, beyond what is said
  above, and the token arithmetic of `ShareRateLimiter`;
* HTML, JSON, Prometheus counters, the binary encoding of SV2 messages other
  than the new-job ones, and the RPC calls that only inform;
* the Noise cryptography, the parsing of addresses and user names, and the
  parsing of the configuration file;
* panics of session tasks (a slot would not be given back, `server.rs:204`), and
  out-of-memory.

`initial_difficulty` is not validated against `min_difficulty` and
`max_difficulty` by `config.rs`; `DifficultyControl` starts below the floor, too.
