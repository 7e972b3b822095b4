----------------------------- MODULE RateMeters -----------------------------
(***************************************************************************)
(* The hashrate meters: a session's accepted shares, folded into decaying  *)
(* averages by a ticker, summed by worker, checkpointed, and restored by   *)
(* the next process.                                                       *)
(*                                                                         *)
(* An average is a sum over its shares, so it is modelled as the shares    *)
(* that it still holds, each with the ticks until nothing is left of it.   *)
(* The longest window holds a share for LongWindow ticks, the shortest for *)
(* ShortWindow; the two stand for the code's seven.                        *)
(***************************************************************************)
EXTENDS Integers

CONSTANTS
    Rigs, Miners, Tickets,      \* connections, worker names, and shares
    ShortWindow, LongWindow,    \* ticks until a share has faded
    EvictAfter,                 \* IDLE_WORKER_EVICT_SECS, in ticks
    MaxClock, MaxBoots,         \* bounds
    Never

ASSUME MetersAssumption ==
    /\ ShortWindow \in 1 .. LongWindow /\ LongWindow \in Nat
    /\ EvictAfter \in Nat \ {0} /\ MaxClock \in Nat /\ MaxBoots \in Nat
    /\ Never \notin Nat

VARIABLES
    session_hashrates,          \* meters, by session id
    idle,                       \* what tick_hashrates found idle and has not removed
    stale,                      \* what prune_idle_workers found stale and has not removed
    snapshotAt,                 \* state_ts of the snapshot being taken
    checkpoint,                 \* worker_hashrate_state
    clock, up, boots,           \* time in ticks, whether the process runs, its restarts
    lastSeen,                   \* a worker's last share or connection
    folded,                     \* history: the tick that folded a share
    taken, raced, pruned        \* history: shares of this process; removed by a race; with their worker

tasks == <<idle, stale, snapshotAt>>
history == <<taken, raced, pruned>>
meter_vars == <<session_hashrates, tasks, checkpoint, clock, up, boots, lastSeen, folded, history>>

-----------------------------------------------------------------------------
(* One meter.  The pending shares have no place in an average yet. *)

Meter(who, pending, rates) == [worker |-> who, pending |-> pending, rates |-> rates]
NoRates == [t \in {} |-> 0]
NoMeters == [id \in {} |-> Meter(NoRates, {}, NoRates)]
Session(rig) == <<"session", rig>>
Restored(who) == <<"restored", who>>

\* Shares with k ticks less to go; those that have faded are gone.
Decayed(rates, k) == [t \in {x \in DOMAIN rates : rates[x] > k} |-> rates[t] - k]

\* Mutant: the time offline is one tick, however long it was.
MutOneStep(rates, ticks) == Decayed(rates, IF ticks > 0 THEN 1 ELSE 0)

decay_idle_for(rates, ticks) == Decayed(rates, ticks)

add_share(meter, t) == Meter(meter.worker, meter.pending \cup {t}, meter.rates)

tick(meter) ==
    Meter(meter.worker, {},
          [t \in DOMAIN Decayed(meter.rates, 1) \cup meter.pending |->
              IF t \in meter.pending THEN LongWindow ELSE meter.rates[t] - 1])

is_idle(meter) == meter.pending = {} /\ DOMAIN meter.rates = {}

Without(meters, ids) == [id \in DOMAIN meters \ ids |-> meters[id]]

-----------------------------------------------------------------------------
MetersInit ==
    /\ session_hashrates = NoMeters
    /\ idle = {} /\ stale = {} /\ snapshotAt = Never
    /\ checkpoint = [updated_ts |-> 0, rates |-> [who \in Miners |-> NoRates]]
    /\ clock = 0 /\ up = TRUE /\ boots = 0
    /\ lastSeen = [who \in Miners |-> Never]
    /\ folded = [t \in Tickets |-> Never]
    /\ taken = {} /\ raced = {} /\ pruned = {}

\* Mutant: a renamed session takes its tail along and leaves it behind as well.
MutTailCopied(rig, who, t) ==
    LET id == Session(rig)
        known == id \in DOMAIN session_hashrates
        old == IF known THEN session_hashrates[id] ELSE Meter(who, {}, NoRates)
        kept == IF known /\ old.worker # who
                THEN [i \in DOMAIN session_hashrates \cup {Restored(old.worker)} |->
                        IF i = Restored(old.worker) THEN old ELSE session_hashrates[i]]
                ELSE session_hashrates
    IN  [i \in DOMAIN kept \cup {id} |->
            IF i = id THEN add_share(Meter(who, old.pending, old.rates), t) ELSE kept[i]]

\* The meter follows its session to another name, its tail with it.
MetersWith(rig, who, t) ==
    LET id == Session(rig)
        old == IF id \in DOMAIN session_hashrates THEN session_hashrates[id]
               ELSE Meter(who, {}, NoRates)
    IN  [i \in DOMAIN session_hashrates \cup {id} |->
            IF i = id THEN add_share(Meter(who, old.pending, old.rates), t)
            ELSE session_hashrates[i]]

add_share_diff(rig, who, t) ==
    /\ up /\ t \notin taken /\ folded[t] = Never
    /\ session_hashrates' = MetersWith(rig, who, t)
    /\ taken' = taken \cup {t}
    /\ lastSeen' = [lastSeen EXCEPT ![who] = clock]
    /\ UNCHANGED <<tasks, checkpoint, clock, up, boots, folded, raced, pruned>>

\* mark_worker_online: the first time; later ones put off the eviction as a
\* share does.
MarkOnline(who) ==
    /\ up /\ lastSeen[who] = Never
    /\ lastSeen' = [lastSeen EXCEPT ![who] = clock]
    /\ UNCHANGED <<session_hashrates, tasks, checkpoint, clock, up, boots, folded, history>>

\* Every meter is ticked, and the idle ones are noted.
TickHashrates ==
    /\ up /\ idle = {} /\ clock < MaxClock
    /\ clock' = clock + 1
    /\ session_hashrates' = [id \in DOMAIN session_hashrates |-> tick(session_hashrates[id])]
    /\ idle' = {id \in DOMAIN session_hashrates : is_idle(session_hashrates'[id])}
    /\ folded' = [t \in Tickets |->
                    IF \E id \in DOMAIN session_hashrates : t \in session_hashrates[id].pending
                    THEN clock' ELSE folded[t]]
    /\ UNCHANGED <<stale, snapshotAt, checkpoint, up, boots, lastSeen, history>>

\* They are removed after the pass, whatever they have got meanwhile.
RemoveIdle ==
    /\ up /\ idle # {}
    /\ session_hashrates' = Without(session_hashrates, idle)
    /\ idle' = {}
    /\ raced' = raced \cup UNION {session_hashrates[id].pending : id \in idle \cap DOMAIN session_hashrates}
    /\ UNCHANGED <<stale, snapshotAt, checkpoint, clock, up, boots, lastSeen, folded, taken, pruned>>

\* prune_idle_workers, of those of them who are offline (see Presence).
CollectIdleWorkers ==
    /\ up /\ stale = {}
    /\ stale' \in SUBSET {who \in Miners : lastSeen[who] # Never /\ lastSeen[who] + EvictAfter < clock}
    /\ UNCHANGED <<session_hashrates, idle, snapshotAt, checkpoint, clock, up, boots, lastSeen,
                   folded, history>>

\* Their states and their meters go, whatever they have got meanwhile.
RetainOthers ==
    /\ up /\ stale # {}
    /\ LET evicted == {id \in DOMAIN session_hashrates : session_hashrates[id].worker \in stale}
       IN  /\ session_hashrates' = Without(session_hashrates, evicted)
           /\ pruned' = pruned \cup UNION {session_hashrates[id].pending \cup DOMAIN session_hashrates[id].rates
                                             : id \in evicted}
    /\ lastSeen' = [who \in Miners |-> IF who \in stale THEN Never ELSE lastSeen[who]]
    /\ stale' = {}
    /\ UNCHANGED <<idle, snapshotAt, checkpoint, clock, up, boots, folded, taken, raced>>

-----------------------------------------------------------------------------
(* Checkpoint and restart *)

hashrates_by_worker ==
    [who \in Miners |->
        LET mine == {id \in DOMAIN session_hashrates : session_hashrates[id].worker = who}
            Holders(t) == {id \in mine : t \in DOMAIN session_hashrates[id].rates}
        IN  [t \in UNION {DOMAIN session_hashrates[id].rates : id \in mine} |->
                session_hashrates[CHOOSE id \in Holders(t) : TRUE].rates[t]]]

SnapshotTime ==
    /\ up /\ snapshotAt = Never
    /\ snapshotAt' = clock
    /\ UNCHANGED <<session_hashrates, idle, stale, checkpoint, clock, up, boots, lastSeen, folded, history>>

\* The sums are read after the time, and the whole table is replaced, if the
\* write succeeds.
SnapshotRates ==
    /\ up /\ snapshotAt # Never
    /\ checkpoint' \in {checkpoint, [updated_ts |-> snapshotAt, rates |-> hashrates_by_worker]}
    /\ snapshotAt' = Never
    /\ UNCHANGED <<session_hashrates, idle, stale, clock, up, boots, lastSeen, folded, history>>

Die ==
    /\ up /\ boots < MaxBoots
    /\ up' = FALSE
    /\ session_hashrates' = NoMeters
    /\ idle' = {} /\ stale' = {} /\ snapshotAt' = Never
    /\ UNCHANGED <<checkpoint, clock, boots, lastSeen, folded, history>>

TimePasses ==
    /\ ~up /\ clock < MaxClock
    /\ clock' = clock + 1
    /\ UNCHANGED <<session_hashrates, tasks, checkpoint, up, boots, lastSeen, folded, history>>

\* from_persisted: one meter for each worker, decayed by the time offline,
\* and none for a tail that has faded.
Boot ==
    /\ ~up
    /\ up' = TRUE /\ boots' = boots + 1
    /\ LET offline_for == clock - checkpoint.updated_ts
           restored == [who \in Miners |-> decay_idle_for(checkpoint.rates[who], offline_for)]
           shown == {who \in Miners : ~is_idle(Meter(who, {}, restored[who]))}
       IN  session_hashrates' =
               [id \in {Restored(who) : who \in shown} |-> Meter(id[2], {}, restored[id[2]])]
    /\ taken' = {} /\ raced' = {} /\ pruned' = {}
    /\ lastSeen' = [who \in Miners |-> Never]
    /\ UNCHANGED <<tasks, checkpoint, clock, folded>>

MetersNext ==
    \/ \E rig \in Rigs, who \in Miners, t \in Tickets : add_share_diff(rig, who, t)
    \/ \E who \in Miners : MarkOnline(who)
    \/ TickHashrates \/ RemoveIdle \/ CollectIdleWorkers \/ RetainOthers
    \/ SnapshotTime \/ SnapshotRates \/ Die \/ TimePasses \/ Boot

MetersSpec == MetersInit /\ [][MetersNext]_meter_vars

-----------------------------------------------------------------------------
Held(id) == session_hashrates[id].pending \cup DOMAIN session_hashrates[id].rates

\* A share weighs what its age in ticks leaves of it, never more, whether
\* the ticks were made by a process or passed while none ran.  It weighs less
\* only after a restart, when ticks came between the time of a checkpoint and
\* its sums.
DecaysByTheClock ==
    \A id \in DOMAIN session_hashrates : \A t \in DOMAIN session_hashrates[id].rates :
        LET fair == LongWindow - (clock - folded[t])
        IN  /\ session_hashrates[id].rates[t] <= fair
            /\ boots = 0 => session_hashrates[id].rates[t] = fair

\* No share is in two meters, through renames, restarts and the restored
\* tails beside the live sessions: the pool's figure, their sum, counts it
\* once.  And one accepted by this process is in one until it has faded from
\* the longest window, unless its worker was pruned or it came between the
\* ticker's look at a faded session and the session's removal.
MeteredOnce ==
    /\ \A a, b \in DOMAIN session_hashrates : Held(a) \cap Held(b) # {} => a = b
    /\ up => \A t \in taken \ (raced \cup pruned) :
               \/ \E id \in DOMAIN session_hashrates : t \in Held(id)
               \/ folded[t] # Never /\ clock - folded[t] >= LongWindow
=============================================================================
