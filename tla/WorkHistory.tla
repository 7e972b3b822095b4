---------------------------- MODULE WorkHistory ----------------------------
(***************************************************************************)
(* The work charts: what a query over the two tables of the share ledger   *)
(* answers while the stats writer files minutes, some of them late, and    *)
(* rolls the old ones up into hours.  (ShareLedger has how a share gets    *)
(* into its minute.)  The unit of time is the minute, every minute has     *)
(* work, and a sum of work is the set of minutes that it sums.             *)
(***************************************************************************)
EXTENDS Naturals

CONSTANTS
    HOUR,                   \* minutes in an hour
    FINE_RETENTION,         \* LEDGER_FINE_RETENTION_SECS
    Windows,                \* chart_window: how far back, and how wide a bucket
    MaxMinute               \* bound on time

\* The buckets of chart_window divide the hour or are whole hours.
ASSUME WindowsAssumption ==
    /\ HOUR \in Nat \ {0} /\ FINE_RETENTION \in Nat /\ MaxMinute \in Nat
    /\ \A w \in Windows :
        /\ w.duration \in Nat /\ w.bucket \in Nat \ {0}
        /\ HOUR % w.bucket = 0 \/ w.bucket % HOUR = 0

VARIABLES
    wall,                           \* the minute it is
    share_intervals, hourly,        \* the tables: minutes, and hours with their sums
    late                            \* history: minutes written after their hour was rolled up

ledger_vars == <<wall, share_intervals, hourly, late>>

Floor(t, grid) == (t \div grid) * grid
Before(t, ago) == IF t > ago THEN t - ago ELSE 0

Filed == share_intervals \cup UNION {h.sums : h \in hourly}

HistoryInit == wall = 0 /\ share_intervals = {} /\ hourly = {} /\ late = {}

MinutePasses ==
    /\ wall < MaxMinute
    /\ wall' = wall + 1
    /\ UNCHANGED <<share_intervals, hourly, late>>

\* Mutant: of the hour that the cutoff falls in, the part before it is rolled up.
MutPartialHour(now) == Before(now, FINE_RETENTION)

Cutoff(now) == Floor(Before(now, FINE_RETENTION), HOUR)

\* An hour that has a row is added to.
roll_up_ledger(now, minutes) ==
    LET due == {t \in minutes : t < Cutoff(now)}
        Sums(ts) == {t \in due : Floor(t, HOUR) = ts}
                      \cup UNION {h.sums : h \in {x \in hourly : x.ts = ts}}
    IN  /\ share_intervals' = minutes \ due
        /\ hourly' = {h \in hourly : Sums(h.ts) = h.sums}
                       \cup {[ts |-> Floor(t, HOUR), sums |-> Sums(Floor(t, HOUR))] : t \in due}

\* A minute that has ended is written, after any number of later ones if it
\* was parked; then the rollup, by the written minute's time, which may fail.
WriteMinute(t) ==
    /\ t < wall /\ t \notin Filed
    /\ LET minutes == share_intervals \cup {t}
       IN  \/ roll_up_ledger(t, minutes)
           \/ share_intervals' = minutes /\ UNCHANGED hourly
    /\ late' = IF \E h \in hourly : h.ts = Floor(t, HOUR) THEN late \cup {t} ELSE late
    /\ UNCHANGED wall

HistoryNext == MinutePasses \/ \E t \in 0 .. MaxMinute : WriteMinute(t)

HistorySpec == HistoryInit /\ [][HistoryNext]_ledger_vars

-----------------------------------------------------------------------------
(* The query *)

Largest(S) == CHOOSE m \in S : \A n \in S : n <= m

HourlyBucket(bucket) == Floor(Largest({bucket, HOUR}), HOUR)

\* The rows of both tables on their grids, then those of one bucket together,
\* then the buckets that have elapsed.
get_work_history(since_ts, bucket, now) ==
    LET since == Floor(since_ts, bucket)
        grid == HourlyBucket(bucket)
        rows == {[ts |-> Floor(t, bucket), span |-> bucket, sums |-> {t}]
                    : t \in {x \in share_intervals : x >= since}}
                \cup {[ts |-> Floor(h.ts, grid), span |-> grid, sums |-> h.sums]
                    : h \in {x \in hourly : x.ts >= since}}
        Group(ts) == {r \in rows : r.ts = ts}
        points == {[ts |-> ts, span |-> Largest({r.span : r \in Group(ts)}),
                    sums |-> UNION {r.sums : r \in Group(ts)}] : ts \in {r.ts : r \in rows}}
    IN  {p \in points : p.ts + p.span <= now}

work_json(window) == get_work_history(Before(wall, window.duration), window.bucket, wall)

-----------------------------------------------------------------------------
Within(p) == {t \in Filed : p.ts <= t /\ t < p.ts + p.span}
Disturbed(p, bucket) == bucket < HOUR /\ \E t \in late \cap share_intervals : Floor(t, HOUR) = Floor(p.ts, HOUR)

\* A point of a chart is the work of its span, whole, on either side of the
\* seam between the tables and across it.  Only a late minute, on a chart
\* finer than an hour, has a point inside the point of its hour, until the
\* next rollup.  No work is in two points, ever.  And no filed minute is
\* missing, once the bucket of its work has elapsed and from the first whole
\* hour of the window on.
HistoryIsExact ==
    \A w \in Windows :
        /\ \A p \in work_json(w) : ~Disturbed(p, w.bucket) => p.sums = Within(p)
        /\ \A p, q \in work_json(w) : p # q => p.sums \cap q.sums = {}
        /\ \A t \in Filed :
               LET grid == Largest({w.bucket, HOUR})
               IN  Floor(t, HOUR) >= Before(wall, w.duration) /\ Floor(t, grid) + grid <= wall
                   => \E p \in work_json(w) : t \in p.sums
=============================================================================
