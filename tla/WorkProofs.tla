----------------------------- MODULE WorkProofs -----------------------------
(***************************************************************************)
(* Work, and what it is worth.                                             *)
(*                                                                         *)
(* WorkHistory, for any charts and any retention:                          *)
(*   HistoryIsExact     from HistoryInv: the minutes of an hour have left  *)
(*                      the fine table, and the floors of nested grids     *)
(*                      agree                                              *)
(*                                                                         *)
(* DifficultyControl, for any grace period and any number of shares:       *)
(*   HonestIsBelieved   from FollowsInv: no message to the device is older *)
(*                      than the grace period, so that a device that       *)
(*                      follows has read them all when it is over          *)
(*   OverpayIsBounded   from OverpayInv: each overpaid share is evidence   *)
(*                                                                         *)
(* Targets, for any base, width, number of significant digits and position *)
(* of difficulty 1: the code's 256, 32, 8 and 4 among them, where no model *)
(* checker could try the hashes.                                           *)
(*   TargetsAreExact    long division is division (LongDivision), and the  *)
(*                      mantissa lands at its place (CompactIs)            *)
(*   AssignedWorkCounts comparing digits is comparing numbers              *)
(*                      (OrderIsNumeric), the leading digits are a         *)
(*                      quotient by a power (Significant), and what is     *)
(*                      read off a hash is the quotient by them (Reading)  *)
(* The recursive functions of Targets are what they say by Recursion;      *)
(* induction is over sets (SetInduction), from the least number of a set.  *)
(***************************************************************************)
EXTENDS WorkHistory, DifficultyControl, Targets, WellFoundedInduction, TLAPS

-----------------------------------------------------------------------------
(* The charts *)

(* A time is on the grid of g when it is a multiple of g. *)
Multiple(m, g) == \E k \in Nat : m = k * g

(* Floor is the last point of the grid that is not later. *)
LEMMA FloorProperties ==
    ASSUME NEW t \in Nat, NEW g \in Nat \ {0}
    PROVE  Floor(t, g) \in Nat /\ Multiple(Floor(t, g), g) /\ Floor(t, g) <= t /\ t < Floor(t, g) + g
<1> DEFINE k == t \div g
<1>1. k \in Nat /\ k * g <= t /\ t < k * g + g
  OBVIOUS
<1> HIDE DEF k
<1>2. Floor(t, g) = k * g
  BY DEF Floor, k
<1>3. k * g \in Nat
  BY <1>1
<1> QED
  BY <1>1, <1>2, <1>3 DEF Multiple

(* Two points of a grid are a step apart. *)
LEMMA NextMultiple ==
    ASSUME NEW g \in Nat \ {0}, NEW m \in Nat, NEW n \in Nat, Multiple(m, g), Multiple(n, g), m < n
    PROVE  m + g <= n
<1>1. PICK k \in Nat : m = k * g
  BY Zenon DEF Multiple
<1>2. PICK l \in Nat : n = l * g
  BY Zenon DEF Multiple
<1>3. k + 1 <= l
  BY <1>1, <1>2
<1>4. (k + 1) * g <= l * g
  BY <1>3
<1> QED
  BY <1>1, <1>2, <1>4

(* A coarser grid is part of the finer. *)
LEMMA MultipleTransitive ==
    ASSUME NEW b \in Nat, NEW g \in Nat, NEW m \in Nat, Multiple(g, b), Multiple(m, g)
    PROVE  Multiple(m, b)
<1>1. PICK k \in Nat : m = k * g
  BY Zenon DEF Multiple
<1>2. PICK l \in Nat : g = l * b
  BY Zenon DEF Multiple
<1>3. k * l \in Nat /\ m = (k * l) * b
  BY <1>1, <1>2
<1> QED
  BY <1>3, Zenon DEF Multiple

(* The multiple that a time is at, or next after, is its floor. *)
LEMMA FloorIs ==
    ASSUME NEW g \in Nat \ {0}, NEW t \in Nat, NEW m \in Nat, Multiple(m, g), m <= t, t < m + g
    PROVE  Floor(t, g) = m
<1>1. Floor(t, g) \in Nat /\ Multiple(Floor(t, g), g) /\ Floor(t, g) <= t /\ t < Floor(t, g) + g
  BY FloorProperties
<1>2. ~ (m < Floor(t, g)) /\ ~ (Floor(t, g) < m)
  BY <1>1, NextMultiple
<1> QED
  BY <1>1, <1>2

(* No point of the grid lies between a time and its floor. *)
LEMMA FloorAbove ==
    ASSUME NEW g \in Nat \ {0}, NEW t \in Nat, NEW m \in Nat, Multiple(m, g), m <= t
    PROVE  m <= Floor(t, g)
<1>1. Floor(t, g) \in Nat /\ Multiple(Floor(t, g), g) /\ Floor(t, g) <= t /\ t < Floor(t, g) + g
  BY FloorProperties
<1>2. ~ (Floor(t, g) < m)
  BY <1>1, NextMultiple
<1> QED
  BY <1>1, <1>2

(* A coarser grid of which the finer one's step is a divisor. *)
LEMMA FloorsNest ==
    ASSUME NEW b \in Nat \ {0}, NEW g \in Nat \ {0}, Multiple(g, b), NEW t \in Nat
    PROVE  /\ Floor(t, g) <= Floor(t, b)
           /\ Floor(t, b) + b <= Floor(t, g) + g
           /\ Floor(Floor(t, b), g) = Floor(t, g)
<1>1. Floor(t, g) \in Nat /\ Multiple(Floor(t, g), g) /\ Floor(t, g) <= t /\ t < Floor(t, g) + g
  BY FloorProperties, Zenon
<1>2. Floor(t, b) \in Nat /\ Multiple(Floor(t, b), b) /\ Floor(t, b) <= t /\ t < Floor(t, b) + b
  BY FloorProperties, Zenon
<1>3. Multiple(Floor(t, g), b)
  BY <1>1, MultipleTransitive
<1>4. Floor(t, g) <= Floor(t, b)
  BY <1>1, <1>3, FloorAbove
<1>5. Floor(t, g) + g \in Nat /\ Multiple(Floor(t, g) + g, b)
  <2>1. PICK k \in Nat : Floor(t, g) = k * g
    BY <1>1, Zenon DEF Multiple
  <2>2. Floor(t, g) + g = (k + 1) * g /\ k + 1 \in Nat
    BY <2>1
  <2>3. Multiple(Floor(t, g) + g, g)
    BY <2>2, Zenon DEF Multiple
  <2> QED
    BY <1>1, <2>3, MultipleTransitive
<1>6. Floor(t, b) + b <= Floor(t, g) + g
  BY <1>1, <1>2, <1>5, NextMultiple
<1>7. Floor(Floor(t, b), g) = Floor(t, g)
  BY <1>1, <1>2, <1>4, <1>6, FloorIs
<1> QED
  BY <1>4, <1>6, <1>7

-----------------------------------------------------------------------------
(* Every hour holds minutes of its own that are no longer in the fine table,   *)
(* and a minute filed after its hour was rolled up is one that came late.      *)
HistoryInv ==
    /\ wall \in Nat /\ share_intervals \subseteq Nat
    /\ \A h \in hourly :
        /\ h.ts \in Nat /\ Floor(h.ts, HOUR) = h.ts
        /\ \A t \in h.sums : t \in Nat /\ Floor(t, HOUR) = h.ts /\ t \notin share_intervals
    /\ \A h \in hourly, t \in share_intervals : Floor(t, HOUR) = h.ts => t \in late

(* The roll-up moves minutes to their hour, and takes none twice. *)
LEMMA RollUpKeeps ==
    ASSUME HistoryInv, NEW t \in Nat, t \notin Filed, roll_up_ledger(t, share_intervals \cup {t}),
           late' = IF \E h \in hourly : h.ts = Floor(t, HOUR) THEN late \cup {t} ELSE late,
           wall' = wall
    PROVE  HistoryInv'
<1> DEFINE due == {x \in share_intervals \cup {t} : x < Cutoff(t)}
           Sums(ts) == {x \in due : Floor(x, HOUR) = ts} \cup UNION {h.sums : h \in {x \in hourly : x.ts = ts}}
<1>1. /\ share_intervals' = (share_intervals \cup {t}) \ due
      /\ hourly' = {h \in hourly : Sums(h.ts) = h.sums}
                       \cup {[ts |-> Floor(x, HOUR), sums |-> Sums(Floor(x, HOUR))] : x \in due}
  BY Zenon DEF roll_up_ledger
<1>2. HOUR \in Nat \ {0} /\ FINE_RETENTION \in Nat
  BY WindowsAssumption, Zenon
<1>3. Cutoff(t) \in Nat /\ Multiple(Cutoff(t), HOUR)
  <2>1. Before(t, FINE_RETENTION) \in Nat
    BY <1>2 DEF Before
  <2> QED
    BY <1>2, <2>1, FloorProperties DEF Cutoff
<1>4. share_intervals' \subseteq Nat /\ due \subseteq Nat
  BY <1>1, Zenon DEF HistoryInv
<1>5. \A x \in Nat : /\ Floor(x, HOUR) \in Nat /\ Floor(Floor(x, HOUR), HOUR) = Floor(x, HOUR)
                     /\ x < Cutoff(t) => Floor(x, HOUR) < Cutoff(t)
                     /\ ~(x < Cutoff(t)) => ~(Floor(x, HOUR) < Cutoff(t))
  <2> TAKE x \in Nat
  <2>1. Floor(x, HOUR) \in Nat /\ Multiple(Floor(x, HOUR), HOUR) /\ Floor(x, HOUR) <= x
    BY <1>2, FloorProperties
  <2>2. Floor(x, HOUR) < Floor(x, HOUR) + HOUR
    BY <1>2, <2>1
  <2>3. Floor(Floor(x, HOUR), HOUR) = Floor(x, HOUR)
    BY <1>2, <2>1, <2>2, FloorIs
  <2>4. ~(x < Cutoff(t)) => Cutoff(t) <= Floor(x, HOUR)
    BY <1>2, <1>3, FloorAbove
  <2> QED
    BY <1>3, <2>1, <2>3, <2>4
<1>6. \A ts : \A x \in Sums(ts) : x \in Nat /\ Floor(x, HOUR) = ts /\ x \notin share_intervals'
  <2> TAKE ts
  <2> SUFFICES ASSUME NEW x \in Sums(ts) PROVE x \in Nat /\ Floor(x, HOUR) = ts /\ x \notin share_intervals'
    OBVIOUS
  <2>1. CASE x \in due /\ Floor(x, HOUR) = ts
    BY <1>1, <1>4, <2>1
  <2>2. CASE \E h \in hourly : h.ts = ts /\ x \in h.sums
    BY <1>1, <2>2 DEF HistoryInv, Filed
  <2> QED
    BY <2>1, <2>2
<1> HIDE DEF Sums
<1>7. \A h \in hourly' : \/ h \in hourly
                         \/ \E x \in due : h.ts = Floor(x, HOUR) /\ h.sums = Sums(h.ts)
  BY <1>1
<1>8. \A h \in hourly : \A x \in h.sums : x \notin share_intervals'
  BY <1>1 DEF HistoryInv, Filed
<1>9. ASSUME NEW h \in hourly'
      PROVE  /\ h.ts \in Nat /\ Floor(h.ts, HOUR) = h.ts
             /\ \A x \in h.sums : x \in Nat /\ Floor(x, HOUR) = h.ts /\ x \notin share_intervals'
  <2>1. CASE h \in hourly
    BY <1>8, <2>1, Zenon DEF HistoryInv
  <2>2. CASE \E x \in due : h.ts = Floor(x, HOUR) /\ h.sums = Sums(h.ts)
    <3>1. PICK x \in due : h.ts = Floor(x, HOUR) /\ h.sums = Sums(h.ts)
      BY <2>2, Zenon
    <3>2. h.ts \in Nat /\ Floor(h.ts, HOUR) = h.ts
      BY <1>4, <1>5, <3>1
    <3> QED
      BY <1>6, <3>1, <3>2
  <2> QED
    BY <1>7, <2>1, <2>2, Zenon
<1>10. ASSUME NEW h \in hourly', NEW s \in share_intervals', Floor(s, HOUR) = h.ts
       PROVE  s \in late'
  <2>1. CASE h \in hourly
    BY <1>1, <1>10, <2>1 DEF HistoryInv
  <2>2. ASSUME NEW x \in due, h.ts = Floor(x, HOUR) PROVE FALSE
    <3>1. s \in Nat /\ ~(s < Cutoff(t)) /\ x \in Nat /\ x < Cutoff(t)
      BY <1>1, <1>4, Zenon
    <3> QED
      BY <1>5, <1>10, <2>2, <3>1, Zenon
  <2> QED
    BY <1>7, <2>1, <2>2, Zenon
<1> QED
  BY <1>4, <1>9, <1>10, Zenon DEF HistoryInv

(* It holds of empty tables. *)
LEMMA HistoryInitInv == HistoryInit => HistoryInv
BY DEF HistoryInit, HistoryInv

(* Every step keeps it. *)
LEMMA HistoryStep == HistoryInv /\ [HistoryNext]_ledger_vars => HistoryInv'
<1> SUFFICES ASSUME HistoryInv, [HistoryNext]_ledger_vars PROVE HistoryInv'
  BY Zenon
<1>1. CASE MinutePasses
  <2>1. wall' \in Nat
    BY <1>1 DEF MinutePasses, HistoryInv
  <2> QED
    BY <1>1, <2>1, Zenon DEF MinutePasses, HistoryInv
<1>2. ASSUME NEW t \in 0 .. MaxMinute, WriteMinute(t) PROVE HistoryInv'
  <2>1. t \in Nat /\ t \notin Filed /\ wall' = wall
        /\ late' = IF \E h \in hourly : h.ts = Floor(t, HOUR) THEN late \cup {t} ELSE late
    BY <1>2, WindowsAssumption DEF WriteMinute
  <2>2. CASE roll_up_ledger(t, share_intervals \cup {t})
    BY <2>1, <2>2, RollUpKeeps, Zenon
  <2>3. CASE share_intervals' = share_intervals \cup {t} /\ hourly' = hourly
    <3>1. \A h \in hourly : t \notin h.sums
      BY <2>1, Zenon DEF Filed
    <3>2. share_intervals' \subseteq Nat
      BY <2>1, <2>3 DEF HistoryInv
    <3>3. \A h \in hourly, x \in share_intervals' : Floor(x, HOUR) = h.ts => x \in late'
      BY <2>1, <2>3 DEF HistoryInv
    <3> QED
      BY <2>1, <2>3, <3>1, <3>2, <3>3 DEF HistoryInv
  <2> QED
    BY <1>2, <2>2, <2>3, Zenon DEF WriteMinute
<1>3. CASE UNCHANGED ledger_vars
  BY <1>3, Zenon DEF ledger_vars, HistoryInv
<1> QED
  BY <1>1, <1>2, <1>3, Zenon DEF HistoryNext

-----------------------------------------------------------------------------
(* The larger of two numbers. *)
LEMMA LargestIs ==
    ASSUME NEW S \in SUBSET Int, NEW m \in S, \A y \in S : y <= m
    PROVE  Largest(S) = m
<1>1. \A x \in S : (\A y \in S : x >= y) <=> x = m
  OBVIOUS
<1> QED
  BY <1>1, Zenon DEF Largest

(* The grids of a window: its buckets, and those of its hours. *)
LEMMA Grids ==
    ASSUME NEW w \in Windows
    PROVE  /\ w.bucket \in Nat \ {0} /\ HourlyBucket(w.bucket) \in Nat \ {0}
           /\ Multiple(HourlyBucket(w.bucket), w.bucket) /\ Multiple(HourlyBucket(w.bucket), HOUR)
           /\ HourlyBucket(w.bucket) = Largest({w.bucket, HOUR})
           /\ HourlyBucket(w.bucket) = IF w.bucket < HOUR THEN HOUR ELSE w.bucket
<1> DEFINE b == w.bucket
<1>1. b \in Nat \ {0} /\ HOUR \in Nat \ {0} /\ (HOUR % b = 0 \/ b % HOUR = 0)
  BY WindowsAssumption, Zenon
<1> HIDE DEF b
<1>2. \A m, n \in Nat \ {0} : m % n = 0 => Multiple(m, n) /\ n <= m
  <2> SUFFICES ASSUME NEW m \in Nat \ {0}, NEW n \in Nat \ {0}, m % n = 0 PROVE Multiple(m, n) /\ n <= m
    BY Zenon
  <2>1. m \div n \in Nat /\ m = (m \div n) * n
    OBVIOUS
  <2>2. Multiple(m, n)
    BY <2>1, Zenon DEF Multiple
  <2> QED
    BY <2>2
<1>3. \A n \in Nat : Multiple(n, n)
  <2>1. \A n \in Nat : n = 1 * n /\ 1 \in Nat
    OBVIOUS
  <2> QED
    BY <2>1, Zenon DEF Multiple
<1>4. CASE b < HOUR
  <2>1. Multiple(HOUR, b)
    BY <1>1, <1>2, <1>4
  <2>2. Largest({b, HOUR}) = HOUR
    BY <1>1, <1>4, LargestIs
  <2>3. Floor(HOUR, HOUR) = HOUR
    BY <1>1, <1>3, FloorIs
  <2> QED
    BY <1>1, <1>3, <1>4, <2>1, <2>2, <2>3 DEF HourlyBucket, b
<1>5. CASE ~(b < HOUR)
  <2>1. Multiple(b, HOUR)
    BY <1>1, <1>2, <1>3, <1>5
  <2>2. Largest({b, HOUR}) = b
    BY <1>1, <1>5, LargestIs
  <2>3. Floor(b, HOUR) = b
    BY <1>1, <2>1, FloorIs
  <2> QED
    BY <1>1, <1>3, <1>5, <2>1, <2>2, <2>3 DEF HourlyBucket, b
<1> QED
  BY <1>4, <1>5

-----------------------------------------------------------------------------
\* What a chart draws at ts: the rows of the two tables that fall there.
Since(w) == Floor(Before(wall, w.duration), w.bucket)
MinutesAt(w, ts) == {t \in share_intervals : t >= Since(w) /\ Floor(t, w.bucket) = ts}
HoursAt(w, ts) == {h \in hourly : h.ts >= Since(w) /\ Floor(h.ts, HourlyBucket(w.bucket)) = ts}
SpanAt(w, ts) == IF HoursAt(w, ts) = {} THEN w.bucket ELSE HourlyBucket(w.bucket)
SumsAt(w, ts) == MinutesAt(w, ts) \cup UNION {h.sums : h \in HoursAt(w, ts)}
Drawn(w, ts) == (MinutesAt(w, ts) # {} \/ HoursAt(w, ts) # {}) /\ ts + SpanAt(w, ts) <= wall

(* work_json draws one point for each ts that has rows and is over. *)
LEMMA Points ==
    ASSUME HistoryInv, NEW w \in Windows
    PROVE  work_json(w) = {[ts |-> ts, span |-> SpanAt(w, ts), sums |-> SumsAt(w, ts)]
                             : ts \in {x \in Nat : Drawn(w, x)}}
<1> DEFINE b == w.bucket
           G == HourlyBucket(b)
           M(t) == [ts |-> Floor(t, b), span |-> b, sums |-> {t}]
           H(h) == [ts |-> Floor(h.ts, G), span |-> G, sums |-> h.sums]
           rows == {M(t) : t \in {x \in share_intervals : x >= Since(w)}}
                     \cup {H(h) : h \in {x \in hourly : x.ts >= Since(w)}}
           Group(ts) == {r \in rows : r.ts = ts}
           Span(ts) == Largest({r.span : r \in Group(ts)})
           Point(ts) == [ts |-> ts, span |-> Span(ts), sums |-> UNION {r.sums : r \in Group(ts)}]
<1>1. work_json(w) = {p \in {Point(ts) : ts \in {r.ts : r \in rows}} : p.ts + p.span <= wall}
  BY Zenon DEF work_json, get_work_history, Since
<1>2. /\ \A t : M(t).ts = Floor(t, b) /\ M(t).span = b /\ M(t).sums = {t}
      /\ \A h : H(h).ts = Floor(h.ts, G) /\ H(h).span = G /\ H(h).sums = h.sums
  BY Zenon
<1>3. b \in Nat \ {0} /\ G \in Nat \ {0} /\ b <= G
  <2>1. HOUR \in Nat
    BY WindowsAssumption, Zenon
  <2>2. b \in Nat \ {0} /\ G \in Nat \ {0} /\ G = IF b < HOUR THEN HOUR ELSE b
    BY Grids, Zenon
  <2> HIDE DEF b, G
  <2> QED
    BY <2>1, <2>2
<1>4. \A ts : Point(ts).ts = ts /\ Point(ts).span = Span(ts)
  BY Zenon
<1> HIDE DEF M, H
<1>5. ASSUME NEW ts PROVE Group(ts) = {M(t) : t \in MinutesAt(w, ts)} \cup {H(h) : h \in HoursAt(w, ts)}
  <2>1. \A t : t \in MinutesAt(w, ts) <=> t \in share_intervals /\ t >= Since(w) /\ M(t).ts = ts
    BY <1>2, Zenon DEF MinutesAt
  <2>2. \A h : h \in HoursAt(w, ts) <=> h \in hourly /\ h.ts >= Since(w) /\ H(h).ts = ts
    BY <1>2, Zenon DEF HoursAt
  <2> QED
    BY <2>1, <2>2, Zenon
<1>6. \A r \in rows : r.ts \in Nat
  <2>1. \A t \in share_intervals : M(t).ts \in Nat
    BY <1>2, <1>3, FloorProperties DEF HistoryInv
  <2>2. \A h \in hourly : H(h).ts \in Nat
    BY <1>2, <1>3, FloorProperties DEF HistoryInv
  <2> QED
    BY <2>1, <2>2, Zenon
<1>7. ASSUME NEW x PROVE x \in {r.ts : r \in rows} <=> x \in Nat /\ Group(x) # {}
  <2> HIDE DEF rows
  <2>1. Group(x) # {} <=> \E r \in rows : x = r.ts
    BY Zenon
  <2>2. x \in {r.ts : r \in rows} <=> \E r \in rows : x = r.ts
    BY Zenon
  <2>3. (\E r \in rows : x = r.ts) => x \in Nat
    BY <1>6, Zenon
  <2> HIDE DEF Group
  <2> QED
    BY <2>1, <2>2, <2>3
<1> HIDE DEF rows, Group
<1>8. ASSUME NEW ts PROVE UNION {r.sums : r \in Group(ts)} = SumsAt(w, ts)
  <2>1. ASSUME NEW x PROVE (\E r \in Group(ts) : x \in r.sums)
                             <=> x \in MinutesAt(w, ts) \/ \E h \in HoursAt(w, ts) : x \in h.sums
    <3>1. (\E r \in Group(ts) : x \in r.sums) <=> \/ \E t \in MinutesAt(w, ts) : x \in M(t).sums
                                                  \/ \E h \in HoursAt(w, ts) : x \in H(h).sums
      BY <1>5, Zenon
    <3> QED
      BY <1>2, <3>1, Zenon
  <2> QED
    BY <2>1, Zenon DEF SumsAt
<1>9. ASSUME NEW ts PROVE Group(ts) # {} <=> (MinutesAt(w, ts) # {} \/ HoursAt(w, ts) # {})
  BY <1>5, Zenon
<1>10. ASSUME NEW ts, Group(ts) # {} PROVE Span(ts) = SpanAt(w, ts)
  <2> DEFINE S == {r.span : r \in Group(ts)}
  <2>1. \A x : x \in S <=> (x = b /\ MinutesAt(w, ts) # {}) \/ (x = G /\ HoursAt(w, ts) # {})
    <3>1. \A x : x \in S <=> (\E t \in MinutesAt(w, ts) : x = M(t).span) \/ (\E h \in HoursAt(w, ts) : x = H(h).span)
      BY <1>5, Zenon
    <3> QED
      BY <1>2, <3>1, Zenon
  <2>2. Span(ts) = Largest(S)
    BY Zenon
  <2> HIDE DEF S, G, b, Span
  <2>3. CASE HoursAt(w, ts) # {}
    <3>1. G \in S /\ S \subseteq Int /\ \A y \in S : y <= G
      BY <1>3, <2>1, <2>3
    <3>2. Largest(S) = G
      BY <3>1, LargestIs, Zenon
    <3> QED
      BY <2>2, <2>3, <3>2, Zenon DEF SpanAt, G, b
  <2>4. CASE HoursAt(w, ts) = {}
    <3>1. b \in S /\ S \subseteq Int /\ \A y \in S : y <= b
      BY <1>3, <1>9, <1>10, <2>1, <2>4
    <3>2. Largest(S) = b
      BY <3>1, LargestIs, Zenon
    <3> QED
      BY <2>2, <2>4, <3>2, Zenon DEF SpanAt, b
  <2> QED
    BY <2>3, <2>4, Zenon
<1> HIDE DEF Span
<1>11. \A x \in Nat : (Group(x) # {} /\ x + Span(x) <= wall) <=> Drawn(w, x)
  BY <1>9, <1>10, Zenon DEF Drawn
<1>12. \A x \in Nat : Drawn(w, x) => Point(x) = [ts |-> x, span |-> SpanAt(w, x), sums |-> SumsAt(w, x)]
  BY <1>8, <1>9, <1>10, Zenon DEF Drawn
<1> HIDE DEF Point
<1>13. work_json(w) = {Point(ts) : ts \in {x \in Nat : Drawn(w, x)}}
  <2>1. \A p : p \in work_json(w) <=> \E x \in Nat : Group(x) # {} /\ p = Point(x) /\ x + Span(x) <= wall
    BY <1>1, <1>4, <1>7, Zenon
  <2> QED
    BY <1>11, <2>1, Zenon
<1> QED
  BY <1>12, <1>13, Zenon

-----------------------------------------------------------------------------
(* The rows that fall at ts, on their grids. *)
LEMMA RowsOnGrid ==
    ASSUME HistoryInv, NEW w \in Windows, NEW ts \in Nat
    PROVE  /\ Since(w) \in Nat /\ Since(w) <= Before(wall, w.duration) /\ Multiple(Since(w), w.bucket)
           /\ \A t \in MinutesAt(w, ts) : /\ t \in Nat /\ t \in share_intervals /\ ts >= Since(w)
                                          /\ Floor(t, w.bucket) = ts /\ Multiple(ts, w.bucket)
           /\ \A h \in HoursAt(w, ts) :
                /\ h \in hourly /\ h.ts \in Nat /\ ts >= Since(w)
                /\ Floor(h.ts, HourlyBucket(w.bucket)) = ts /\ Multiple(ts, HourlyBucket(w.bucket))
                /\ \A t \in h.sums : /\ t \in Nat /\ Floor(t, HOUR) = h.ts /\ t \notin share_intervals
                                     /\ Floor(t, HourlyBucket(w.bucket)) = ts
<1> DEFINE b == w.bucket
           G == HourlyBucket(b)
           s == Since(w)
<1>1. /\ HOUR \in Nat \ {0} /\ b \in Nat \ {0} /\ G \in Nat \ {0} /\ w.duration \in Nat
      /\ Multiple(G, b) /\ Multiple(G, HOUR) /\ G = IF b < HOUR THEN HOUR ELSE b
  BY Grids, WindowsAssumption, Zenon
<1>2. Before(wall, w.duration) \in Nat
  BY <1>1 DEF HistoryInv, Before
<1>3. s \in Nat /\ s <= Before(wall, w.duration) /\ Multiple(s, b)
  BY <1>1, <1>2, FloorProperties, Zenon DEF Since
<1> HIDE DEF b, G, s
<1>4. ASSUME NEW t \in MinutesAt(w, ts)
      PROVE  t \in Nat /\ t \in share_intervals /\ ts >= s /\ Floor(t, b) = ts /\ Multiple(ts, b)
  <2>1. t \in share_intervals /\ t >= s /\ Floor(t, b) = ts
    BY Zenon DEF MinutesAt, b, s
  <2>2. t \in Nat
    BY <2>1, Zenon DEF HistoryInv
  <2>3. s <= t
    BY <1>3, <2>1, <2>2
  <2>4. s <= Floor(t, b) /\ Multiple(Floor(t, b), b)
    BY <1>1, <1>3, <2>2, <2>3, FloorAbove, FloorProperties, Zenon
  <2> QED
    BY <1>3, <2>1, <2>2, <2>4
<1>5. ASSUME NEW h \in HoursAt(w, ts)
      PROVE  /\ h \in hourly /\ h.ts \in Nat /\ ts >= s /\ Floor(h.ts, G) = ts /\ Multiple(ts, G)
             /\ \A t \in h.sums : /\ t \in Nat /\ Floor(t, HOUR) = h.ts /\ t \notin share_intervals
                                  /\ Floor(t, G) = ts
  <2>1. h \in hourly /\ h.ts >= s /\ Floor(h.ts, G) = ts
    BY Zenon DEF HoursAt, G, b, s
  <2>2. /\ h.ts \in Nat /\ Floor(h.ts, HOUR) = h.ts
        /\ \A t \in h.sums : t \in Nat /\ Floor(t, HOUR) = h.ts /\ t \notin share_intervals
    BY <2>1, Zenon DEF HistoryInv
  <2>3. s <= h.ts
    BY <1>3, <2>1, <2>2
  <2>4. Multiple(ts, G)
    BY <1>1, <2>1, <2>2, FloorProperties, Zenon
  <2>5. s <= Floor(h.ts, G)
    <3>1. CASE b < HOUR
      BY <1>1, <2>2, <2>3, <3>1
    <3>2. CASE ~(b < HOUR)
      BY <1>1, <1>3, <2>2, <2>3, <3>2, FloorAbove, Zenon
    <3> QED
      BY <3>1, <3>2, Zenon
  <2>6. ASSUME NEW t \in h.sums PROVE Floor(t, G) = ts
    <3>1. t \in Nat /\ Floor(t, HOUR) = h.ts
      BY <2>2, Zenon
    <3>2. Floor(Floor(t, HOUR), G) = Floor(t, G)
      BY <1>1, <3>1, FloorsNest, Zenon
    <3> QED
      BY <2>1, <3>1, <3>2, Zenon
  <2> QED
    BY <1>3, <2>1, <2>2, <2>4, <2>5, <2>6
<1> QED
  BY <1>3, <1>4, <1>5, Zenon DEF b, G, s

(* No filed minute is in two points. *)
LEMMA NoneTwice ==
    ASSUME HistoryInv, NEW w \in Windows, NEW x \in Nat, NEW y \in Nat,
           NEW t, t \in SumsAt(w, x), t \in SumsAt(w, y)
    PROVE  x = y
<1>1. CASE t \in share_intervals
  <2>1. \A z \in {x, y} : t \in MinutesAt(w, z)
    <3>1. \A z \in {x, y} : \A h \in HoursAt(w, z) : t \notin h.sums
      BY <1>1, RowsOnGrid, Zenon
    <3> QED
      BY <3>1, Zenon DEF SumsAt
  <2> QED
    BY <2>1, Zenon DEF MinutesAt
<1>2. CASE t \notin share_intervals
  <2>1. ASSUME NEW z \in Nat, t \in SumsAt(w, z) PROVE Floor(t, HourlyBucket(w.bucket)) = z
    <3>1. PICK h \in HoursAt(w, z) : t \in h.sums
      BY <1>2, <2>1, Zenon DEF SumsAt, MinutesAt
    <3> QED
      BY <3>1, RowsOnGrid
  <2> QED
    BY <2>1, Zenon
<1> QED
  BY <1>1, <1>2, Zenon

(* A filed minute whose bucket has elapsed is drawn. *)
LEMMA NoneMissing ==
    ASSUME HistoryInv, NEW w \in Windows, NEW t \in Filed,
           Floor(t, HOUR) >= Before(wall, w.duration),
           Floor(t, HourlyBucket(w.bucket)) + HourlyBucket(w.bucket) <= wall
    PROVE  \E ts \in Nat : Drawn(w, ts) /\ t \in SumsAt(w, ts)
<1> DEFINE b == w.bucket
           G == HourlyBucket(b)
           s == Since(w)
<1>1. /\ HOUR \in Nat \ {0} /\ b \in Nat \ {0} /\ G \in Nat \ {0} /\ w.duration \in Nat
      /\ Multiple(G, b) /\ Multiple(G, HOUR) /\ G = IF b < HOUR THEN HOUR ELSE b
  BY Grids, WindowsAssumption, Zenon
<1>2. s \in Nat /\ s <= Before(wall, w.duration) /\ wall \in Nat /\ Before(wall, w.duration) \in Nat
  <2>1. wall \in Nat
    BY Zenon DEF HistoryInv
  <2>2. Before(wall, w.duration) \in Nat
    BY <1>1, <2>1 DEF Before
  <2> QED
    BY <2>1, <2>2, RowsOnGrid, Zenon
<1>3. t \in Nat
  BY Zenon DEF HistoryInv, Filed
<1>4. /\ Floor(t, HOUR) \in Nat /\ Floor(t, HOUR) <= t
      /\ Floor(t, b) \in Nat /\ Floor(t, b) <= t /\ t < Floor(t, b) + b
      /\ Floor(t, G) \in Nat
  BY <1>1, <1>3, FloorProperties, Zenon
<1>5. Floor(t, b) + b <= Floor(t, G) + G
  BY <1>1, <1>3, FloorsNest, Zenon
<1>6. Floor(t, G) + G <= wall /\ Floor(t, HOUR) >= Before(wall, w.duration)
  BY Zenon
<1> HIDE DEF b, G, s
<1>7. t >= s /\ Floor(t, HOUR) >= s
  BY <1>2, <1>3, <1>4, <1>6
<1>8. CASE t \in share_intervals
  <2> DEFINE ts == Floor(t, b)
  <2>1. t \in MinutesAt(w, ts)
    BY <1>7, <1>8, Zenon DEF MinutesAt, b, s
  <2>2. HoursAt(w, ts) = {} => ts + SpanAt(w, ts) <= wall
    <3>1. ts + b <= wall
      BY <1>1, <1>2, <1>4, <1>5, <1>6
    <3> QED
      BY <3>1, Zenon DEF SpanAt, b
  <2>3. HoursAt(w, ts) # {} => ts + SpanAt(w, ts) <= wall
    <3> SUFFICES ASSUME HoursAt(w, ts) # {} PROVE ts + SpanAt(w, ts) <= wall
      BY Zenon
    <3>1. Multiple(ts, G)
      BY <1>4, RowsOnGrid, Zenon DEF b, G
    <3>2. b <= G
      BY <1>1
    <3>3. ts <= t /\ t < ts + G
      BY <1>1, <1>3, <1>4, <3>2
    <3>4. Floor(t, G) = ts
      BY <1>1, <1>3, <1>4, <3>1, <3>3, FloorIs, Zenon
    <3> QED
      BY <1>6, <3>4, Zenon DEF SpanAt, b, G
  <2> QED
    BY <1>4, <2>1, <2>2, <2>3, Zenon DEF Drawn, SumsAt
<1>9. CASE t \notin share_intervals
  <2>1. PICK h \in hourly : t \in h.sums
    BY <1>9, Zenon DEF Filed
  <2>2. h.ts = Floor(t, HOUR)
    BY <2>1, Zenon DEF HistoryInv
  <2>3. Floor(h.ts, G) = Floor(t, G)
    <3>1. Floor(Floor(t, HOUR), G) = Floor(t, G)
      BY <1>1, <1>3, FloorsNest, Zenon
    <3> QED
      BY <2>2, <3>1, Zenon
  <2>4. h \in HoursAt(w, Floor(t, G))
    BY <1>7, <2>2, <2>3, Zenon DEF HoursAt, b, G, s
  <2>5. Floor(t, G) + SpanAt(w, Floor(t, G)) <= wall
    BY <1>6, <2>4, Zenon DEF SpanAt, b, G
  <2> QED
    BY <1>4, <2>1, <2>4, <2>5, Zenon DEF Drawn, SumsAt
<1> QED
  BY <1>8, <1>9, Zenon

(* A point that no late minute is inside is the work of its span. *)
LEMMA WholeSpan ==
    ASSUME HistoryInv, NEW w \in Windows, NEW ts \in Nat, Drawn(w, ts),
           NEW p, p.ts = ts, p.span = SpanAt(w, ts), ~Disturbed(p, w.bucket)
    PROVE  SumsAt(w, ts) = Within(p)
<1> DEFINE b == w.bucket
           G == HourlyBucket(b)
           s == Since(w)
<1>1. /\ HOUR \in Nat \ {0} /\ b \in Nat \ {0} /\ G \in Nat \ {0}
      /\ Multiple(G, b) /\ Multiple(G, HOUR) /\ G = IF b < HOUR THEN HOUR ELSE b
  BY Grids, WindowsAssumption, Zenon
<1>2. /\ s \in Nat /\ Multiple(s, b) /\ ts >= s
      /\ \A t \in MinutesAt(w, ts) : t \in Nat /\ t \in share_intervals /\ Floor(t, b) = ts
      /\ \A h \in HoursAt(w, ts) : h \in hourly /\ h.ts \in Nat /\ Floor(h.ts, G) = ts
      /\ HoursAt(w, ts) # {} => Multiple(ts, G)
      /\ MinutesAt(w, ts) # {} => Multiple(ts, b)
  <2>1. s \in Nat /\ Multiple(s, b)
    BY RowsOnGrid, Zenon
  <2>2. ASSUME NEW t \in MinutesAt(w, ts)
        PROVE  t \in Nat /\ t \in share_intervals /\ Floor(t, b) = ts /\ ts >= s /\ Multiple(ts, b)
    BY RowsOnGrid
  <2>3. ASSUME NEW h \in HoursAt(w, ts)
        PROVE  h \in hourly /\ h.ts \in Nat /\ Floor(h.ts, G) = ts /\ ts >= s /\ Multiple(ts, G)
    BY RowsOnGrid
  <2>4. MinutesAt(w, ts) # {} \/ HoursAt(w, ts) # {}
    BY Zenon DEF Drawn
  <2> HIDE DEF b, G, s
  <2> QED
    BY <2>1, <2>2, <2>3, <2>4, Zenon
<1>3. \A t \in Filed : t \in Nat
  BY Zenon DEF HistoryInv, Filed
<1>4. \A t : t \in Within(p) <=> t \in Filed /\ ts <= t /\ t < ts + SpanAt(w, ts)
  BY Zenon DEF Within
<1>5. \A t : t \in SumsAt(w, ts) <=> t \in MinutesAt(w, ts) \/ \E h \in HoursAt(w, ts) : t \in h.sums
  BY Zenon DEF SumsAt
<1>6. \A t \in SumsAt(w, ts) : t \in Filed
  BY <1>2, <1>5, Zenon DEF Filed
<1>7. \A t : (t \in share_intervals => t \in MinutesAt(w, ts) <=> t >= s /\ Floor(t, b) = ts)
  BY Zenon DEF MinutesAt
<1>8. \A h \in hourly : h \in HoursAt(w, ts) <=> h.ts >= s /\ Floor(h.ts, G) = ts
  BY Zenon DEF HoursAt
<1>9. SpanAt(w, ts) = IF HoursAt(w, ts) = {} THEN b ELSE G
  BY Zenon DEF SpanAt
<1>10. b < HOUR => \A t \in late \cap share_intervals : Floor(t, HOUR) # Floor(ts, HOUR)
  BY Zenon DEF Disturbed
<1>11. \A h \in hourly, t \in share_intervals : Floor(t, HOUR) = h.ts => t \in late
  BY Zenon DEF HistoryInv
<1>12. \A h \in hourly : \A t \in h.sums : t \in Nat /\ Floor(t, HOUR) = h.ts /\ t \notin share_intervals
  BY Zenon DEF HistoryInv
<1>13. \A h \in hourly : h.ts \in Nat /\ Floor(h.ts, HOUR) = h.ts
  BY Zenon DEF HistoryInv
<1>14. MinutesAt(w, ts) # {} \/ HoursAt(w, ts) # {}
  BY Zenon DEF Drawn
<1> HIDE DEF b, G, s
<1>15. ASSUME NEW g \in Nat \ {0}, Multiple(ts, g), NEW t \in Nat
       PROVE  (ts <= t /\ t < ts + g) <=> Floor(t, g) = ts
  <2>1. Floor(t, g) \in Nat /\ Floor(t, g) <= t /\ t < Floor(t, g) + g
    BY FloorProperties, Zenon
  <2> QED
    BY <1>15, <2>1, FloorIs, Zenon
<1>16. CASE ~(b < HOUR)
  <2>1. G = b /\ Multiple(ts, b) /\ SpanAt(w, ts) = b /\ Multiple(b, HOUR)
    BY <1>1, <1>2, <1>9, <1>14, <1>16, Zenon
  <2>2. ASSUME NEW t \in Filed PROVE t \in SumsAt(w, ts) <=> Floor(t, b) = ts
    <3>1. t \in Nat /\ Floor(t, HOUR) \in Nat
      BY <1>1, <1>3, FloorProperties, Zenon
    <3>2. Floor(Floor(t, HOUR), b) = Floor(t, b) /\ Floor(t, b) <= Floor(t, HOUR)
      BY <1>1, <2>1, <3>1, FloorsNest
    <3>3. Floor(t, HOUR) <= t
      BY <1>1, <3>1, FloorProperties, Zenon
    <3>4. Floor(t, b) = ts => t >= s /\ Floor(t, HOUR) >= s
      BY <1>2, <3>1, <3>2, <3>3
    <3>5. CASE t \in share_intervals
      <4>1. \A h \in HoursAt(w, ts) : t \notin h.sums
        BY <1>2, <1>12, <3>5, Zenon
      <4>2. t \in SumsAt(w, ts) <=> t \in MinutesAt(w, ts)
        BY <1>5, <4>1, Zenon
      <4> QED
        BY <1>7, <3>4, <3>5, <4>2, Zenon
    <3>6. CASE t \notin share_intervals
      <4>1. PICK h \in hourly : t \in h.sums
        BY <3>6, Zenon DEF Filed
      <4>2. h.ts = Floor(t, HOUR)
        BY <1>12, <4>1, Zenon
      <4>3. Floor(t, b) = ts => h \in HoursAt(w, ts)
        BY <1>8, <2>1, <3>2, <3>4, <4>2, Zenon
      <4>4. t \in SumsAt(w, ts) => Floor(t, b) = ts
        <5> SUFFICES ASSUME t \in SumsAt(w, ts) PROVE Floor(t, b) = ts
          BY Zenon
        <5>1. PICK g \in HoursAt(w, ts) : t \in g.sums
          BY <1>2, <1>5, <3>6, Zenon
        <5>2. g \in hourly /\ Floor(g.ts, G) = ts
          BY <1>2, Zenon
        <5>3. Floor(t, HOUR) = g.ts
          BY <1>12, <5>1, <5>2, Zenon
        <5> QED
          BY <2>1, <3>2, <5>2, <5>3, Zenon
      <4> QED
        BY <1>5, <4>1, <4>3, <4>4, Zenon
    <3> QED
      BY <3>5, <3>6, Zenon
  <2> QED
    BY <1>1, <1>3, <1>4, <1>6, <1>15, <2>1, <2>2, Zenon
<1>17. CASE b < HOUR /\ HoursAt(w, ts) # {}
  <2>1. G = HOUR /\ Multiple(ts, HOUR) /\ SpanAt(w, ts) = HOUR /\ Multiple(HOUR, b)
    BY <1>1, <1>2, <1>9, <1>17, Zenon
  <2>2. PICK row \in hourly : row.ts = ts /\ row \in HoursAt(w, ts)
    BY <1>2, <1>13, <1>17, <2>1, Zenon
  <2>3. Floor(ts, HOUR) = ts
    BY <1>13, <2>2, Zenon
  <2>4. \A t \in share_intervals : Floor(t, HOUR) # ts
    BY <1>10, <1>11, <1>17, <2>2, <2>3, Zenon
  <2>5. MinutesAt(w, ts) = {}
    <3> SUFFICES ASSUME NEW t \in MinutesAt(w, ts) PROVE FALSE
      BY Zenon
    <3>1. t \in Nat /\ t \in share_intervals /\ Floor(t, b) = ts
      BY <1>2, Zenon
    <3>2. Floor(Floor(t, b), HOUR) = Floor(t, HOUR)
      BY <1>1, <2>1, <3>1, FloorsNest, Zenon
    <3> QED
      BY <2>3, <2>4, <3>1, <3>2, Zenon
  <2>6. ASSUME NEW t \in Filed PROVE t \in SumsAt(w, ts) <=> Floor(t, HOUR) = ts
    <3>1. CASE t \in share_intervals
      BY <1>2, <1>5, <1>12, <2>4, <2>5, <3>1, Zenon
    <3>2. CASE t \notin share_intervals
      <4>1. PICK h \in hourly : t \in h.sums
        BY <3>2, Zenon DEF Filed
      <4>2. h.ts = Floor(t, HOUR)
        BY <1>12, <4>1, Zenon
      <4>3. Floor(t, HOUR) = ts => h \in HoursAt(w, ts)
        <5>1. row.ts >= s
          BY <1>2, <2>2
        <5> QED
          BY <1>8, <2>1, <2>2, <2>3, <4>2, <5>1, Zenon
      <4>4. t \in SumsAt(w, ts) => Floor(t, HOUR) = ts
        <5> SUFFICES ASSUME t \in SumsAt(w, ts) PROVE Floor(t, HOUR) = ts
          BY Zenon
        <5>1. PICK g \in HoursAt(w, ts) : t \in g.sums
          BY <1>5, <2>5, Zenon
        <5>2. g \in hourly /\ Floor(g.ts, G) = ts
          BY <1>2, Zenon
        <5>3. Floor(t, HOUR) = g.ts /\ Floor(g.ts, HOUR) = g.ts
          BY <1>12, <1>13, <5>1, <5>2, Zenon
        <5> QED
          BY <2>1, <5>2, <5>3, Zenon
      <4> QED
        BY <1>5, <4>1, <4>3, <4>4, Zenon
    <3> QED
      BY <3>1, <3>2, Zenon
  <2> QED
    BY <1>1, <1>3, <1>4, <1>6, <1>15, <2>1, <2>6, Zenon
<1>18. CASE b < HOUR /\ HoursAt(w, ts) = {}
  <2>1. Multiple(ts, b) /\ SpanAt(w, ts) = b /\ Multiple(HOUR, b)
    BY <1>1, <1>2, <1>9, <1>14, <1>18, Zenon
  <2>2. PICK t0 \in MinutesAt(w, ts) : TRUE
    BY <1>14, <1>18, Zenon
  <2>3. ASSUME NEW t \in Nat, Floor(t, b) = ts PROVE Floor(t, HOUR) = Floor(ts, HOUR)
    <3>1. Floor(Floor(t, b), HOUR) = Floor(t, HOUR)
      BY <1>1, <2>1, FloorsNest
    <3> QED
      BY <2>3, <3>1, Zenon
  <2>4. \A h \in hourly : h.ts # Floor(ts, HOUR)
    BY <1>2, <1>10, <1>11, <1>18, <2>2, <2>3, Zenon
  <2>5. ASSUME NEW t \in Filed PROVE t \in SumsAt(w, ts) <=> Floor(t, b) = ts
    <3>1. CASE t \in share_intervals
      <4>1. Floor(t, b) = ts => t >= s
        <5>1. t \in Nat /\ Floor(t, b) \in Nat /\ Floor(t, b) <= t
          BY <1>1, <1>3, FloorProperties, Zenon
        <5> QED
          BY <1>2, <5>1
      <4> QED
        BY <1>2, <1>5, <1>7, <1>18, <3>1, <4>1, Zenon
    <3>2. CASE t \notin share_intervals
      <4>1. PICK h \in hourly : t \in h.sums
        BY <3>2, Zenon DEF Filed
      <4>2. h.ts = Floor(t, HOUR) /\ t \in Nat
        BY <1>12, <4>1, Zenon
      <4> QED
        BY <1>2, <1>5, <1>18, <2>3, <2>4, <3>2, <4>2, Zenon
    <3> QED
      BY <3>1, <3>2, Zenon
  <2> QED
    BY <1>1, <1>3, <1>4, <1>6, <1>15, <2>1, <2>5, Zenon
<1> QED
  BY <1>16, <1>17, <1>18, Zenon

(* HistoryIsExact (work_json and the roll-up, stats.rs): for any windows, hours *)
(* and retention, no filed work is in two points of a chart, none whose bucket  *)
(* is over is in no point, and a point that no late minute fell into is the     *)
(* work of its span.                                                            *)
THEOREM ChartsAreExact == HistorySpec => []HistoryIsExact
<1>1. HistoryInv => HistoryIsExact
  <2> SUFFICES ASSUME HistoryInv, NEW w \in Windows
               PROVE  /\ \A p \in work_json(w) : ~Disturbed(p, w.bucket) => p.sums = Within(p)
                      /\ \A p, q \in work_json(w) : p # q => p.sums \cap q.sums = {}
                      /\ \A t \in Filed :
                           Floor(t, HOUR) >= Before(wall, w.duration)
                           /\ Floor(t, Largest({w.bucket, HOUR})) + Largest({w.bucket, HOUR}) <= wall
                           => \E p \in work_json(w) : t \in p.sums
    BY Zenon DEF HistoryIsExact
  <2>1. \A p \in work_json(w) : \E ts \in Nat : /\ Drawn(w, ts) /\ p.ts = ts /\ p.span = SpanAt(w, ts)
                                                /\ p.sums = SumsAt(w, ts)
                                                /\ p = [ts |-> ts, span |-> SpanAt(w, ts), sums |-> SumsAt(w, ts)]
    <3>1. \A ts, a, c : LET p == [ts |-> ts, span |-> a, sums |-> c] IN p.ts = ts /\ p.span = a /\ p.sums = c
      BY Zenon
    <3> SUFFICES ASSUME NEW p \in work_json(w)
                 PROVE  \E ts \in Nat : /\ Drawn(w, ts) /\ p.ts = ts /\ p.span = SpanAt(w, ts)
                                        /\ p.sums = SumsAt(w, ts)
                                        /\ p = [ts |-> ts, span |-> SpanAt(w, ts), sums |-> SumsAt(w, ts)]
      BY Zenon
    <3>2. PICK ts \in Nat : Drawn(w, ts) /\ p = [ts |-> ts, span |-> SpanAt(w, ts), sums |-> SumsAt(w, ts)]
      BY Points, Zenon
    <3> QED
      BY <3>1, <3>2, Zenon
  <2>2. \A p \in work_json(w) : ~Disturbed(p, w.bucket) => p.sums = Within(p)
    BY <2>1, WholeSpan, Zenon
  <2>3. \A p, q \in work_json(w) : p # q => p.sums \cap q.sums = {}
    <3> SUFFICES ASSUME NEW p \in work_json(w), NEW q \in work_json(w), NEW t, t \in p.sums, t \in q.sums
                 PROVE  p = q
      BY Zenon
    <3>1. PICK x \in Nat : p.sums = SumsAt(w, x) /\ p = [ts |-> x, span |-> SpanAt(w, x), sums |-> SumsAt(w, x)]
      BY <2>1, Zenon
    <3>2. PICK y \in Nat : q.sums = SumsAt(w, y) /\ q = [ts |-> y, span |-> SpanAt(w, y), sums |-> SumsAt(w, y)]
      BY <2>1, Zenon
    <3>3. x = y
      BY <3>1, <3>2, NoneTwice, Zenon
    <3> QED
      BY <3>1, <3>2, <3>3, Zenon
  <2>4. ASSUME NEW t \in Filed, Floor(t, HOUR) >= Before(wall, w.duration),
               Floor(t, Largest({w.bucket, HOUR})) + Largest({w.bucket, HOUR}) <= wall
        PROVE  \E p \in work_json(w) : t \in p.sums
    <3>1. PICK ts \in Nat : Drawn(w, ts) /\ t \in SumsAt(w, ts)
      BY <2>4, Grids, NoneMissing, Zenon
    <3> DEFINE p == [ts |-> ts, span |-> SpanAt(w, ts), sums |-> SumsAt(w, ts)]
    <3>2. p \in work_json(w) /\ t \in p.sums
      BY <3>1, Points, Zenon
    <3> QED
      BY <3>2, Zenon
  <2> QED
    BY <2>2, <2>3, <2>4, Zenon
<1> QED
  BY <1>1, HistoryInitInv, HistoryStep, PTL DEF HistorySpec

-----------------------------------------------------------------------------
(* The difficulty of a session *)

Message == [d : Nat, age : Nat]

DifficultyTypes ==
    /\ current \in Nat /\ difficulty \in Nat /\ network \in Nat /\ target \in Nat
    /\ assigned \in Nat /\ assignedAge \in Nat /\ below \in Nat /\ overpaid \in Nat
    /\ stamps \subseteq Nat
    /\ honors \in BOOLEAN /\ pinned \in BOOLEAN /\ returned \in BOOLEAN
    /\ wire \in Seq(Message)

(* Every share overpaid since the last new start has been counted as evidence. *)
OverpayInv == overpaid <= below /\ overpaid < EVIDENCE_SHARES

(* What an honest device mines at, or is about to, is the session's difficulty.  No  *)
(* message is older than the grace period; and while the difficulty is the credited  *)
(* one, none is younger than the assignment: when the grace period is over, the      *)
(* device has read them all.                                                         *)
LastTold == IF wire = <<>> THEN target ELSE wire[Len(wire)].d

Told(age, ret) ==
    /\ LastTold = difficulty
    /\ \A i \in DOMAIN wire : wire[i].age <= RETARGET_GRACE /\ (~ret => wire[i].age >= age)

FollowsInv ==
    ~pinned =>
        /\ Told(assignedAge, returned \/ assigned # difficulty)
        /\ ~returned => honors

DifficultyInv == DifficultyTypes /\ OverpayInv /\ FollowsInv

-----------------------------------------------------------------------------
\* A rounded quotient is a natural number.
LEMMA RoundedIsNat == \A a \in Nat, b \in Nat \ {0} : Rounded(a, b) \in Nat
BY DEF Rounded

\* So is the difficulty that vardiff sets.
LEMMA RetargetedIsNat ==
    ASSUME DifficultyTypes, NEW optimal \in Optima, NEW net \in Nat
    PROVE  Retargeted(optimal, net) \in Nat
<1>1. /\ Rounded(current, MaxRetargetFactor) \in Nat /\ current * MaxRetargetFactor \in Nat
      /\ optimal \in Nat /\ MinDifficulty \in Nat /\ MaxDifficulty \in Nat
  <2>1. MaxRetargetFactor \in Nat \ {0} /\ current \in Nat
    BY DifficultyAssumption, Zenon DEF DifficultyTypes
  <2>2. \A a, b \in Nat : a * b \in Nat
    OBVIOUS
  <2>3. optimal \in Nat /\ MinDifficulty \in Nat /\ MaxDifficulty \in Nat
    BY DifficultyAssumption, Zenon
  <2> QED
    BY <2>1, <2>2, <2>3, RoundedIsNat, Zenon
<1>2. Ceiling(net) \in Nat
  BY <1>1, Zenon DEF Ceiling, Larger, Smaller
<1> QED
  BY <1>1, <1>2, Zenon DEF Retargeted, clamp, Larger, Smaller

(* The end of an iteration keeps the difficulty, or changes it and tells the device. *)
LEMMA RetargetMoves ==
    ASSUME DifficultyTypes, NEW before, before.network \in Nat, apply_retarget(before)
    PROVE  \/ UNCHANGED <<current, difficulty, wire>> /\ returned' = before.returned
           \/ \E new \in Nat : Change(new, before.assigned, before.returned) /\ Tell(new)
BY RetargetedIsNat, Zenon DEF apply_retarget, Keep

\* A message to the device has its type.
LEMMA TellTypes ==
    ASSUME DifficultyTypes, NEW new \in Nat, Tell(new)
    PROVE  wire' \in Seq(Message)
<1>1. [d |-> new, age |-> 0] \in Message /\ wire \in Seq(Message)
  BY Zenon DEF Message, DifficultyTypes
<1>2. wire' = wire \/ wire' = Append(wire, [d |-> new, age |-> 0])
  BY Zenon DEF Tell
<1> QED
  BY <1>1, <1>2

(* After a message the device has been told, and what it had not read it has not. *)
LEMMA TellTold ==
    ASSUME DifficultyTypes, ~pinned, NEW new \in Nat, Tell(new), target' = target, difficulty' = new,
           NEW age, NEW ret \in BOOLEAN, Told(age, ret), NEW after \in BOOLEAN, ~after => ~ret,
           new # difficulty => after
    PROVE  Told(age, after)'
<1>1. CASE new = difficulty
  BY <1>1, Zenon DEF Tell, Told, LastTold
<1>2. CASE new # difficulty
  <2>1. /\ wire' = Append(wire, [d |-> new, age |-> 0]) /\ wire \in Seq(Message)
        /\ [d |-> new, age |-> 0] \in Message
    BY <1>2, Zenon DEF Tell, Told, LastTold, DifficultyTypes, Message
  <2>2. /\ wire' \in Seq(Message) /\ Len(wire') = Len(wire) + 1 /\ Len(wire) \in Nat
        /\ wire'[Len(wire) + 1] = [d |-> new, age |-> 0] /\ \A i \in 1..Len(wire) : wire'[i] = wire[i]
    BY <2>1
  <2>3. LastTold' = new
    BY <2>1, <2>2 DEF LastTold
  <2>4. ASSUME NEW i \in DOMAIN wire' PROVE wire'[i].age <= RETARGET_GRACE
    <3>1. i = Len(wire) + 1 \/ (i \in 1..Len(wire) /\ i \in DOMAIN wire)
      BY <2>1, <2>2
    <3>2. RETARGET_GRACE \in Nat
      BY DifficultyAssumption, Zenon
    <3> QED
      BY <2>2, <3>1, <3>2 DEF Told
  <2> QED
    BY <1>2, <2>3, <2>4, Zenon DEF Told
<1> QED
  BY <1>1, <1>2, Zenon

(* An iteration that leaves ShareCredit with this assignment, this age and this      *)
(* verdict, and then retargets                                                       *)
LEMMA RetargetInv ==
    ASSUME DifficultyTypes, NEW before, before.network \in Nat, before.returned \in BOOLEAN,
           before.assigned = assigned', assigned' \in Nat, apply_retarget(before), UNCHANGED device,
           ~pinned => /\ Told(assignedAge', before.returned \/ assigned' # difficulty)
                      /\ ~before.returned => honors'
    PROVE  /\ current' \in Nat /\ difficulty' \in Nat /\ wire' \in Seq(Message) /\ returned' \in BOOLEAN
           /\ FollowsInv'
<1>1. CASE UNCHANGED <<current, difficulty, wire>> /\ returned' = before.returned
  <2>1. current' \in Nat /\ difficulty' \in Nat /\ wire' \in Seq(Message) /\ returned' \in BOOLEAN
    BY <1>1, Zenon DEF DifficultyTypes
  <2> QED
    BY <1>1, <2>1, Zenon DEF FollowsInv, Told, LastTold, device
<1>2. ASSUME NEW new \in Nat, Change(new, before.assigned, before.returned), Tell(new)
      PROVE  /\ current' \in Nat /\ difficulty' \in Nat /\ wire' \in Seq(Message) /\ returned' \in BOOLEAN
             /\ FollowsInv'
  <2>1. /\ current' = new /\ difficulty' = new
        /\ returned' = (before.returned \/ (new # difficulty /\ new = assigned'))
    BY <1>2, Zenon DEF Change
  <2>2. wire' \in Seq(Message)
    BY <1>2, TellTypes, Zenon
  <2>3. ASSUME ~pinned PROVE Told(assignedAge, returned \/ assigned # difficulty)'
    <3> SUFFICES ASSUME NEW age, age = assignedAge', NEW ret \in BOOLEAN,
                        ret = (before.returned \/ assigned' # difficulty), NEW after \in BOOLEAN,
                        after = (returned' \/ assigned' # difficulty')
                 PROVE  Told(age, after)'
      BY Zenon DEF Told, LastTold
    <3>1. Told(age, ret) /\ (~after => ~ret) /\ (new # difficulty => after)
      BY <2>1, <2>3, Zenon
    <3> QED
      BY <1>2, <2>1, <2>3, <3>1, TellTold, Zenon DEF device
  <2> QED
    BY <2>1, <2>2, <2>3, Zenon DEF FollowsInv, device
<1> QED
  BY <1>1, <1>2, RetargetMoves, Zenon

-----------------------------------------------------------------------------
\* The effective difficulty asks no more of a share than the floor and the session's difficulty.
LEMMA EffectiveIs ==
    ASSUME DifficultyTypes, NEW stamp \in stamps
    PROVE  /\ effective(stamp) \in Nat
           /\ \A h \in Nat : h >= MinDifficulty /\ h >= difficulty => Meets(h, stamp)
<1>1. stamp \in Nat /\ difficulty \in Nat /\ MinDifficulty \in Nat
  BY DifficultyAssumption, Zenon DEF DifficultyTypes
<1>2. /\ effective(stamp) \in Nat
      /\ \A h \in Nat : h >= MinDifficulty /\ h >= difficulty => h >= effective(stamp)
  BY <1>1 DEF effective, Larger, Smaller
<1> QED
  BY <1>2 DEF Meets

(* Once the grace period is over an honest device has read every message, and its     *)
(* shares are evidence of nothing.                                                    *)
LEMMA HonestGivesNoEvidence ==
    ASSUME DifficultyInv, ~pinned, ~returned, NEW stamp \in stamps,
           NEW h \in {target, Larger(target, MaxDifficulty)}, h >= MinDifficulty
    PROVE  ~Evidence(h, stamp)
<1> SUFFICES ASSUME Evidence(h, stamp) PROVE FALSE
  BY Zenon
<1>1. RETARGET_GRACE \in Nat /\ MaxDifficulty \in Nat /\ target \in Nat /\ wire \in Seq(Message)
  BY DifficultyAssumption, Zenon DEF DifficultyInv, DifficultyTypes
<1>2. difficulty = assigned /\ assignedAge > RETARGET_GRACE /\ assignedAge \in Nat
  BY <1>1 DEF Evidence, AgeNow, Noticed, DifficultyInv, DifficultyTypes
<1>3. Told(assignedAge, FALSE)
  BY <1>2, Zenon DEF DifficultyInv, FollowsInv, Told
<1>4. wire = <<>>
  <2> SUFFICES ASSUME wire # <<>> PROVE FALSE
    BY Zenon
  <2>1. 1 \in DOMAIN wire
    BY <1>1
  <2>2. wire[1].age \in Nat
    <3>1. wire[1] \in Message
      BY <1>1, <2>1
    <3> QED
      BY <3>1, Zenon DEF Message
  <2>3. wire[1].age <= RETARGET_GRACE /\ wire[1].age >= assignedAge
    BY <1>3, <2>1, Zenon DEF Told
  <2> QED
    BY <1>1, <1>2, <2>2, <2>3
<1>5. h \in Nat /\ h >= difficulty
  BY <1>1, <1>3, <1>4 DEF Told, LastTold, Larger
<1>6. Meets(h, stamp)
  BY <1>5, EffectiveIs, Zenon DEF DifficultyInv
<1> QED
  BY <1>6, Zenon DEF Evidence

(* A share credited above its worth outside the grace period is evidence, and one     *)
(* that does not decide the case.                                                     *)
LEMMA CreditOverpay ==
    ASSUME DifficultyInv, NEW stamp \in stamps, NEW h \in Nat, h >= MinDifficulty, credit(h, stamp)
    PROVE  /\ assigned' \in Nat /\ assignedAge' \in Nat /\ below' \in Nat /\ honors' \in BOOLEAN
           /\ overpaid' \in Nat /\ OverpayInv'
<1> DEFINE Over == Credited(h, stamp) * 99 > h * 100 /\ assignedAge' > RETARGET_GRACE
<1>1. /\ RETARGET_GRACE \in Nat /\ MinDifficulty \in Nat /\ EVIDENCE_SHARES \in Nat \ {0}
      /\ effective(stamp) \in Nat /\ honors \in BOOLEAN
      /\ assignedAge \in Nat /\ below \in Nat /\ overpaid \in Nat /\ difficulty \in Nat
      /\ overpaid <= below /\ overpaid < EVIDENCE_SHARES
  BY DifficultyAssumption, EffectiveIs, Zenon DEF DifficultyInv, DifficultyTypes, OverpayInv
<1>2. AgeNow \in Nat /\ BelowNow \in Nat
  BY <1>1, Zenon DEF AgeNow, BelowNow
<1>3. /\ assigned' \in Nat /\ assignedAge' \in Nat /\ below' \in Nat /\ honors' \in BOOLEAN
  BY <1>1, <1>2 DEF credit, BelowAfter, HonorsAfter, Flags, Redeems, Evidence, Meets
<1>4. overpaid' = (IF NewStart(h, stamp) THEN 0 ELSE overpaid) + (IF Over THEN 1 ELSE 0)
  BY Zenon DEF credit
<1>5. below' >= IF NewStart(h, stamp) THEN 0 ELSE overpaid
  BY <1>1, <1>2, <1>3 DEF credit, BelowAfter, BelowNow, NewStart
<1>6. ASSUME Over
      PROVE  below' = BelowNow + 1 /\ BelowNow + 1 < EVIDENCE_SHARES
  <2>1. HonorsAfter(h, stamp) /\ ~Meets(h, stamp)
    BY <1>1, <1>6 DEF Credited, Meets
  <2>2. ~Redeems(h, stamp) /\ honors /\ ~Flags(h, stamp)
    BY <2>1, Zenon DEF HonorsAfter, Redeems
  <2>3. assignedAge' = AgeNow
    BY <2>2, Zenon DEF credit
  <2>4. Evidence(h, stamp)
    BY <1>6, <2>1, <2>2, <2>3, Zenon DEF Evidence
  <2> QED
    BY <1>1, <1>2, <2>2, <2>4 DEF credit, BelowAfter, Flags
<1>7. (IF NewStart(h, stamp) THEN 0 ELSE overpaid) <= BelowNow
  BY <1>1, <1>2 DEF BelowNow, NewStart
<1> HIDE DEF Over
<1>8. overpaid' \in Nat /\ OverpayInv'
  <2>1. CASE Over
    BY <1>1, <1>2, <1>4, <1>6, <1>7, <2>1 DEF OverpayInv
  <2>2. CASE ~Over
    BY <1>1, <1>3, <1>4, <1>5, <2>2 DEF OverpayInv
  <2> QED
    BY <2>1, <2>2, Zenon
<1> QED
  BY <1>3, <1>8, Zenon

\* A share of a device that follows leaves it believed, and leaves what it was told in order.
LEMMA CreditFollows ==
    ASSUME DifficultyInv, ~pinned, NEW stamp \in stamps,
           NEW h \in {target, Larger(target, MaxDifficulty)}, h >= MinDifficulty, credit(h, stamp),
           NEW ret \in BOOLEAN, ret = (returned /\ ~(NewStart(h, stamp) /\ HonorsAfter(h, stamp)))
    PROVE  /\ Told(assignedAge', ret \/ assigned' # difficulty)
           /\ ~ret => honors'
<1>1. /\ LastTold = difficulty /\ \A i \in DOMAIN wire : wire[i].age <= RETARGET_GRACE
      /\ Told(assignedAge, returned \/ assigned # difficulty)
  BY Zenon DEF DifficultyInv, FollowsInv, Told
<1>2. \A i \in DOMAIN wire : wire[i].age \in Nat
  <2>1. \A i \in DOMAIN wire : wire[i] \in Message
    BY DEF DifficultyInv, DifficultyTypes
  <2> QED
    BY <2>1, Zenon DEF Message
<1>3. CASE ret
  BY <1>1, <1>3, Zenon DEF Told
<1>4. CASE ~ret
  <2>1. assigned' = difficulty /\ honors' = HonorsAfter(h, stamp)
    BY Zenon DEF credit
  <2>2. HonorsAfter(h, stamp)
    <3>1. CASE returned
      BY <1>4, <3>1, Zenon
    <3>2. CASE ~returned
      <4>1. ~Evidence(h, stamp) /\ honors
        BY <3>2, HonestGivesNoEvidence, Zenon DEF DifficultyInv, FollowsInv
      <4> QED
        BY <4>1, Zenon DEF HonorsAfter, Flags
    <3> QED
      BY <3>1, <3>2, Zenon
  <2>3. CASE NewStart(h, stamp)
    <3>1. assignedAge' = 0
      BY <2>3, Zenon DEF credit, NewStart, AgeNow
    <3>2. \A i \in DOMAIN wire : wire[i].age >= 0
      BY <1>2
    <3> QED
      BY <1>1, <2>1, <2>2, <3>1, <3>2, Zenon DEF Told
  <2>4. CASE ~NewStart(h, stamp)
    <3>1. ~returned /\ assigned = difficulty /\ assignedAge' = assignedAge
      BY <1>4, <2>2, <2>4, Zenon DEF NewStart, Noticed, credit, AgeNow, DifficultyInv, DifficultyTypes
    <3> QED
      BY <1>1, <2>1, <2>2, <3>1, Zenon DEF Told
  <2> QED
    BY <2>3, <2>4, Zenon
<1> QED
  BY <1>3, <1>4, Zenon

\* A share submitted keeps the invariant.
LEMMA SubmitInv == DifficultyInv /\ handle_submit => DifficultyInv'
<1> SUFFICES ASSUME DifficultyInv, handle_submit PROVE DifficultyInv'
  BY Zenon
<1>1. PICK stamp \in stamps, h \in {target, Larger(target, MaxDifficulty)} :
        \/ /\ h >= MinDifficulty
           /\ credit(h, stamp)
           /\ firstShare' = TRUE
           /\ apply_retarget(
                [shares |-> Shares(sharesSinceChange + 1), firstShare |-> TRUE,
                 network |-> network, assigned |-> difficulty,
                 returned |-> returned /\ ~(NewStart(h, stamp) /\ HonorsAfter(h, stamp))])
           /\ UNCHANGED <<device, stamps, network>>
        \/ /\ h < MinDifficulty
           /\ apply_retarget(
                [shares |-> sharesSinceChange, firstShare |-> firstShare, network |-> network,
                 assigned |-> assigned, returned |-> returned])
           /\ UNCHANGED <<credit_, firstShare, overpaid, device, stamps, network>>
  BY Zenon DEF handle_submit
<1>2. h \in Nat /\ network \in Nat /\ returned \in BOOLEAN /\ DifficultyTypes
  BY DifficultyAssumption, Zenon DEF DifficultyInv, DifficultyTypes, Larger
<1>3. CASE /\ h >= MinDifficulty
           /\ credit(h, stamp)
           /\ apply_retarget(
                [shares |-> Shares(sharesSinceChange + 1), firstShare |-> TRUE,
                 network |-> network, assigned |-> difficulty,
                 returned |-> returned /\ ~(NewStart(h, stamp) /\ HonorsAfter(h, stamp))])
           /\ UNCHANGED <<device, stamps, network>>
  <2> SUFFICES ASSUME NEW ret, ret = (returned /\ ~(NewStart(h, stamp) /\ HonorsAfter(h, stamp))),
                      NEW before, before = [shares |-> Shares(sharesSinceChange + 1), firstShare |-> TRUE,
                                            network |-> network, assigned |-> difficulty, returned |-> ret]
               PROVE  DifficultyInv'
    BY Zenon
  <2>1. ret \in BOOLEAN /\ assigned' = difficulty
    BY <1>2, <1>3, Zenon DEF credit
  <2>2. /\ before.network \in Nat /\ before.returned = ret /\ before.assigned = assigned'
    BY <1>2, <2>1, Zenon
  <2>3. /\ assigned' \in Nat /\ assignedAge' \in Nat /\ below' \in Nat /\ honors' \in BOOLEAN
        /\ overpaid' \in Nat /\ OverpayInv'
    BY <1>2, <1>3, CreditOverpay, Zenon
  <2>4. ~pinned => /\ Told(assignedAge', before.returned \/ assigned' # difficulty)
                   /\ ~before.returned => honors'
    BY <1>3, <2>1, <2>2, CreditFollows, Zenon
  <2>5. /\ current' \in Nat /\ difficulty' \in Nat /\ wire' \in Seq(Message) /\ returned' \in BOOLEAN
        /\ FollowsInv'
    BY <1>2, <1>3, <2>1, <2>2, <2>3, <2>4, RetargetInv, Zenon
  <2> QED
    BY <1>2, <1>3, <2>3, <2>5, Zenon DEF DifficultyInv, DifficultyTypes, device
<1>4. CASE /\ apply_retarget(
                [shares |-> sharesSinceChange, firstShare |-> firstShare, network |-> network,
                 assigned |-> assigned, returned |-> returned])
           /\ UNCHANGED <<credit_, overpaid, device, stamps, network>>
  <2> SUFFICES ASSUME NEW before, before = [shares |-> sharesSinceChange, firstShare |-> firstShare,
                                            network |-> network, assigned |-> assigned, returned |-> returned]
               PROVE  DifficultyInv'
    BY Zenon
  <2>1. /\ before.network \in Nat /\ before.returned = returned /\ before.assigned = assigned'
    BY <1>2, <1>4, Zenon DEF credit_
  <2>2. /\ current' \in Nat /\ difficulty' \in Nat /\ wire' \in Seq(Message) /\ returned' \in BOOLEAN
        /\ FollowsInv'
    <3>1. assigned' \in Nat /\ (~pinned => /\ Told(assignedAge', before.returned \/ assigned' # difficulty)
                                           /\ ~before.returned => honors')
      BY <1>4, <2>1, Zenon DEF DifficultyInv, DifficultyTypes, FollowsInv, credit_
    <3> QED
      BY <1>2, <1>4, <2>1, <3>1, RetargetInv, Zenon
  <2> QED
    BY <1>2, <1>4, <2>2, Zenon DEF DifficultyInv, DifficultyTypes, OverpayInv, device, credit_
<1> QED
  BY <1>1, <1>3, <1>4, Zenon

\* A job, which stamps the work it hands out, keeps it.
LEMMA RecvJobInv == DifficultyInv /\ RecvJob => DifficultyInv'
<1> SUFFICES ASSUME DifficultyInv, RecvJob PROVE DifficultyInv'
  BY Zenon
<1> SUFFICES ASSUME NEW before, before = [shares |-> sharesSinceChange, firstShare |-> firstShare,
                                          network |-> network', assigned |-> assigned,
                                          returned |-> returned]
             PROVE  DifficultyInv'
  BY Zenon
<1>1. apply_retarget(before) /\ UNCHANGED <<credit_, overpaid, device>> /\ DifficultyTypes
  BY Zenon DEF RecvJob, DifficultyInv
<1>2. stamps' \subseteq Nat /\ network' \in Nat
  BY DifficultyAssumption, Zenon DEF RecvJob, DifficultyInv, DifficultyTypes
<1>3. before.network \in Nat /\ before.returned = returned /\ before.assigned = assigned'
  BY <1>1, <1>2, Zenon DEF credit_
<1>4. /\ current' \in Nat /\ difficulty' \in Nat /\ wire' \in Seq(Message) /\ returned' \in BOOLEAN
      /\ FollowsInv'
  <2>1. /\ assigned' \in Nat /\ before.returned \in BOOLEAN
        /\ ~pinned => /\ Told(assignedAge', before.returned \/ assigned' # difficulty)
                      /\ ~before.returned => honors'
    BY <1>1, <1>3, Zenon DEF DifficultyInv, DifficultyTypes, FollowsInv, credit_
  <2> QED
    BY <1>1, <1>3, <2>1, RetargetInv, Zenon
<1> QED
  BY <1>1, <1>2, <1>4, Zenon DEF DifficultyInv, DifficultyTypes, OverpayInv, device, credit_

\* A difficulty that the device suggests keeps it.
LEMMA SuggestInv == DifficultyInv /\ handle_suggest_difficulty => DifficultyInv'
<1> SUFFICES ASSUME DifficultyInv, NEW hint \in Suggestions, Change(suggest(hint), assigned, returned),
                    Tell(suggest(hint)), UNCHANGED <<credit_, overpaid, device, stamps, network>>
             PROVE  DifficultyInv'
  BY Zenon DEF handle_suggest_difficulty
<1> SUFFICES ASSUME NEW new, new = suggest(hint) PROVE DifficultyInv'
  BY Zenon
<1>1. new \in Nat
  BY DifficultyAssumption, Zenon DEF suggest, clamp, Larger, Smaller
<1>2. /\ current' = new /\ difficulty' = new /\ DifficultyTypes
      /\ returned' = (returned \/ (new # difficulty /\ new = assigned))
  BY Zenon DEF Change, DifficultyInv
<1>3. wire' \in Seq(Message)
  BY <1>1, <1>2, TellTypes, Zenon
<1>4. ASSUME ~pinned PROVE Told(assignedAge, returned \/ assigned # difficulty)'
  <2> SUFFICES ASSUME NEW age, age = assignedAge', NEW ret \in BOOLEAN,
                      ret = (returned \/ assigned # difficulty), NEW after \in BOOLEAN,
                      after = (returned' \/ assigned' # difficulty')
               PROVE  Told(age, after)'
    BY Zenon DEF Told, LastTold
  <2>1. Told(age, ret) /\ (~after => ~ret) /\ (new # difficulty => after)
    BY <1>2, <1>4, Zenon DEF DifficultyInv, FollowsInv, credit_
  <2> QED
    BY <1>1, <1>2, <1>4, <2>1, TellTold, Zenon DEF device
<1>5. FollowsInv'
  BY <1>2, <1>4, Zenon DEF DifficultyInv, FollowsInv, device, credit_
<1> QED
  BY <1>1, <1>2, <1>3, <1>5, Zenon DEF DifficultyInv, DifficultyTypes, OverpayInv, device, credit_

\* The device's reading of a message keeps it.
LEMMA ApplyInv == DifficultyInv /\ Apply => DifficultyInv'
<1> SUFFICES ASSUME DifficultyInv, Apply PROVE DifficultyInv'
  BY Zenon
<1>1. /\ wire \in Seq(Message) /\ wire # <<>> /\ target' = Head(wire).d /\ wire' = Tail(wire)
      /\ UNCHANGED <<current, credit_, pinned, difficulty, stamps, network, returned, overpaid>>
  BY Zenon DEF DifficultyInv, DifficultyTypes, Apply, vardiff
<1>2. /\ Tail(wire) \in Seq(Message) /\ Len(Tail(wire)) = Len(wire) - 1 /\ Len(wire) \in Nat \ {0}
      /\ \A i \in 1..(Len(wire) - 1) : Tail(wire)[i] = wire[i + 1]
      /\ Head(wire) = wire[1] /\ Head(wire) \in Message
  BY <1>1
<1>3. target' \in Nat
  BY <1>1, <1>2, Zenon DEF Message
<1>4. LastTold' = LastTold
  <2>1. CASE Len(wire) = 1
    BY <1>1, <1>2, <2>1 DEF LastTold
  <2>2. CASE Len(wire) # 1
    <3>1. Tail(wire) # <<>> /\ Tail(wire)[Len(Tail(wire))] = wire[Len(wire)]
      <4>1. Len(wire) - 1 \in 1..(Len(wire) - 1) /\ (Len(wire) - 1) + 1 = Len(wire)
        BY <1>2, <2>2
      <4>2. Tail(wire)[Len(wire) - 1] = wire[Len(wire)] /\ Len(Tail(wire)) = Len(wire) - 1
        <5>1. Tail(wire)[Len(wire) - 1] = wire[(Len(wire) - 1) + 1]
          BY <1>2, <4>1, Zenon
        <5> QED
          BY <1>2, <4>1, <5>1, Zenon
      <4>3. Tail(wire) # <<>>
        <5>1. Len(Tail(wire)) # 0 /\ Len(<<>>) = 0
          BY <1>2, <2>2
        <5> QED
          BY <5>1, Zenon
      <4> QED
        BY <4>2, <4>3, Zenon
    <3> QED
      BY <1>1, <3>1, Zenon DEF LastTold
  <2> QED
    BY <2>1, <2>2, Zenon
<1>5. \A i \in DOMAIN wire' : \E j \in DOMAIN wire : wire'[i] = wire[j]
  <2> SUFFICES ASSUME NEW i \in DOMAIN wire' PROVE \E j \in DOMAIN wire : wire'[i] = wire[j]
    BY Zenon
  <2>1. i + 1 \in DOMAIN wire /\ wire'[i] = wire[i + 1]
    BY <1>1, <1>2
  <2> QED
    BY <2>1, Zenon
<1>6. FollowsInv'
  BY <1>1, <1>4, <1>5, Zenon DEF DifficultyInv, FollowsInv, Told, credit_
<1> QED
  BY <1>1, <1>2, <1>3, <1>6, Zenon DEF DifficultyInv, DifficultyTypes, OverpayInv, credit_

\* The clock keeps it.
LEMMA TickInv == DifficultyInv /\ Tick => DifficultyInv'
<1> SUFFICES ASSUME DifficultyInv, Tick PROVE DifficultyInv'
  BY Zenon
<1>1. /\ wire \in Seq(Message) /\ assignedAge \in Nat /\ RETARGET_GRACE \in Nat
      /\ \A i \in DOMAIN wire : wire[i].age < RETARGET_GRACE
      /\ wire' = [i \in DOMAIN wire |-> [wire[i] EXCEPT !.age = @ + 1]]
      /\ assignedAge' = Smaller(assignedAge + 1, RETARGET_GRACE + 1)
      /\ UNCHANGED <<current, assigned, below, honors, pinned, target, difficulty, stamps, network,
                     returned, overpaid>>
  BY DifficultyAssumption, Zenon DEF DifficultyInv, DifficultyTypes, Tick, device
<1>2. \A i \in DOMAIN wire : wire[i] \in Message
  BY <1>1
<1>3. /\ DOMAIN wire' = DOMAIN wire
      /\ \A i \in DOMAIN wire : wire'[i] = [d |-> wire[i].d, age |-> wire[i].age + 1] /\ wire'[i] \in Message
  BY <1>1, <1>2 DEF Message
<1>4. wire' \in Seq(Message) /\ Len(wire') = Len(wire)
  <2>1. DOMAIN wire = 1..Len(wire) /\ Len(wire) \in Nat
    BY <1>1
  <2>2. wire' = [i \in 1..Len(wire) |-> wire'[i]] /\ \A i \in 1..Len(wire) : wire'[i] \in Message
    BY <1>1, <1>3, <2>1, Zenon
  <2> QED
    BY <2>1, <2>2
<1>5. LastTold' = LastTold
  <2>1. CASE wire = <<>>
    BY <1>1, <2>1 DEF LastTold
  <2>2. CASE wire # <<>>
    <3>1. Len(wire) \in DOMAIN wire /\ wire' # <<>>
      BY <1>1, <1>3, <1>4, <2>2
    <3> QED
      BY <1>3, <1>4, <2>2, <3>1 DEF LastTold
  <2> QED
    BY <2>1, <2>2, Zenon
<1>6. assignedAge' \in Nat /\ assignedAge' <= assignedAge + 1
  BY <1>1 DEF Smaller
<1>7. ASSUME NEW i \in DOMAIN wire'
      PROVE  /\ wire'[i].age <= RETARGET_GRACE
             /\ wire[i].age >= assignedAge => wire'[i].age >= assignedAge'
  <2>1. wire[i].age \in Nat /\ wire'[i].age = wire[i].age + 1 /\ wire[i].age < RETARGET_GRACE
    BY <1>1, <1>2, <1>3, Zenon DEF Message
  <2> QED
    BY <1>1, <1>6, <2>1
<1>8. FollowsInv'
  BY <1>1, <1>3, <1>5, <1>7, Zenon DEF DifficultyInv, FollowsInv, Told
<1> QED
  BY <1>1, <1>4, <1>6, <1>8, Zenon DEF DifficultyInv, DifficultyTypes, OverpayInv

-----------------------------------------------------------------------------
\* The invariant holds when a session starts.
LEMMA DifficultyInitInv == Init => DifficultyInv
<1> SUFFICES ASSUME Init PROVE DifficultyInv
  BY Zenon
<1>1. DifficultyTypes
  <2>1. current \in Nat /\ network \in Nat /\ MinDifficulty \in Nat /\ wire \in Seq(Message)
    BY DifficultyAssumption DEF Init
  <2> QED
    BY <2>1, Zenon DEF Init, DifficultyTypes
<1>2. OverpayInv /\ FollowsInv
  BY DifficultyAssumption DEF Init, OverpayInv, FollowsInv, Told, LastTold
<1> QED
  BY <1>1, <1>2, Zenon DEF DifficultyInv

\* Every step keeps it.
LEMMA DifficultyStep == DifficultyInv /\ [Next]_vars => DifficultyInv'
<1>1. DifficultyInv /\ UNCHANGED vars => DifficultyInv'
  BY DEF vars, vardiff, credit_, device, DifficultyInv, DifficultyTypes, OverpayInv, FollowsInv, Told, LastTold
<1> QED
  BY <1>1, SubmitInv, RecvJobInv, SuggestInv, ApplyInv, TickInv, Zenon DEF Next

(* A device that follows what it is told is believed (credit.rs), whatever the         *)
(* bounds, the averages, the network's difficulty, the hints and the delays, unless   *)
(* the difficulty came back to the credited one unseen.                               *)
THEOREM HonestDeviceIsBelieved == Spec => []HonestIsBelieved
<1>1. DifficultyInv => HonestIsBelieved
  BY Zenon DEF DifficultyInv, FollowsInv, HonestIsBelieved
<1> QED
  BY <1>1, DifficultyInitInv, DifficultyStep, PTL DEF Spec

(* Fewer than EVIDENCE_SHARES shares are overpaid outside the grace period, by an     *)
(* honest device and by one that ignores what it is told.                             *)
THEOREM OverpayStaysBounded == Spec => []OverpayIsBounded
<1>1. DifficultyInv => OverpayIsBounded
  BY Zenon DEF DifficultyInv, OverpayInv, OverpayIsBounded
<1> QED
  BY <1>1, DifficultyInitInv, DifficultyStep, PTL DEF Spec

-----------------------------------------------------------------------------
(* Induction and recursion *)

(* Every set of numbers that is not empty has a least one. *)
LEMMA LeastNumber ==
    ASSUME NEW T \in SUBSET Nat, T # {}
    PROVE  \E m \in T : \A n \in T : m <= n
<1>1. PICK m \in T : \A n \in T : ~(<<n, m>> \in OpToRel(<, Nat))
  BY WFMin, NatLessThanWellFounded, Zenon
<1>2. \A n \in T : ~(n < m)
  BY <1>1, Zenon DEF OpToRel
<1> QED
  BY <1>2

(* Induction: what holds is given as a set. *)
LEMMA SetInduction ==
    ASSUME NEW S, 0 \in S, \A n \in Nat : n \in S => n + 1 \in S
    PROVE  \A n \in Nat : n \in S
<1> SUFFICES ASSUME NEW n \in Nat, n \notin S PROVE FALSE
  BY Zenon
<1> DEFINE T == {k \in Nat : k \notin S}
<1>1. PICK m \in T : \A k \in T : m <= k
  <2>1. T \in SUBSET Nat /\ T # {}
    BY Zenon
  <2> HIDE DEF T
  <2> QED
    BY <2>1, LeastNumber, Zenon
<1>2. m \in Nat /\ m # 0 /\ m \notin S
  BY <1>1, Zenon
<1>3. m - 1 \in Nat /\ (m - 1) + 1 = m /\ ~(m <= m - 1)
  BY <1>2
<1>4. m - 1 \in S
  BY <1>1, <1>3, Zenon
<1> QED
  BY <1>2, <1>3, <1>4

(* Induction up to a number. *)
LEMMA BoundedInduction ==
    ASSUME NEW N \in Nat, NEW S, 0 \in S, \A n \in 0..(N - 1) : n \in S => n + 1 \in S
    PROVE  \A n \in 0..N : n \in S
<1> DEFINE T == {n \in Nat : n <= N => n \in S}
<1>1. 0 \in T
  BY Zenon
<1>2. ASSUME NEW n \in Nat, n \in T PROVE n + 1 \in T
  <2>1. CASE n < N
    BY <1>2, <2>1
  <2>2. CASE ~(n < N)
    BY <2>2
  <2> QED
    BY <2>1, <2>2, Zenon
<1>3. \A n \in Nat : n \in T
  <2> HIDE DEF T
  <2> QED
    BY <1>1, <1>2, SetInduction, Zenon
<1> QED
  BY <1>3

-----------------------------------------------------------------------------
(* Recursion: the step is given as a function. *)
Starts(f, n, z, step) ==
    f \in [0..n -> Nat] /\ f[0] = z /\ \A i \in 0..(n - 1) : f[i + 1] = step[i][f[i]]

(* Two starts of the same recursion agree as far as both go. *)
LEMMA StartsAgree ==
    ASSUME NEW z, NEW step, NEW n \in Nat, NEW f, NEW g, Starts(f, n, z, step), Starts(g, n + 1, z, step)
    PROVE  f[n] = g[n]
<1> DEFINE S == {i \in Nat : f[i] = g[i]}
<1>1. 0 \in S
  BY DEF Starts
<1>2. ASSUME NEW i \in 0..(n - 1), i \in S PROVE i + 1 \in S
  <2>1. i \in Nat /\ i + 1 \in Nat /\ i \in 0..((n + 1) - 1)
    OBVIOUS
  <2>2. f[i + 1] = step[i][f[i]] /\ g[i + 1] = step[i][g[i]]
    BY <2>1, Zenon DEF Starts
  <2> QED
    BY <1>2, <2>1, <2>2, Zenon
<1> HIDE DEF S
<1>3. \A i \in 0..n : i \in S
  BY <1>1, <1>2, BoundedInduction, Zenon
<1>4. n \in 0..n
  OBVIOUS
<1> QED
  BY <1>3, <1>4, Zenon DEF S

(* The recursion can be started up to any number. *)
LEMMA StartsExist ==
    ASSUME NEW z \in Nat, NEW step \in [Nat -> [Nat -> Nat]]
    PROVE  \A n \in Nat : \E f : Starts(f, n, z, step)
<1> DEFINE S == {n \in Nat : \E f : Starts(f, n, z, step)}
<1>1. 0 \in S
  <2>1. Starts([i \in 0..0 |-> z], 0, z, step)
    BY DEF Starts
  <2> QED
    BY <2>1
<1>2. ASSUME NEW n \in Nat, n \in S PROVE n + 1 \in S
  <2>1. PICK f : Starts(f, n, z, step)
    BY <1>2, Zenon
  <2> DEFINE g == [i \in 0..(n + 1) |-> IF i <= n THEN f[i] ELSE step[n][f[n]]]
  <2>2. f \in [0..n -> Nat] /\ f[0] = z /\ \A i \in 0..(n - 1) : f[i + 1] = step[i][f[i]]
    BY <2>1, Zenon DEF Starts
  <2>3. step[n][f[n]] \in Nat
    <3>1. n \in 0..n
      OBVIOUS
    <3>2. f[n] \in Nat /\ step[n] \in [Nat -> Nat]
      BY <2>2, <3>1, Zenon
    <3> QED
      BY <3>2, Zenon
  <2>4. g \in [0..(n + 1) -> Nat]
    <3>1. ASSUME NEW i \in 0..(n + 1) PROVE (IF i <= n THEN f[i] ELSE step[n][f[n]]) \in Nat
      <4>1. i <= n => i \in 0..n
        OBVIOUS
      <4> QED
        BY <2>2, <2>3, <4>1, Zenon
    <3> QED
      BY <3>1, Zenon
  <2>5. g[0] = z
    BY <2>2
  <2>6. ASSUME NEW i \in 0..((n + 1) - 1) PROVE g[i + 1] = step[i][g[i]]
    <3>1. i \in Nat /\ i <= n /\ i \in 0..(n + 1) /\ i + 1 \in 0..(n + 1) /\ g[i] = f[i]
      OBVIOUS
    <3>2. CASE i < n
      <4>1. i \in 0..(n - 1) /\ i + 1 <= n
        BY <3>1, <3>2
      <4>2. g[i + 1] = f[i + 1]
        BY <3>1, <4>1, Zenon
      <4> QED
        BY <2>2, <3>1, <4>1, <4>2, Zenon
    <3>3. CASE i = n
      <4>1. ~(i + 1 <= n)
        BY <3>3
      <4> QED
        BY <3>1, <3>3, <4>1, Zenon
    <3> QED
      BY <3>1, <3>2, <3>3
  <2>7. Starts(g, n + 1, z, step)
    BY <2>4, <2>5, <2>6, Zenon DEF Starts
  <2> QED
    BY <2>7
<1> HIDE DEF S
<1>3. \A n \in Nat : n \in S
  BY <1>1, <1>2, SetInduction, Zenon
<1> QED
  BY <1>3, Zenon DEF S

(* So there is one function that is all of its starts. *)
LEMMA Recursion ==
    ASSUME NEW z \in Nat, NEW step \in [Nat -> [Nat -> Nat]]
    PROVE  \E f \in [Nat -> Nat] : f[0] = z /\ \A i \in Nat : f[i + 1] = step[i][f[i]]
<1> DEFINE A(n) == CHOOSE f : Starts(f, n, z, step)
           F == [n \in Nat |-> A(n)[n]]
<1>1. ASSUME NEW n \in Nat PROVE Starts(A(n), n, z, step)
  BY StartsExist, Zenon
<1> HIDE DEF A
<1>2. ASSUME NEW n \in Nat PROVE A(n) \in [0..n -> Nat] /\ A(n)[0] = z /\ \A i \in 0..(n - 1) : A(n)[i + 1] = step[i][A(n)[i]]
  BY <1>1, Zenon DEF Starts
<1>3. F \in [Nat -> Nat]
  <2>1. ASSUME NEW n \in Nat PROVE A(n)[n] \in Nat
    <3>1. n \in 0..n
      OBVIOUS
    <3> QED
      BY <1>2, <3>1, Zenon
  <2> QED
    BY <2>1, Zenon
<1>4. F[0] = z
  BY <1>2
<1>5. ASSUME NEW i \in Nat PROVE F[i + 1] = step[i][F[i]]
  <2>0. F[i] = A(i)[i]
    BY Zenon
  <2>1. i + 1 \in Nat /\ i \in 0..((i + 1) - 1)
    OBVIOUS
  <2>2. A(i + 1)[i + 1] = step[i][A(i + 1)[i]]
    BY <1>2, <2>1, Zenon
  <2>3. A(i)[i] = A(i + 1)[i]
    <3>1. Starts(A(i), i, z, step) /\ Starts(A(i + 1), i + 1, z, step)
      BY <1>1, <2>1, Zenon
    <3> QED
      BY <3>1, StartsAgree
  <2> QED
    BY <2>0, <2>1, <2>2, <2>3, Zenon
<1> HIDE DEF F
<1> QED
  BY <1>3, <1>4, <1>5, Zenon

-----------------------------------------------------------------------------
(* What the recursive functions of the model are. *)
(* What is known of the constants. *)
LEMMA BaseFacts ==
    /\ Base \in Nat /\ Base > 1 /\ Width \in Nat /\ Width >= 3
    /\ Sig \in Nat /\ 2 <= Sig /\ Sig <= Width /\ Diff1At \in Nat /\ Diff1At <= Width - 2
BY TargetsAssumption

(* The powers of the base. *)
LEMMA PowerIs ==
    /\ \A k \in Nat : Power[k] \in Nat /\ Power[k + 1] = Base * Power[k]
    /\ Power[0] = 1
<1> DEFINE step == [i \in Nat |-> [x \in Nat |-> Base * x]]
           E(f) == [k \in Nat |-> IF k = 0 THEN 1 ELSE Base * f[k - 1]]
<1>1. step \in [Nat -> [Nat -> Nat]]
  <2>1. \A x \in Nat : Base * x \in Nat
    BY BaseFacts
  <2> QED
    BY <2>1, Zenon
<1>2. \A i \in Nat, x \in Nat : step[i][x] = Base * x
  BY Zenon
<1> HIDE DEF step
<1>3. PICK f \in [Nat -> Nat] : f[0] = 1 /\ \A i \in Nat : f[i + 1] = step[i][f[i]]
  <2>1. 1 \in Nat
    OBVIOUS
  <2> QED
    BY <1>1, <2>1, Recursion, Zenon
<1>4. f = E(f)
  <2>1. ASSUME NEW k \in Nat PROVE f[k] = IF k = 0 THEN 1 ELSE Base * f[k - 1]
    <3>1. CASE k = 0
      BY <1>3, <3>1, Zenon
    <3>2. CASE k # 0
      <4>1. k - 1 \in Nat /\ (k - 1) + 1 = k
        BY <3>2
      <4>2. f[(k - 1) + 1] = step[k - 1][f[k - 1]] /\ f[k - 1] \in Nat
        BY <1>3, <4>1, Zenon
      <4> QED
        BY <1>2, <3>2, <4>1, <4>2, Zenon
    <3> QED
      BY <3>1, <3>2, Zenon
  <2> QED
    BY <2>1, Zenon
<1>5. Power = E(Power)
  BY <1>4, Zenon DEF Power
<1> HIDE DEF E
<1>6. Power[0] = 1 /\ \A k \in Nat : Power[k + 1] = Base * Power[k]
  <2>1. Power[0] = 1
    BY <1>5, Zenon DEF E
  <2>2. ASSUME NEW k \in Nat PROVE Power[k + 1] = Base * Power[k]
    <3>1. k + 1 \in Nat /\ k + 1 # 0 /\ (k + 1) - 1 = k
      OBVIOUS
    <3>2. Power[k + 1] = E(Power)[k + 1]
      BY <1>5, Zenon
    <3> QED
      BY <3>1, <3>2, Zenon DEF E
  <2> QED
    BY <2>1, <2>2, Zenon
<1>7. \A k \in Nat : Power[k] \in Nat
  <2> DEFINE S == {k \in Nat : Power[k] \in Nat}
  <2>1. 0 \in S
    BY <1>6
  <2>2. ASSUME NEW k \in Nat, k \in S PROVE k + 1 \in S
    <3>1. Power[k] \in Nat
      BY <2>2, Zenon
    <3> HIDE DEF S
    <3>2. Base * Power[k] \in Nat /\ k + 1 \in Nat
      BY <3>1, BaseFacts
    <3> QED
      BY <1>6, <3>2, Zenon DEF S
  <2>3. \A k \in Nat : k \in S
    <3> HIDE DEF S
    <3> QED
      BY <2>1, <2>2, SetInduction, Zenon
  <2> QED
    BY <2>3, Zenon
<1> QED
  BY <1>6, <1>7, Zenon

(* No power is zero. *)
LEMMA PowerIsPositive == \A k \in Nat : Power[k] \in Nat \ {0}
<1> DEFINE S == {k \in Nat : Power[k] # 0}
<1>1. 0 \in S
  BY PowerIs
<1>2. ASSUME NEW k \in Nat, k \in S PROVE k + 1 \in S
  <2>1. Power[k] \in Nat /\ Power[k] # 0 /\ Power[k + 1] = Base * Power[k] /\ k + 1 \in Nat
    BY <1>2, PowerIs
  <2>2. \A p \in Nat : p # 0 => Base * p # 0
    BY BaseFacts
  <2> QED
    BY <2>1, <2>2, Zenon
<1> HIDE DEF S
<1>3. \A k \in Nat : k \in S
  BY <1>1, <1>2, SetInduction, Zenon
<1> QED
  BY <1>3, PowerIs, Zenon DEF S

(* The same up to a number. *)
LEMMA RecursionTo ==
    ASSUME NEW N \in Nat, NEW step \in [Nat -> [Nat -> Nat]]
    PROVE  \E f \in [0..N -> Nat] : f[0] = 0 /\ \A i \in 1..N : f[i] = step[i][f[i - 1]]
<1>0. PICK next \in [Nat -> [Nat -> Nat]] : \A i \in Nat : next[i] = step[i + 1]
  <2>1. \A i \in Nat : step[i + 1] \in [Nat -> Nat]
    <3>1. \A i \in Nat : i + 1 \in Nat
      OBVIOUS
    <3> QED
      BY <3>1, Zenon
  <2>2. [i \in Nat |-> step[i + 1]] \in [Nat -> [Nat -> Nat]]
    BY <2>1, Zenon
  <2> QED
    BY <2>2, Zenon
<1>1. PICK f \in [Nat -> Nat] : f[0] = 0 /\ \A i \in Nat : f[i + 1] = next[i][f[i]]
  <2>1. 0 \in Nat
    OBVIOUS
  <2> QED
    BY <2>1, Recursion, Zenon
<1> DEFINE g == [i \in 0..N |-> f[i]]
<1>2. g \in [0..N -> Nat] /\ 0 \in 0..N
  <2>1. 0 \in 0..N /\ \A i \in 0..N : i \in Nat
    OBVIOUS
  <2>2. \A i \in 0..N : f[i] \in Nat
    BY <1>1, <2>1, Zenon
  <2> QED
    BY <2>1, <2>2, Zenon
<1>3. ASSUME NEW i \in 1..N PROVE g[i] = step[i][g[i - 1]]
  <2>1. i \in 0..N /\ i - 1 \in 0..N /\ i - 1 \in Nat /\ (i - 1) + 1 = i
    OBVIOUS
  <2>2. f[(i - 1) + 1] = next[i - 1][f[i - 1]] /\ next[i - 1] = step[(i - 1) + 1]
    BY <1>0, <1>1, <2>1, Zenon
  <2>3. g[i] = f[i] /\ g[i - 1] = f[i - 1]
    BY <2>1, Zenon
  <2> QED
    BY <2>1, <2>2, <2>3, Zenon
<1>4. g[0] = 0
  BY <1>1, <1>2, Zenon
<1> HIDE DEF g
<1> QED
  BY <1>2, <1>3, <1>4, Zenon

(* What the leading digits stand for, one digit more at a time. *)
LEMMA LeadingIs ==
    ASSUME NEW len \in Nat, NEW digits \in [1..len -> Nat]
    PROVE  /\ Leading(digits, len)[0] = 0
           /\ \A i \in 0..len : Leading(digits, len)[i] \in Nat
           /\ \A i \in 1..len : Leading(digits, len)[i] = Leading(digits, len)[i - 1] * Base + digits[i]
<1> DEFINE step == [i \in Nat |-> [x \in Nat |-> IF i \in 1..len THEN x * Base + digits[i] ELSE 0]]
           L == Leading(digits, len)
           E(f) == [i \in 0..len |-> IF i = 0 THEN 0 ELSE f[i - 1] * Base + digits[i]]
<1>1. step \in [Nat -> [Nat -> Nat]]
  <2>1. \A i \in Nat, x \in Nat : (IF i \in 1..len THEN x * Base + digits[i] ELSE 0) \in Nat
    BY BaseFacts
  <2> QED
    BY <2>1, Zenon
<1>2. \A i \in 1..len, x \in Nat : step[i][x] = x * Base + digits[i]
  <2>1. \A i \in 1..len : i \in Nat
    OBVIOUS
  <2> QED
    BY <2>1, Zenon
<1> HIDE DEF step
<1>3. PICK f \in [0..len -> Nat] : f[0] = 0 /\ \A i \in 1..len : f[i] = step[i][f[i - 1]]
  BY <1>1, RecursionTo, Zenon
<1>4. f = E(f)
  <2>1. ASSUME NEW i \in 0..len PROVE f[i] = IF i = 0 THEN 0 ELSE f[i - 1] * Base + digits[i]
    <3>1. CASE i = 0
      BY <1>3, <3>1, Zenon
    <3>2. CASE i # 0
      <4>1. i \in 1..len /\ i - 1 \in 0..len
        BY <3>2
      <4> QED
        BY <1>2, <1>3, <3>2, <4>1, Zenon
    <3> QED
      BY <3>1, <3>2, Zenon
  <2> QED
    BY <2>1, Zenon
<1>5. L = E(L)
  BY <1>4, Zenon DEF Leading
<1> HIDE DEF E, L
<1>6. L[0] = 0
  <2>1. 0 \in 0..len
    OBVIOUS
  <2>2. E(L)[0] = 0
    BY <2>1, Zenon DEF E
  <2> QED
    BY <1>5, <2>2, Zenon
<1>7. ASSUME NEW i \in 1..len PROVE L[i] = L[i - 1] * Base + digits[i]
  <2>1. i \in 0..len /\ i # 0
    OBVIOUS
  <2>2. E(L)[i] = L[i - 1] * Base + digits[i]
    BY <2>1, Zenon DEF E
  <2> QED
    BY <1>5, <2>2, Zenon
<1>8. \A i \in 0..len : L[i] \in Nat
  <2> DEFINE S == {i \in Nat : L[i] \in Nat}
  <2>1. 0 \in S
    BY <1>6
  <2>2. ASSUME NEW i \in 0..(len - 1), i \in S PROVE i + 1 \in S
    <3>1. L[i] \in Nat
      BY <2>2, Zenon
    <3> HIDE DEF S
    <3>2. i + 1 \in 1..len /\ (i + 1) - 1 = i /\ i + 1 \in Nat
      OBVIOUS
    <3>3. L[i + 1] = L[i] * Base + digits[i + 1] /\ digits[i + 1] \in Nat
      BY <1>7, <3>2, Zenon
    <3>4. \A x, d \in Nat : x * Base + d \in Nat
      BY BaseFacts
    <3>5. L[i + 1] \in Nat
      BY <3>1, <3>3, <3>4, Zenon
    <3> QED
      BY <3>2, <3>5, Zenon DEF S
  <2> HIDE DEF S
  <2>3. \A i \in 0..len : i \in S
    BY <2>1, <2>2, BoundedInduction, Zenon
  <2> QED
    BY <2>3, Zenon DEF S
<1> QED
  BY <1>6, <1>7, <1>8, Zenon DEF L

(* The remainders that the long division carries. *)
LEMMA RemaindersAre ==
    ASSUME NEW value \in [1..Width -> Nat], NEW divisor \in Nat \ {0}
    PROVE  /\ Remainders(value, divisor)[0] = 0
           /\ \A i \in 0..Width : Remainders(value, divisor)[i] \in Nat
           /\ \A i \in 1..Width : Remainders(value, divisor)[i]
                                    = (Remainders(value, divisor)[i - 1] * Base + value[i]) % divisor
<1> DEFINE step == [i \in Nat |-> [x \in Nat |-> IF i \in 1..Width THEN (x * Base + value[i]) % divisor ELSE 0]]
           R == Remainders(value, divisor)
           E(f) == [i \in 0..Width |-> IF i = 0 THEN 0 ELSE (f[i - 1] * Base + value[i]) % divisor]
<1>0. \A x \in Nat, v \in Nat : (x * Base + v) % divisor \in Nat
  <2>1. \A x \in Nat, v \in Nat : x * Base + v \in Nat
    BY BaseFacts
  <2>2. \A y \in Nat : y % divisor \in Nat
    OBVIOUS
  <2> QED
    BY <2>1, <2>2, Zenon
<1>1. step \in [Nat -> [Nat -> Nat]]
  <2>1. \A i \in Nat, x \in Nat : (IF i \in 1..Width THEN (x * Base + value[i]) % divisor ELSE 0) \in Nat
    <3>1. 0 \in Nat /\ \A i \in 1..Width : value[i] \in Nat
      BY Zenon
    <3> QED
      BY <1>0, <3>1, Zenon
  <2> QED
    BY <2>1, Zenon
<1>2. \A i \in 1..Width, x \in Nat : step[i][x] = (x * Base + value[i]) % divisor
  <2>1. \A i \in 1..Width : i \in Nat
    BY BaseFacts
  <2> QED
    BY <2>1, Zenon
<1> HIDE DEF step
<1>3. PICK f \in [0..Width -> Nat] : f[0] = 0 /\ \A i \in 1..Width : f[i] = step[i][f[i - 1]]
  BY <1>1, BaseFacts, RecursionTo, Zenon
<1>4. f = E(f)
  <2>1. ASSUME NEW i \in 0..Width PROVE f[i] = IF i = 0 THEN 0 ELSE (f[i - 1] * Base + value[i]) % divisor
    <3>1. CASE i = 0
      BY <1>3, <3>1, Zenon
    <3>2. CASE i # 0
      <4>1. i \in 1..Width /\ i - 1 \in 0..Width
        BY <3>2, BaseFacts
      <4> QED
        BY <1>2, <1>3, <3>2, <4>1, Zenon
    <3> QED
      BY <3>1, <3>2, Zenon
  <2> QED
    BY <2>1, Zenon
<1>5. R = E(R)
  BY <1>4, Zenon DEF Remainders
<1> HIDE DEF E, R
<1>6. R[0] = 0
  <2>1. 0 \in 0..Width
    BY BaseFacts
  <2>2. E(R)[0] = 0
    BY <2>1, Zenon DEF E
  <2> QED
    BY <1>5, <2>2, Zenon
<1>7. ASSUME NEW i \in 1..Width PROVE R[i] = (R[i - 1] * Base + value[i]) % divisor
  <2>1. i \in 0..Width /\ i # 0
    BY BaseFacts
  <2>2. E(R)[i] = (R[i - 1] * Base + value[i]) % divisor
    BY <2>1, Zenon DEF E
  <2> QED
    BY <1>5, <2>2, Zenon
<1>8. \A i \in 0..Width : R[i] \in Nat
  <2> DEFINE S == {i \in Nat : R[i] \in Nat}
  <2>1. 0 \in S
    BY <1>6
  <2>2. ASSUME NEW i \in 0..(Width - 1), i \in S PROVE i + 1 \in S
    <3>1. R[i] \in Nat
      BY <2>2, Zenon
    <3> HIDE DEF S
    <3>2. i + 1 \in 1..Width /\ (i + 1) - 1 = i /\ i + 1 \in Nat
      BY BaseFacts
    <3>3. R[i + 1] = (R[i] * Base + value[i + 1]) % divisor /\ value[i + 1] \in Nat
      BY <1>7, <3>2, Zenon
    <3>4. R[i + 1] \in Nat
      BY <1>0, <3>1, <3>3, Zenon
    <3> QED
      BY <3>2, <3>4, Zenon DEF S
  <2> HIDE DEF S
  <2>3. \A i \in 0..Width : i \in S
    BY <2>1, <2>2, BaseFacts, BoundedInduction, Zenon
  <2> QED
    BY <2>3, Zenon DEF S
<1> QED
  BY <1>6, <1>7, <1>8, Zenon DEF R

-----------------------------------------------------------------------------
(* A number of Width digits. *)
DigitSeqs == [1..Width -> 0..(Base - 1)]

(* Its digits are numbers below the base, and it stands for a number. *)
LEMMA DigitFacts ==
    ASSUME NEW a \in DigitSeqs
    PROVE  /\ a \in [1..Width -> Nat]
           /\ \A i \in 1..Width : a[i] \in Nat /\ a[i] < Base
           /\ Value(a) \in Nat
<1>1. \A d \in 0..(Base - 1) : d \in Nat /\ d < Base
  BY BaseFacts
<1>2. \A i \in 1..Width : a[i] \in 0..(Base - 1)
  BY Zenon DEF DigitSeqs
<1>3. a \in [1..Width -> Nat]
  BY <1>1, Zenon DEF DigitSeqs
<1>4. Width \in Nat /\ Width \in 0..Width
  BY BaseFacts
<1>5. Value(a) \in Nat
  BY <1>3, <1>4, LeadingIs, Zenon DEF Value
<1> QED
  BY <1>1, <1>2, <1>3, <1>5, Zenon

(* Quotient and remainder. *)
LEMMA DivMod ==
    ASSUME NEW n \in Nat, NEW d \in Nat \ {0}
    PROVE  n \div d \in Nat /\ n % d \in Nat /\ n % d < d /\ n = (n \div d) * d + (n % d)
OBVIOUS

(* The quotient is the number whose multiple the dividend reaches and no more. *)
LEMMA QuotientIs ==
    ASSUME NEW n \in Nat, NEW d \in Nat \ {0}, NEW q \in Nat, q * d <= n, n < (q + 1) * d
    PROVE  n \div d = q
<1> DEFINE p == n \div d
<1>1. p \in Nat /\ p * d <= n /\ n < p * d + d
  OBVIOUS
<1> HIDE DEF p
<1>2. ~(p < q)
  <2> SUFFICES ASSUME p < q PROVE FALSE
    BY Zenon
  <2>1. p + 1 <= q
    BY <1>1
  <2>2. (p + 1) * d <= q * d
    BY <1>1, <2>1
  <2> QED
    BY <1>1, <2>2
<1>3. ~(q < p)
  <2> SUFFICES ASSUME q < p PROVE FALSE
    BY Zenon
  <2>1. q + 1 <= p
    BY <1>1
  <2>2. (q + 1) * d <= p * d
    BY <1>1, <2>1
  <2> QED
    BY <1>1, <2>2
<1> QED
  BY <1>1, <1>2, <1>3 DEF p

(* Long division (template.rs:821-832) divides the number and rounds down. *)
LEMMA LongDivision ==
    ASSUME NEW v \in DigitSeqs, NEW d \in Nat \ {0}
    PROVE  div_be_u256_by_u64(v, d) \in DigitSeqs /\ Value(div_be_u256_by_u64(v, d)) = Value(v) \div d
<1> DEFINE q == div_be_u256_by_u64(v, d)
           R == Remainders(v, d)
           V == Leading(v, Width)
           Q == Leading(q, Width)
<1>1. v \in [1..Width -> Nat] /\ \A i \in 1..Width : v[i] \in Nat /\ v[i] < Base
  BY DigitFacts, Zenon
<1>2. /\ R[0] = 0 /\ \A i \in 0..Width : R[i] \in Nat
      /\ \A i \in 1..Width : R[i] = (R[i - 1] * Base + v[i]) % d
  BY <1>1, RemaindersAre, Zenon
<1>3. V[0] = 0 /\ (\A i \in 0..Width : V[i] \in Nat) /\ \A i \in 1..Width : V[i] = V[i - 1] * Base + v[i]
  BY <1>1, BaseFacts, LeadingIs, Zenon
<1>4. \A i \in 1..Width : q[i] = (R[i - 1] * Base + v[i]) \div d
  BY Zenon DEF div_be_u256_by_u64
<1>5. \A i \in 1..Width : i \in 0..Width /\ i - 1 \in 0..Width /\ i \in Nat /\ i - 1 \in Nat
  BY BaseFacts
<1>6. ASSUME NEW i \in 1..Width
      PROVE  /\ q[i] \in Nat /\ R[i] < d
             /\ q[i] * d + R[i] = R[i - 1] * Base + v[i]
  <2> DEFINE n == R[i - 1] * Base + v[i]
  <2>1. R[i - 1] \in Nat /\ v[i] \in Nat
    BY <1>1, <1>2, <1>5, Zenon
  <2>2. n \in Nat
    BY <2>1, BaseFacts
  <2>3. q[i] = n \div d /\ R[i] = n % d
    BY <1>2, <1>4, Zenon
  <2> HIDE DEF n, q, R
  <2>4. n \div d \in Nat /\ n % d \in Nat /\ n % d < d /\ n = (n \div d) * d + (n % d)
    BY <2>2, DivMod, Zenon
  <2>5. q[i] \in Nat /\ R[i] < d /\ n = q[i] * d + R[i]
    BY <2>3, <2>4, Zenon
  <2> QED
    BY <2>5, Zenon DEF n
<1>7. \A i \in 0..Width : R[i] < d
  <2>1. \A i \in 0..Width : i = 0 \/ i \in 1..Width
    BY BaseFacts
  <2>2. R[0] < d
    BY <1>2
  <2> QED
    BY <1>6, <2>1, <2>2, Zenon
<1>8. ASSUME NEW i \in 1..Width PROVE q[i] \in 0..(Base - 1)
  <2>1. /\ R[i - 1] \in Nat /\ R[i - 1] < d /\ v[i] \in Nat /\ v[i] < Base /\ R[i] \in Nat
        /\ q[i] \in Nat /\ q[i] * d + R[i] = R[i - 1] * Base + v[i]
    BY <1>1, <1>2, <1>5, <1>6, <1>7, Zenon
  <2> HIDE DEF q, R
  <2>2. PICK a \in Nat, c \in Nat, x \in Nat, y \in Nat :
          q[i] = a /\ R[i - 1] = c /\ v[i] = x /\ R[i] = y
    BY <2>1, Zenon
  <2>3. c < d /\ x < Base /\ a * d + y = c * Base + x
    BY <2>1, <2>2, Zenon
  <2>4. (c + 1) * Base <= d * Base
    BY <2>3, BaseFacts
  <2>5. a * d < Base * d
    BY <2>3, <2>4, BaseFacts
  <2>6. ~(Base <= a)
    <3> SUFFICES ASSUME Base <= a PROVE FALSE
      BY Zenon
    <3>1. Base * d <= a * d
      BY BaseFacts
    <3> QED
      BY <2>5, <3>1, BaseFacts
  <2> QED
    BY <2>2, <2>6, BaseFacts
<1>9. q \in DigitSeqs
  <2>1. q = [i \in 1..Width |-> (R[i - 1] * Base + v[i]) \div d]
    BY Zenon DEF div_be_u256_by_u64
  <2>2. \A i \in 1..Width : (R[i - 1] * Base + v[i]) \div d \in 0..(Base - 1)
    BY <1>4, <1>8, Zenon
  <2> HIDE DEF q, R
  <2> QED
    BY <2>1, <2>2, Zenon DEF DigitSeqs
<1>10. Q[0] = 0 /\ (\A i \in 0..Width : Q[i] \in Nat) /\ \A i \in 1..Width : Q[i] = Q[i - 1] * Base + q[i]
  <2>1. q \in [1..Width -> Nat]
    BY <1>9, DigitFacts, Zenon
  <2> HIDE DEF q
  <2> QED
    BY <2>1, BaseFacts, LeadingIs, Zenon
<1> HIDE DEF q, Q, R, V
<1> DEFINE S == {i \in Nat : Q[i] * d + R[i] = V[i]}
<1>11. 0 \in S
  BY <1>2, <1>3, <1>10
<1>12. ASSUME NEW i \in 0..(Width - 1), i \in S PROVE i + 1 \in S
  <2>1. i + 1 \in 1..Width /\ (i + 1) - 1 = i /\ i + 1 \in Nat /\ i \in 0..Width
    BY BaseFacts
  <2>2. /\ Q[i] \in Nat /\ R[i] \in Nat /\ V[i] \in Nat /\ R[i + 1] \in Nat /\ q[i + 1] \in Nat /\ v[i + 1] \in Nat
        /\ Q[i] * d + R[i] = V[i]
        /\ q[i + 1] * d + R[i + 1] = R[i] * Base + v[i + 1]
        /\ Q[i + 1] = Q[i] * Base + q[i + 1]
        /\ V[i + 1] = V[i] * Base + v[i + 1]
    <3>1. i + 1 \in 0..Width
      BY <2>1, BaseFacts
    <3>2. R[i + 1] \in Nat
      BY <1>2, <3>1, Zenon
    <3>3. Q[i] * d + R[i] = V[i]
      BY <1>12, Zenon
    <3>4. R[i] \in Nat /\ V[i] \in Nat /\ Q[i] \in Nat
      BY <1>2, <1>3, <1>10, <2>1, Zenon
    <3>5. q[i + 1] \in Nat /\ v[i + 1] \in Nat /\ q[i + 1] * d + R[i + 1] = R[i] * Base + v[i + 1]
      <4>1. v[i + 1] \in Nat
        BY <1>1, <2>1, Zenon
      <4>2. q[i + 1] \in Nat /\ q[i + 1] * d + R[i + 1] = R[(i + 1) - 1] * Base + v[i + 1]
        BY <1>6, <2>1, Zenon
      <4> QED
        BY <2>1, <4>1, <4>2, Zenon
    <3>6. Q[i + 1] = Q[i] * Base + q[i + 1] /\ V[i + 1] = V[i] * Base + v[i + 1]
      BY <1>3, <1>10, <2>1, Zenon
    <3> QED
      BY <3>2, <3>3, <3>4, <3>5, <3>6, Zenon
  <2>3. PICK a, b, c, x, y, z \in Nat :
          Q[i] = a /\ R[i] = b /\ V[i] = c /\ R[i + 1] = x /\ q[i + 1] = y /\ v[i + 1] = z
    BY <2>2, Zenon
  <2>4. a * d + b = c /\ y * d + x = b * Base + z
    BY <2>2, <2>3, Zenon
  <2>5. (a * Base + y) * d + x = c * Base + z
    <3>1. (a * Base + y) * d = (a * d) * Base + y * d
      BY BaseFacts
    <3>2. c * Base = (a * d) * Base + b * Base
      BY <2>4, BaseFacts
    <3>3. a * d \in Nat /\ (a * d) * Base \in Nat /\ y * d \in Nat /\ b * Base \in Nat
      BY BaseFacts
    <3> QED
      BY <2>4, <3>1, <3>2, <3>3
  <2>6. Q[i + 1] * d + R[i + 1] = V[i + 1]
    BY <2>2, <2>3, <2>5, Zenon
  <2> QED
    BY <2>1, <2>6, Zenon
<1> HIDE DEF S
<1>13. Width \in S
  <2>1. \A i \in 0..Width : i \in S
    BY <1>11, <1>12, BaseFacts, BoundedInduction, Zenon
  <2>2. Width \in 0..Width
    BY BaseFacts
  <2> QED
    BY <2>1, <2>2, Zenon
<1>14. V[Width] \div d = Q[Width]
  <2>1. Width \in 0..Width
    BY BaseFacts
  <2>2. Q[Width] \in Nat /\ R[Width] \in Nat /\ R[Width] < d /\ V[Width] \in Nat
        /\ Q[Width] * d + R[Width] = V[Width]
    BY <1>2, <1>3, <1>7, <1>10, <1>13, <2>1, Zenon DEF S
  <2>3. PICK a, b, c \in Nat : Q[Width] = a /\ R[Width] = b /\ V[Width] = c
    BY <2>2, Zenon
  <2>4. b < d /\ a * d + b = c
    BY <2>2, <2>3, Zenon
  <2>5. a * d <= c /\ c < (a + 1) * d
    BY <2>4
  <2>6. c \div d = a
    BY <2>5, QuotientIs, Zenon
  <2> QED
    BY <2>3, <2>6, Zenon
<1> QED
  BY <1>9, <1>14, Zenon DEF Value, q, Q, V

-----------------------------------------------------------------------------
(* The order of the digits is the order of the numbers. *)
(* A first difference decides, whatever the digits after it. *)
LEMMA EarlierIsLess ==
    ASSUME NEW a \in DigitSeqs, NEW b \in DigitSeqs, NEW j \in FirstDifference(a, b), a[j] < b[j]
    PROVE  Value(a) < Value(b)
<1> DEFINE A == Leading(a, Width)
           B == Leading(b, Width)
<1>1. /\ \A i \in 1..Width : a[i] \in Nat /\ a[i] < Base /\ b[i] \in Nat /\ b[i] < Base
      /\ a \in [1..Width -> Nat] /\ b \in [1..Width -> Nat]
  BY DigitFacts, Zenon
<1>2. A[0] = 0 /\ (\A i \in 0..Width : A[i] \in Nat) /\ \A i \in 1..Width : A[i] = A[i - 1] * Base + a[i]
  BY <1>1, BaseFacts, LeadingIs, Zenon
<1>3. B[0] = 0 /\ (\A i \in 0..Width : B[i] \in Nat) /\ \A i \in 1..Width : B[i] = B[i - 1] * Base + b[i]
  BY <1>1, BaseFacts, LeadingIs, Zenon
<1>4. j \in 1..Width /\ \A i \in 1..(j - 1) : a[i] = b[i]
  BY Zenon DEF FirstDifference
<1> HIDE DEF A, B
<1> DEFINE S == {i \in Nat : IF i < j THEN A[i] = B[i] ELSE A[i] < B[i]}
<1>5. 0 \in S
  BY <1>2, <1>3, <1>4, BaseFacts
<1>6. ASSUME NEW i \in 0..(Width - 1), i \in S PROVE i + 1 \in S
  <2>1. i + 1 \in 1..Width /\ (i + 1) - 1 = i /\ i + 1 \in Nat /\ i \in 0..Width /\ j \in Nat /\ i \in Nat
    BY <1>4, BaseFacts
  <2>2. A[i] \in Nat /\ B[i] \in Nat /\ A[i + 1] = A[i] * Base + a[i + 1] /\ B[i + 1] = B[i] * Base + b[i + 1]
    BY <1>2, <1>3, <2>1, Zenon
  <2>3. a[i + 1] \in Nat /\ a[i + 1] < Base /\ b[i + 1] \in Nat /\ b[i + 1] < Base
    BY <1>1, <2>1, Zenon
  <2>4. IF i < j THEN A[i] = B[i] ELSE A[i] < B[i]
    BY <1>6, Zenon
  <2>5. PICK p, q, x, y \in Nat : A[i] = p /\ B[i] = q /\ a[i + 1] = x /\ b[i + 1] = y
    BY <2>2, <2>3, Zenon
  <2>6. A[i + 1] = p * Base + x /\ B[i + 1] = q * Base + y /\ x < Base /\ y < Base
    BY <2>2, <2>3, <2>5, Zenon
  <2>7. CASE i + 1 < j
    <3>1. i + 1 \in 1..(j - 1) /\ i < j
      BY <2>1, <2>7
    <3>2. x = y /\ p = q
      BY <1>4, <2>4, <2>5, <3>1, Zenon
    <3>3. A[i + 1] = B[i + 1]
      BY <2>6, <3>2, Zenon
    <3> QED
      BY <2>1, <2>7, <3>3, Zenon
  <2>8. CASE i + 1 = j
    <3>1. i < j /\ ~(i + 1 < j)
      BY <2>1, <2>8
    <3>2. x < y /\ p = q
      BY <2>4, <2>5, <2>8, <3>1, Zenon
    <3>3. p * Base + x < q * Base + y
      BY <3>2, BaseFacts
    <3>4. A[i + 1] < B[i + 1]
      BY <2>6, <3>3, Zenon
    <3> QED
      BY <2>1, <3>1, <3>4, Zenon
  <2>9. CASE j < i + 1
    <3>1. ~(i < j) /\ ~(i + 1 < j)
      BY <2>1, <2>9
    <3>2. p < q
      BY <2>4, <2>5, <3>1, Zenon
    <3>3. (p + 1) * Base <= q * Base
      BY <3>2, BaseFacts
    <3>4. p * Base + x < q * Base + y
      BY <2>6, <3>3, BaseFacts
    <3>5. A[i + 1] < B[i + 1]
      BY <2>6, <3>4, Zenon
    <3> QED
      BY <2>1, <3>1, <3>5, Zenon
  <2> QED
    BY <2>1, <2>7, <2>8, <2>9
<1>7. Width \in S
  <2> HIDE DEF S
  <2>1. \A i \in 0..Width : i \in S
    BY <1>5, <1>6, BaseFacts, BoundedInduction, Zenon
  <2>2. Width \in 0..Width
    BY BaseFacts
  <2> QED
    BY <2>1, <2>2, Zenon
<1>8. ~(Width < j)
  BY <1>4, BaseFacts
<1>9. A[Width] < B[Width]
  BY <1>7, <1>8, Zenon
<1> QED
  BY <1>9, Zenon DEF Value, A, B

(* Digits that differ have a first place at which they do. *)
LEMMA FirstDifferenceExists ==
    ASSUME NEW a \in DigitSeqs, NEW b \in DigitSeqs, a # b
    PROVE  FirstDifference(a, b) # {}
<1> DEFINE T == {i \in 1..Width : a[i] # b[i]}
<1>1. T # {}
  <2> SUFFICES ASSUME \A i \in 1..Width : a[i] = b[i] PROVE FALSE
    BY Zenon
  <2>1. a = [i \in 1..Width |-> a[i]] /\ b = [i \in 1..Width |-> b[i]]
    BY Zenon DEF DigitSeqs
  <2> QED
    BY <2>1
<1>2. T \in SUBSET Nat
  BY BaseFacts
<1>3. PICK m \in T : \A n \in T : m <= n
  <2> HIDE DEF T
  <2> QED
    BY <1>1, <1>2, LeastNumber, Zenon
<1>4. \A j \in 1..(m - 1) : j \in 1..Width /\ ~(m <= j)
  BY <1>3, BaseFacts
<1>5. m \in 1..Width /\ a[m] # b[m] /\ \A j \in 1..(m - 1) : a[j] = b[j]
  BY <1>3, <1>4, Zenon
<1>6. m \in FirstDifference(a, b)
  BY <1>5, Zenon DEF FirstDifference
<1> QED
  BY <1>6, Zenon

(* The comparison of the bytes is the comparison of the numbers. *)
LEMMA OrderIsNumeric ==
    ASSUME NEW a \in DigitSeqs, NEW b \in DigitSeqs
    PROVE  AtMost(a, b) <=> Value(a) <= Value(b)
<1>1. Value(a) \in Nat /\ Value(b) \in Nat
  BY DigitFacts, Zenon
<1>2. ASSUME AtMost(a, b) PROVE Value(a) <= Value(b)
  <2>1. CASE a = b
    BY <1>1, <2>1
  <2>2. CASE a # b
    <3>1. PICK j \in FirstDifference(a, b) : a[j] < b[j]
      BY <1>2, <2>2, FirstDifferenceExists, Zenon DEF AtMost
    <3>2. Value(a) < Value(b)
      BY <3>1, EarlierIsLess, Zenon
    <3> QED
      BY <1>1, <3>2
  <2> QED
    BY <2>1, <2>2, Zenon
<1>3. ASSUME ~AtMost(a, b) PROVE ~(Value(a) <= Value(b))
  <2>1. PICK j \in FirstDifference(a, b) : ~(a[j] < b[j])
    BY <1>3, Zenon DEF AtMost
  <2>2. j \in 1..Width /\ a[j] # b[j] /\ j \in FirstDifference(b, a)
    BY Zenon DEF FirstDifference
  <2>3. a[j] \in Nat /\ b[j] \in Nat
    BY <2>2, DigitFacts, Zenon
  <2>4. b[j] < a[j]
    BY <2>1, <2>2, <2>3
  <2>5. Value(b) < Value(a)
    BY <2>2, <2>4, EarlierIsLess, Zenon
  <2> QED
    BY <1>1, <2>5
<1> QED
  BY <1>2, <1>3, Zenon

-----------------------------------------------------------------------------
(* Turning the bytes around twice changes nothing. *)
LEMMA ReversedIs ==
    ASSUME NEW a \in DigitSeqs
    PROVE  Reversed(a) \in DigitSeqs /\ Reversed(Reversed(a)) = a
<1>1. \A i \in 1..Width : Width + 1 - i \in 1..Width /\ Width + 1 - (Width + 1 - i) = i
  BY BaseFacts
<1>2. \A i \in 1..Width : a[Width + 1 - i] \in 0..(Base - 1)
  BY <1>1, Zenon DEF DigitSeqs
<1>3. Reversed(a) \in DigitSeqs
  BY <1>2, Zenon DEF DigitSeqs, Reversed
<1>4. \A i \in 1..Width : Reversed(a)[i] = a[Width + 1 - i]
  BY Zenon DEF Reversed
<1>5. \A i \in 1..Width : Reversed(a)[Width + 1 - i] = a[i]
  BY <1>1, <1>4, Zenon
<1>6. Reversed(Reversed(a)) = [i \in 1..Width |-> a[i]]
  <2>1. Reversed(Reversed(a)) = [i \in 1..Width |-> Reversed(a)[Width + 1 - i]]
    BY Zenon DEF Reversed
  <2> QED
    BY <1>5, <2>1, Zenon
<1>7. a = [i \in 1..Width |-> a[i]]
  BY Zenon DEF DigitSeqs
<1> QED
  BY <1>3, <1>6, <1>7, Zenon

(* The digits of a number. *)
LEMMA DigitsAre ==
    ASSUME NEW n \in Nat
    PROVE  Digits(n) \in DigitSeqs
<1>1. ASSUME NEW i \in 1..Width PROVE (n \div Power[Width - i]) % Base \in 0..(Base - 1)
  <2>1. Width - i \in Nat
    BY BaseFacts
  <2>2. Power[Width - i] \in Nat \ {0}
    BY <2>1, PowerIsPositive, Zenon
  <2>3. n \div Power[Width - i] \in Nat
    BY <2>2, DivMod, Zenon
  <2>4. \A m \in Nat : m % Base \in 0..(Base - 1)
    BY BaseFacts
  <2> QED
    BY <2>3, <2>4, Zenon
<1> QED
  BY <1>1, Zenon DEF Digits, DigitSeqs

(* Difficulty 1 is made of digits. *)
LEMMA Diff1Is ==
    DIFF1_TARGET \in DigitSeqs
<1>1. 0 \in 0..(Base - 1) /\ Base - 1 \in 0..(Base - 1)
  BY BaseFacts
<1> QED
  BY <1>1, Zenon DEF DIFF1_TARGET, DigitSeqs

(* A share target is difficulty 1's, divided and rounded down. *)
LEMMA ShareTargetIs ==
    ASSUME NEW d \in Nat \ {0}
    PROVE  difficulty_to_target(d) \in DigitSeqs /\ Value(difficulty_to_target(d)) = Diff1 \div d
<1>1. CASE d <= 1
  <2>1. d = 1 /\ \A n \in Nat : n \div 1 = n
    BY <1>1
  <2>2. Diff1 \in Nat
    BY Diff1Is, DigitFacts, Zenon DEF Diff1
  <2>3. difficulty_to_target(d) = DIFF1_TARGET
    BY <1>1, Zenon DEF difficulty_to_target
  <2> QED
    BY <2>1, <2>2, <2>3, Diff1Is, Zenon DEF Diff1
<1>2. CASE ~(d <= 1)
  <2>1. difficulty_to_target(d) = div_be_u256_by_u64(DIFF1_TARGET, d)
    BY <1>2, Zenon DEF difficulty_to_target
  <2> QED
    BY <2>1, Diff1Is, LongDivision, Zenon DEF Diff1
<1> QED
  BY <1>1, <1>2, Zenon

-----------------------------------------------------------------------------
(* Division by powers *)
(* Dividing twice is dividing by the product. *)
LEMMA NestedQuotient ==
    ASSUME NEW n \in Nat, NEW a \in Nat \ {0}, NEW b \in Nat \ {0}
    PROVE  n \div (a * b) = (n \div a) \div b
<1>1. PICK q \in Nat : n \div a = q /\ q * a <= n /\ n < (q + 1) * a
  <2>1. n \div a \in Nat /\ (n \div a) * a <= n /\ n < ((n \div a) + 1) * a
    <3>1. PICK q, r \in Nat : n \div a = q /\ n % a = r
      BY DivMod, Zenon
    <3>2. n = q * a + r /\ r < a
      BY <3>1, DivMod, Zenon
    <3>3. q * a <= n /\ n < (q + 1) * a
      BY <3>2
    <3> QED
      BY <3>1, <3>3, Zenon
  <2> QED
    BY <2>1, Zenon
<1>2. PICK r, m \in Nat : q \div b = r /\ q = r * b + m /\ m < b
  BY DivMod, Zenon
<1>3. a * b \in Nat \ {0}
  OBVIOUS
<1>4. r * (a * b) <= n
  <2>1. r * b <= q
    BY <1>2
  <2>2. (r * b) * a <= q * a
    BY <2>1
  <2>3. r * (a * b) = (r * b) * a
    OBVIOUS
  <2> QED
    BY <1>1, <2>2, <2>3
<1>5. n < (r + 1) * (a * b)
  <2>1. q + 1 <= (r + 1) * b
    BY <1>2
  <2>2. (q + 1) * a <= ((r + 1) * b) * a
    BY <2>1
  <2>3. (r + 1) * (a * b) = ((r + 1) * b) * a
    OBVIOUS
  <2> QED
    BY <1>1, <2>2, <2>3
<1>6. n \div (a * b) = r
  BY <1>3, <1>4, <1>5, QuotientIs
<1> QED
  BY <1>1, <1>2, <1>6, Zenon

(* A common factor does not matter. *)
LEMMA ScaledQuotient ==
    ASSUME NEW n \in Nat, NEW a \in Nat \ {0}, NEW c \in Nat \ {0}
    PROVE  (n * c) \div (a * c) = n \div a
<1>1. PICK q, r \in Nat : n \div a = q /\ n = q * a + r /\ r < a
  BY DivMod, Zenon
<1>2. q * a <= n /\ n < (q + 1) * a
  BY <1>1
<1>3. (q * a) * c <= n * c /\ n * c < ((q + 1) * a) * c
  BY <1>2
<1>4. q * (a * c) = (q * a) * c /\ (q + 1) * (a * c) = ((q + 1) * a) * c
  OBVIOUS
<1>5. n * c \in Nat /\ a * c \in Nat \ {0}
  OBVIOUS
<1>6. (n * c) \div (a * c) = q
  BY <1>3, <1>4, <1>5, QuotientIs
<1> QED
  BY <1>1, <1>6, Zenon

(* A larger divisor gives no larger quotient. *)
LEMMA QuotientDecreases ==
    ASSUME NEW n \in Nat, NEW a \in Nat \ {0}, NEW b \in Nat \ {0}, a <= b
    PROVE  n \div b <= n \div a
<1>1. PICK q, r \in Nat : n \div a = q /\ n = q * a + r /\ r < a
  BY DivMod, Zenon
<1>2. PICK p, s \in Nat : n \div b = p /\ n = p * b + s /\ s < b
  BY DivMod, Zenon
<1>3. ~(q < p)
  <2> SUFFICES ASSUME q < p PROVE FALSE
    BY Zenon
  <2>1. (q + 1) * a <= p * a /\ p * a <= p * b
    OBVIOUS
  <2>2. q * a + a = (q + 1) * a
    OBVIOUS
  <2> QED
    BY <1>1, <1>2, <2>1, <2>2
<1> QED
  BY <1>1, <1>2, <1>3

(* One power more takes one digit off. *)
LEMMA QuotientStep ==
    ASSUME NEW n \in Nat, NEW k \in Nat
    PROVE  /\ n \div Power[k] \in Nat /\ n \div Power[k + 1] \in Nat
           /\ n \div Power[k] = (n \div Power[k + 1]) * Base + ((n \div Power[k]) % Base)
<1>1. PICK p \in Nat \ {0} : Power[k] = p /\ Power[k + 1] = Base * p
  BY PowerIs, PowerIsPositive, Zenon
<1>2. PICK q \in Nat : n \div p = q
  BY DivMod, Zenon
<1>3. Base \in Nat \ {0} /\ Base * p = p * Base
  BY BaseFacts
<1>4. n \div (p * Base) = q \div Base
  BY <1>2, <1>3, NestedQuotient, Zenon
<1>5. q \div Base \in Nat /\ q = (q \div Base) * Base + (q % Base)
  BY <1>3, DivMod, Zenon
<1> QED
  BY <1>1, <1>2, <1>3, <1>4, <1>5, Zenon

(* The power of a sum. *)
LEMMA PowerSum == \A i, j \in Nat : Power[i + j] = Power[i] * Power[j]
<1> SUFFICES ASSUME NEW i \in Nat PROVE \A j \in Nat : Power[i + j] = Power[i] * Power[j]
  BY Zenon
<1> DEFINE S == {j \in Nat : Power[i + j] = Power[i] * Power[j]}
<1>1. 0 \in S
  <2>1. Power[i] \in Nat /\ Power[0] = 1 /\ i + 0 = i
    BY PowerIs
  <2> QED
    BY <2>1
<1>2. ASSUME NEW j \in Nat, j \in S PROVE j + 1 \in S
  <2>1. i + j \in Nat /\ i + (j + 1) = (i + j) + 1 /\ j + 1 \in Nat
    OBVIOUS
  <2>2. Power[(i + j) + 1] = Base * Power[i + j] /\ Power[j + 1] = Base * Power[j]
    BY <2>1, PowerIs, Zenon
  <2>3. PICK a, b \in Nat : Power[i] = a /\ Power[j] = b
    BY PowerIs, Zenon
  <2>4. Power[i + j] = a * b
    BY <1>2, <2>3, Zenon
  <2>5. Base * (a * b) = a * (Base * b)
    BY BaseFacts
  <2> QED
    BY <2>1, <2>2, <2>3, <2>4, <2>5, Zenon
<1> HIDE DEF S
<1>3. \A j \in Nat : j \in S
  BY <1>1, <1>2, SetInduction, Zenon
<1> QED
  BY <1>3, Zenon DEF S

(* Powers grow. *)
LEMMA PowerGrows ==
    ASSUME NEW i \in Nat, NEW j \in Nat, i <= j
    PROVE  Power[i] <= Power[j]
<1>1. j - i \in Nat /\ i + (j - i) = j
  OBVIOUS
<1>2. PICK a, b \in Nat \ {0} : Power[i] = a /\ Power[j - i] = b
  BY <1>1, PowerIsPositive, Zenon
<1>3. Power[j] = a * b
  BY <1>1, <1>2, PowerSum, Zenon
<1>4. a <= a * b
  OBVIOUS
<1> QED
  BY <1>2, <1>3, <1>4, Zenon

(* A smaller number divided by a larger one. *)
LEMMA QuotientZero ==
    ASSUME NEW n \in Nat, NEW d \in Nat \ {0}, n < d
    PROVE  n \div d = 0
<1>1. 0 * d <= n /\ n < (0 + 1) * d /\ 0 \in Nat
  OBVIOUS
<1> QED
  BY <1>1, QuotientIs, Zenon

(* The power 0 divides nothing away. *)
LEMMA QuotientByOne == \A n \in Nat : n \div Power[0] = n
<1>1. \A n \in Nat : n \div 1 = n
  OBVIOUS
<1> QED
  BY <1>1, PowerIs, Zenon

-----------------------------------------------------------------------------
(* The first digits of a number are its quotient by a power. *)
LEMMA PrefixIsQuotient ==
    ASSUME NEW a \in DigitSeqs
    PROVE  \A i \in 0..Width : Leading(a, Width)[i] = Value(a) \div Power[Width - i]
<1> DEFINE L == Leading(a, Width)
           S == {j \in Nat : L[Width - j] = L[Width] \div Power[j]}
<1>1. /\ \A i \in 1..Width : a[i] \in Nat /\ a[i] < Base
      /\ a \in [1..Width -> Nat]
  BY DigitFacts, Zenon
<1>2. L[0] = 0 /\ (\A i \in 0..Width : L[i] \in Nat) /\ \A i \in 1..Width : L[i] = L[i - 1] * Base + a[i]
  BY <1>1, BaseFacts, LeadingIs, Zenon
<1> HIDE DEF L
<1>3. 0 \in S
  <2>1. Width - 0 = Width /\ Width \in 0..Width
    BY BaseFacts
  <2> QED
    BY <1>2, <2>1, QuotientByOne
<1>4. ASSUME NEW j \in 0..(Width - 1), j \in S PROVE j + 1 \in S
  <2>1. /\ j \in Nat /\ Width - j \in 1..Width /\ (Width - j) - 1 = Width - (j + 1) /\ j + 1 \in Nat
        /\ Width - (j + 1) \in 0..Width /\ Width \in 0..Width /\ Width - j \in 0..Width
    BY BaseFacts
  <2>2. PICK n, p, q, d \in Nat : L[Width] = n /\ L[Width - j] = q /\ L[Width - (j + 1)] = p /\ a[Width - j] = d
    BY <1>1, <1>2, <2>1, Zenon
  <2>3. q = p * Base + d /\ d < Base
    BY <1>1, <1>2, <2>1, <2>2, Zenon
  <2>4. q = n \div Power[j]
    BY <1>4, <2>2, Zenon
  <2>5. q \div Base = p
    <3>1. p * Base <= q /\ q < (p + 1) * Base /\ Base \in Nat \ {0}
      BY <2>3, BaseFacts
    <3> QED
      BY <3>1, QuotientIs, Zenon
  <2>6. n \div Power[j + 1] = (n \div Power[j]) \div Base
    <3>1. PICK x \in Nat \ {0} : Power[j] = x /\ Power[j + 1] = Base * x
      BY <2>1, PowerIs, PowerIsPositive, Zenon
    <3>2. Base \in Nat \ {0} /\ Base * x = x * Base
      BY BaseFacts
    <3>3. n \div (x * Base) = (n \div x) \div Base
      BY <3>2, NestedQuotient, Zenon
    <3> QED
      BY <3>1, <3>2, <3>3, Zenon
  <2> QED
    BY <2>1, <2>2, <2>4, <2>5, <2>6, Zenon
<1>5. \A j \in 0..Width : j \in S
  <2> HIDE DEF S
  <2> QED
    BY <1>3, <1>4, BaseFacts, BoundedInduction, Zenon
<1>6. ASSUME NEW i \in 0..Width PROVE L[i] = L[Width] \div Power[Width - i]
  <2>1. Width - i \in 0..Width /\ Width - (Width - i) = i
    BY BaseFacts
  <2>2. L[Width - (Width - i)] = L[Width] \div Power[Width - i]
    BY <1>5, <2>1, Zenon
  <2> QED
    BY <2>1, <2>2, Zenon
<1> QED
  BY <1>6, Zenon DEF Value, L

(* A number of at most Width digits is what its digits stand for. *)
LEMMA DigitsValue ==
    ASSUME NEW n \in Nat, n < Power[Width]
    PROVE  Value(Digits(n)) = n
<1> DEFINE a == Digits(n)
           L == Leading(a, Width)
           S == {i \in Nat : L[i] = n \div Power[Width - i]}
<1>1. a \in DigitSeqs /\ a \in [1..Width -> Nat]
  BY DigitsAre, DigitFacts, Zenon
<1>2. \A i \in 1..Width : a[i] = (n \div Power[Width - i]) % Base
  BY Zenon DEF Digits
<1> HIDE DEF a
<1>3. L[0] = 0 /\ (\A i \in 0..Width : L[i] \in Nat) /\ \A i \in 1..Width : L[i] = L[i - 1] * Base + a[i]
  BY <1>1, BaseFacts, LeadingIs, Zenon
<1> HIDE DEF L
<1>4. 0 \in S
  <2>1. Width - 0 = Width /\ Width \in Nat /\ 0 \in Nat
    BY BaseFacts
  <2>2. n \div Power[Width] = 0
    BY <2>1, PowerIsPositive, QuotientZero, Zenon
  <2> QED
    BY <1>3, <2>1, <2>2, Zenon
<1>5. ASSUME NEW i \in 0..(Width - 1), i \in S PROVE i + 1 \in S
  <2>1. /\ i + 1 \in 1..Width /\ (i + 1) - 1 = i /\ i + 1 \in Nat
        /\ Width - (i + 1) \in Nat /\ Width - i = (Width - (i + 1)) + 1
    BY BaseFacts
  <2>2. L[i + 1] = L[i] * Base + a[i + 1] /\ a[i + 1] = (n \div Power[Width - (i + 1)]) % Base
    BY <1>2, <1>3, <2>1, Zenon
  <2>3. L[i] = n \div Power[(Width - (i + 1)) + 1]
    BY <1>5, <2>1, Zenon
  <2>4. n \div Power[Width - (i + 1)] = (n \div Power[(Width - (i + 1)) + 1]) * Base + ((n \div Power[Width - (i + 1)]) % Base)
    BY <2>1, QuotientStep, Zenon
  <2> QED
    BY <2>1, <2>2, <2>3, <2>4, Zenon
<1> HIDE DEF S
<1>6. Width \in S
  <2>1. Width \in 0..Width
    BY BaseFacts
  <2> QED
    BY <1>4, <1>5, <2>1, BaseFacts, BoundedInduction, Zenon
<1>7. Width - Width = 0
  BY BaseFacts
<1> QED
  BY <1>6, <1>7, QuotientByOne, Zenon DEF S, L, a, Value

(* The mantissa at its place. *)
LEMMA ShiftedMantissa ==
    ASSUME NEW e \in 4..Width, NEW m \in Nat, m < Power[3], NEW a \in DigitSeqs,
           \A i \in 1..Width : a[i] = IF i - (Width - e) \in 1..3
                                      THEN (m \div Power[3 - (i - (Width - e))]) % Base ELSE 0
    PROVE  Value(a) = m * Power[e - 3]
<1> DEFINE s == Width - e
           L == Leading(a, Width)
           S == {i \in Nat : L[i] = IF i <= s + 3 THEN m \div Power[s + 3 - i] ELSE m * Power[i - (s + 3)]}
<1>1. a \in [1..Width -> Nat]
  BY DigitFacts, Zenon
<1>2. L[0] = 0 /\ (\A i \in 0..Width : L[i] \in Nat) /\ \A i \in 1..Width : L[i] = L[i - 1] * Base + a[i]
  BY <1>1, BaseFacts, LeadingIs, Zenon
<1>3. s \in Nat /\ s + 3 \in Nat /\ e \in Nat
  BY BaseFacts
<1>4. \A i \in 1..Width : a[i] = IF i - s \in 1..3 THEN (m \div Power[3 - (i - s)]) % Base ELSE 0
  BY Zenon
<1> HIDE DEF L, s
<1>5. ASSUME NEW k \in Nat, 3 <= k PROVE m \div Power[k] = 0
  <2>1. PICK p, q \in Nat \ {0} : Power[3] = p /\ Power[k] = q
    <3>1. 3 \in Nat
      OBVIOUS
    <3> QED
      BY <3>1, PowerIsPositive, Zenon
  <2>2. p <= q
    BY <1>5, <2>1, PowerGrows
  <2>3. m < q
    BY <2>1, <2>2
  <2> QED
    BY <2>1, <2>3, QuotientZero, Zenon
<1>6. 0 \in S
  <2>1. 0 <= s + 3 /\ s + 3 - 0 = s + 3 /\ 3 <= s + 3
    BY <1>3
  <2> QED
    BY <1>2, <1>3, <1>5, <2>1
<1>7. ASSUME NEW i \in 0..(Width - 1), i \in S PROVE i + 1 \in S
  <2>1. i + 1 \in 1..Width /\ (i + 1) - 1 = i /\ i + 1 \in Nat /\ i \in Nat
    BY BaseFacts
  <2>2. L[i + 1] = L[i] * Base + a[i + 1] /\ L[i] \in Nat
    <3>1. i \in 0..Width
      BY BaseFacts
    <3> QED
      BY <1>2, <2>1, <3>1, Zenon
  <2>3. CASE i + 1 <= s + 3
    <3> DEFINE k == s + 3 - (i + 1)
    <3>1. k \in Nat /\ s + 3 - i = k + 1 /\ i <= s + 3 /\ 3 - ((i + 1) - s) = k
      BY <1>3, <2>1, <2>3
    <3>2. L[i] = m \div Power[k + 1]
      BY <1>7, <3>1, Zenon
    <3>3. m \div Power[k] = (m \div Power[k + 1]) * Base + ((m \div Power[k]) % Base)
      BY <3>1, QuotientStep, Zenon
    <3>4. a[i + 1] = (m \div Power[k]) % Base
      <4>1. CASE (i + 1) - s \in 1..3
        BY <1>4, <2>1, <3>1, <4>1, Zenon
      <4>2. CASE ~((i + 1) - s \in 1..3)
        <5>1. 3 <= k
          BY <1>3, <2>1, <2>3, <4>2
        <5>2. m \div Power[k] = 0
          BY <1>5, <3>1, <5>1, Zenon
        <5>3. a[i + 1] = 0
          BY <1>4, <2>1, <4>2, Zenon
        <5>4. 0 % Base = 0
          BY BaseFacts
        <5> QED
          BY <5>2, <5>3, <5>4, Zenon
      <4> QED
        BY <4>1, <4>2, Zenon
    <3>5. L[i + 1] = m \div Power[k]
      BY <2>2, <3>2, <3>3, <3>4, Zenon
    <3> QED
      BY <2>1, <2>3, <3>5, Zenon
  <2>4. CASE ~(i + 1 <= s + 3)
    <3> DEFINE k == i - (s + 3)
    <3>1. k \in Nat /\ (i + 1) - (s + 3) = k + 1 /\ ~((i + 1) - s \in 1..3)
      BY <1>3, <2>1, <2>4
    <3>2. a[i + 1] = 0
      BY <1>4, <2>1, <3>1, Zenon
    <3>3. L[i] = m * Power[k]
      <4>1. CASE i <= s + 3
        <5>1. s + 3 - i = 0 /\ k = 0
          BY <1>3, <2>1, <2>4, <4>1
        <5>2. L[i] = m \div Power[0]
          BY <1>7, <4>1, <5>1, Zenon
        <5>3. m * Power[0] = m
          BY PowerIs
        <5> QED
          BY <5>1, <5>2, <5>3, QuotientByOne, Zenon
      <4>2. CASE ~(i <= s + 3)
        BY <1>7, <4>2, Zenon
      <4> QED
        BY <4>1, <4>2, Zenon
    <3>4. PICK p \in Nat : Power[k] = p /\ Power[k + 1] = Base * p
      BY <3>1, PowerIs, Zenon
    <3>5. (m * p) * Base + 0 = m * (Base * p)
      BY BaseFacts
    <3>6. L[i + 1] = m * Power[(i + 1) - (s + 3)]
      BY <2>2, <3>1, <3>2, <3>3, <3>4, <3>5, Zenon
    <3> QED
      BY <2>1, <2>4, <3>6, Zenon
  <2> QED
    BY <2>3, <2>4, Zenon
<1>8. Width \in S
  <2> HIDE DEF S
  <2>1. Width \in 0..Width
    BY BaseFacts
  <2> QED
    BY <1>6, <1>7, <2>1, BaseFacts, BoundedInduction, Zenon
<1>9. Width - (s + 3) = e - 3 /\ ~(Width <= s + 3)
  BY <1>3, BaseFacts DEF s
<1>10. L[Width] = m * Power[e - 3]
  BY <1>8, <1>9, Zenon
<1> QED
  BY <1>10, Zenon DEF Value, L

(* The network target is the number of the compact form. *)
LEMMA CompactIs ==
    ASSUME NEW e \in Nat, NEW m \in Nat, m < Power[3], compact_to_target(e, m).ok
    PROVE  Value(compact_to_target(e, m).target)
             = IF e <= 3 THEN m \div Power[3 - e] ELSE m * Power[e - 3]
<1>0. 3 \in Nat /\ Width \in Nat /\ 3 <= Width /\ 0 \in Nat
  BY BaseFacts
<1>1. PICK w \in Nat : Power[Width] = w /\ Power[3] <= w /\ m < w
  <2>1. Power[3] <= Power[Width]
    BY <1>0, PowerGrows, Zenon
  <2>2. Power[3] \in Nat /\ Power[Width] \in Nat
    BY <1>0, PowerIs, Zenon
  <2>3. m < Power[Width]
    BY <2>1, <2>2
  <2> QED
    BY <2>1, <2>2, <2>3, Zenon
<1>2. CASE m = 0
  <2>1. compact_to_target(e, m).target = Digits(0)
    BY <1>2, Zenon DEF compact_to_target, Zero
  <2>2. Value(Digits(0)) = 0
    BY <1>0, <1>1, <1>2, DigitsValue, Zenon
  <2>3. CASE e <= 3
    <3>1. 3 - e \in Nat
      BY <2>3
    <3>2. PICK p \in Nat \ {0} : Power[3 - e] = p
      BY <3>1, PowerIsPositive, Zenon
    <3>3. 0 \div p = 0
      OBVIOUS
    <3> QED
      BY <1>2, <2>1, <2>2, <2>3, <3>2, <3>3, Zenon
  <2>4. CASE ~(e <= 3)
    <3>1. e - 3 \in Nat
      BY <2>4
    <3>2. PICK p \in Nat : Power[e - 3] = p
      BY <3>1, PowerIs, Zenon
    <3>3. 0 * p = 0
      OBVIOUS
    <3> QED
      BY <1>2, <2>1, <2>2, <2>4, <3>2, <3>3, Zenon
  <2> QED
    BY <2>3, <2>4, Zenon
<1>3. CASE m # 0 /\ e <= 3
  <2>1. compact_to_target(e, m).target = Digits(m \div Power[3 - e])
    BY <1>3, Zenon DEF compact_to_target
  <2>2. 3 - e \in Nat
    BY <1>3
  <2>3. PICK p \in Nat \ {0}, q, r \in Nat : Power[3 - e] = p /\ m \div p = q /\ m = q * p + r
    <3>1. PICK p \in Nat \ {0} : Power[3 - e] = p
      BY <2>2, PowerIsPositive, Zenon
    <3>2. PICK q, r \in Nat : m \div p = q /\ m = q * p + r
      BY DivMod, Zenon
    <3> QED
      BY <3>1, <3>2, Zenon
  <2>4. q <= m
    <3>1. q <= q * p
      OBVIOUS
    <3> QED
      BY <2>3, <3>1
  <2>5. q < w
    BY <1>1, <2>4
  <2>6. Value(Digits(q)) = q
    BY <1>1, <2>5, DigitsValue, Zenon
  <2> QED
    BY <1>3, <2>1, <2>3, <2>6, Zenon
<1>4. CASE m # 0 /\ ~(e <= 3)
  <2> DEFINE a == [i \in 1..Width |-> LET k == i - (Width - e)
                                      IN  IF k \in 1..3 THEN (m \div Power[3 - k]) % Base ELSE 0]
  <2>1. ~(e > Width) /\ compact_to_target(e, m).target = a
    BY <1>4, Zenon DEF compact_to_target
  <2>2. e \in 4..Width
    BY <1>0, <1>4, <2>1
  <2>3. \A i \in 1..Width : a[i] = IF i - (Width - e) \in 1..3
                                   THEN (m \div Power[3 - (i - (Width - e))]) % Base ELSE 0
    BY Zenon
  <2>4. a \in DigitSeqs
    <3>1. \A k \in 1..3 : (m \div Power[3 - k]) % Base \in 0..(Base - 1)
      <4> TAKE k \in 1..3
      <4>1. 3 - k \in Nat
        OBVIOUS
      <4>2. m \div Power[3 - k] \in Nat
        BY <4>1, PowerIsPositive, DivMod, Zenon
      <4>3. \A x \in Nat : x % Base \in 0..(Base - 1)
        BY BaseFacts
      <4> QED
        BY <4>2, <4>3, Zenon
    <3>2. 0 \in 0..(Base - 1)
      BY BaseFacts
    <3> QED
      BY <3>1, <3>2, Zenon DEF DigitSeqs
  <2> HIDE DEF a
  <2>5. Value(a) = m * Power[e - 3]
    BY <2>2, <2>3, <2>4, ShiftedMantissa, Zenon
  <2> QED
    BY <1>4, <2>1, <2>5, Zenon
<1> QED
  BY <1>2, <1>3, <1>4, Zenon

-----------------------------------------------------------------------------
(* What a hash is worth *)

(* The number that difficulty 1 stands for. *)
LEMMA Diff1Value == Diff1 = (Base * Base - 1) * Power[Width - Diff1At - 2]
<1> DEFINE a == DIFF1_TARGET
           D == Diff1At
           c == Base * Base - 1
           L == Leading(a, Width)
           S == {i \in Nat : L[i] = IF i <= D THEN 0 ELSE IF i = D + 1 THEN Base - 1 ELSE c * Power[i - D - 2]}
<1>1. a \in DigitSeqs /\ a \in [1..Width -> Nat]
  BY Diff1Is, DigitFacts, Zenon
<1>2. \A i \in 1..Width : a[i] = IF i \in {D + 1, D + 2} THEN Base - 1 ELSE 0
  BY Zenon DEF DIFF1_TARGET
<1>3. L[0] = 0 /\ (\A i \in 0..Width : L[i] \in Nat) /\ \A i \in 1..Width : L[i] = L[i - 1] * Base + a[i]
  BY <1>1, BaseFacts, LeadingIs, Zenon
<1>4. D \in Nat /\ c \in Nat /\ D + 2 <= Width
  BY BaseFacts
<1> HIDE DEF a, L
<1>5. 0 \in S
  BY <1>3, <1>4
<1>6. ASSUME NEW i \in 0..(Width - 1), i \in S PROVE i + 1 \in S
  <2>1. i + 1 \in 1..Width /\ (i + 1) - 1 = i /\ i + 1 \in Nat /\ i \in Nat
    BY BaseFacts
  <2>2. L[i + 1] = L[i] * Base + a[i + 1]
    BY <1>3, <2>1, Zenon
  <2>3. CASE i + 1 <= D
    <3>1. i <= D /\ i + 1 \notin {D + 1, D + 2}
      BY <1>4, <2>1, <2>3
    <3>2. L[i] = 0 /\ a[i + 1] = 0
      BY <1>2, <1>6, <2>1, <3>1, Zenon
    <3>3. 0 * Base + 0 = 0
      BY BaseFacts
    <3> QED
      BY <2>1, <2>2, <2>3, <3>2, <3>3, Zenon
  <2>4. CASE i + 1 = D + 1
    <3>1. i <= D /\ ~(i + 1 <= D)
      BY <1>4, <2>1, <2>4
    <3>2. L[i] = 0 /\ a[i + 1] = Base - 1
      BY <1>2, <1>6, <2>1, <2>4, <3>1, Zenon
    <3>3. 0 * Base + (Base - 1) = Base - 1
      BY BaseFacts
    <3> QED
      BY <2>1, <2>2, <2>4, <3>1, <3>2, <3>3, Zenon
  <2>5. CASE i + 1 = D + 2
    <3>1. ~(i <= D) /\ i = D + 1 /\ ~(i + 1 <= D) /\ i + 1 # D + 1 /\ (i + 1) - D - 2 = 0
      BY <1>4, <2>1, <2>5
    <3>2. L[i] = Base - 1 /\ a[i + 1] = Base - 1
      BY <1>2, <1>6, <2>1, <2>5, <3>1, Zenon
    <3>3. (Base - 1) * Base + (Base - 1) = c * Power[0]
      BY PowerIs, BaseFacts
    <3> QED
      BY <2>1, <2>2, <3>1, <3>2, <3>3, Zenon
  <2>6. CASE i + 1 > D + 2
    <3> DEFINE k == i - D - 2
    <3>1. /\ k \in Nat /\ (i + 1) - D - 2 = k + 1 /\ i + 1 \notin {D + 1, D + 2}
          /\ ~(i <= D) /\ i # D + 1 /\ ~(i + 1 <= D)
      BY <1>4, <2>1, <2>6
    <3>2. L[i] = c * Power[k] /\ a[i + 1] = 0
      BY <1>2, <1>6, <2>1, <3>1, Zenon
    <3>3. PICK p \in Nat : Power[k] = p /\ Power[k + 1] = Base * p
      BY <3>1, PowerIs, Zenon
    <3> HIDE DEF c
    <3>4. (c * p) * Base + 0 = c * (Base * p)
      BY <1>4, BaseFacts
    <3>5. L[i + 1] = c * Power[(i + 1) - D - 2]
      BY <2>2, <3>1, <3>2, <3>3, <3>4, Zenon
    <3> QED
      BY <2>1, <3>1, <3>5, Zenon
  <2> QED
    BY <1>4, <2>1, <2>3, <2>4, <2>5, <2>6
<1>7. Width \in S
  <2> HIDE DEF S
  <2>1. Width \in 0..Width
    BY BaseFacts
  <2> QED
    BY <1>5, <1>6, <2>1, BaseFacts, BoundedInduction, Zenon
<1>8. ~(Width <= D) /\ Width # D + 1
  BY <1>4, BaseFacts
<1>9. L[Width] = c * Power[Width - D - 2]
  BY <1>7, <1>8, Zenon
<1> QED
  BY <1>9, Zenon DEF Diff1, Value, L, a

(* The first digit that is not zero, and how long the number is from there. *)
IsFirst(be, f) == f \in 1..Width /\ be[f] # 0 /\ \A i \in 1..Width : be[i] # 0 => f <= i

(* A number lies between the powers that its first digit names. *)
LEMMA LengthOf ==
    ASSUME NEW be \in DigitSeqs, NEW f, IsFirst(be, f)
    PROVE  Power[Width - f] <= Value(be) /\ Value(be) < Power[Width - f + 1]
<1> DEFINE L == Leading(be, Width)
           n == Value(be)
           S == {i \in Nat : i < f => L[i] = 0}
<1>1. /\ be \in [1..Width -> Nat] /\ n \in Nat
      /\ f \in 1..Width /\ be[f] \in Nat /\ be[f] # 0
  BY DigitFacts, Zenon DEF IsFirst
<1>2. L[0] = 0 /\ (\A i \in 0..Width : L[i] \in Nat) /\ \A i \in 1..Width : L[i] = L[i - 1] * Base + be[i]
  BY <1>1, BaseFacts, LeadingIs, Zenon
<1>3. \A i \in 0..Width : L[i] = n \div Power[Width - i]
  BY PrefixIsQuotient, Zenon
<1> HIDE DEF L, n
<1>4. 0 \in S
  BY <1>2
<1>5. ASSUME NEW i \in 0..(Width - 1), i \in S PROVE i + 1 \in S
  <2>1. i + 1 \in 1..Width /\ (i + 1) - 1 = i /\ i + 1 \in Nat /\ i \in Nat
    BY BaseFacts
  <2>2. CASE i + 1 < f
    <3>1. i < f /\ ~(f <= i + 1)
      BY <1>1, <2>1, <2>2, BaseFacts
    <3>2. L[i] = 0 /\ be[i + 1] = 0
      BY <1>5, <2>1, <3>1, Zenon DEF IsFirst
    <3>3. L[i + 1] = L[i] * Base + be[i + 1]
      BY <1>2, <2>1, Zenon
    <3>4. 0 * Base + 0 = 0
      BY BaseFacts
    <3> QED
      BY <2>1, <3>2, <3>3, <3>4, Zenon
  <2>3. CASE ~(i + 1 < f)
    BY <2>1, <2>3, Zenon
  <2> QED
    BY <2>2, <2>3, Zenon
<1>6. \A i \in 0..Width : i \in S
  <2> HIDE DEF S
  <2> QED
    BY <1>4, <1>5, BaseFacts, BoundedInduction, Zenon
<1>7. /\ f - 1 \in 0..Width /\ f \in 0..Width /\ f - 1 < f /\ f \in Nat
      /\ Width - (f - 1) = Width - f + 1 /\ Width - f \in Nat /\ Width - f + 1 \in Nat
  BY <1>1, BaseFacts
<1>8. L[f - 1] = 0 /\ L[f] = L[f - 1] * Base + be[f]
  BY <1>1, <1>2, <1>6, <1>7, Zenon
<1>9. L[f] = be[f]
  <2>1. \A x \in Nat : 0 * Base + x = x
    BY BaseFacts
  <2> QED
    BY <1>1, <1>8, <2>1, Zenon
<1>10. n \div Power[Width - f] = be[f] /\ n \div Power[Width - f + 1] = 0
  BY <1>3, <1>7, <1>8, <1>9, Zenon
<1>11. PICK p, q \in Nat \ {0} : Power[Width - f] = p /\ Power[Width - f + 1] = q
  BY <1>7, PowerIsPositive, Zenon
<1>12. p <= n
  <2>1. n < p => n \div p = 0
    BY <1>1, QuotientZero, Zenon
  <2> QED
    BY <1>1, <1>10, <1>11, <2>1
<1>13. n < q
  <2>1. n \div q = 0
    BY <1>10, <1>11, Zenon
  <2>2. n = (n \div q) * q + (n % q) /\ n % q < q /\ n % q \in Nat
    BY <1>1, DivMod, Zenon
  <2> QED
    BY <2>1, <2>2
<1> QED
  BY <1>11, <1>12, <1>13, Zenon DEF n

(* The digits that are looked at: those of the number, then zeros if it is short. *)
LEMMA Significant ==
    ASSUME NEW be \in DigitSeqs, NEW f, IsFirst(be, f), NEW g,
           g = [j \in 1..Sig |-> IF f + (j - 1) <= Width THEN be[f + (j - 1)] ELSE 0]
    PROVE  Leading(g, Sig)[Sig] = IF f - 1 + Sig <= Width
                                  THEN Value(be) \div Power[Width - (f - 1 + Sig)]
                                  ELSE Value(be) * Power[f - 1 + Sig - Width]
<1> DEFINE L == Leading(be, Width)
           H == Leading(g, Sig)
           n == Value(be)
           S == {j \in Nat : H[j] = IF f - 1 + j <= Width THEN L[f - 1 + j] ELSE n * Power[f - 1 + j - Width]}
<1>1. /\ be \in [1..Width -> Nat] /\ n \in Nat /\ \A i \in 1..Width : be[i] \in Nat
      /\ f \in 1..Width /\ f \in Nat
  <2>1. f \in 1..Width => f \in Nat
    BY BaseFacts
  <2> QED
    BY <2>1, DigitFacts, Zenon DEF IsFirst
<1>2. L[0] = 0 /\ (\A i \in 0..Width : L[i] \in Nat) /\ \A i \in 1..Width : L[i] = L[i - 1] * Base + be[i]
  BY <1>1, BaseFacts, LeadingIs, Zenon
<1>3. \A i \in 0..Width : L[i] = n \div Power[Width - i]
  BY PrefixIsQuotient, Zenon
<1>4. \A j \in 1..Sig : g[j] = IF f + (j - 1) <= Width THEN be[f + (j - 1)] ELSE 0
  BY Zenon
<1>5. g \in [1..Sig -> Nat]
  <2>1. ASSUME NEW j \in 1..Sig PROVE (IF f + (j - 1) <= Width THEN be[f + (j - 1)] ELSE 0) \in Nat
    <3>1. f + (j - 1) <= Width => f + (j - 1) \in 1..Width
      BY <1>1, BaseFacts
    <3>2. 0 \in Nat
      OBVIOUS
    <3> QED
      BY <1>1, <3>1, <3>2, Zenon
  <2> QED
    BY <2>1, Zenon
<1>6. H[0] = 0 /\ (\A j \in 0..Sig : H[j] \in Nat) /\ \A j \in 1..Sig : H[j] = H[j - 1] * Base + g[j]
  BY <1>5, BaseFacts, LeadingIs, Zenon
<1> HIDE DEF L, H, n
<1>7. 0 \in S
  <2>1. /\ f - 1 + 0 = f - 1 /\ f - 1 <= Width /\ f - 1 \in 0..Width /\ Width - (f - 1) = Width - f + 1
        /\ Width - f + 1 \in Nat
    BY <1>1, BaseFacts
  <2>2. n < Power[Width - f + 1]
    BY LengthOf, Zenon DEF n
  <2>3. n \div Power[Width - f + 1] = 0
    BY <1>1, <2>1, <2>2, PowerIsPositive, QuotientZero, Zenon
  <2>4. 0 \in Nat
    OBVIOUS
  <2> QED
    BY <1>3, <1>6, <2>1, <2>3, <2>4, Zenon
<1>8. ASSUME NEW j \in 0..(Sig - 1), j \in S PROVE j + 1 \in S
  <2>1. j + 1 \in 1..Sig /\ (j + 1) - 1 = j /\ j + 1 \in Nat /\ j \in Nat
    BY BaseFacts
  <2>2. H[j + 1] = H[j] * Base + g[j + 1]
    BY <1>6, <2>1, Zenon
  <2>3. CASE f - 1 + (j + 1) <= Width
    <3>1. f - 1 + j <= Width /\ f + j \in 1..Width /\ f - 1 + (j + 1) = f + j /\ (f + j) - 1 = f - 1 + j /\ f + j <= Width
      BY <1>1, <2>1, <2>3, BaseFacts
    <3>2. H[j] = L[f - 1 + j] /\ g[j + 1] = be[f + j]
      BY <1>4, <1>8, <2>1, <3>1, Zenon
    <3>3. L[f + j] = L[f - 1 + j] * Base + be[f + j]
      BY <1>2, <3>1, Zenon
    <3>4. H[j + 1] = L[f - 1 + (j + 1)]
      BY <2>2, <3>1, <3>2, <3>3, Zenon
    <3> QED
      BY <2>1, <2>3, <3>4, Zenon
  <2>4. CASE ~(f - 1 + (j + 1) <= Width)
    <3> DEFINE k == f - 1 + j - Width
    <3>1. /\ k \in Nat /\ f - 1 + (j + 1) - Width = k + 1 /\ ~(f + j <= Width)
          /\ Width \in 0..Width
      BY <1>1, <2>1, <2>4, BaseFacts
    <3>2. g[j + 1] = 0
      BY <1>4, <2>1, <3>1, Zenon
    <3>3. H[j] = n * Power[k]
      <4>1. CASE f - 1 + j <= Width
        <5>1. f - 1 + j = Width /\ k = 0
          BY <1>1, <2>1, <2>4, <4>1, BaseFacts
        <5>2. H[j] = L[Width]
          BY <1>8, <4>1, <5>1, Zenon
        <5>3. L[Width] = n
          BY Zenon DEF L, n, Value
        <5>4. n * Power[0] = n
          BY <1>1, PowerIs
        <5> QED
          BY <5>1, <5>2, <5>3, <5>4, Zenon
      <4>2. CASE ~(f - 1 + j <= Width)
        BY <1>8, <4>2, Zenon
      <4> QED
        BY <4>1, <4>2, Zenon
    <3>4. PICK p \in Nat : Power[k] = p /\ Power[k + 1] = Base * p
      BY <3>1, PowerIs, Zenon
    <3>5. (n * p) * Base + 0 = n * (Base * p)
      BY <1>1, BaseFacts
    <3>6. H[j + 1] = n * Power[f - 1 + (j + 1) - Width]
      BY <2>2, <3>1, <3>2, <3>3, <3>4, <3>5, Zenon
    <3> QED
      BY <2>1, <2>4, <3>6, Zenon
  <2> QED
    BY <2>3, <2>4, Zenon
<1>9. Sig \in S
  <2> HIDE DEF S
  <2>1. Sig \in 0..Sig
    BY BaseFacts
  <2> QED
    BY <1>7, <1>8, <2>1, BaseFacts, BoundedInduction, Zenon
<1>10. f - 1 + Sig <= Width => f - 1 + Sig \in 0..Width
  BY <1>1, BaseFacts
<1> QED
  BY <1>3, <1>9, <1>10, Zenon DEF H, n

(* How many digits are not looked at. *)
Ignored(len) == IF Sig <= len THEN len - Sig ELSE 0

(* Truncated drops the digits that are not looked at. *)
LEMMA TruncatedIs ==
    ASSUME NEW n \in Nat, NEW len \in 1..Width, Power[len - 1] <= n, n < Power[len]
    PROVE  Truncated(n) = (n \div Power[Ignored(len)]) * Power[Ignored(len)]
<1> DEFINE dropped == {k \in 0..Width : n \div Power[k] < Power[Sig]}
           k0 == Ignored(len)
<1>1. /\ Sig \in Nat /\ Width \in Nat /\ len \in Nat /\ len - 1 \in Nat
      /\ k0 \in 0..Width /\ k0 \in Nat /\ len <= Sig + k0 /\ \A k \in Nat : len <= Sig + k => k0 <= k
  BY BaseFacts DEF Ignored
<1> HIDE DEF k0
<1>2. ASSUME NEW k \in Nat PROVE n \div Power[k] < Power[Sig] <=> len <= Sig + k
  <2>1. PICK p, q \in Nat \ {0} : Power[k] = p /\ Power[Sig] = q
    BY <1>1, PowerIsPositive, Zenon
  <2>2. Power[Sig + k] = q * p /\ q * p \in Nat /\ Sig + k \in Nat
    <3>1. q * p \in Nat /\ Sig + k \in Nat
      BY <1>1
    <3> QED
      BY <1>1, <2>1, <3>1, PowerSum, Zenon
  <2>3. PICK x, r \in Nat : n \div p = x /\ n = x * p + r /\ r < p
    BY DivMod, Zenon
  <2>4. x < q <=> n < q * p
    <3>1. ASSUME x < q PROVE n < q * p
      <4>1. (x + 1) * p <= q * p
        BY <3>1
      <4> QED
        BY <2>3, <4>1
    <3>2. ASSUME ~(x < q) PROVE ~(n < q * p)
      <4>1. q * p <= x * p
        BY <3>2
      <4> QED
        BY <2>3, <4>1
    <3> QED
      BY <3>1, <3>2, Zenon
  <2>5. n < q * p <=> len <= Sig + k
    <3>1. ASSUME len <= Sig + k PROVE n < q * p
      <4>1. Power[len] <= Power[Sig + k] /\ Power[len] \in Nat
        BY <1>1, <2>2, <3>1, PowerGrows, PowerIs, Zenon
      <4> QED
        BY <2>2, <4>1
    <3>2. ASSUME ~(len <= Sig + k) PROVE ~(n < q * p)
      <4>1. Sig + k <= len - 1
        BY <1>1, <2>2, <3>2
      <4>2. Power[Sig + k] <= Power[len - 1] /\ Power[len - 1] \in Nat
        BY <1>1, <2>2, <4>1, PowerGrows, PowerIs, Zenon
      <4> QED
        BY <2>2, <4>2
    <3> QED
      BY <3>1, <3>2, Zenon
  <2> QED
    BY <2>1, <2>3, <2>4, <2>5, Zenon
<1>3. \A k \in 0..Width : k \in Nat
  BY <1>1
<1>4. k0 \in dropped /\ \A j \in dropped : k0 <= j
  BY <1>1, <1>2, <1>3, Zenon
<1>5. \A k \in dropped : (\A j \in dropped : k <= j) <=> k = k0
  <2> SUFFICES ASSUME NEW k \in dropped PROVE (\A j \in dropped : k <= j) <=> k = k0
    BY Zenon
  <2>1. k \in Nat /\ k0 <= k
    BY <1>3, <1>4, Zenon
  <2>2. (k <= k0) => k = k0
    BY <1>1, <2>1
  <2> QED
    BY <1>4, <2>2, Zenon
<1> HIDE DEF dropped
<1>6. (CHOOSE k \in dropped : \A j \in dropped : k <= j) = k0
  BY <1>4, <1>5, Zenon
<1> QED
  BY <1>6, Zenon DEF Truncated, dropped, k0

(* Only the difference of the two powers matters. *)
SameRatio(c, s, x, y, u, v) == (c * Power[x]) \div (s * Power[y]) = (c * Power[u]) \div (s * Power[v])

\* Scaled powers with exponents of one difference have one ratio.
LEMMA SameQuotient ==
    ASSUME NEW c \in Nat, NEW s \in Nat \ {0},
           NEW x \in Nat, NEW y \in Nat, NEW u \in Nat, NEW v \in Nat, x + v = u + y
    PROVE  SameRatio(c, s, x, y, u, v)
<1>1. PICK px, py, pu, pv \in Nat \ {0} : Power[x] = px /\ Power[y] = py /\ Power[u] = pu /\ Power[v] = pv
  BY PowerIsPositive, Zenon
<1>2. px * pv = pu * py
  <2>1. Power[x + v] = px * pv
    BY <1>1, PowerSum, Zenon
  <2>2. Power[u + y] = pu * py
    BY <1>1, PowerSum, Zenon
  <2> QED
    BY <2>1, <2>2, Zenon
<1>3. /\ c * px \in Nat /\ s * py \in Nat \ {0} /\ c * pu \in Nat /\ s * pv \in Nat \ {0}
  OBVIOUS
<1>4. ((c * px) * pv) \div ((s * py) * pv) = (c * px) \div (s * py)
  BY <1>3, ScaledQuotient, Zenon
<1>5. ((c * pu) * py) \div ((s * pv) * py) = (c * pu) \div (s * pv)
  BY <1>3, ScaledQuotient, Zenon
<1>6. (c * px) * pv = (c * pu) * py
  <2>1. (c * px) * pv = c * (px * pv) /\ (c * pu) * py = c * (pu * py)
    OBVIOUS
  <2> QED
    BY <1>2, <2>1, Zenon
<1>7. (s * py) * pv = (s * pv) * py
  OBVIOUS
<1> QED
  BY <1>1, <1>4, <1>5, <1>6, <1>7, Zenon DEF SameRatio

(* Zero, digit by digit. *)
LEMMA ZeroValue == Value(Zero) = 0 /\ Zero \in DigitSeqs /\ \A i \in 1..Width : Zero[i] = 0
<1>1. 0 \in Nat /\ Width \in Nat
  BY BaseFacts
<1>2. \A p \in Nat \ {0} : 0 < p /\ 0 \div p = 0
  OBVIOUS
<1>3. Value(Zero) = 0
  BY <1>1, <1>2, PowerIsPositive, DigitsValue, Zenon DEF Zero
<1>4. ASSUME NEW i \in 1..Width PROVE Zero[i] = 0
  <2>1. Width - i \in Nat /\ 0 % Base = 0
    BY BaseFacts
  <2>2. 0 \div Power[Width - i] = 0
    BY <1>2, <2>1, PowerIsPositive, Zenon
  <2> QED
    BY <2>1, <2>2, Zenon DEF Zero, Digits
<1> QED
  BY <1>1, <1>3, <1>4, DigitsAre, Zenon DEF Zero

(* Only zero has no digit that is not zero. *)
LEMMA NonzeroHasFirst ==
    ASSUME NEW be \in DigitSeqs
    PROVE  IF Value(be) = 0 THEN \A i \in 1..Width : be[i] = 0
           ELSE \E f : IsFirst(be, f)
<1> DEFINE T == {i \in 1..Width : be[i] # 0}
<1>1. ASSUME T # {} PROVE \E f : IsFirst(be, f)
  <2>1. T \in SUBSET Nat
    BY BaseFacts
  <2>2. PICK m \in T : \A k \in T : m <= k
    <3> HIDE DEF T
    <3> QED
      BY <1>1, <2>1, LeastNumber, Zenon
  <2>3. IsFirst(be, m)
    BY <2>2, Zenon DEF IsFirst
  <2> QED
    BY <2>3, Zenon
<1>2. ASSUME T = {} PROVE Value(be) = 0
  <2>1. be = [i \in 1..Width |-> be[i]] /\ Zero = [i \in 1..Width |-> Zero[i]]
    BY ZeroValue, Zenon DEF DigitSeqs
  <2>2. \A i \in 1..Width : be[i] = Zero[i]
    BY <1>2, ZeroValue, Zenon
  <2>3. be = Zero
    BY <2>1, <2>2
  <2> QED
    BY <2>3, ZeroValue, Zenon
<1>3. ASSUME NEW f, IsFirst(be, f) PROVE Value(be) # 0
  <2>1. Power[Width - f] <= Value(be) /\ f \in 1..Width
    BY <1>3, LengthOf, Zenon DEF IsFirst
  <2>2. Width - f \in Nat
    BY <2>1, BaseFacts
  <2>3. Power[Width - f] \in Nat \ {0}
    BY <2>2, PowerIsPositive, Zenon
  <2> QED
    BY <2>1, <2>3
<1>4. CASE T = {}
  BY <1>2, <1>4, Zenon
<1>5. CASE T # {}
  BY <1>1, <1>3, <1>5, Zenon
<1> QED
  BY <1>4, <1>5, Zenon

(* The difficulty read off a hash: that of its leading digits, exactly. *)
LEMMA Reading ==
    ASSUME NEW h \in DigitSeqs
    PROVE  hash_to_difficulty(h) = LET n == Value(Reversed(h))
                                   IN  IF n = 0 THEN MAX ELSE AtMostMax(Diff1 \div Truncated(n))
<1> DEFINE be == Reversed(h)
           n == Value(be)
           nonzero == {i \in 1..Width : be[i] # 0}
           first == CHOOSE i \in nonzero : \A j \in nonzero : i <= j
           g == [j \in 1..Sig |-> IF first + (j - 1) <= Width THEN be[first + (j - 1)] ELSE 0]
           sig == Leading(g, Sig)[Sig]
           exp == first - 1 - Diff1At
           c == Base * Base - 1
           worth == ((c * Power[Sig - 2] * Power[Sig]) \div sig) \div Power[Sig - exp]
<1>1. be \in DigitSeqs /\ n \in Nat
  BY ReversedIs, DigitFacts, Zenon
<1>2. hash_to_difficulty(h) = IF nonzero = {} \/ exp > Sig THEN MAX
                              ELSE IF worth > MAX THEN MAX ELSE worth
  BY Zenon DEF hash_to_difficulty
<1> HIDE DEF be
<1>3. CASE n = 0
  <2>1. nonzero = {}
    BY <1>1, <1>3, NonzeroHasFirst, Zenon
  <2> QED
    BY <1>2, <1>3, <2>1, Zenon DEF be
<1>4. CASE n # 0
  <2>1. PICK f : IsFirst(be, f)
    BY <1>1, <1>4, NonzeroHasFirst, Zenon
  <2>2. f \in 1..Width /\ f \in Nat
    <3>1. f \in 1..Width
      BY <2>1, Zenon DEF IsFirst
    <3> QED
      BY <3>1, BaseFacts
  <2>3. first = f
    <3>1. f \in nonzero /\ \A j \in nonzero : f <= j
      BY <2>1, Zenon DEF IsFirst
    <3>2. \A i \in nonzero : (\A j \in nonzero : i <= j) <=> i = f
      <4> SUFFICES ASSUME NEW i \in nonzero PROVE (\A j \in nonzero : i <= j) <=> i = f
        BY Zenon
      <4>1. f <= i /\ i \in 1..Width
        BY <3>1, Zenon
      <4>2. i <= f => i = f
        BY <2>2, <4>1, BaseFacts
      <4> QED
        BY <3>1, <4>2, Zenon
    <3> HIDE DEF nonzero
    <3> QED
      BY <3>1, <3>2, Zenon
  <2>4. nonzero # {}
    BY <2>1, Zenon DEF IsFirst
  <2> HIDE DEF first, nonzero
  <2> DEFINE len == Width - f + 1
             T == Truncated(n)
  <2>5. /\ len \in 1..Width /\ len \in Nat /\ len - 1 = Width - f /\ len - 1 \in Nat /\ Sig \in Nat /\ Sig >= 2 /\ Sig <= Width
        /\ exp = Width - len - Diff1At /\ Diff1At \in Nat /\ Width - Diff1At - 2 \in Nat /\ Width \in Nat
    BY <2>2, <2>3, BaseFacts
  <2>6. Power[len - 1] <= n /\ n < Power[len]
    BY <1>1, <2>1, <2>5, LengthOf, Zenon
  <2>7. sig = IF Sig <= len THEN n \div Power[len - Sig] ELSE n * Power[Sig - len]
    <3>1. g = [j \in 1..Sig |-> IF f + (j - 1) <= Width THEN be[f + (j - 1)] ELSE 0]
      BY <2>3, Zenon
    <3> HIDE DEF g, n
    <3>2. sig = IF f - 1 + Sig <= Width THEN Value(be) \div Power[Width - (f - 1 + Sig)]
                ELSE Value(be) * Power[f - 1 + Sig - Width]
      BY <1>1, <2>1, <3>1, Significant, Zenon
    <3>3. /\ f - 1 + Sig <= Width <=> Sig <= len
          /\ Width - (f - 1 + Sig) = len - Sig /\ f - 1 + Sig - Width = Sig - len
      BY <2>2, <2>5
    <3> QED
      BY <3>2, <3>3, Zenon DEF n
  <2>8. T = (n \div Power[Ignored(len)]) * Power[Ignored(len)]
    BY <1>1, <2>5, <2>6, TruncatedIs, Zenon
  <2>9. c \in Nat /\ c >= Base /\ Diff1 = c * Power[Width - Diff1At - 2]
    <3>1. c \in Nat /\ c >= Base
      BY BaseFacts
    <3> QED
      BY <3>1, Diff1Value, Zenon
  <2> HIDE DEF g, sig, exp, len, n, T, c
  <2>10. n \in Nat \ {0}
    BY <1>1, <1>4
  <2>11. sig \in Nat \ {0} /\ T \in Nat \ {0} /\ T <= n
         /\ \E k, i \in Nat : T * Power[k] = sig * Power[i] /\ Sig + i = len + k
    <3>1. CASE Sig <= len
      <4>1. len - Sig \in Nat /\ Ignored(len) = len - Sig /\ len - Sig <= len - 1
        BY <2>5, <3>1 DEF Ignored
      <4>2. PICK p \in Nat \ {0} : Power[len - Sig] = p /\ p <= Power[len - 1]
        BY <2>5, <4>1, PowerIsPositive, PowerGrows, Zenon
      <4>3. PICK q, r \in Nat : n \div p = q /\ n = q * p + r /\ r < p
        BY <2>10, DivMod, Zenon
      <4>4. p <= n
        <5>1. Power[len - 1] \in Nat
          BY <2>5, PowerIs, Zenon
        <5> QED
          BY <2>6, <2>10, <4>2, <5>1
      <4>5. q # 0
        BY <4>3, <4>4
      <4>6. q * p \in Nat \ {0} /\ q * p <= n
        BY <4>3, <4>5
      <4>7. sig = q /\ T = q * p
        BY <2>7, <2>8, <3>1, <4>1, <4>2, <4>3, Zenon
      <4>8. 0 \in Nat /\ Power[0] = 1 /\ (q * p) * 1 = q * p /\ Sig + (len - Sig) = len + 0
        BY <2>5, PowerIs
      <4> QED
        BY <4>1, <4>2, <4>3, <4>5, <4>6, <4>7, <4>8
    <3>2. CASE ~(Sig <= len)
      <4>1. Sig - len \in Nat /\ Ignored(len) = 0
        BY <2>5, <3>2 DEF Ignored
      <4>2. PICK p \in Nat \ {0} : Power[Sig - len] = p
        BY <4>1, PowerIsPositive, Zenon
      <4>3. sig = n * p
        BY <2>7, <3>2, <4>2, Zenon
      <4>4. T = n
        <5>1. n \div Power[0] = n /\ n * Power[0] = n
          BY <2>10, QuotientByOne, PowerIs
        <5> QED
          BY <2>8, <4>1, <5>1, Zenon
      <4>5. n * p \in Nat \ {0}
        BY <2>10
      <4>6. 0 \in Nat /\ Power[0] = 1 /\ n * p = (n * p) * 1 /\ Sig + 0 = len + (Sig - len)
        BY <2>5, <4>5, PowerIs
      <4>7. T * Power[Sig - len] = sig * Power[0] /\ Sig + 0 = len + (Sig - len)
        BY <4>2, <4>3, <4>4, <4>6, Zenon
      <4>8. n <= n
        BY <2>10
      <4> QED
        BY <2>10, <4>1, <4>3, <4>4, <4>5, <4>6, <4>7, <4>8, Zenon
    <3> QED
      BY <3>1, <3>2, Zenon
  <2>12. CASE exp > Sig
    <3>1. Diff1 \div T >= Power[Sig] /\ Diff1 \div T \in Nat
      <4> DEFINE w == Width - Diff1At - 2
      <4>1. w \in Nat /\ w + 1 \in Nat /\ len + Sig \in Nat /\ len + Sig <= w + 1
        BY <2>5, <2>12
      <4>2. PICK x, y, z, u \in Nat \ {0} : Power[w] = x /\ Power[w + 1] = Base * x /\ Power[len] = y /\ Power[Sig] = z
        BY <2>5, <4>1, PowerIs, PowerIsPositive, Zenon
      <4>3. y * z <= Base * x
        <5>1. Power[len + Sig] = y * z
          BY <2>5, <4>2, PowerSum, Zenon
        <5>2. Power[len + Sig] <= Power[w + 1]
          BY <4>1, PowerGrows, Zenon
        <5> QED
          BY <4>2, <5>1, <5>2, Zenon
      <4>4. PICK t \in Nat \ {0} : T = t /\ t <= n
        BY <2>11, Zenon
      <4>5. t <= y
        BY <2>6, <2>10, <4>2, <4>4
      <4>6. PICK m \in Nat : Diff1 = m /\ m = c * x
        <5>1. c * x \in Nat
          BY <2>9
        <5> QED
          BY <2>9, <4>2, <5>1, Zenon
      <4>7. t * z <= m
        <5>1. t * z <= y * z
          BY <4>5
        <5>2. Base * x <= c * x
          BY <2>9, BaseFacts
        <5>3. t * z \in Nat /\ y * z \in Nat /\ Base * x \in Nat
          BY BaseFacts
        <5> QED
          BY <4>3, <4>6, <5>1, <5>2, <5>3
      <4>8. PICK q, r \in Nat : m \div t = q /\ m = q * t + r /\ r < t
        BY DivMod, Zenon
      <4>9. z <= q
        <5> SUFFICES ASSUME q < z PROVE FALSE
          OBVIOUS
        <5>1. (q + 1) * t <= z * t
          OBVIOUS
        <5> QED
          BY <4>7, <4>8, <5>1
      <4> QED
        BY <4>2, <4>4, <4>6, <4>8, <4>9
    <3>2. AtMostMax(Diff1 \div T) = MAX
      <4>1. Power[Sig] \in Nat
        BY <2>5, PowerIs, Zenon
      <4>2. Diff1 \div T > MAX
        BY <3>1, <4>1 DEF MAX
      <4> QED
        BY <4>2, Zenon DEF AtMostMax
    <3> QED
      BY <1>2, <1>4, <2>12, <3>2, Zenon DEF n, be, T
  <2>13. CASE ~(exp > Sig)
    <3>1. worth = Diff1 \div T
      <4>1. PICK k, i \in Nat : T * Power[k] = sig * Power[i] /\ Sig + i = len + k
        BY <2>11, Zenon
      <4> DEFINE w == Width - Diff1At - 2
                 e == Sig - exp
      <4>2. w \in Nat /\ e \in Nat /\ Sig - 2 \in Nat /\ (Sig - 2) + Sig \in Nat
        BY <2>5, <2>13
      <4> HIDE DEF w, e
      <4>3. PICK a, b, d \in Nat \ {0} : Power[Sig - 2] = a /\ Power[Sig] = b /\ Power[e] = d
        BY <2>5, <4>2, PowerIsPositive, Zenon
      <4>4. c * a * b = c * Power[(Sig - 2) + Sig]
        <5>1. Power[(Sig - 2) + Sig] = a * b
          BY <2>5, <4>2, <4>3, PowerSum, Zenon
        <5>2. c * a * b = c * (a * b)
          BY <2>9
        <5> QED
          BY <5>1, <5>2, Zenon
      <4>5. c * a * b \in Nat
        BY <2>9
      <4>6. worth = (c * a * b) \div (sig * d)
        <5>1. (c * a * b) \div (sig * d) = ((c * a * b) \div sig) \div d
          BY <2>11, <4>5, NestedQuotient, Zenon
        <5> QED
          BY <4>3, <5>1, Zenon DEF e
      <4>7. (c * Power[(Sig - 2) + Sig]) \div (sig * Power[e]) = (c * Power[w + k]) \div (sig * Power[i])
        <5>1. w + k \in Nat /\ ((Sig - 2) + Sig) + i = (w + k) + e
          BY <2>5, <4>1, <4>2 DEF w, e
        <5>2. PICK x, u \in Nat : (Sig - 2) + Sig = x /\ w + k = u /\ x + i = u + e
          BY <4>2, <5>1, Zenon
        <5>3. sig \in Nat \ {0} /\ c \in Nat /\ e \in Nat /\ x + i = u + e
          BY <2>9, <2>11, <4>2, <5>2, Zenon
        <5>4. SameRatio(c, sig, x, e, u, i)
          BY <5>3, SameQuotient, Zenon
        <5> QED
          BY <5>2, <5>4, Zenon DEF SameRatio
      <4>8. (c * Power[w + k]) \div (sig * Power[i]) = Diff1 \div T
        <5>0. Power[w] \in Nat \ {0} /\ Power[k] \in Nat \ {0} /\ Power[w + k] = Power[w] * Power[k]
          BY <4>1, <4>2, PowerIsPositive, PowerSum, Zenon
        <5>1. PICK x, y \in Nat \ {0} : Power[w] = x /\ Power[k] = y /\ Power[w + k] = x * y
          BY <5>0, Zenon
        <5>2. c * (x * y) = (c * x) * y /\ c * x \in Nat
          BY <2>9
        <5>3. ((c * x) * y) \div (T * y) = (c * x) \div T
          BY <2>11, <5>2, ScaledQuotient, Zenon
        <5>4. Diff1 = c * x
          BY <2>9, <5>1, Zenon DEF w
        <5> QED
          BY <4>1, <5>1, <5>2, <5>3, <5>4, Zenon
      <4> QED
        BY <4>3, <4>4, <4>6, <4>7, <4>8, Zenon
    <3> HIDE DEF worth
    <3> QED
      BY <1>2, <1>4, <2>4, <2>13, <3>1, Zenon DEF n, be, T, AtMostMax
  <2> QED
    BY <2>12, <2>13, Zenon
<1> QED
  BY <1>3, <1>4, Zenon

-----------------------------------------------------------------------------
(* The channel *)

\* What is known of a share that was judged.
Judged ==
    /\ hash \in DigitSeqs /\ assigned_difficulty # 0
    /\ accepted <=> meets_target(hash, difficulty_to_target(min_difficulty))
    /\ accepted => reading = hash_to_difficulty(hash)

(* The second half of TargetsAreExact. *)
NetworkIsExact ==
    bits # NoBits =>
        Value(network_target) = IF bits.exponent <= 3
                                THEN bits.mantissa \div Power[3 - bits.exponent]
                                ELSE bits.mantissa * Power[bits.exponent - 3]

\* The target on the wire is never easier than the pool's floor.
TargetInv ==
    /\ min_difficulty \in Nat \ {0} /\ assigned_difficulty \in Nat
    /\ assigned_difficulty # 0 => min_difficulty <= assigned_difficulty
    /\ sent_target # Zero => assigned_difficulty # 0
    /\ sent_target \in DigitSeqs /\ Value(Reversed(sent_target)) <= Diff1 \div min_difficulty
    /\ NetworkIsExact
    /\ (hash # NoHash \/ accepted) => Judged

(* Quotients of difficulty 1. *)
LEMMA Diff1Facts == Diff1 \in Nat /\ \A d \in Nat \ {0} : Diff1 \div d \in Nat
<1>1. Diff1 \in Nat
  BY Diff1Is, DigitFacts, Zenon DEF Diff1
<1> QED
  BY <1>1, DivMod, Zenon

(* Zero in the other byte order. *)
LEMMA ZeroReversed == Value(Reversed(Zero)) = 0
<1>1. \A i \in 1..Width : Width + 1 - i \in 1..Width
  BY BaseFacts
<1>2. \A i \in 1..Width : Reversed(Zero)[i] = 0
  BY <1>1, ZeroValue, Zenon DEF Reversed
<1>3. Reversed(Zero) \in DigitSeqs
  BY ZeroValue, ReversedIs, Zenon
<1>4. ~ \E f : IsFirst(Reversed(Zero), f)
  BY <1>2, Zenon DEF IsFirst
<1> QED
  BY <1>3, <1>4, NonzeroHasFirst, Zenon

(* It holds before a channel is open. *)
LEMMA TargetInitInv == TargetInit => TargetInv
<1> SUFFICES ASSUME TargetInit PROVE TargetInv
  BY Zenon
<1>1. /\ min_difficulty \in Nat \ {0} /\ assigned_difficulty = 0 /\ sent_target = Zero
      /\ bits = NoBits /\ hash = NoHash /\ ~accepted
  <2>1. min_difficulty \in Nat \ {0}
    BY TargetsAssumption, Zenon DEF TargetInit
  <2> QED
    BY <2>1, Zenon DEF TargetInit
<1>2. 0 \in Nat /\ \A k \in Nat : 0 <= k
  OBVIOUS
<1>3. 0 <= Diff1 \div min_difficulty
  BY <1>1, <1>2, Diff1Facts, Zenon
<1> QED
  BY <1>1, <1>2, <1>3, ZeroValue, ZeroReversed, Zenon DEF TargetInv, NetworkIsExact

(* The target of a difficulty at or above the floor is no easier than it. *)
LEMMA SentTarget ==
    ASSUME NEW m \in Nat \ {0}, NEW d \in Nat, m <= d
    PROVE  /\ d \in Nat \ {0}
           /\ difficulty_to_sv2_target(d) \in DigitSeqs
           /\ Value(Reversed(difficulty_to_sv2_target(d))) <= Diff1 \div m
<1>1. d \in Nat \ {0}
  OBVIOUS
<1>2. /\ difficulty_to_sv2_target(d) \in DigitSeqs
      /\ Reversed(difficulty_to_sv2_target(d)) = difficulty_to_target(d)
  BY <1>1, ShareTargetIs, ReversedIs, Zenon DEF difficulty_to_sv2_target
<1>3. Value(difficulty_to_target(d)) = Diff1 \div d
  BY <1>1, ShareTargetIs, Zenon
<1>4. Diff1 \div d <= Diff1 \div m
  BY <1>1, Diff1Facts, QuotientDecreases, Zenon
<1> QED
  BY <1>1, <1>2, <1>3, <1>4, Zenon

(* Every step keeps it. *)
LEMMA TargetStep == TargetInv /\ [ChannelNext \/ NewBits]_target_vars => TargetInv'
<1> SUFFICES ASSUME TargetInv, [ChannelNext \/ NewBits]_target_vars PROVE TargetInv'
  BY Zenon
<1>1. CASE OpenChannel
  <2>1. PICK d \in Difficulties, m \in DeviceTargets :
            /\ d >= min_difficulty /\ assigned_difficulty' = d
            /\ sent_target' = IF sv2_target_le(difficulty_to_sv2_target(d), Reversed(Digits(m)))
                              THEN difficulty_to_sv2_target(d) ELSE Reversed(Digits(m))
    BY <1>1, Zenon DEF OpenChannel
  <2>2. d \in Nat /\ m \in Nat /\ min_difficulty \in Nat \ {0}
    BY TargetsAssumption, Zenon DEF TargetInv
  <2>3. min_difficulty <= d
    BY <2>1, <2>2
  <2> DEFINE t == difficulty_to_sv2_target(d)
             b == Reversed(Digits(m))
  <2>4. d \in Nat \ {0} /\ t \in DigitSeqs /\ Value(Reversed(t)) <= Diff1 \div min_difficulty
    BY <2>2, <2>3, SentTarget, Zenon
  <2>5. b \in DigitSeqs /\ Reversed(b) \in DigitSeqs /\ Reversed(t) \in DigitSeqs
    BY <2>2, <2>4, DigitsAre, ReversedIs, Zenon
  <2>6. sv2_target_le(t, b) <=> Value(Reversed(t)) <= Value(Reversed(b))
    BY <2>5, OrderIsNumeric, Zenon DEF sv2_target_le
  <2>7. sent_target' \in DigitSeqs /\ Value(Reversed(sent_target')) <= Diff1 \div min_difficulty
    <3>1. CASE sv2_target_le(t, b)
      BY <2>1, <2>4, <3>1, Zenon
    <3>2. CASE ~sv2_target_le(t, b)
      <4>1. sent_target' = b
        BY <2>1, <3>2, Zenon
      <4>2. ~(Value(Reversed(t)) <= Value(Reversed(b)))
        BY <2>6, <3>2, Zenon
      <4>3. Value(Reversed(t)) \in Nat /\ Value(Reversed(b)) \in Nat /\ Diff1 \div min_difficulty \in Nat
        BY <2>2, <2>5, DigitFacts, Diff1Facts, Zenon
      <4> HIDE DEF t, b
      <4>4. \A x, y, z \in Nat : x <= z /\ ~(x <= y) => y <= z
        OBVIOUS
      <4>5. Value(Reversed(b)) <= Diff1 \div min_difficulty
        BY <2>4, <4>2, <4>3, <4>4, Zenon
      <4> QED
        BY <2>5, <4>1, <4>5, Zenon
    <3> QED
      BY <3>1, <3>2, Zenon
  <2>8. UNCHANGED <<min_difficulty, bits, network_target, hash, accepted, reading>>
    BY <1>1, Zenon DEF OpenChannel
  <2> QED
    BY <2>1, <2>3, <2>4, <2>7, <2>8, Zenon DEF TargetInv, NetworkIsExact, Judged
<1>2. CASE SetTarget
  <2>1. PICK d \in Difficulties :
            /\ d >= min_difficulty /\ assigned_difficulty' = d
            /\ sent_target' = difficulty_to_sv2_target(d)
    BY <1>2, Zenon DEF SetTarget
  <2>2. d \in Nat /\ min_difficulty \in Nat \ {0}
    BY TargetsAssumption, Zenon DEF TargetInv
  <2>3. min_difficulty <= d
    BY <2>1, <2>2
  <2>4. /\ d \in Nat \ {0} /\ sent_target' \in DigitSeqs
        /\ Value(Reversed(sent_target')) <= Diff1 \div min_difficulty
    BY <2>1, <2>2, <2>3, SentTarget, Zenon
  <2>5. UNCHANGED <<min_difficulty, bits, network_target, hash, accepted, reading>>
    BY <1>2, Zenon DEF SetTarget
  <2> QED
    BY <2>1, <2>3, <2>4, <2>5, Zenon DEF TargetInv, NetworkIsExact, Judged
<1>3. CASE SubmitHash
  <2>1. PICK n \in 0..(Power[Width] - 1) : hash' = Reversed(Digits(n))
    BY <1>3, Zenon DEF SubmitHash
  <2>2. n \in Nat
    <3>1. Power[Width] \in Nat
      BY BaseFacts, PowerIs, Zenon
    <3> QED
      BY <3>1
  <2>3. hash' \in DigitSeqs
    BY <2>1, <2>2, DigitsAre, ReversedIs, Zenon
  <2>4. sent_target # Zero /\ UNCHANGED <<min_difficulty, assigned_difficulty, sent_target, bits, network_target>>
    BY <1>3, Zenon DEF SubmitHash
  <2>5. accepted' <=> meets_target(hash', difficulty_to_target(min_difficulty))
    BY <1>3, Zenon DEF SubmitHash
  <2>6. accepted' => reading' = hash_to_difficulty(hash')
    BY <1>3, Zenon DEF SubmitHash
  <2> QED
    BY <2>3, <2>4, <2>5, <2>6, Zenon DEF TargetInv, NetworkIsExact, Judged
<1>4. CASE NewBits
  <2>1. PICK e \in Exponents, m \in 0..(Power[3] \div 2 - 1) :
            /\ compact_to_target(e, m).ok /\ bits' = [exponent |-> e, mantissa |-> m]
            /\ network_target' = compact_to_target(e, m).target
    BY <1>4, Zenon DEF NewBits
  <2>2. e \in Nat /\ m \in Nat /\ m < Power[3]
    <3>1. Power[3] \in Nat
      BY PowerIs
    <3>2. e \in Nat
      BY TargetsAssumption, Zenon
    <3> QED
      BY <3>1, <3>2
  <2>3. Value(network_target') = IF e <= 3 THEN m \div Power[3 - e] ELSE m * Power[e - 3]
    BY <2>1, <2>2, CompactIs, Zenon
  <2>4. bits'.exponent = e /\ bits'.mantissa = m
    BY <2>1
  <2>5. NetworkIsExact'
    BY <2>3, <2>4, Zenon DEF NetworkIsExact
  <2>6. UNCHANGED <<min_difficulty, assigned_difficulty, sent_target, hash, accepted, reading>>
    BY <1>4, Zenon DEF NewBits
  <2> QED
    BY <2>5, <2>6, Zenon DEF TargetInv, Judged
<1>5. CASE UNCHANGED target_vars
  BY <1>5, Zenon DEF TargetInv, NetworkIsExact, Judged, target_vars
<1> QED
  BY <1>1, <1>2, <1>3, <1>4, <1>5, Zenon DEF ChannelNext

(* Truncating a number only lowers it. *)
LEMMA TruncatedIsBelow ==
    ASSUME NEW be \in DigitSeqs, Value(be) # 0
    PROVE  Truncated(Value(be)) \in Nat \ {0} /\ Truncated(Value(be)) <= Value(be)
<1> DEFINE n == Value(be)
<1>1. PICK f : IsFirst(be, f)
  BY NonzeroHasFirst, Zenon
<1>2. f \in 1..Width
  BY <1>1, Zenon DEF IsFirst
<1> DEFINE len == Width - f + 1
           k == Ignored(len)
<1>3. /\ len \in 1..Width /\ len - 1 = Width - f /\ len - 1 \in Nat /\ len \in Nat
      /\ k \in Nat /\ k <= len - 1
  BY <1>2, BaseFacts DEF Ignored
<1>4. n \in Nat /\ Power[len - 1] <= n /\ n < Power[len]
  BY <1>1, <1>3, LengthOf, DigitFacts, Zenon
<1> HIDE DEF n, len, k
<1>5. PICK p \in Nat \ {0} : Power[k] = p /\ p <= Power[len - 1]
  BY <1>3, PowerIsPositive, PowerGrows, Zenon
<1>6. PICK q, r \in Nat : n \div p = q /\ n = q * p + r /\ r < p
  BY <1>4, DivMod, Zenon
<1>7. p <= n
  <2>1. Power[len - 1] \in Nat
    BY <1>3, PowerIs, Zenon
  <2> QED
    BY <1>4, <1>5, <2>1
<1>8. q * p \in Nat \ {0} /\ q * p <= n
  <2>1. q # 0
    BY <1>6, <1>7
  <2> QED
    BY <1>6, <2>1
<1>9. Truncated(n) = q * p
  <2>1. Truncated(n) = (n \div Power[k]) * Power[k]
    BY <1>3, <1>4, TruncatedIs, Zenon DEF k
  <2> QED
    BY <1>5, <1>6, <2>1, Zenon
<1> QED
  BY <1>8, <1>9, Zenon DEF n

(* A hash meets a target when its number is at most the quotient. *)
LEMMA MeetsIsNumeric ==
    ASSUME NEW h \in DigitSeqs, NEW d \in Nat \ {0}
    PROVE  meets_target(h, difficulty_to_target(d)) <=> Value(Reversed(h)) <= Diff1 \div d
BY ReversedIs, ShareTargetIs, OrderIsNumeric, Zenon DEF meets_target

(* Saturating keeps the order. *)
LEMMA AtMostMaxGrows ==
    ASSUME NEW a \in Nat, NEW b \in Nat, a <= b
    PROVE  AtMostMax(a) <= AtMostMax(b)
<1>1. Power[Sig] \in Nat \ {0}
  BY BaseFacts, PowerIsPositive, Zenon
<1> QED
  BY <1>1 DEF AtMostMax, MAX

(* The invariant is enough: the target on the wire lies below the floor. *)
LEMMA WorkIsExact == TargetInv => AssignedWorkCounts
<1> SUFFICES ASSUME TargetInv PROVE AssignedWorkCounts
  BY Zenon
<1> DEFINE n == Value(Reversed(hash))
<1>1. ASSUME hash # NoHash, n <= Value(Reversed(sent_target)) PROVE accepted
  <2>1. Judged /\ min_difficulty \in Nat \ {0} /\ sent_target \in DigitSeqs
    BY <1>1, Zenon DEF TargetInv
  <2>2. hash \in DigitSeqs /\ Reversed(hash) \in DigitSeqs /\ Reversed(sent_target) \in DigitSeqs
    BY <2>1, ReversedIs, Zenon DEF Judged
  <2>3. n \in Nat /\ Value(Reversed(sent_target)) \in Nat /\ Diff1 \div min_difficulty \in Nat
    BY <2>1, <2>2, DigitFacts, Diff1Facts, Zenon
  <2>4. \A x, y, z \in Nat : x <= y /\ y <= z => x <= z
    OBVIOUS
  <2>5. n <= Diff1 \div min_difficulty
    BY <1>1, <2>3, <2>4, Zenon DEF TargetInv
  <2> QED
    BY <2>1, <2>2, <2>5, MeetsIsNumeric, Zenon DEF Judged
<1>2. ASSUME accepted
      PROVE  IF n = 0 THEN reading = MAX
             ELSE /\ AtMostMax(Diff1 \div n) <= reading
                  /\ reading = AtMostMax(Diff1 \div Truncated(n))
                  /\ meets_target(hash, difficulty_to_target(assigned_difficulty)) =>
                         reading >= AtMostMax(assigned_difficulty)
  <2>1. Judged /\ assigned_difficulty \in Nat
    BY <1>2, Zenon DEF TargetInv
  <2>2. hash \in DigitSeqs /\ Reversed(hash) \in DigitSeqs /\ reading = hash_to_difficulty(hash)
    BY <1>2, <2>1, ReversedIs, Zenon DEF Judged
  <2>3. n \in Nat /\ assigned_difficulty \in Nat \ {0}
    <3>1. assigned_difficulty # 0
      BY <2>1, Zenon DEF Judged
    <3> QED
      BY <2>1, <2>2, <3>1, DigitFacts
  <2>4. reading = IF n = 0 THEN MAX ELSE AtMostMax(Diff1 \div Truncated(n))
    BY <2>2, Reading, Zenon
  <2>5. CASE n = 0
    BY <2>4, <2>5, Zenon
  <2>6. CASE n # 0
    <3>1. Truncated(n) \in Nat \ {0} /\ Truncated(n) <= n
      BY <2>2, <2>6, TruncatedIsBelow, Zenon
    <3>2. n \in Nat \ {0}
      BY <2>3, <2>6
    <3> HIDE DEF n
    <3>3. /\ Diff1 \div n \in Nat /\ Diff1 \div Truncated(n) \in Nat
          /\ Diff1 \div n <= Diff1 \div Truncated(n)
      BY <3>1, <3>2, Diff1Facts, QuotientDecreases, Zenon
    <3>4. AtMostMax(Diff1 \div n) <= reading
      BY <2>4, <2>6, <3>3, AtMostMaxGrows, Zenon
    <3>5. ASSUME meets_target(hash, difficulty_to_target(assigned_difficulty))
          PROVE  reading >= AtMostMax(assigned_difficulty)
      <4>1. n <= Diff1 \div assigned_difficulty
        BY <2>2, <2>3, <3>5, MeetsIsNumeric, Zenon DEF n
      <4>2. assigned_difficulty <= Diff1 \div n
        <5>1. PICK d \in Nat \ {0}, m \in Nat, c \in Nat \ {0} : assigned_difficulty = d /\ Diff1 = m /\ n = c
          BY <2>3, <3>2, Diff1Facts, Zenon
        <5>2. PICK q, r \in Nat : m \div d = q /\ m = q * d + r /\ r < d
          BY DivMod, Zenon
        <5>3. PICK p, s \in Nat : m \div c = p /\ m = p * c + s /\ s < c
          BY DivMod, Zenon
        <5>4. c <= q
          BY <4>1, <5>1, <5>2, Zenon
        <5>5. d <= p
          <6> SUFFICES ASSUME p < d PROVE FALSE
            OBVIOUS
          <6>1. (p + 1) * c <= d * c /\ d * c <= d * q /\ d * q = q * d
            BY <5>4
          <6> QED
            BY <5>2, <5>3, <6>1
        <5> QED
          BY <5>1, <5>3, <5>5, Zenon
      <4>3. assigned_difficulty <= Diff1 \div Truncated(n)
        BY <2>3, <3>3, <4>2
      <4>4. AtMostMax(assigned_difficulty) <= reading
        BY <2>3, <2>4, <2>6, <3>3, <4>3, AtMostMaxGrows, Zenon
      <4> QED
        BY <4>4
    <3> QED
      BY <2>4, <2>6, <3>4, <3>5, Zenon
  <2> QED
    BY <2>5, <2>6, Zenon
<1> QED
  BY <1>1, <1>2, Zenon DEF AssignedWorkCounts

(* And the division is exact for whatever was assigned. *)
LEMMA ExactTargets == TargetInv => TargetsAreExact
<1> SUFFICES ASSUME TargetInv PROVE TargetsAreExact
  BY Zenon
<1>1. assigned_difficulty # 0 => assigned_difficulty \in Nat \ {0}
  BY DEF TargetInv
<1> QED
  BY <1>1, ShareTargetIs, Zenon DEF TargetInv, NetworkIsExact, TargetsAreExact

(* TargetsAreExact (difficulty_to_target, template.rs:723-738, and              *)
(* bits_to_target, template.rs:694-699): for any base, any number of digits and *)
(* any difficulty, the share target is difficulty 1's divided by it and rounded *)
(* down, and the network target is the number the node's bits stand for.        *)
THEOREM TargetsStayExact == TargetSpec => []TargetsAreExact
<1>1. TargetSpec => []TargetInv
  BY TargetInitInv, TargetStep, PTL DEF TargetSpec
<1> QED
  BY <1>1, ExactTargets, PTL

(* AssignedWorkCounts (handle_open_extended, validate_share_no_dedup and        *)
(* hash_to_difficulty, template.rs:740-786): for any base, any number of digits *)
(* and of significant ones, and any hash, what meets the target that was sent   *)
(* is accepted, and reads as the quotient of difficulty 1 and the significant   *)
(* digits of the hash, so never below the difficulty that it meets.             *)
THEOREM WorkIsCounted == TargetSpec => []AssignedWorkCounts
<1>1. TargetSpec => []TargetInv
  BY TargetInitInv, TargetStep, PTL DEF TargetSpec
<1> QED
  BY <1>1, WorkIsExact, PTL
=============================================================================
