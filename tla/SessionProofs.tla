--------------------------- MODULE SessionProofs ---------------------------
(***************************************************************************)
(* RateMeters, for windows of any length and any number of sessions,       *)
(* shares and restarts:                                                    *)
(*   MeteredOnce        from MetersInv: a meter's tail holds what is fair  *)
(*   DecaysByTheClock   for each share's age, and so does the checkpoint,  *)
(*                      at the time that it states                         *)
(*                                                                         *)
(* MiningSession: a session of any length, with tables of any size, is     *)
(* well typed, credits whom its jobs pay, and keeps the share contract.    *)
(***************************************************************************)
EXTENDS RateMeters, MiningSession, TLAPS

-----------------------------------------------------------------------------
(* What a session is measured at *)

ClockTypes ==
    /\ clock \in Nat /\ up \in BOOLEAN /\ boots \in Nat /\ taken \subseteq Tickets
    /\ folded \in [Tickets -> Nat \cup {Never}]
    /\ \A t \in Tickets : folded[t] \in Nat => folded[t] <= clock
    /\ snapshotAt \in Nat => snapshotAt <= clock
    /\ snapshotAt \in Nat \cup {Never}
    /\ checkpoint.updated_ts \in Nat /\ checkpoint.updated_ts <= clock

Fair(t, now) == LongWindow - (now - folded[t])

(* A meter holds its session's shares, those of its averages with what is fair; with  *)
(* exactly that if this process took them.                                            *)
SoundMeter(m) ==
    /\ m.worker \in Miners
    /\ \A t \in m.pending : t \in taken /\ folded[t] = Never
    /\ \A t \in DOMAIN m.rates :
        /\ t \in Tickets /\ folded[t] \in Nat /\ m.rates[t] \in Nat /\ m.rates[t] <= Fair(t, clock)
        /\ boots = 0 \/ t \in taken => m.rates[t] = Fair(t, clock)

SoundMeters == \A id \in DOMAIN session_hashrates : SoundMeter(session_hashrates[id])

(* A checkpoint holds no more of a share than was fair at the time it states. *)
SoundCheckpoint ==
    /\ \A who \in Miners : \A t \in DOMAIN checkpoint.rates[who] :
        /\ t \in Tickets /\ folded[t] \in Nat /\ checkpoint.rates[who][t] \in Nat
        /\ checkpoint.rates[who][t] <= Fair(t, checkpoint.updated_ts)
    /\ \A v, w \in Miners : \A t \in DOMAIN checkpoint.rates[v] : t \in DOMAIN checkpoint.rates[w] => v = w

HeldOnce == \A a, b \in DOMAIN session_hashrates : \A t \in Held(a) : t \in Held(b) => a = b

(* What the ticker found idle has no average until it is removed. *)
IdleIsEmpty ==
    \A id \in idle : id \in DOMAIN session_hashrates => DOMAIN session_hashrates[id].rates = {}

Kept(t) ==
    \/ \E id \in DOMAIN session_hashrates : t \in Held(id)
    \/ folded[t] # Never /\ clock - folded[t] >= LongWindow

MetersInv ==
    /\ ClockTypes /\ SoundMeters /\ SoundCheckpoint /\ HeldOnce /\ IdleIsEmpty
    /\ ~up => DOMAIN session_hashrates = {} /\ idle = {}
    /\ up => \A t \in taken \ (raced \cup pruned) : Kept(t)

-----------------------------------------------------------------------------
\* The fields of a meter.
LEMMA MeterFields ==
    \A who, pending, rates : /\ Meter(who, pending, rates).worker = who
                             /\ Meter(who, pending, rates).pending = pending
                             /\ Meter(who, pending, rates).rates = rates
BY Zenon DEF Meter

\* The types of clock and tickets; nothing was folded in after now.
LEMMA ClockFacts ==
    ASSUME MetersInv
    PROVE  /\ LongWindow \in Nat /\ LongWindow >= 1 /\ Never \notin Nat /\ clock \in Nat /\ boots \in Nat
           /\ up \in BOOLEAN /\ taken \subseteq Tickets
           /\ \A t \in Tickets : folded[t] \in Nat => folded[t] <= clock
BY MetersAssumption DEF MetersInv, ClockTypes

(* A meter stays sound while time stands still and its shares keep their dates. *)
LEMMA SoundStays ==
    ASSUME NEW m, SoundMeter(m), clock' = clock, boots' = boots, taken \subseteq taken',
           \A t \in DOMAIN m.rates : folded'[t] = folded[t] /\ (t \in taken' => t \in taken),
           \A t \in m.pending : folded'[t] = folded[t]
    PROVE  SoundMeter(m)'
BY Zenon DEF SoundMeter, Fair

\* At the start there are no meters.
LEMMA MetersInitInv == MetersInit => MetersInv
<1> SUFFICES ASSUME MetersInit PROVE MetersInv
  BY Zenon
<1>1. DOMAIN session_hashrates = {} /\ DOMAIN NoRates = {}
  BY Zenon DEF MetersInit, NoMeters, NoRates
<1>2. ClockTypes
  BY MetersAssumption DEF MetersInit, ClockTypes
<1>3. SoundCheckpoint
  BY <1>1, Zenon DEF MetersInit, SoundCheckpoint
<1> QED
  BY <1>1, <1>2, <1>3, Zenon DEF MetersInit, MetersInv, SoundMeters, HeldOnce, IdleIsEmpty

(* A share just accepted is in no meter but its session's. *)
LEMMA AddShareInv ==
    ASSUME MetersInv, NEW rig \in Rigs, NEW who \in Miners, NEW t \in Tickets, add_share_diff(rig, who, t)
    PROVE  MetersInv'
<1> SUFFICES ASSUME NEW id, id = Session(rig), NEW old,
                    old = IF id \in DOMAIN session_hashrates THEN session_hashrates[id]
                          ELSE Meter(who, {}, NoRates)
             PROVE  MetersInv'
  BY Zenon
<1>1. /\ up /\ t \notin taken /\ folded[t] = Never /\ taken' = taken \cup {t}
      /\ UNCHANGED <<idle, stale, snapshotAt, checkpoint, clock, up, boots, folded, raced, pruned>>
  BY Zenon DEF add_share_diff, tasks
<1>2. /\ DOMAIN session_hashrates' = DOMAIN session_hashrates \cup {id}
      /\ session_hashrates'[id] = Meter(who, old.pending \cup {t}, old.rates)
      /\ \A i \in DOMAIN session_hashrates \ {id} : session_hashrates'[i] = session_hashrates[i]
  <2>1. session_hashrates' = [i \in DOMAIN session_hashrates \cup {id} |->
                                IF i = id THEN add_share(Meter(who, old.pending, old.rates), t)
                                ELSE session_hashrates[i]]
    BY Zenon DEF add_share_diff, MetersWith
  <2>2. add_share(Meter(who, old.pending, old.rates), t) = Meter(who, old.pending \cup {t}, old.rates)
    BY Zenon DEF add_share, Meter
  <2> QED
    BY <2>1, <2>2, Zenon
<1>3. DOMAIN NoRates = {}
  BY Zenon DEF NoRates
<1>4. /\ \A x \in old.pending : x \in taken /\ folded[x] = Never
      /\ id \notin DOMAIN session_hashrates => old.pending = {} /\ DOMAIN old.rates = {}
      /\ id \in DOMAIN session_hashrates => Held(id) = old.pending \cup DOMAIN old.rates
      /\ \A i \in DOMAIN session_hashrates : SoundMeter(session_hashrates[i])
  BY <1>3, MeterFields DEF MetersInv, SoundMeters, SoundMeter, Held
<1>5. Held(id)' = old.pending \cup DOMAIN old.rates \cup {t}
  BY <1>2, MeterFields DEF Held
<1>6. \A i \in DOMAIN session_hashrates \ {id} : Held(i)' = Held(i)
  BY <1>2, Zenon DEF Held
<1>7. \A i \in DOMAIN session_hashrates : t \notin Held(i)
  BY <1>1, <1>4, MetersAssumption, Zenon DEF Held, SoundMeter
<1>8. ClockTypes'
  BY <1>1, Zenon DEF MetersInv, ClockTypes
<1>9. SoundMeters'
  <2> SUFFICES ASSUME NEW i \in DOMAIN session_hashrates' PROVE SoundMeter(session_hashrates[i])'
    BY Zenon DEF SoundMeters
  <2>1. CASE i # id
    <3>1. /\ i \in DOMAIN session_hashrates /\ session_hashrates'[i] = session_hashrates[i]
          /\ t \notin DOMAIN session_hashrates[i].rates
      BY <1>2, <1>7, <2>1, Zenon DEF Held
    <3>2. SoundMeter(session_hashrates[i])
      BY <1>4, <3>1, Zenon
    <3> QED
      BY <1>1, <3>1, <3>2, Zenon DEF SoundMeter, Fair
  <2>2. CASE i = id
    <3>1. t \notin DOMAIN old.rates
      BY <1>3, <1>4, <1>7, MeterFields, Zenon DEF Held
    <3>2. CASE id \in DOMAIN session_hashrates
      <4>1. SoundMeter(old)
        BY <1>4, <3>2, Zenon
      <4> QED
        BY <1>1, <1>2, <1>4, <2>2, <3>1, <4>1, MeterFields DEF SoundMeter, Fair
    <3>3. CASE id \notin DOMAIN session_hashrates
      BY <1>1, <1>2, <1>4, <2>2, <3>3, MeterFields DEF SoundMeter
    <3> QED
      BY <3>2, <3>3, Zenon
  <2> QED
    BY <2>1, <2>2, Zenon
<1>10. SoundCheckpoint'
  BY <1>1, Zenon DEF MetersInv, SoundCheckpoint, Fair
<1>11. HeldOnce'
  <2> SUFFICES ASSUME NEW a \in DOMAIN session_hashrates', NEW b \in DOMAIN session_hashrates',
                      NEW x, x \in Held(a)', x \in Held(b)'
               PROVE  a = b
    BY Zenon DEF HeldOnce
  <2>1. HeldOnce
    BY Zenon DEF MetersInv
  <2>2. CASE x = t
    BY <1>2, <1>6, <1>7, <2>2, Zenon
  <2>3. CASE x # t
    <3>1. \A i \in DOMAIN session_hashrates' : x \in Held(i)' => i \in DOMAIN session_hashrates /\ x \in Held(i)
      BY <1>2, <1>4, <1>5, <1>6, <2>3
    <3> QED
      BY <2>1, <3>1, Zenon DEF HeldOnce
  <2> QED
    BY <2>2, <2>3, Zenon
<1>12. IdleIsEmpty'
  BY <1>1, <1>2, <1>4, MeterFields DEF MetersInv, IdleIsEmpty
<1>13. \A x \in taken' \ (raced' \cup pruned') : Kept(x)'
  <2> SUFFICES ASSUME NEW x \in taken', x \notin raced, x \notin pruned PROVE Kept(x)'
    BY <1>1, Zenon
  <2>1. CASE x = t
    BY <1>2, <1>5, <2>1, Zenon DEF Kept
  <2>2. CASE x # t
    <3>1. Kept(x)
      BY <1>1, <2>2, Zenon DEF MetersInv
    <3>2. \A i \in DOMAIN session_hashrates : x \in Held(i) => i \in DOMAIN session_hashrates' /\ x \in Held(i)'
      BY <1>2, <1>4, <1>5, <1>6, Zenon
    <3> QED
      BY <1>1, <3>1, <3>2, Zenon DEF Kept
  <2> QED
    BY <2>1, <2>2, Zenon
<1> QED
  BY <1>1, <1>8, <1>9, <1>10, <1>11, <1>12, <1>13, Zenon DEF MetersInv

(* A tick: pending shares get their date, the others lose what a tick takes. *)
LEMMA TickMoves ==
    ASSUME MetersInv, TickHashrates
    PROVE  /\ DOMAIN session_hashrates' = DOMAIN session_hashrates
           /\ \A id \in DOMAIN session_hashrates :
                /\ session_hashrates'[id].worker = session_hashrates[id].worker
                /\ session_hashrates'[id].pending = {}
                /\ DOMAIN session_hashrates'[id].rates =
                     {t \in DOMAIN session_hashrates[id].rates : session_hashrates[id].rates[t] > 1}
                       \cup session_hashrates[id].pending
                /\ \A t \in session_hashrates[id].pending :
                     session_hashrates'[id].rates[t] = LongWindow /\ folded'[t] = clock + 1
                /\ \A t \in DOMAIN session_hashrates[id].rates :
                     /\ folded'[t] = folded[t]
                     /\ session_hashrates[id].rates[t] > 1 =>
                          session_hashrates'[id].rates[t] = session_hashrates[id].rates[t] - 1
<1>1. /\ session_hashrates' = [id \in DOMAIN session_hashrates |-> tick(session_hashrates[id])]
      /\ clock' = clock + 1
      /\ folded' = [t \in Tickets |->
                      IF \E id \in DOMAIN session_hashrates : t \in session_hashrates[id].pending
                      THEN clock' ELSE folded[t]]
  BY Zenon DEF TickHashrates
<1>2. ASSUME NEW id \in DOMAIN session_hashrates
      PROVE  /\ session_hashrates'[id].worker = session_hashrates[id].worker
             /\ session_hashrates'[id].pending = {}
             /\ DOMAIN session_hashrates'[id].rates =
                  {t \in DOMAIN session_hashrates[id].rates : session_hashrates[id].rates[t] > 1}
                    \cup session_hashrates[id].pending
             /\ \A t \in session_hashrates[id].pending :
                  session_hashrates'[id].rates[t] = LongWindow /\ folded'[t] = clock + 1
             /\ \A t \in DOMAIN session_hashrates[id].rates :
                  /\ folded'[t] = folded[t]
                  /\ session_hashrates[id].rates[t] > 1 =>
                       session_hashrates'[id].rates[t] = session_hashrates[id].rates[t] - 1
  <2> SUFFICES ASSUME NEW m, m = session_hashrates[id], NEW n, n = session_hashrates'[id]
               PROVE  /\ n.worker = m.worker /\ n.pending = {}
                      /\ DOMAIN n.rates = {t \in DOMAIN m.rates : m.rates[t] > 1} \cup m.pending
                      /\ \A t \in m.pending : n.rates[t] = LongWindow /\ folded'[t] = clock + 1
                      /\ \A t \in DOMAIN m.rates :
                           folded'[t] = folded[t] /\ (m.rates[t] > 1 => n.rates[t] = m.rates[t] - 1)
    OBVIOUS
  <2>1. n = tick(m)
    BY <1>1, Zenon
  <2>2. SoundMeter(m) /\ \A i \in DOMAIN session_hashrates : SoundMeter(session_hashrates[i])
    BY Zenon DEF MetersInv, SoundMeters
  <2>3. DOMAIN Decayed(m.rates, 1) = {t \in DOMAIN m.rates : m.rates[t] > 1}
    BY Zenon DEF Decayed
  <2>4. /\ n.worker = m.worker /\ n.pending = {}
        /\ n.rates = [t \in DOMAIN Decayed(m.rates, 1) \cup m.pending |->
                        IF t \in m.pending THEN LongWindow ELSE m.rates[t] - 1]
    BY <2>1, MeterFields DEF tick
  <2>5. \A t \in m.pending : t \in Tickets /\ t \notin DOMAIN m.rates
    BY <2>2, ClockFacts, Zenon DEF SoundMeter
  <2>6. ASSUME NEW t \in DOMAIN m.rates PROVE folded'[t] = folded[t]
    <3>1. t \in Tickets /\ folded[t] # Never
      BY <2>2, ClockFacts, Zenon DEF SoundMeter
    <3>2. ~\E i \in DOMAIN session_hashrates : t \in session_hashrates[i].pending
      BY <2>2, <3>1, Zenon DEF SoundMeter
    <3> QED
      BY <1>1, <3>1, <3>2, Zenon
  <2>7. ASSUME NEW t \in m.pending PROVE folded'[t] = clock + 1
    BY <1>1, <2>5, Zenon
  <2> QED
    BY <2>3, <2>4, <2>5, <2>6, <2>7
<1> QED
  BY <1>1, <1>2, Zenon

\* A tick folds what is pending in and lets the averages decay.
LEMMA MetersTickInv ==
    ASSUME MetersInv, TickHashrates
    PROVE  MetersInv'
<1>1. /\ up /\ clock' = clock + 1
      /\ idle' = {id \in DOMAIN session_hashrates : is_idle(session_hashrates'[id])}
      /\ folded' = [t \in Tickets |->
                      IF \E id \in DOMAIN session_hashrates : t \in session_hashrates[id].pending
                      THEN clock' ELSE folded[t]]
      /\ UNCHANGED <<stale, snapshotAt, checkpoint, up, boots, taken, raced, pruned>>
  BY Zenon DEF TickHashrates, history
<1>2. \A id \in DOMAIN session_hashrates : SoundMeter(session_hashrates[id])
  BY Zenon DEF MetersInv, SoundMeters
<1>3. \A t \in Tickets : folded[t] \in Nat => folded'[t] = folded[t]
  <2> SUFFICES ASSUME NEW t \in Tickets, folded[t] \in Nat PROVE folded'[t] = folded[t]
    BY Zenon
  <2>1. ~\E id \in DOMAIN session_hashrates : t \in session_hashrates[id].pending
    BY <1>2, ClockFacts, Zenon DEF SoundMeter
  <2> QED
    BY <1>1, <2>1, Zenon
<1>4. \A id \in DOMAIN session_hashrates : Held(id)' \subseteq Held(id)
  BY TickMoves, Zenon DEF Held
<1>5. ClockTypes'
  <2>1. ClockTypes
    BY Zenon DEF MetersInv
  <2>2. folded' \in [Tickets -> Nat \cup {Never}]
    BY <1>1, <2>1 DEF ClockTypes
  <2>3. \A t \in Tickets : folded'[t] \in Nat => folded'[t] <= clock'
    BY <1>1, <2>1 DEF ClockTypes
  <2>4. clock' \in Nat /\ \A n \in Nat : n <= clock => n <= clock'
    BY <1>1, <2>1 DEF ClockTypes
  <2> QED
    BY <1>1, <2>1, <2>2, <2>3, <2>4, Zenon DEF ClockTypes
<1>6. SoundMeters'
  <2> SUFFICES ASSUME NEW id \in DOMAIN session_hashrates PROVE SoundMeter(session_hashrates[id])'
    BY TickMoves, Zenon DEF SoundMeters
  <2> SUFFICES ASSUME NEW m, m = session_hashrates[id], NEW n, n = session_hashrates'[id]
               PROVE  /\ n.worker \in Miners
                      /\ \A t \in n.pending : t \in taken' /\ folded'[t] = Never
                      /\ \A t \in DOMAIN n.rates :
                          /\ t \in Tickets /\ folded'[t] \in Nat /\ n.rates[t] \in Nat
                          /\ n.rates[t] <= LongWindow - (clock' - folded'[t])
                          /\ boots' = 0 \/ t \in taken' => n.rates[t] = LongWindow - (clock' - folded'[t])
    BY Zenon DEF SoundMeter, Fair
  <2>1. /\ n.worker = m.worker /\ n.pending = {}
        /\ DOMAIN n.rates = {t \in DOMAIN m.rates : m.rates[t] > 1} \cup m.pending
        /\ \A t \in m.pending : n.rates[t] = LongWindow /\ folded'[t] = clock + 1
        /\ \A t \in DOMAIN m.rates : folded'[t] = folded[t] /\ (m.rates[t] > 1 => n.rates[t] = m.rates[t] - 1)
    BY TickMoves, Zenon
  <2>2. SoundMeter(m)
    BY <1>2, Zenon
  <2>3. ASSUME NEW t \in DOMAIN n.rates
        PROVE  /\ t \in Tickets /\ folded'[t] \in Nat /\ n.rates[t] \in Nat
               /\ n.rates[t] <= LongWindow - (clock' - folded'[t])
               /\ boots' = 0 \/ t \in taken' => n.rates[t] = LongWindow - (clock' - folded'[t])
    <3>1. CASE t \in m.pending
      <4>1. n.rates[t] = LongWindow /\ folded'[t] = clock + 1 /\ t \in Tickets
        BY <2>1, <2>2, <3>1, ClockFacts, Zenon DEF SoundMeter
      <4>2. \A l, c \in Nat : c + 1 \in Nat /\ l <= l - ((c + 1) - (c + 1)) /\ l = l - ((c + 1) - (c + 1))
        OBVIOUS
      <4> QED
        BY <1>1, <4>1, <4>2, ClockFacts
    <3>2. CASE t \in DOMAIN m.rates /\ m.rates[t] > 1
      <4>1. /\ n.rates[t] = m.rates[t] - 1 /\ folded'[t] = folded[t]
            /\ t \in Tickets /\ folded[t] \in Nat /\ m.rates[t] \in Nat
            /\ m.rates[t] <= LongWindow - (clock - folded[t])
            /\ boots = 0 \/ t \in taken => m.rates[t] = LongWindow - (clock - folded[t])
        BY <2>1, <2>2, <3>2, Zenon DEF SoundMeter, Fair
      <4>2. \A r, l, c, f \in Nat :
               r > 1 => /\ r - 1 \in Nat
                        /\ r <= l - (c - f) => r - 1 <= l - ((c + 1) - f)
                        /\ r = l - (c - f) => r - 1 = l - ((c + 1) - f)
        OBVIOUS
      <4> QED
        BY <1>1, <3>2, <4>1, <4>2, ClockFacts
    <3> QED
      BY <2>1, <3>1, <3>2, Zenon
  <2> QED
    BY <2>1, <2>2, <2>3, Zenon DEF SoundMeter
<1>7. SoundCheckpoint'
  BY <1>1, <1>3, Zenon DEF MetersInv, SoundCheckpoint, Fair
<1>8. HeldOnce'
  BY <1>4, TickMoves, Zenon DEF MetersInv, HeldOnce
<1>9. IdleIsEmpty'
  BY <1>1, Zenon DEF IdleIsEmpty, is_idle
<1>10. \A x \in taken' \ (raced' \cup pruned') : Kept(x)'
  <2> SUFFICES ASSUME NEW x \in taken, x \notin raced, x \notin pruned PROVE Kept(x)'
    BY <1>1, Zenon
  <2>1. Kept(x) /\ x \in Tickets
    BY <1>1, ClockFacts, Zenon DEF MetersInv
  <2>2. CASE folded[x] # Never /\ clock - folded[x] >= LongWindow
    <3>1. folded[x] \in Nat
      BY <2>1, <2>2, Zenon DEF MetersInv, ClockTypes
    <3> QED
      BY <1>1, <1>3, <2>1, <2>2, <3>1, ClockFacts DEF Kept
  <2>3. ASSUME NEW id \in DOMAIN session_hashrates, x \in Held(id) PROVE Kept(x)'
    <3>1. CASE x \in DOMAIN session_hashrates[id].rates /\ ~(session_hashrates[id].rates[x] > 1)
      <4>1. SoundMeter(session_hashrates[id])
        BY <1>2, Zenon
      <4> QED
        BY <1>1, <1>3, <3>1, <4>1, ClockFacts DEF SoundMeter, Fair, Kept
    <3>2. CASE x \in session_hashrates[id].pending \/ session_hashrates[id].rates[x] > 1
      <4>1. x \in Held(id)'
        BY <2>3, <3>2, TickMoves, Zenon DEF Held
      <4> QED
        BY <4>1, TickMoves, Zenon DEF Kept
    <3> QED
      BY <2>3, <3>1, <3>2, Zenon DEF Held
  <2> QED
    BY <2>1, <2>2, <2>3, Zenon DEF Kept
<1> QED
  BY <1>1, <1>5, <1>6, <1>7, <1>8, <1>9, <1>10, Zenon DEF MetersInv

(* Removal of sessions: the others keep what they hold. *)
LEMMA RemovalInv ==
    ASSUME MetersInv, NEW gone, session_hashrates' = Without(session_hashrates, gone), up,
           idle' \subseteq idle, taken' = taken,
           UNCHANGED <<snapshotAt, checkpoint, clock, up, boots, folded>>,
           raced \subseteq raced', pruned \subseteq pruned',
           \A id \in gone \cap DOMAIN session_hashrates : Held(id) \subseteq raced' \cup pruned'
    PROVE  MetersInv'
<1>1. /\ DOMAIN session_hashrates' = DOMAIN session_hashrates \ gone
      /\ \A id \in DOMAIN session_hashrates' : session_hashrates'[id] = session_hashrates[id]
  BY Zenon DEF Without
<1>2. \A id \in DOMAIN session_hashrates' : Held(id)' = Held(id)
  BY <1>1, Zenon DEF Held
<1>3. ClockTypes' /\ SoundCheckpoint'
  BY Zenon DEF MetersInv, ClockTypes, SoundCheckpoint, Fair
<1>4. SoundMeters'
  BY <1>1 DEF MetersInv, SoundMeters, SoundMeter, Fair
<1>5. HeldOnce'
  BY <1>1, <1>2 DEF MetersInv, HeldOnce
<1>6. IdleIsEmpty'
  BY <1>1, Zenon DEF MetersInv, IdleIsEmpty
<1>7. ASSUME NEW x \in taken', x \notin raced', x \notin pruned' PROVE Kept(x)'
  <2>1. Kept(x)
    BY <1>7, Zenon DEF MetersInv
  <2>2. \A id \in DOMAIN session_hashrates : x \in Held(id) => id \notin gone
    BY <1>7, Zenon
  <2> QED
    BY <1>1, <1>2, <2>1, <2>2, Zenon DEF Kept
<1> QED
  BY <1>3, <1>4, <1>5, <1>6, <1>7, Zenon DEF MetersInv

\* The ticker removes meters that hold no average.
LEMMA RemoveIdleInv ==
    ASSUME MetersInv, RemoveIdle
    PROVE  MetersInv'
<1>1. \A id \in idle \cap DOMAIN session_hashrates : Held(id) \subseteq raced'
  BY Zenon DEF RemoveIdle, Held, MetersInv, IdleIsEmpty
<1> QED
  BY <1>1, RemovalInv, Zenon DEF RemoveIdle

\* The pruner removes the meters of the workers it collected.
LEMMA RetainOthersInv ==
    ASSUME MetersInv, RetainOthers
    PROVE  MetersInv'
<1> SUFFICES ASSUME NEW gone, gone = {id \in DOMAIN session_hashrates : session_hashrates[id].worker \in stale}
             PROVE  MetersInv'
  BY Zenon
<1>1. \A id \in gone \cap DOMAIN session_hashrates : Held(id) \subseteq pruned'
  BY Zenon DEF RetainOthers, Held
<1>2. session_hashrates' = Without(session_hashrates, gone) /\ pruned \subseteq pruned'
  BY Zenon DEF RetainOthers
<1> QED
  BY <1>1, <1>2, RemovalInv, Zenon DEF RetainOthers

(* The sums by worker: each share once, as its only meter has it. *)
LEMMA SumsFacts ==
    ASSUME MetersInv, NEW who \in Miners, NEW t \in DOMAIN hashrates_by_worker[who]
    PROVE  \E id \in DOMAIN session_hashrates :
              /\ session_hashrates[id].worker = who /\ t \in DOMAIN session_hashrates[id].rates
              /\ hashrates_by_worker[who][t] = session_hashrates[id].rates[t]
<1> SUFFICES ASSUME NEW mine, mine = {id \in DOMAIN session_hashrates : session_hashrates[id].worker = who}
             PROVE  \E id \in DOMAIN session_hashrates :
                      /\ session_hashrates[id].worker = who /\ t \in DOMAIN session_hashrates[id].rates
                      /\ hashrates_by_worker[who][t] = session_hashrates[id].rates[t]
  BY Zenon
<1>1. hashrates_by_worker[who] =
        [x \in UNION {DOMAIN session_hashrates[id].rates : id \in mine} |->
          session_hashrates[CHOOSE id \in {i \in mine : x \in DOMAIN session_hashrates[i].rates} : TRUE].rates[x]]
  BY DEF hashrates_by_worker
<1>2. PICK id \in mine : t \in DOMAIN session_hashrates[id].rates
  BY <1>1, Zenon
<1>3. \E h \in {i \in mine : t \in DOMAIN session_hashrates[i].rates} :
         /\ h = CHOOSE i \in {i \in mine : t \in DOMAIN session_hashrates[i].rates} : TRUE
         /\ hashrates_by_worker[who][t] = session_hashrates[h].rates[t]
  BY <1>1, <1>2, Zenon
<1> QED
  BY <1>3, Zenon

\* A checkpoint's sums are no more than was left at the time it states, read before.
LEMMA SnapshotRatesInv ==
    ASSUME MetersInv, SnapshotRates
    PROVE  MetersInv'
<1>1. /\ up /\ snapshotAt # Never /\ snapshotAt' = Never
      /\ \/ checkpoint' = checkpoint
         \/ checkpoint' = [updated_ts |-> snapshotAt, rates |-> hashrates_by_worker]
      /\ UNCHANGED <<session_hashrates, idle, stale, clock, up, boots, lastSeen, folded, taken, raced, pruned>>
  BY Zenon DEF SnapshotRates, history
<1>2. snapshotAt \in Nat /\ snapshotAt <= clock
  BY <1>1, Zenon DEF MetersInv, ClockTypes
<1>3. ClockTypes'
  BY <1>1, <1>2, ClockFacts DEF MetersInv, ClockTypes
<1>4. SoundCheckpoint'
  <2>1. CASE checkpoint' = checkpoint
    BY <1>1, <2>1, Zenon DEF MetersInv, SoundCheckpoint, Fair
  <2>2. CASE checkpoint' = [updated_ts |-> snapshotAt, rates |-> hashrates_by_worker]
    <3>1. checkpoint'.updated_ts = snapshotAt /\ checkpoint'.rates = hashrates_by_worker
      BY <2>2, Zenon
    <3>2. ASSUME NEW who \in Miners, NEW t \in DOMAIN hashrates_by_worker[who]
          PROVE  /\ t \in Tickets /\ folded[t] \in Nat /\ hashrates_by_worker[who][t] \in Nat
                 /\ hashrates_by_worker[who][t] <= Fair(t, snapshotAt)
      <4>1. PICK id \in DOMAIN session_hashrates :
                 /\ t \in DOMAIN session_hashrates[id].rates
                 /\ hashrates_by_worker[who][t] = session_hashrates[id].rates[t]
        BY SumsFacts, Zenon
      <4>2. SoundMeter(session_hashrates[id])
        BY Zenon DEF MetersInv, SoundMeters
      <4>3. \A r, l, n, f, s \in Nat : r <= l - (n - f) /\ s <= n => r <= l - (s - f)
        OBVIOUS
      <4> QED
        BY <1>2, <4>1, <4>2, <4>3, ClockFacts, Zenon DEF SoundMeter, Fair
    <3>3. ASSUME NEW v \in Miners, NEW w \in Miners, NEW t \in DOMAIN hashrates_by_worker[v],
                 t \in DOMAIN hashrates_by_worker[w]
          PROVE  v = w
      <4>1. PICK a \in DOMAIN session_hashrates :
                 session_hashrates[a].worker = v /\ t \in DOMAIN session_hashrates[a].rates
        BY SumsFacts, Zenon
      <4>2. PICK b \in DOMAIN session_hashrates :
                 session_hashrates[b].worker = w /\ t \in DOMAIN session_hashrates[b].rates
        BY <3>3, SumsFacts, Zenon
      <4> QED
        BY <4>1, <4>2, Zenon DEF MetersInv, HeldOnce, Held
    <3> QED
      BY <1>1, <3>1, <3>2, <3>3, Zenon DEF SoundCheckpoint, Fair
  <2> QED
    BY <1>1, <2>1, <2>2, Zenon
<1>5. SoundMeters' /\ HeldOnce' /\ IdleIsEmpty'
  BY <1>1 DEF MetersInv, SoundMeters, SoundMeter, Fair, HeldOnce, IdleIsEmpty, Held
<1> QED
  BY <1>1, <1>3, <1>4, <1>5, Zenon DEF MetersInv, Kept, Held

(* A restart: the tails of a checkpoint, each under a name of its own. *)
LEMMA BootInv ==
    ASSUME MetersInv, Boot
    PROVE  MetersInv'
<1> SUFFICES ASSUME NEW offline, offline = clock - checkpoint.updated_ts,
                    NEW shown, shown = {who \in Miners : ~is_idle(Meter(who, {},
                                          [v \in Miners |-> decay_idle_for(checkpoint.rates[v], offline)][who]))}
             PROVE  MetersInv'
  BY Zenon
<1>1. /\ ~up /\ up' = TRUE /\ boots' = boots + 1 /\ taken' = {} /\ raced' = {} /\ pruned' = {}
      /\ UNCHANGED <<idle, stale, snapshotAt, checkpoint, clock, folded>>
  BY Zenon DEF Boot, tasks
<1>2. session_hashrates' =
        [id \in {Restored(who) : who \in shown} |->
            Meter(id[2], {}, [v \in Miners |-> decay_idle_for(checkpoint.rates[v], offline)][id[2]])]
  BY DEF Boot
<1>3. shown \subseteq Miners
  BY Zenon
<1>4. ASSUME NEW id \in DOMAIN session_hashrates'
      PROVE  \E who \in Miners :
                /\ id = Restored(who)
                /\ session_hashrates'[id] = Meter(who, {}, Decayed(checkpoint.rates[who], offline))
  <2>1. PICK who \in shown : id = Restored(who)
    BY <1>2, Zenon
  <2>2. id[2] = who
    BY <2>1, Zenon DEF Restored
  <2>3. session_hashrates'[id] = Meter(who, {}, decay_idle_for(checkpoint.rates[who], offline))
    BY <1>2, <1>3, <2>1, <2>2, Zenon
  <2> QED
    BY <1>3, <2>1, <2>3, Zenon DEF decay_idle_for
<1>5. \A who \in Miners : /\ DOMAIN Decayed(checkpoint.rates[who], offline) =
                               {t \in DOMAIN checkpoint.rates[who] : checkpoint.rates[who][t] > offline}
                          /\ \A t \in DOMAIN Decayed(checkpoint.rates[who], offline) :
                               Decayed(checkpoint.rates[who], offline)[t] = checkpoint.rates[who][t] - offline
  BY Zenon DEF Decayed
<1>6. ClockTypes'
  BY <1>1 DEF MetersInv, ClockTypes
<1>7. SoundCheckpoint'
  BY <1>1, Zenon DEF MetersInv, SoundCheckpoint, Fair
<1>8. SoundMeters'
  <2> SUFFICES ASSUME NEW id \in DOMAIN session_hashrates' PROVE SoundMeter(session_hashrates[id])'
    BY Zenon DEF SoundMeters
  <2>1. PICK who \in Miners : session_hashrates'[id] = Meter(who, {}, Decayed(checkpoint.rates[who], offline))
    BY <1>4, Zenon
  <2>2. ASSUME NEW t \in DOMAIN Decayed(checkpoint.rates[who], offline)
        PROVE  /\ t \in Tickets /\ folded[t] \in Nat
               /\ Decayed(checkpoint.rates[who], offline)[t] \in Nat
               /\ Decayed(checkpoint.rates[who], offline)[t] <= LongWindow - (clock - folded[t])
    <3>1. /\ t \in DOMAIN checkpoint.rates[who] /\ checkpoint.rates[who][t] > offline
          /\ Decayed(checkpoint.rates[who], offline)[t] = checkpoint.rates[who][t] - offline
      BY <1>5, Zenon
    <3>2. /\ t \in Tickets /\ folded[t] \in Nat /\ checkpoint.rates[who][t] \in Nat
          /\ checkpoint.rates[who][t] <= LongWindow - (checkpoint.updated_ts - folded[t])
      BY <3>1, Zenon DEF MetersInv, SoundCheckpoint, Fair
    <3>3. checkpoint.updated_ts \in Nat /\ checkpoint.updated_ts <= clock
      BY Zenon DEF MetersInv, ClockTypes
    <3>4. \A r, l, n, f, s \in Nat : r <= l - (s - f) /\ s <= n /\ r > n - s =>
             r - (n - s) \in Nat /\ r - (n - s) <= l - (n - f)
      OBVIOUS
    <3>5. PICK r, s \in Nat : checkpoint.rates[who][t] = r /\ checkpoint.updated_ts = s
      BY <3>2, <3>3, Zenon
    <3>6. clock \in Nat /\ LongWindow \in Nat
      BY ClockFacts
    <3>7. r <= LongWindow - (s - folded[t]) /\ s <= clock /\ r > clock - s
      BY <3>1, <3>2, <3>3, <3>5, Zenon
    <3>8. r - (clock - s) \in Nat /\ r - (clock - s) <= LongWindow - (clock - folded[t])
      BY <3>2, <3>4, <3>6, <3>7, Zenon
    <3> QED
      BY <3>1, <3>2, <3>5, <3>8, Zenon
  <2> QED
    BY <1>1, <2>1, <2>2, MeterFields, ClockFacts DEF SoundMeter, Fair
<1>9. HeldOnce'
  <2> SUFFICES ASSUME NEW a \in DOMAIN session_hashrates', NEW b \in DOMAIN session_hashrates',
                      NEW t, t \in Held(a)', t \in Held(b)'
               PROVE  a = b
    BY Zenon DEF HeldOnce
  <2>1. PICK v \in Miners : a = Restored(v) /\ session_hashrates'[a] = Meter(v, {}, Decayed(checkpoint.rates[v], offline))
    BY <1>4, Zenon
  <2>2. PICK w \in Miners : b = Restored(w) /\ session_hashrates'[b] = Meter(w, {}, Decayed(checkpoint.rates[w], offline))
    BY <1>4, Zenon
  <2>3. t \in DOMAIN Decayed(checkpoint.rates[v], offline) /\ t \in DOMAIN Decayed(checkpoint.rates[w], offline)
    BY <2>1, <2>2, MeterFields DEF Held
  <2>4. t \in DOMAIN checkpoint.rates[v] /\ t \in DOMAIN checkpoint.rates[w]
    BY <1>5, <2>3, Zenon
  <2> QED
    BY <2>1, <2>2, <2>4, Zenon DEF MetersInv, SoundCheckpoint
<1>10. IdleIsEmpty'
  BY <1>1, Zenon DEF MetersInv, IdleIsEmpty
<1> QED
  BY <1>1, <1>6, <1>7, <1>8, <1>9, <1>10, Zenon DEF MetersInv

(* What is left: the ends of a process, and the steps that only read or date. *)
LEMMA StoppedInv ==
    ASSUME MetersInv, Die \/ TimePasses
    PROVE  MetersInv'
<1>1. /\ ~up' /\ DOMAIN session_hashrates' = {} /\ idle' = {} /\ clock' \in {clock, clock + 1}
      /\ UNCHANGED <<checkpoint, boots, folded, taken, raced, pruned>>
      /\ snapshotAt' \in {snapshotAt, Never} /\ up' \in BOOLEAN
  <2>1. CASE Die
    BY <2>1, Zenon DEF Die, history, NoMeters
  <2>2. CASE TimePasses
    <3>1. ~up /\ DOMAIN session_hashrates = {} /\ idle = {} /\ up \in BOOLEAN
      BY <2>2, Zenon DEF MetersInv, ClockTypes, TimePasses
    <3>2. /\ clock' = clock + 1
          /\ UNCHANGED <<session_hashrates, idle, snapshotAt, checkpoint, up, boots, folded, taken, raced, pruned>>
      BY <2>2, Zenon DEF TimePasses, tasks, history
    <3> QED
      BY <3>1, <3>2, Zenon
  <2> QED
    BY <2>1, <2>2, Zenon
<1>2. clock' \in Nat /\ \A n \in Nat : n <= clock => n <= clock'
  BY <1>1, ClockFacts
<1>3. ClockTypes'
  BY <1>1, <1>2, MetersAssumption, Zenon DEF MetersInv, ClockTypes
<1>4. SoundCheckpoint'
  BY <1>1, Zenon DEF MetersInv, SoundCheckpoint, Fair
<1> QED
  BY <1>1, <1>3, <1>4, Zenon DEF MetersInv, SoundMeters, HeldOnce, IdleIsEmpty

\* Steps that only read, or read the time, change no meter.
LEMMA ReadOnlyInv ==
    ASSUME MetersInv,
           UNCHANGED <<session_hashrates, idle, checkpoint, clock, up, boots, folded, taken, raced, pruned>>,
           snapshotAt' \in {snapshotAt, clock}
    PROVE  MetersInv'
<1>1. ClockTypes'
  BY ClockFacts DEF MetersInv, ClockTypes
<1>2. SoundCheckpoint'
  BY Zenon DEF MetersInv, SoundCheckpoint, Fair
<1>3. SoundMeters' /\ HeldOnce' /\ IdleIsEmpty'
  BY DEF MetersInv, SoundMeters, SoundMeter, Fair, HeldOnce, IdleIsEmpty, Held
<1> QED
  BY <1>1, <1>2, <1>3, Zenon DEF MetersInv, Kept, Held

\* Every step keeps the meters sound.
LEMMA MetersStep ==
    ASSUME MetersInv, [MetersNext]_meter_vars
    PROVE  MetersInv'
<1>1. CASE \E rig \in Rigs, who \in Miners, t \in Tickets : add_share_diff(rig, who, t)
  BY <1>1, AddShareInv, Zenon
<1>2. CASE \E who \in Miners : MarkOnline(who)
  BY <1>2, ReadOnlyInv, Zenon DEF MarkOnline, tasks, history
<1>3. CASE TickHashrates
  BY <1>3, MetersTickInv, Zenon
<1>4. CASE RemoveIdle
  BY <1>4, RemoveIdleInv, Zenon
<1>5. CASE CollectIdleWorkers
  BY <1>5, ReadOnlyInv, Zenon DEF CollectIdleWorkers, history
<1>6. CASE RetainOthers
  BY <1>6, RetainOthersInv, Zenon
<1>7. CASE SnapshotTime
  BY <1>7, ReadOnlyInv, Zenon DEF SnapshotTime, history
<1>8. CASE SnapshotRates
  BY <1>8, SnapshotRatesInv, Zenon
<1>9. CASE Die \/ TimePasses
  BY <1>9, StoppedInv, Zenon
<1>10. CASE Boot
  BY <1>10, BootInv, Zenon
<1>11. CASE UNCHANGED meter_vars
  BY <1>11, ReadOnlyInv, Zenon DEF meter_vars, tasks, history
<1> QED
  BY <1>1, <1>2, <1>3, <1>4, <1>5, <1>6, <1>7, <1>8, <1>9, <1>10, <1>11, Zenon DEF MetersNext

\* They are sound throughout.
LEMMA MetersSpecInv == MetersSpec => []MetersInv
BY MetersInitInv, MetersStep, PTL DEF MetersSpec

-----------------------------------------------------------------------------
(* No share is counted by two meters, and none that this process accepted is lost before it *)
(* has faded, except with a pruned worker or in the ticker's race.                           *)
THEOREM SharesAreMeteredOnce == MetersSpec => []MeteredOnce
<1>1. MetersInv => MeteredOnce
  BY Zenon DEF MetersInv, HeldOnce, Kept, MeteredOnce
<1> QED
  BY <1>1, MetersSpecInv, PTL

(* However the ticks are divided between running processes and time without one, a share  *)
(* never weighs more than its age allows; and exactly that until the first restart.       *)
THEOREM RatesDecayByTheClock == MetersSpec => []DecaysByTheClock
<1>1. ASSUME MetersInv PROVE DecaysByTheClock
  BY <1>1, Zenon DEF MetersInv, SoundMeters, SoundMeter, Fair, DecaysByTheClock
<1> QED
  BY <1>1, MetersSpecInv, PTL

-----------------------------------------------------------------------------
(* The session *)

Entry(J) == [job : J, superseded_by_clean : BOOLEAN, difficulty : {0}]

\* Entries dropped when one more is issued.
Dropped(s) == IF Len(s) >= JOB_HISTORY_DEPTH THEN 1 ELSE 0

\* r is the table s after job was issued.
Issued(s, job, clean, r) ==
    /\ Len(r) = Len(s) - Dropped(s) + 1
    /\ r[Len(r)] = JobEntry(job, FALSE, 0)
    /\ \A i \in 1 .. Len(s) - Dropped(s) :
           r[i] = JobEntry(s[i + Dropped(s)].job,
                           clean \/ s[i + Dropped(s)].superseded_by_clean, 0)

(* push_back, in every table of the session. *)
LEMMA AppendSeq ==
    ASSUME NEW S, NEW s \in Seq(S), NEW x \in S
    PROVE  /\ Append(s, x) \in Seq(S) /\ Len(Append(s, x)) = Len(s) + 1
           /\ Append(s, x)[Len(s) + 1] = x
           /\ \A i \in 1 .. Len(s) : Append(s, x)[i] = s[i]
OBVIOUS

(* pop_front. *)
LEMMA TailSeq ==
    ASSUME NEW S, NEW s \in Seq(S), Len(s) > 0
    PROVE  /\ Tail(s) \in Seq(S) /\ Len(Tail(s)) = Len(s) - 1
           /\ \A i \in 1 .. Len(s) - 1 : Tail(s)[i] = s[i + 1]
<1>1. s # <<>>
  OBVIOUS
<1> QED
  BY <1>1

(* IssuedJobs::issue: the oldest entry gives way, the others keep their order *)
(* and are superseded by a clean job, and the new one comes last.             *)
LEMMA Issue ==
    ASSUME NEW J, NEW s \in Seq(Entry(J)), Len(s) <= JOB_HISTORY_DEPTH,
           NEW job \in J, NEW clean \in BOOLEAN, NEW r, r = issue(s, job, clean, 0)
    PROVE  /\ r \in Seq(Entry(J)) /\ Len(r) <= JOB_HISTORY_DEPTH
           /\ Issued(s, job, clean, r)
<1> USE DepthAssumption
<1> DEFINE base == IF clean THEN Superseded(s) ELSE s
<1> DEFINE room == MakeRoom(base)
<1>1. Len(s) \in Nat
  OBVIOUS
<1>2. ASSUME NEW i \in 1 .. Len(s)
      PROVE  /\ s[i].job \in J /\ s[i].superseded_by_clean \in BOOLEAN /\ s[i].difficulty = 0
             /\ s[i] = JobEntry(s[i].job, s[i].superseded_by_clean, 0)
  <2>1. s[i] \in Entry(J)
    OBVIOUS
  <2> QED
    BY <2>1, Zenon DEF Entry, JobEntry
<1>3. Superseded(s) \in Seq(Entry(J)) /\ Len(Superseded(s)) = Len(s)
      /\ \A i \in 1 .. Len(s) : Superseded(s)[i] = JobEntry(s[i].job, TRUE, 0)
  <2>1. \A i \in 1 .. Len(s) : JobEntry(s[i].job, TRUE, 0) \in Entry(J)
    BY <1>2, Zenon DEF JobEntry, Entry
  <2>2. Superseded(s) = [i \in 1 .. Len(s) |-> JobEntry(s[i].job, TRUE, 0)]
    BY <1>2, Zenon DEF Superseded
  <2>3. Superseded(s) \in [1 .. Len(s) -> Entry(J)]
    BY <2>1, <2>2, Zenon
  <2>4. \A i \in 1 .. Len(s) : Superseded(s)[i] = JobEntry(s[i].job, TRUE, 0)
    BY <2>2, Zenon
  <2>5. Superseded(s) \in Seq(Entry(J)) /\ Len(Superseded(s)) = Len(s)
    BY <1>1, <2>3
  <2> QED
    BY <2>4, <2>5, Zenon
<1>4. /\ base \in Seq(Entry(J)) /\ Len(base) = Len(s)
      /\ \A i \in 1 .. Len(s) : base[i] = JobEntry(s[i].job, clean \/ s[i].superseded_by_clean, 0)
  <2>1. CASE clean
    BY <2>1, <1>3, Zenon
  <2>2. CASE ~clean
    BY <2>2, <1>2, Zenon
  <2> QED
    BY <2>1, <2>2, Zenon
<1>5. /\ room \in Seq(Entry(J)) /\ Len(room) = Len(s) - Dropped(s)
      /\ \A i \in 1 .. Len(s) - Dropped(s) : room[i] = base[i + Dropped(s)]
  <2> HIDE DEF base
  <2>1. CASE Len(s) >= JOB_HISTORY_DEPTH
    <3>1. base # <<>> /\ Dropped(s) = 1 /\ room = Tail(base)
      BY <2>1, <1>4, <1>1 DEF Dropped, MakeRoom
    <3> QED
      BY <3>1, <1>4, <1>1
  <2>2. CASE ~(Len(s) >= JOB_HISTORY_DEPTH)
    BY <2>2, <1>1, <1>4 DEF MakeRoom, Dropped
  <2> QED
    BY <2>1, <2>2, Zenon
<1>6. JobEntry(job, FALSE, 0) \in Entry(J)
  BY Zenon DEF JobEntry, Entry
<1>7. r = Append(room, JobEntry(job, FALSE, 0))
  BY Zenon DEF issue
<1>8. Dropped(s) \in {0, 1} /\ Len(s) - Dropped(s) \in Nat /\ Len(s) - Dropped(s) < JOB_HISTORY_DEPTH
  BY <1>1 DEF Dropped
<1> QED
  <2> HIDE DEF base, room
  <2> DEFINE new == JobEntry(job, FALSE, 0)
  <2> HIDE DEF new
  <2>1. \A i \in 1 .. Len(s) - Dropped(s) : i + Dropped(s) \in 1 .. Len(s)
    BY <1>8, <1>1
  <2>2. \A i \in 1 .. Len(s) - Dropped(s) :
            room[i] = JobEntry(s[i + Dropped(s)].job,
                               clean \/ s[i + Dropped(s)].superseded_by_clean, 0)
    BY <1>4, <1>5, <2>1, Zenon
  <2>3. new \in Entry(J)
    BY <1>6, Zenon DEF new
  <2>4. /\ Append(room, new) \in Seq(Entry(J)) /\ Len(Append(room, new)) = Len(room) + 1
        /\ Append(room, new)[Len(room) + 1] = new
        /\ \A i \in 1 .. Len(room) : Append(room, new)[i] = room[i]
    BY <1>5, <2>3, AppendSeq
  <2>5. r = Append(room, new)
    BY <1>7, Zenon DEF new
  <2>6. Len(r) = Len(s) - Dropped(s) + 1
    BY <1>5, <2>4, <2>5, Zenon
  <2>7. \A i \in 1 .. Len(s) - Dropped(s) : r[i] = room[i]
    BY <1>5, <2>4, <2>5, Zenon
  <2>8. r[Len(r)] = JobEntry(job, FALSE, 0)
    BY <1>5, <2>4, <2>5, Zenon DEF new
  <2>9. Len(r) <= JOB_HISTORY_DEPTH
    BY <1>1, <1>8, <2>6
  <2>10. \A i \in 1 .. Len(s) - Dropped(s) :
             r[i] = JobEntry(s[i + Dropped(s)].job,
                             clean \/ s[i + Dropped(s)].superseded_by_clean, 0)
    BY <2>2, <2>7, Zenon
  <2> QED
    BY <2>4, <2>5, <2>6, <2>8, <2>9, <2>10, Zenon DEF Issued

(* Retired: a clean job takes the life of every job sent before it. *)
LEMMA RetiredSeq ==
    ASSUME NEW h \in Seq(SentJobs)
    PROVE  /\ Retired(h) \in Seq(SentJobs) /\ Len(Retired(h)) = Len(h)
           /\ \A i \in 1 .. Len(h) : Retired(h)[i] = [id |-> h[i].id, number |-> h[i].number,
                                                    payee |-> h[i].payee, live |-> FALSE]
<1>1. Len(h) \in Nat
  OBVIOUS
<1>2. ASSUME NEW i \in 1 .. Len(h)
      PROVE  [id |-> h[i].id, number |-> h[i].number, payee |-> h[i].payee, live |-> FALSE]
                 \in SentJobs
  <2>1. h[i] \in SentJobs
    OBVIOUS
  <2> QED
    BY <2>1, Zenon DEF SentJobs
<1>3. Retired(h) \in [1 .. Len(h) -> SentJobs]
  BY <1>2, Zenon DEF Retired
<1>4. Retired(h) \in Seq(SentJobs) /\ Len(Retired(h)) = Len(h)
  BY <1>1, <1>3
<1> QED
  BY <1>4, Zenon DEF Retired

-----------------------------------------------------------------------------
(* Type correctness *)

Wires == wire \in Shares \cup {NoShare} /\ credited \in Seq(Credits)
Flags ==
    /\ proto \in {"sv1", "sv2"} /\ running \in BOOLEAN
    /\ introduced \in BOOLEAN /\ ready \in BOOLEAN /\ rolling \in BOOLEAN
    /\ mask \subseteq MaskBits /\ has_template \in BOOLEAN
Who ==
    /\ worker \in Names \cup {NoOne} /\ identity \in Identities \cup {NoOne}
    /\ IF ready THEN worker \in Names /\ identity \in Identities
       ELSE worker = NoOne /\ identity = NoOne
JobTable ==
    /\ issued_jobs \in Seq(Entry(Jobs)) /\ Len(issued_jobs) <= JOB_HISTORY_DEPTH
    /\ nextJob \in Nat /\ sent \in Seq(SentJobs)
Ids == [id : 1 .. JobIds, job : Nat]
IdTable ==
    /\ job_ids \in Seq(Ids) /\ Len(job_ids) <= JOB_HISTORY_DEPTH /\ next_job_id \in 1 .. JobIds
Dedup == share_set \in Seq(Keys) /\ Len(share_set) <= MaxShareSet
Budgets ==
    /\ invalid_shares \in Nat /\ authorizations \in Nat
    /\ IF MaxInvalid = 0 THEN invalid_shares = 0
       ELSE invalid_shares <= MaxInvalid /\ (running => invalid_shares < MaxInvalid)
    /\ MaxAuthorizations > 0 =>
           /\ authorizations <= MaxAuthorizations + 1
           /\ running => authorizations <= MaxAuthorizations

\* A session that runs has both its budgets left, one that is not ready has no
\* name: TypeOK needs the two to be inductive.
TypeInv == Flags /\ Who /\ JobTable /\ IdTable /\ Dedup /\ Budgets /\ Wires

\* The initial states have their types.
LEMMA TypeInit == Init => TypeInv
<1> SUFFICES ASSUME Init PROVE TypeInv
  BY Zenon
<1> USE SessionAssumption, DepthAssumption
<1>1. Flags /\ Who
  BY Zenon DEF Init, Flags, Who
<1>2. JobTable /\ IdTable
  BY DEF Init, JobTable, IdTable
<1>3. Dedup /\ Budgets /\ Wires
  BY DEF Init, Dedup, Budgets, Wires
<1> QED
  BY <1>1, <1>2, <1>3, Zenon DEF TypeInv

\* r is the history h after job number n was sent to who under id.
Grown(h, r, id, n, who, clean) ==
    /\ Len(r) = Len(h) + 1
    /\ r[Len(h) + 1] = [id |-> id, number |-> n, payee |-> who, live |-> TRUE]
    /\ \A i \in 1 .. Len(h) :
           r[i] = IF clean THEN [id |-> h[i].id, number |-> h[i].number,
                                 payee |-> h[i].payee, live |-> FALSE] ELSE h[i]

(* A job is built, entered in the table and sent, into whatever table and     *)
(* history the handler has left.                                              *)
LEMMA SendStep ==
    ASSUME NEW jobs \in Seq(Entry(Jobs)), Len(jobs) <= JOB_HISTORY_DEPTH,
           NEW h \in Seq(SentJobs), NEW who \in Identities, NEW clean \in BOOLEAN,
           NEW id \in Nat, nextJob \in Nat, Send(jobs, h, who, clean, id)
    PROVE  /\ JobTable' /\ nextJob' = nextJob + 1
           /\ Issued(jobs, [id |-> nextJob, payee |-> who], clean, issued_jobs')
           /\ Grown(h, sent', id, nextJob, who, clean)
<1> DEFINE job == [id |-> nextJob, payee |-> who]
<1> DEFINE new == [id |-> id, number |-> nextJob, payee |-> who, live |-> TRUE]
<1> DEFINE base == IF clean THEN Retired(h) ELSE h
<1>1. job \in Jobs /\ new \in SentJobs
  BY Zenon DEF Jobs, SentJobs
<1>2. /\ nextJob' = nextJob + 1 /\ issued_jobs' = issue(jobs, job, clean, 0)
      /\ sent' = Append(base, new)
  BY Zenon DEF Send, materialize_job
<1>3. /\ base \in Seq(SentJobs) /\ Len(base) = Len(h)
      /\ \A i \in 1 .. Len(h) :
             base[i] = IF clean THEN [id |-> h[i].id, number |-> h[i].number,
                                      payee |-> h[i].payee, live |-> FALSE] ELSE h[i]
  BY RetiredSeq, Zenon
<1> HIDE DEF base, job, new
<1>4. /\ sent' \in Seq(SentJobs) /\ Len(sent') = Len(h) + 1 /\ sent'[Len(h) + 1] = new
      /\ \A i \in 1 .. Len(h) : sent'[i] = base[i]
  BY <1>1, <1>2, <1>3, AppendSeq
<1>5. /\ issued_jobs' \in Seq(Entry(Jobs)) /\ Len(issued_jobs') <= JOB_HISTORY_DEPTH
      /\ Issued(jobs, job, clean, issued_jobs')
  BY <1>1, <1>2, Issue
<1>6. JobTable'
  BY <1>2, <1>4, <1>5 DEF JobTable
<1>7. \A i \in 1 .. Len(h) :
          sent'[i] = IF clean THEN [id |-> h[i].id, number |-> h[i].number,
                                    payee |-> h[i].payee, live |-> FALSE] ELSE h[i]
  BY <1>3, <1>4, Zenon
<1>8. Grown(h, sent', id, nextJob, who, clean)
  BY <1>4, <1>7, Zenon DEF new, Grown
<1> QED
  BY <1>2, <1>5, <1>6, <1>8, Zenon DEF job

\* The same, field by field: only the life of the earlier jobs may change.
Sent(h, r, id, n, who, clean) ==
    /\ Len(h) \in Nat /\ Len(r) = Len(h) + 1
    /\ \A i \in 1 .. Len(r) : i \in 1 .. Len(h) \/ i = Len(h) + 1
    /\ r[Len(h) + 1].id = id /\ r[Len(h) + 1].number = n
    /\ r[Len(h) + 1].payee = who /\ r[Len(h) + 1].live = TRUE
    /\ \A i \in 1 .. Len(h) :
           /\ h[i] \in SentJobs
           /\ r[i].id = h[i].id /\ r[i].number = h[i].number /\ r[i].payee = h[i].payee
           /\ r[i].live <=> h[i].live /\ ~clean

\* What Send adds to the history of jobs.
LEMMA SentFields ==
    ASSUME NEW jobs \in Seq(Entry(Jobs)), Len(jobs) <= JOB_HISTORY_DEPTH,
           NEW h \in Seq(SentJobs), NEW who \in Identities, NEW clean \in BOOLEAN,
           NEW id \in Nat, nextJob \in Nat, Send(jobs, h, who, clean, id)
    PROVE  Sent(h, sent', id, nextJob, who, clean)
<1>0. Grown(h, sent', id, nextJob, who, clean)
  BY SendStep, Zenon
<1>1. /\ Len(sent') = Len(h) + 1
      /\ sent'[Len(h) + 1] = [id |-> id, number |-> nextJob, payee |-> who, live |-> TRUE]
      /\ \A i \in 1 .. Len(h) :
             sent'[i] = IF clean THEN [id |-> h[i].id, number |-> h[i].number,
                                       payee |-> h[i].payee, live |-> FALSE] ELSE h[i]
  BY <1>0, Zenon DEF Grown
<1>2. ASSUME NEW i \in 1 .. Len(h)
      PROVE  /\ h[i] \in SentJobs
             /\ sent'[i].id = h[i].id /\ sent'[i].number = h[i].number
             /\ sent'[i].payee = h[i].payee
             /\ sent'[i].live <=> h[i].live /\ ~clean
  <2>1. h[i] \in SentJobs
    OBVIOUS
  <2>2. CASE clean
    <3>1. sent'[i] = [id |-> h[i].id, number |-> h[i].number, payee |-> h[i].payee, live |-> FALSE]
      BY <1>1, <2>2, Zenon
    <3> QED
      BY <2>1, <2>2, <3>1
  <2>3. CASE ~clean
    <3>1. sent'[i] = h[i]
      BY <1>1, <2>3, Zenon
    <3> QED
      BY <2>1, <2>3, <3>1, Zenon
  <2> QED
    BY <2>2, <2>3, Zenon
<1>3. Len(h) \in Nat
  OBVIOUS
<1>4. \A i \in 1 .. Len(sent') : i \in 1 .. Len(h) \/ i = Len(h) + 1
  BY <1>1, <1>3
<1>5. /\ sent'[Len(h) + 1].id = id /\ sent'[Len(h) + 1].number = nextJob
      /\ sent'[Len(h) + 1].payee = who /\ sent'[Len(h) + 1].live = TRUE
  BY <1>1
<1> QED
  BY <1>1, <1>2, <1>3, <1>4, <1>5, Zenon DEF Sent

\* r is the id table s after an id was given to job number n.
Assigned(s, id, n, r) ==
    LET d == Dropped(s)
    IN  /\ Len(r) = Len(s) - d + 1
        /\ r[Len(r)] = [id |-> id, job |-> n]
        /\ \A i \in 1 .. Len(s) - d : r[i] = s[i + d]

(* assign_job_id appends and then drops the oldest, where issue drops first:  *)
(* both tables remember the same jobs.                                        *)
LEMMA Assign ==
    ASSUME IdTable, NEW n \in Nat, NEW r, r = assign_job_id(job_ids, n)
    PROVE  /\ r \in Seq(Ids) /\ Len(r) <= JOB_HISTORY_DEPTH
           /\ Assigned(job_ids, next_job_id, n, r)
<1> USE DepthAssumption
<1> DEFINE new == [id |-> next_job_id, job |-> n]
<1> DEFINE all == Append(job_ids, new)
<1>1. new \in Ids
  BY Zenon DEF IdTable, Ids
<1>2. r = IF Len(all) > JOB_HISTORY_DEPTH THEN Tail(all) ELSE all
  BY Zenon DEF assign_job_id
<1>3. job_ids \in Seq(Ids) /\ Len(job_ids) \in Nat /\ Len(job_ids) <= JOB_HISTORY_DEPTH
  BY DEF IdTable
<1> HIDE DEF new
<1>4. /\ all \in Seq(Ids) /\ Len(all) = Len(job_ids) + 1 /\ all[Len(job_ids) + 1] = new
      /\ \A i \in 1 .. Len(job_ids) : all[i] = job_ids[i]
  BY <1>1, <1>3, AppendSeq
<1> HIDE DEF all
<1>5. CASE Len(all) > JOB_HISTORY_DEPTH
  <2>1. /\ r \in Seq(Ids) /\ Len(r) = Len(job_ids)
        /\ \A i \in 1 .. Len(job_ids) : r[i] = all[i + 1]
    BY <1>2, <1>3, <1>4, <1>5, TailSeq
  <2>2. Dropped(job_ids) = 1
    BY <1>3, <1>4, <1>5 DEF Dropped
  <2>3. Len(job_ids) >= 1 /\ Len(r) = Len(job_ids) - 1 + 1
    BY <2>1, <1>3, <1>4, <1>5
  <2>4. r[Len(r)] = new
    BY <2>1, <2>3, <1>3, <1>4
  <2>5. \A i \in 1 .. Len(job_ids) - 1 : r[i] = job_ids[i + 1]
    BY <2>1, <1>3, <1>4
  <2> QED
    BY <1>3, <2>1, <2>2, <2>3, <2>4, <2>5, Zenon DEF Assigned, new
<1>6. CASE ~(Len(all) > JOB_HISTORY_DEPTH)
  <2>1. Dropped(job_ids) = 0 /\ r = all
    BY <1>2, <1>3, <1>4, <1>6 DEF Dropped
  <2> QED
    BY <1>3, <1>4, <1>6, <2>1 DEF Assigned, new
<1> QED
  BY <1>5, <1>6, Zenon

(* Both protocols send through the same table. *)
LEMMA SendTypes ==
    ASSUME TypeInv, NEW jobs \in Seq(Entry(Jobs)), Len(jobs) <= JOB_HISTORY_DEPTH,
           NEW h \in Seq(SentJobs), NEW who \in Identities, NEW clean \in BOOLEAN,
           build_notify(jobs, h, who, clean) \/ send_job(jobs, h, who, clean)
    PROVE  JobTable' /\ IdTable'
<1> USE SessionAssumption
<1>0. nextJob \in Nat /\ next_job_id \in 1 .. JobIds /\ IdTable
      /\ next_job_id \in Nat
  BY DEF TypeInv, JobTable, IdTable
<1>1. JobTable'
  <2>1. PICK id \in Nat : Send(jobs, h, who, clean, id)
    BY <1>0, Zenon DEF build_notify, send_job
  <2> QED
    BY <1>0, <2>1, SendStep, Zenon
<1>2. CASE build_notify(jobs, h, who, clean)
  BY <1>0, <1>1, <1>2, Zenon DEF build_notify, IdTable
<1>3. CASE send_job(jobs, h, who, clean)
  <2>1. job_ids' \in Seq(Ids) /\ Len(job_ids') <= JOB_HISTORY_DEPTH
    BY <1>0, <1>3, Assign, Zenon DEF send_job
  <2>2. next_job_id' \in 1 .. JobIds
    BY <1>0, <1>3 DEF send_job, NextJobId
  <2> QED
    BY <1>1, <2>1, <2>2, Zenon DEF IdTable
<1> QED
  BY <1>2, <1>3, Zenon

(* Negotiation and the end of a session touch no table. *)
LEMMA QuietTypes ==
    ASSUME TypeInv,
           \/ \E requested \in SUBSET MaskBits, min_bits \in 0 .. 2 :
                  handle_configure(requested, min_bits)
           \/ handle_subscribe
           \/ \E acceptable \in BOOLEAN : handle_setup_connection(acceptable)
           \/ \E share \in Shares : Mine(share)
           \/ EndSession
           \/ UNCHANGED vars
    PROVE  TypeInv'
<1>1. UNCHANGED <<ready, worker, identity, issued_jobs, job_ids, next_job_id, share_set, nextJob,
                  sent, invalid_shares, authorizations, credited>>
  BY Zenon DEF handle_configure, handle_subscribe, handle_setup_connection, Mine, EndSession, vars, tables
<1>2. Who' /\ JobTable' /\ IdTable' /\ Dedup'
  BY <1>1, Zenon DEF TypeInv, Who, JobTable, IdTable, Dedup
<1>3. Flags'
  BY Zenon DEF TypeInv, Flags, handle_configure, handle_subscribe, handle_setup_connection, Mine,
         EndSession, vars, greeting
<1>4. wire' \in Shares \cup {NoShare}
  BY Zenon DEF TypeInv, Wires, handle_configure, handle_subscribe, handle_setup_connection, Mine,
         EndSession, vars
<1>5. running' => running
  BY Zenon DEF handle_configure, handle_subscribe, handle_setup_connection, Mine, EndSession, vars
<1>6. Budgets'
  BY <1>1, <1>5, Zenon DEF TypeInv, Budgets
<1> QED
  BY <1>1, <1>2, <1>3, <1>4, <1>6, Zenon DEF TypeInv, Wires

(* A broadcast: a job of the session's identity, if it is ready. *)
LEMMA RecvJobTypes ==
    ASSUME TypeInv, NEW clean \in BOOLEAN, RecvJob(clean)
    PROVE  TypeInv'
<1>1. UNCHANGED <<proto, introduced, rolling, mask, running, ready, worker, identity,
                  invalid_shares, authorizations, wire, credited>> /\ has_template' = TRUE
  BY Zenon DEF RecvJob, greeting
<1>2. Flags' /\ Who' /\ Budgets' /\ Wires'
  BY <1>1 DEF TypeInv, Flags, Who, Budgets, Wires
<1>3. Dedup'
  BY SessionAssumption DEF TypeInv, Dedup, RecvJob, ShareSetAfter
<1>4. JobTable' /\ IdTable'
  <2>1. CASE ready
    <3>1. /\ identity \in Identities /\ issued_jobs \in Seq(Entry(Jobs))
          /\ Len(issued_jobs) <= JOB_HISTORY_DEPTH /\ sent \in Seq(SentJobs)
      BY <2>1, Zenon DEF TypeInv, Who, JobTable
    <3>2. build_notify(issued_jobs, sent, identity, clean)
          \/ send_job(issued_jobs, sent, identity, clean)
      BY <2>1, Zenon DEF RecvJob
    <3> QED
      BY <3>1, <3>2, SendTypes, Zenon
  <2>2. CASE ~ready
    BY <2>2, Zenon DEF TypeInv, JobTable, IdTable, RecvJob
  <2> QED
    BY <2>1, <2>2, Zenon
<1> QED
  BY <1>2, <1>3, <1>4, Zenon DEF TypeInv

(* One authorization more is within the cap, or ends the session. *)
LEMMA SpentTypes ==
    ASSUME TypeInv, running
    PROVE  /\ Spent \in Nat
           /\ MaxAuthorizations > 0 =>
                  /\ Spent <= MaxAuthorizations + 1
                  /\ WithinBudget => Spent <= MaxAuthorizations
BY SessionAssumption DEF TypeInv, Budgets, Spent, WithinBudget

\* A session closed for too many identities keeps the types.
LEMMA TooManyTypes ==
    ASSUME TypeInv, running, TooManyIdentities
    PROVE  TypeInv'
<1>1. UNCHANGED <<proto, introduced, rolling, mask, ready, worker, identity, has_template,
                  issued_jobs, job_ids, next_job_id, share_set, nextJob, sent,
                  invalid_shares, wire, credited>>
      /\ running' = FALSE /\ authorizations' = Spent
  BY Zenon DEF TooManyIdentities, greeting, tables
<1>2. Flags' /\ Who' /\ JobTable' /\ IdTable' /\ Dedup' /\ Wires'
  BY <1>1, Zenon DEF TypeInv, Flags, Who, JobTable, IdTable, Dedup, Wires
<1>3. Budgets'
  BY <1>1, SpentTypes, SessionAssumption, Zenon DEF TypeInv, Budgets
<1> QED
  BY <1>2, <1>3, Zenon DEF TypeInv

(* mining.authorize *)
LEMMA AuthorizeTypes ==
    ASSUME TypeInv, NEW typed \in Names, handle_authorize(typed)
    PROVE  TypeInv'
<1> USE SessionAssumption
<1> DEFINE who == Canonical[typed]
<1> DEFINE new == who # identity
<1> DEFINE jobs == ClearedIf(new, issued_jobs)
<1> DEFINE before == IF new THEN <<>> ELSE sent
<1>0. running /\ who \in Identities
  BY Zenon DEF handle_authorize
<1>1. CASE new /\ ~WithinBudget
  BY <1>0, <1>1, TooManyTypes, Zenon DEF handle_authorize
<1>2. CASE ~(new /\ ~WithinBudget)
  <2>1. /\ authorizations' = IF new THEN Spent ELSE authorizations
        /\ share_set' = ClearedIf(new, share_set)
        /\ ready' = TRUE /\ worker' = typed /\ identity' = who
        /\ has_template' \in BOOLEAN
        /\ \/ build_notify(jobs, before, who, TRUE)
           \/ issued_jobs' = jobs /\ sent' = before /\ UNCHANGED <<job_ids, next_job_id, nextJob>>
        /\ UNCHANGED <<proto, introduced, rolling, mask, running, invalid_shares, wire, credited>>
    BY <1>2, Zenon DEF handle_authorize, greeting
  <2>2. /\ jobs \in Seq(Entry(Jobs)) /\ Len(jobs) <= JOB_HISTORY_DEPTH
        /\ before \in Seq(SentJobs)
    BY DepthAssumption DEF TypeInv, JobTable, ClearedIf
  <2>3. Flags' /\ Who' /\ Wires'
    BY <1>0, <2>1, Zenon DEF TypeInv, Flags, Who, Wires
  <2>4. Dedup'
    BY <2>1 DEF TypeInv, Dedup, ClearedIf
  <2>5. Budgets'
    BY <1>0, <1>2, <2>1, SpentTypes, Zenon DEF TypeInv, Budgets
  <2> HIDE DEF jobs, before, new, who
  <2>6. JobTable' /\ IdTable'
    <3>1. CASE build_notify(jobs, before, who, TRUE)
      BY <1>0, <2>2, <3>1, SendTypes, Zenon
    <3>2. CASE issued_jobs' = jobs /\ sent' = before /\ UNCHANGED <<job_ids, next_job_id, nextJob>>
      BY <2>2, <3>2, Zenon DEF TypeInv, JobTable, IdTable
    <3> QED
      BY <2>1, <3>1, <3>2, Zenon
  <2> QED
    BY <2>3, <2>4, <2>5, <2>6, Zenon DEF TypeInv
<1> QED
  BY <1>1, <1>2, Zenon

(* OpenExtendedMiningChannel: a refused channel leaves the session nameless. *)
LEMMA OpenTypes ==
    ASSUME TypeInv, NEW typed \in Names, NEW fits \in BOOLEAN, handle_open_extended(typed, fits)
    PROVE  TypeInv'
<1> USE SessionAssumption
<1> DEFINE who == Canonical[typed]
<1>0. /\ running /\ ~ready /\ who \in Identities
      /\ UNCHANGED <<proto, introduced, rolling, mask, invalid_shares, wire, credited>>
  BY Zenon DEF handle_open_extended, greeting
<1>1. UNCHANGED <<has_template, share_set>>
  BY Zenon DEF handle_open_extended, tables
<1>2. Dedup' /\ Wires'
  BY <1>0, <1>1, Zenon DEF TypeInv, Dedup, Wires
<1>3. CASE ~introduced \/ ~WithinBudget
  <2>1. /\ UNCHANGED <<ready, worker, identity, issued_jobs, job_ids, next_job_id, nextJob, sent>>
        /\ running' = FALSE /\ authorizations' \in {authorizations, Spent}
    BY <1>3, Zenon DEF handle_open_extended, tables
  <2>2. Flags' /\ Who' /\ JobTable' /\ IdTable'
    BY <1>0, <1>1, <2>1, Zenon DEF TypeInv, Flags, Who, JobTable, IdTable
  <2>3. Budgets'
    BY <1>0, <2>1, SpentTypes, Zenon DEF TypeInv, Budgets
  <2> QED
    BY <1>2, <2>2, <2>3, Zenon DEF TypeInv
<1>4. CASE introduced /\ WithinBudget
  <2>1. /\ authorizations' = Spent /\ ready' = fits /\ UNCHANGED running
        /\ worker' = (IF fits THEN typed ELSE NoOne)
        /\ identity' = (IF fits THEN who ELSE NoOne)
        /\ \/ send_job(issued_jobs, sent, who, TRUE)
           \/ UNCHANGED <<issued_jobs, job_ids, next_job_id, nextJob, sent>>
    BY <1>4, Zenon DEF handle_open_extended
  <2>2. Flags' /\ Who'
    BY <1>0, <1>1, <2>1, Zenon DEF TypeInv, Flags, Who
  <2>3. Budgets'
    BY <1>0, <1>4, <2>1, SpentTypes, Zenon DEF TypeInv, Budgets
  <2> HIDE DEF who
  <2>4. CASE send_job(issued_jobs, sent, who, TRUE)
    <3>1. /\ issued_jobs \in Seq(Entry(Jobs)) /\ Len(issued_jobs) <= JOB_HISTORY_DEPTH
          /\ sent \in Seq(SentJobs)
      BY Zenon DEF TypeInv, JobTable
    <3>2. JobTable' /\ IdTable'
      BY <1>0, <2>4, <3>1, SendTypes, Zenon
    <3> QED
      BY <1>2, <2>2, <2>3, <3>2, Zenon DEF TypeInv
  <2>5. CASE UNCHANGED <<issued_jobs, job_ids, next_job_id, nextJob, sent>>
    BY <1>2, <2>2, <2>3, <2>5, Zenon DEF TypeInv, JobTable, IdTable
  <2> QED
    BY <2>1, <2>4, <2>5, Zenon
<1> QED
  BY <1>3, <1>4, Zenon DEF TypeInv, Flags

(* What a submission may do to the session: be credited, be turned down, or   *)
(* be charged.                                                                *)
LEMMA VerdictTypes ==
    ASSUME TypeInv, TakeShare,
           \/ Reject \/ RejectInvalid
           \/ running' = FALSE /\ UNCHANGED <<invalid_shares, share_set, credited>>
           \/ ready /\ \E entry \in Entry(Jobs) : accept_share(entry, wire.work)
    PROVE  TypeInv'
<1> USE SessionAssumption
<1>1. /\ UNCHANGED <<proto, introduced, rolling, mask, ready, worker, identity, has_template,
                     issued_jobs, job_ids, next_job_id, nextJob, sent, authorizations>>
      /\ wire' = NoShare /\ wire \in Shares /\ running
  BY Zenon DEF TakeShare, greeting, TypeInv, Wires
<1>2. Who' /\ JobTable' /\ IdTable'
  BY <1>1, Zenon DEF TypeInv, Who, JobTable, IdTable
<1>3. ASSUME Reject \/ RejectInvalid \/ (running' = FALSE /\ UNCHANGED <<invalid_shares, share_set, credited>>)
      PROVE  TypeInv'
  <2>1. UNCHANGED <<share_set, credited>> /\ running' \in BOOLEAN
    BY <1>3, Zenon DEF Reject, RejectInvalid, TypeInv, Flags
  <2>2. Dedup' /\ Wires' /\ Flags'
    BY <1>1, <2>1, Zenon DEF TypeInv, Dedup, Wires, Flags
  <2>3. Budgets'
    <3>1. CASE RejectInvalid
      <4>1. /\ invalid_shares \in Nat /\ authorizations \in Nat
            /\ MaxInvalid > 0 => invalid_shares < MaxInvalid
            /\ MaxAuthorizations > 0 => authorizations <= MaxAuthorizations
        BY <1>1, Zenon DEF TypeInv, Budgets
      <4>2. /\ invalid_shares' = IF MaxInvalid = 0 THEN 0 ELSE invalid_shares + 1
            /\ running' => MaxInvalid = 0 \/ invalid_shares + 1 < MaxInvalid
        BY <3>1, Zenon DEF RejectInvalid
      <4> QED
        BY <1>1, <4>1, <4>2 DEF Budgets
    <3>2. CASE UNCHANGED invalid_shares
      BY <1>1, <3>2, Zenon DEF TypeInv, Budgets
    <3> QED
      BY <1>3, <3>1, <3>2, Zenon DEF Reject
  <2> QED
    BY <1>2, <2>2, <2>3, Zenon DEF TypeInv
<1>4. ASSUME ready, NEW entry \in Entry(Jobs), accept_share(entry, wire.work)
      PROVE  TypeInv'
  <2> DEFINE key == ShareKey(entry.job.id, wire.work)
  <2> DEFINE due == [payee |-> identity, paid |-> entry.job.payee,
                     number |-> entry.job.id, work |-> wire.work]
  <2>1. /\ share_set' = insert(share_set, key) /\ credited' = Append(credited, due)
        /\ UNCHANGED <<invalid_shares, running>>
    BY <1>4, Zenon DEF accept_share
  <2>2. entry.job.id \in Nat /\ entry.job.payee \in Identities /\ wire.work \in Work
    BY <1>1, Zenon DEF Entry, Jobs, Shares
  <2>3. key \in Keys
    BY <2>2, Zenon DEF ShareKey, Keys, Work
  <2>4. due \in Credits
    BY <1>4, <2>2, Zenon DEF Credits, TypeInv, Who
  <2> HIDE DEF key, due
  <2>5. Wires'
    BY <1>1, <2>1, <2>4 DEF TypeInv, Wires
  <2>6. Dedup'
    <3> DEFINE old == IF Len(share_set) >= MaxShareSet THEN Tail(share_set) ELSE share_set
    <3>1. share_set' = Append(old, key)
      BY <2>1, Zenon DEF insert
    <3>2. old \in Seq(Keys) /\ Len(old) < MaxShareSet
      <4>1. share_set \in Seq(Keys) /\ Len(share_set) \in Nat /\ Len(share_set) <= MaxShareSet
        BY DEF TypeInv, Dedup
      <4>2. CASE Len(share_set) >= MaxShareSet
        BY <4>1, <4>2, TailSeq
      <4>3. CASE ~(Len(share_set) >= MaxShareSet)
        BY <4>1, <4>3
      <4> QED
        BY <4>2, <4>3, Zenon
    <3> HIDE DEF old
    <3>3. Append(old, key) \in Seq(Keys) /\ Len(Append(old, key)) = Len(old) + 1
      BY <2>3, <3>2, AppendSeq, Zenon
    <3> QED
      BY <3>1, <3>2, <3>3 DEF Dedup
  <2>7. Flags' /\ Budgets'
    BY <1>1, <2>1, Zenon DEF TypeInv, Flags, Budgets
  <2> QED
    BY <1>2, <2>5, <2>6, <2>7, Zenon DEF TypeInv
<1> QED
  BY <1>3, <1>4, Zenon

\* So does a share, over either protocol.
LEMMA SubmitTypes ==
    ASSUME TypeInv, handle_submit_sv1 \/ handle_submit_sv2
    PROVE  TypeInv'
<1>1. \A id : find(issued_jobs, id) \subseteq Entry(Jobs)
  BY DEF TypeInv, JobTable, find
<1>2. ASSUME NEW entries \in SUBSET Entry(Jobs), Judge(entries, wire)
      PROVE  Reject \/ RejectInvalid \/ \E entry \in Entry(Jobs) : accept_share(entry, wire.work)
  BY <1>2, Zenon DEF Judge, validate_share_no_dedup
<1>3. TakeShare
  BY Zenon DEF handle_submit_sv1, handle_submit_sv2
<1>4. CASE handle_submit_sv1
  <2>1. CASE ~ready \/ worker # wire.name
    BY <1>3, <1>4, <2>1, VerdictTypes, Zenon DEF handle_submit_sv1
  <2>2. CASE ready /\ worker = wire.name
    <3>1. Judge(find(issued_jobs, wire.id), wire)
      BY <1>4, <2>2, Zenon DEF handle_submit_sv1
    <3>2. Reject \/ RejectInvalid \/ \E entry \in Entry(Jobs) : accept_share(entry, wire.work)
      BY <1>1, <1>2, <3>1, Zenon
    <3> QED
      BY <1>3, <2>2, <3>2, VerdictTypes, Zenon
  <2> QED
    BY <2>1, <2>2, Zenon
<1>5. CASE handle_submit_sv2
  <2> DEFINE entries == UNION {find(issued_jobs, job) : job \in engine_job_id(wire.id)}
  <2>1. CASE ~ready
    BY <1>3, <1>5, <2>1, VerdictTypes, Zenon DEF handle_submit_sv2
  <2>2. CASE ready
    <3>1. RejectInvalid \/ Judge(entries, wire)
      BY <1>5, <2>2, Zenon DEF handle_submit_sv2
    <3>2. entries \in SUBSET Entry(Jobs)
      BY <1>1, Zenon
    <3> HIDE DEF entries
    <3>3. Reject \/ RejectInvalid \/ \E entry \in Entry(Jobs) : accept_share(entry, wire.work)
      BY <1>2, <3>1, <3>2, Zenon
    <3> QED
      BY <1>3, <2>2, <3>3, VerdictTypes, Zenon
  <2> QED
    BY <2>1, <2>2, Zenon
<1> QED
  BY <1>4, <1>5, Zenon

\* Every step keeps the types.
LEMMA TypeStep == TypeInv /\ [Next]_vars => TypeInv'
<1> SUFFICES ASSUME TypeInv, [Next]_vars PROVE TypeInv'
  BY Zenon
<1>1. CASE \E clean \in BOOLEAN : RecvJob(clean)
  BY <1>1, RecvJobTypes, Zenon
<1>2. CASE \E typed \in Names : handle_authorize(typed)
  BY <1>2, AuthorizeTypes, Zenon
<1>3. CASE \E typed \in Names, fits \in BOOLEAN : handle_open_extended(typed, fits)
  BY <1>3, OpenTypes, Zenon
<1>4. CASE handle_submit_sv1 \/ handle_submit_sv2
  BY <1>4, SubmitTypes, Zenon
<1> QED
  BY <1>1, <1>2, <1>3, <1>4, QuietTypes, Zenon DEF Next

(* TypeOK: the tables stay within their caps and the budgets within their     *)
(* limits (IssuedJobs::issue, assign_job_id, ShareSet::insert, SessionGuard). *)
THEOREM SessionTypeCorrect == Spec => []TypeOK
<1>1. TypeInv => TypeOK
  <2> SUFFICES ASSUME TypeInv PROVE TypeOK
    BY Zenon
  <2>1. invalid_shares \in Nat /\ (MaxInvalid > 0 => invalid_shares <= MaxInvalid)
    BY SessionAssumption DEF TypeInv, Budgets
  <2> QED
    BY <2>1, Zenon DEF TypeInv, Flags, Who, JobTable, IdTable, Dedup, Budgets, Wires, TypeOK, Entry, Ids
<1> QED
  BY <1>1, TypeInit, TypeStep, PTL DEF Spec

-----------------------------------------------------------------------------
(* The job table and the jobs sent *)

\* A table entry is the job it was made from.
Same(entry, job) ==
    /\ entry.job.id = job.number /\ entry.job.payee = job.payee
    /\ entry.superseded_by_clean <=> ~job.live

\* The table holds the last jobs sent, as many as it has room for.
Mirrors(jobs, h) ==
    /\ Len(jobs) = IF Len(h) <= JOB_HISTORY_DEPTH THEN Len(h) ELSE JOB_HISTORY_DEPTH
    /\ \A i \in 1 .. Len(jobs) : Same(jobs[i], h[Len(h) - Len(jobs) + i])

\* The engine's job ids rise.
Ordered(h, next) ==
    \A i \in 1 .. Len(h) : /\ h[i].number < next
                           /\ \A j \in 1 .. i - 1 : h[j].number < h[i].number

Pays(h, who) == \A i \in 1 .. Len(h) : h[i].payee = who

History(jobs, h, who, next) == Mirrors(jobs, h) /\ Ordered(h, next) /\ Pays(h, who)

HistoryInv == History(issued_jobs, sent, identity, nextJob) /\ (~ready => sent = <<>>)

(* A new identity starts with empty tables. *)
LEMMA EmptyHistory ==
    ASSUME NEW who, nextJob \in Nat
    PROVE  History(<<>>, <<>>, who, nextJob)
BY DepthAssumption DEF History, Mirrors, Ordered, Pays

(* Sending a job keeps table and history together. *)
LEMMA SendHistory ==
    ASSUME NEW jobs \in Seq(Entry(Jobs)), Len(jobs) <= JOB_HISTORY_DEPTH,
           NEW h \in Seq(SentJobs), NEW who \in Identities, NEW clean \in BOOLEAN,
           NEW id \in Nat, nextJob \in Nat, Send(jobs, h, who, clean, id),
           History(jobs, h, who, nextJob)
    PROVE  History(issued_jobs', sent', who, nextJob') /\ sent' # <<>>
<1> USE DepthAssumption
<1> DEFINE d == Dropped(jobs)
<1>0. Sent(h, sent', id, nextJob, who, clean)
  BY SentFields, Zenon
<1>1. /\ nextJob' = nextJob + 1
      /\ Issued(jobs, [id |-> nextJob, payee |-> who], clean, issued_jobs')
      /\ Grown(h, sent', id, nextJob, who, clean)
  BY SendStep, Zenon
<1>2. /\ Len(jobs) \in Nat /\ Len(h) \in Nat /\ d \in {0, 1}
      /\ Len(sent') = Len(h) + 1 /\ \A i \in 1 .. Len(sent') : i \in 1 .. Len(h) \/ i = Len(h) + 1
  BY <1>0 DEF Sent, Dropped
<1>3. \A i \in 1 .. Len(h) :
          /\ h[i] \in SentJobs
          /\ sent'[i].number = h[i].number /\ sent'[i].payee = h[i].payee
          /\ sent'[i].live <=> h[i].live /\ ~clean
  BY <1>0, Zenon DEF Sent
<1>4. /\ sent'[Len(h) + 1].number = nextJob /\ sent'[Len(h) + 1].payee = who
      /\ sent'[Len(h) + 1].live = TRUE
  BY <1>0, Zenon DEF Sent
<1>5. Ordered(sent', nextJob')
  <2>0. \A i \in 1 .. Len(h) : h[i].number \in Nat
    BY <1>3, Zenon DEF SentJobs
  <2>1. ASSUME NEW i \in 1 .. Len(h) + 1
        PROVE  sent'[i].number < nextJob' /\ \A j \in 1 .. i - 1 : sent'[j].number < sent'[i].number
    <3>0. \A k \in 1 .. Len(h) : /\ h[k].number < nextJob /\ sent'[k].number = h[k].number
                                  /\ \A j \in 1 .. k - 1 : h[j].number < h[k].number
      BY <1>3, Zenon DEF History, Ordered
    <3>1. CASE i = Len(h) + 1
      <4>1. sent'[i].number = nextJob /\ i - 1 = Len(h)
        BY <3>1, <1>2, <1>4
      <4>2. \A j \in 1 .. i - 1 : sent'[j].number < nextJob
        BY <3>0, <4>1, Zenon
      <4> QED
        BY <1>1, <4>1, <4>2, SMTT(30)
    <3>2. CASE i # Len(h) + 1
      <4>1. i \in 1 .. Len(h) /\ \A j \in 1 .. i - 1 : j \in 1 .. Len(h)
        BY <3>2, <1>2
      <4>2. h[i].number \in Nat /\ h[i].number < nextJob /\ sent'[i].number = h[i].number
        BY <2>0, <3>0, <4>1, Zenon
      <4>3. sent'[i].number < nextJob'
        BY <1>1, <4>2
      <4>4. \A j \in 1 .. i - 1 : sent'[j].number < sent'[i].number
        BY <3>0, <4>1, Zenon
      <4> QED
        BY <4>3, <4>4, Zenon
    <3> QED
      BY <3>1, <3>2, Zenon
  <2> QED
    BY <1>2, <2>1, Zenon DEF Ordered
<1>6. Pays(sent', who)
  BY <1>2, <1>3, <1>4, Zenon DEF History, Pays
<1>7. /\ Len(issued_jobs') = Len(jobs) - d + 1
      /\ \/ Len(h) < JOB_HISTORY_DEPTH /\ Len(jobs) = Len(h) /\ d = 0
         \/ Len(h) >= JOB_HISTORY_DEPTH /\ Len(jobs) = JOB_HISTORY_DEPTH /\ d = 1
  <2>1. Len(jobs) = IF Len(h) <= JOB_HISTORY_DEPTH THEN Len(h) ELSE JOB_HISTORY_DEPTH
    BY Zenon DEF History, Mirrors
  <2>2. Len(issued_jobs') = Len(jobs) - d + 1
    BY <1>1, Zenon DEF Issued
  <2> QED
    BY <1>2, <2>1, <2>2 DEF Dropped
<1> HIDE DEF d
<1>8. Len(issued_jobs') = IF Len(sent') <= JOB_HISTORY_DEPTH THEN Len(sent') ELSE JOB_HISTORY_DEPTH
  BY <1>2, <1>7
<1>9. ASSUME NEW i \in 1 .. Len(issued_jobs')
      PROVE  Same(issued_jobs'[i], sent'[Len(sent') - Len(issued_jobs') + i])
  <2> DEFINE k == Len(sent') - Len(issued_jobs') + i
  <2>1. CASE i = Len(issued_jobs')
    <3>1. k = Len(h) + 1
      BY <2>1, <1>2, <1>7
    <3>2. issued_jobs'[i] = JobEntry([id |-> nextJob, payee |-> who], FALSE, 0)
      BY <2>1, <1>1, Zenon DEF Issued
    <3>3. /\ issued_jobs'[i].job.id = nextJob /\ issued_jobs'[i].job.payee = who
          /\ issued_jobs'[i].superseded_by_clean = FALSE
      BY <3>2 DEF JobEntry
    <3>4. sent'[k].number = nextJob /\ sent'[k].payee = who /\ sent'[k].live = TRUE
      BY <3>1, <1>4, Zenon
    <3> HIDE DEF k
    <3>5. Same(issued_jobs'[i], sent'[k])
      BY <3>3, <3>4, Zenon DEF Same
    <3> QED
      BY <3>5, Zenon DEF k
  <2>2. CASE i # Len(issued_jobs')
    <3>1. i \in 1 .. Len(jobs) - d /\ i + d \in 1 .. Len(jobs)
      BY <2>2, <1>2, <1>7
    <3>2. k \in 1 .. Len(h) /\ k = Len(h) - Len(jobs) + (i + d)
      BY <3>1, <1>2, <1>7
    <3>3. issued_jobs'[i] = JobEntry(jobs[i + d].job, clean \/ jobs[i + d].superseded_by_clean, 0)
      BY <3>1, <1>1, Zenon DEF Issued, d
    <3>4. Same(jobs[i + d], h[k])
      BY <3>1, <3>2, Zenon DEF History, Mirrors
    <3>5. jobs[i + d] \in Entry(Jobs)
      BY <3>1
    <3>6. /\ issued_jobs'[i].job = jobs[i + d].job
          /\ issued_jobs'[i].superseded_by_clean = (clean \/ jobs[i + d].superseded_by_clean)
      <4> DEFINE flag == clean \/ jobs[i + d].superseded_by_clean
      <4> HIDE DEF flag
      <4>1. issued_jobs'[i] = JobEntry(jobs[i + d].job, flag, 0)
        BY <3>3, Zenon DEF flag
      <4>2. issued_jobs'[i].job = jobs[i + d].job /\ issued_jobs'[i].superseded_by_clean = flag
        BY <4>1 DEF JobEntry
      <4> QED
        BY <4>2, Zenon DEF flag
    <3>7. /\ sent'[k].number = h[k].number /\ sent'[k].payee = h[k].payee
          /\ sent'[k].live <=> h[k].live /\ ~clean
      BY <3>2, <1>3, Zenon
    <3> HIDE DEF k
    <3>8. Same(issued_jobs'[i], sent'[k])
      BY <3>4, <3>6, <3>7, Zenon DEF Same
    <3> QED
      BY <3>8, Zenon DEF k
  <2> QED
    BY <2>1, <2>2, Zenon
<1>10. Mirrors(issued_jobs', sent')
  BY <1>8, <1>9, Zenon DEF Mirrors
<1> QED
  BY <1>2, <1>5, <1>6, <1>10 DEF History

\* At the start no job was sent and the table is empty.
LEMMA HistoryInit == Init => HistoryInv
<1> SUFFICES ASSUME Init PROVE HistoryInv
  BY Zenon
<1>1. issued_jobs = <<>> /\ sent = <<>> /\ nextJob \in Nat
  BY Zenon DEF Init
<1>2. History(<<>>, <<>>, identity, nextJob)
  BY <1>1, EmptyHistory, Zenon
<1> QED
  BY <1>1, <1>2, Zenon DEF HistoryInv

(* Nothing but a job sent or an identity authorised touches the history. *)
LEMMA HistoryFrame ==
    ASSUME HistoryInv, UNCHANGED <<issued_jobs, sent, identity, nextJob, ready>>
    PROVE  HistoryInv'
BY Zenon DEF HistoryInv, History, Mirrors, Ordered, Pays, Same

(* A job sent to identity, in whichever protocol, by a session that is ready  *)
(* when it is done.                                                           *)
LEMMA SentHistory ==
    ASSUME TypeInv, NEW jobs \in Seq(Entry(Jobs)), Len(jobs) <= JOB_HISTORY_DEPTH,
           NEW h \in Seq(SentJobs), NEW who \in Identities, NEW clean \in BOOLEAN,
           build_notify(jobs, h, who, clean) \/ send_job(jobs, h, who, clean),
           History(jobs, h, who, nextJob), identity' = who, ready' = TRUE
    PROVE  HistoryInv'
<1>0. nextJob \in Nat /\ next_job_id \in Nat
  BY DEF TypeInv, JobTable, IdTable
<1>1. PICK id \in Nat : Send(jobs, h, who, clean, id)
  BY <1>0, Zenon DEF build_notify, send_job
<1>2. History(issued_jobs', sent', who, nextJob')
  BY <1>0, <1>1, SendHistory, Zenon
<1> QED
  BY <1>2, Zenon DEF HistoryInv

\* Every step keeps the job table the end of the jobs sent.
LEMMA HistoryStep == TypeInv /\ HistoryInv /\ [Next]_vars => HistoryInv'
<1> SUFFICES ASSUME TypeInv, HistoryInv, [Next]_vars PROVE HistoryInv'
  BY Zenon
<1> USE SessionAssumption
<1>0. /\ issued_jobs \in Seq(Entry(Jobs)) /\ Len(issued_jobs) <= JOB_HISTORY_DEPTH
      /\ sent \in Seq(SentJobs) /\ nextJob \in Nat
      /\ History(issued_jobs, sent, identity, nextJob)
  BY Zenon DEF TypeInv, JobTable, HistoryInv
<1>1. ASSUME NEW clean \in BOOLEAN, RecvJob(clean) PROVE HistoryInv'
  <2>1. CASE ready
    <3>1. /\ build_notify(issued_jobs, sent, identity, clean)
             \/ send_job(issued_jobs, sent, identity, clean)
          /\ UNCHANGED identity /\ ready' = TRUE /\ identity \in Identities
      BY <1>1, <2>1, Zenon DEF RecvJob, TypeInv, Who
    <3> QED
      BY <1>0, <3>1, SentHistory, Zenon
  <2>2. CASE ~ready
    BY <1>1, <2>2, HistoryFrame, Zenon DEF RecvJob
  <2> QED
    BY <2>1, <2>2, Zenon
<1>2. ASSUME NEW typed \in Names, handle_authorize(typed) PROVE HistoryInv'
  <2> DEFINE who == Canonical[typed]
  <2> DEFINE new == who # identity
  <2> DEFINE jobs == ClearedIf(new, issued_jobs)
  <2> DEFINE h == IF new THEN <<>> ELSE sent
  <2>1. CASE new /\ ~WithinBudget
    BY <1>2, <2>1, HistoryFrame, Zenon DEF handle_authorize, TooManyIdentities, tables
  <2>2. CASE ~(new /\ ~WithinBudget)
    <3>1. /\ ready' = TRUE /\ identity' = who
          /\ \/ build_notify(jobs, h, who, TRUE)
             \/ issued_jobs' = jobs /\ sent' = h /\ UNCHANGED nextJob
      BY <1>2, <2>2, Zenon DEF handle_authorize
    <3>2. jobs \in Seq(Entry(Jobs)) /\ Len(jobs) <= JOB_HISTORY_DEPTH /\ h \in Seq(SentJobs)
      BY <1>0, DepthAssumption DEF ClearedIf
    <3>3. History(jobs, h, who, nextJob)
      BY <1>0, EmptyHistory, Zenon DEF ClearedIf
    <3>4. who \in Identities
      BY Zenon
    <3> HIDE DEF jobs, h, who, new
    <3>5. CASE build_notify(jobs, h, who, TRUE)
      BY <3>1, <3>2, <3>3, <3>4, <3>5, SentHistory, Zenon
    <3>6. CASE issued_jobs' = jobs /\ sent' = h /\ UNCHANGED nextJob
      BY <3>1, <3>3, <3>6, Zenon DEF HistoryInv
    <3> QED
      BY <3>1, <3>5, <3>6, Zenon
  <2> QED
    BY <2>1, <2>2, Zenon
<1>3. ASSUME NEW typed \in Names, NEW fits \in BOOLEAN, handle_open_extended(typed, fits)
      PROVE  HistoryInv'
  <2> DEFINE who == Canonical[typed]
  <2>0. ~ready /\ identity = NoOne /\ sent = <<>> /\ who \in Identities
    BY <1>3, Zenon DEF handle_open_extended, HistoryInv, TypeInv, Who
  <2>1. History(issued_jobs, sent, who, nextJob)
    BY <1>0, <2>0 DEF History, Pays
  <2>2. CASE send_job(issued_jobs, sent, who, TRUE) /\ identity' = who /\ ready' = TRUE
    <3> HIDE DEF who
    <3> QED
      BY <1>0, <2>0, <2>1, <2>2, SentHistory, Zenon
  <2>3. CASE UNCHANGED <<issued_jobs, sent, nextJob>>
    <3>1. Pays(sent', identity')
      BY <2>0, <2>3 DEF Pays
    <3> QED
      BY <1>0, <2>0, <2>3, <3>1, Zenon DEF HistoryInv, History
  <2> QED
    BY <1>3, <2>2, <2>3, Zenon DEF handle_open_extended, tables
<1>4. CASE UNCHANGED <<issued_jobs, sent, identity, nextJob, ready>>
  BY <1>4, HistoryFrame, Zenon
<1> QED
  BY <1>1, <1>2, <1>3, <1>4, Zenon
     DEF Next, vars, tables, handle_configure, handle_subscribe, handle_setup_connection, Mine,
         handle_submit_sv1, handle_submit_sv2, TakeShare, EndSession

(* Only a share that is accepted, of an entry of the table, is credited and   *)
(* remembered.                                                                *)
LEMMA SubmitOutcome ==
    ASSUME TypeInv, handle_submit_sv1 \/ handle_submit_sv2
    PROVE  \/ UNCHANGED <<share_set, credited>>
           \/ \E e \in 1 .. Len(issued_jobs) : accept_share(issued_jobs[e], wire.work)
<1> DEFINE table == {issued_jobs[e] : e \in 1 .. Len(issued_jobs)}
<1>1. \A id : find(issued_jobs, id) \subseteq table
  BY Zenon DEF find
<1>2. ASSUME NEW entries \in SUBSET table, Judge(entries, wire)
      PROVE  \/ UNCHANGED <<share_set, credited>>
             \/ \E entry \in table : accept_share(entry, wire.work)
  BY <1>2, Zenon DEF Judge, validate_share_no_dedup, Reject, RejectInvalid
<1>3. CASE Judge(find(issued_jobs, wire.id), wire)
  BY <1>1, <1>2, <1>3, Zenon
<1>4. CASE Judge(UNION {find(issued_jobs, job) : job \in engine_job_id(wire.id)}, wire)
  BY <1>1, <1>2, <1>4, Zenon
<1> QED
  BY <1>3, <1>4, Zenon DEF handle_submit_sv1, handle_submit_sv2, Reject, RejectInvalid

\* A credit is given only for a job in the table.
LEMMA CreditStep ==
    ASSUME TypeInv, [Next]_vars
    PROVE  \/ UNCHANGED credited
           \/ \E e \in 1 .. Len(issued_jobs) : accept_share(issued_jobs[e], wire.work)
<1>1. CASE handle_submit_sv1 \/ handle_submit_sv2
  BY <1>1, SubmitOutcome, Zenon
<1>2. CASE ~(handle_submit_sv1 \/ handle_submit_sv2)
  BY <1>2, Zenon DEF Next, vars, handle_configure, handle_subscribe, handle_setup_connection, RecvJob,
              handle_authorize, TooManyIdentities, handle_open_extended, Mine, EndSession
<1> QED
  BY <1>1, <1>2, Zenon

(* PaidIsCredited: whoever is credited with a share is who its coinbase pays, *)
(* through any number of identities, spellings and jobs.  A table that holds  *)
(* jobs of the session's identity only is what makes it so (HistoryInv).      *)
THEOREM CreditIsPaid == Spec => []PaidIsCredited
<1>1. Init => HistoryInv /\ PaidIsCredited
  BY HistoryInit DEF Init, PaidIsCredited
<1>2. TypeInv /\ HistoryInv /\ PaidIsCredited /\ [Next]_vars => PaidIsCredited'
  <2> SUFFICES ASSUME TypeInv, HistoryInv, PaidIsCredited, [Next]_vars PROVE PaidIsCredited'
    BY Zenon
  <2>1. CASE UNCHANGED credited
    BY <2>1, Zenon DEF PaidIsCredited
  <2>2. ASSUME NEW i \in 1 .. Len(issued_jobs), accept_share(issued_jobs[i], wire.work)
        PROVE  PaidIsCredited'
    <3> DEFINE due == [payee |-> identity, paid |-> issued_jobs[i].job.payee,
                       number |-> issued_jobs[i].job.id, work |-> wire.work]
    <3>1. credited \in Seq(Credits) /\ credited' = Append(credited, due)
      BY <2>2, Zenon DEF TypeInv, Wires, accept_share
    <3>2. issued_jobs[i].job.payee = identity
      <4>1. Len(issued_jobs) \in Nat /\ Len(sent) \in Nat
        BY DEF TypeInv, JobTable
      <4>2. Len(sent) - Len(issued_jobs) + i \in 1 .. Len(sent)
        BY <4>1, DepthAssumption DEF HistoryInv, History, Mirrors
      <4> QED
        BY <4>2, Zenon DEF HistoryInv, History, Mirrors, Same, Pays
    <3>3. due.payee = due.paid
      BY <3>2, Zenon
    <3> HIDE DEF due
    <3>4. \A j \in DOMAIN credited' : credited'[j] = due \/ (j \in DOMAIN credited /\ credited'[j] = credited[j])
      BY <3>1
    <3> QED
      BY <3>3, <3>4, Zenon DEF PaidIsCredited
  <2> QED
    BY <2>1, <2>2, CreditStep, Zenon
<1> QED
  BY <1>1, <1>2, TypeInit, TypeStep, HistoryStep, PTL DEF Spec

-----------------------------------------------------------------------------
(* The ids of the channel *)

\* The id that SV2's counter had back jobs ago.
IdBack(next, back) == IF next > back THEN next - back ELSE next - back + JobIds

\* SV1 names a job by its number; SV2 by a counter that wraps, through a table
\* that remembers the same jobs as the job table.
IdsInv ==
    /\ proto = "sv1" => \A i \in 1 .. Len(sent) : sent[i].id = sent[i].number
    /\ proto = "sv2" =>
           /\ Len(job_ids) = Len(issued_jobs)
           /\ \A i \in 1 .. Len(job_ids) :
                  /\ job_ids[i].id = sent[Len(sent) - Len(job_ids) + i].id
                  /\ job_ids[i].job = sent[Len(sent) - Len(job_ids) + i].number
           /\ \A i \in 1 .. Len(sent) :
                  Len(sent) + 1 - i <= JobIds => sent[i].id = IdBack(next_job_id, Len(sent) + 1 - i)

\* Steps elsewhere change nothing of the channel's job ids.
LEMMA IdsFrame ==
    ASSUME IdsInv, UNCHANGED <<proto, sent, issued_jobs, job_ids, next_job_id>>
    PROVE  IdsInv'
BY Zenon DEF IdsInv, IdBack

(* build_notify keeps the ids of SV1. *)
LEMMA NotifyIds ==
    ASSUME TypeInv, NEW jobs \in Seq(Entry(Jobs)), Len(jobs) <= JOB_HISTORY_DEPTH,
           NEW h \in Seq(SentJobs), NEW who \in Identities, NEW clean \in BOOLEAN,
           build_notify(jobs, h, who, clean), UNCHANGED proto,
           \A i \in 1 .. Len(h) : h[i].id = h[i].number
    PROVE  IdsInv'
<1>0. nextJob \in Nat /\ proto' = "sv1" /\ Send(jobs, h, who, clean, nextJob)
  BY Zenon DEF TypeInv, JobTable, build_notify
<1>1. Sent(h, sent', nextJob, nextJob, who, clean)
  BY <1>0, SentFields, Zenon
<1>2. \A i \in 1 .. Len(sent') : sent'[i].id = sent'[i].number
  BY <1>1, Zenon DEF Sent
<1> QED
  BY <1>0, <1>2, Zenon DEF IdsInv

(* send_job keeps the ids of SV2: every id is one place further back, also    *)
(* when the counter wraps.                                                    *)
LEMMA ChannelIds ==
    ASSUME TypeInv, HistoryInv, IdsInv, NEW who \in Identities, NEW clean \in BOOLEAN,
           send_job(issued_jobs, sent, who, clean), UNCHANGED proto
    PROVE  IdsInv'
<1> USE DepthAssumption, SessionAssumption
<1> DEFINE n == Len(sent)
<1> DEFINE l == Len(job_ids)
<1> DEFINE d == Dropped(job_ids)
<1>0. /\ issued_jobs \in Seq(Entry(Jobs)) /\ Len(issued_jobs) <= JOB_HISTORY_DEPTH
      /\ sent \in Seq(SentJobs) /\ nextJob \in Nat /\ next_job_id \in 1 .. JobIds /\ IdTable
      /\ next_job_id \in Nat
  BY DEF TypeInv, JobTable, IdTable
<1>1. /\ proto = "sv2" /\ proto' = "sv2" /\ Send(issued_jobs, sent, who, clean, next_job_id)
      /\ job_ids' = assign_job_id(job_ids, nextJob) /\ next_job_id' = NextJobId(next_job_id)
  BY Zenon DEF send_job
<1>2. /\ Issued(issued_jobs, [id |-> nextJob, payee |-> who], clean, issued_jobs')
      /\ Grown(sent, sent', next_job_id, nextJob, who, clean)
  BY <1>0, <1>1, SendStep, Zenon
<1>3. Sent(sent, sent', next_job_id, nextJob, who, clean)
  BY <1>0, <1>1, SentFields, Zenon
<1>4. Assigned(job_ids, next_job_id, nextJob, job_ids')
  BY <1>0, <1>1, Assign, Zenon
<1>5. /\ l = Len(issued_jobs) /\ n \in Nat /\ l \in Nat /\ l <= n /\ d \in {0, 1}
      /\ Dropped(issued_jobs) = d /\ (d = 1 => l >= 1)
  <2>1. l = Len(issued_jobs) /\ n \in Nat /\ l \in Nat
    BY <1>0, <1>1 DEF IdsInv
  <2>2. l = IF n <= JOB_HISTORY_DEPTH THEN n ELSE JOB_HISTORY_DEPTH
    BY <2>1, Zenon DEF HistoryInv, History, Mirrors
  <2>3. d \in {0, 1} /\ Dropped(issued_jobs) = d /\ (d = 1 => l >= JOB_HISTORY_DEPTH)
    BY <2>1 DEF Dropped
  <2> HIDE DEF d, l, n
  <2> QED
    BY <2>1, <2>2, <2>3
<1>6. Len(sent') = n + 1 /\ Len(job_ids') = l - d + 1 /\ Len(issued_jobs') = l - d + 1
  BY <1>2, <1>3, <1>4, <1>5, Zenon DEF Sent, Assigned, Issued
<1>7. ASSUME NEW i \in 1 .. Len(job_ids')
      PROVE  /\ job_ids'[i].id = sent'[Len(sent') - Len(job_ids') + i].id
             /\ job_ids'[i].job = sent'[Len(sent') - Len(job_ids') + i].number
  <2> DEFINE k == Len(sent') - Len(job_ids') + i
  <2>1. CASE i = Len(job_ids')
    <3>1. k = n + 1 /\ job_ids'[i] = [id |-> next_job_id, job |-> nextJob]
      <4>1. k = n + 1
        BY <2>1, <1>5, <1>6
      <4>2. job_ids'[Len(job_ids')] = [id |-> next_job_id, job |-> nextJob]
        BY <1>4, Zenon DEF Assigned
      <4> QED
        BY <2>1, <4>1, <4>2, Zenon
    <3>2. sent'[n + 1].id = next_job_id /\ sent'[n + 1].number = nextJob
      BY <1>3, Zenon DEF Sent
    <3>3. job_ids'[i].id = next_job_id /\ job_ids'[i].job = nextJob
      BY <3>1
    <3> QED
      BY <3>1, <3>2, <3>3, Zenon
  <2>2. CASE i # Len(job_ids')
    <3> HIDE DEF d, l, n
    <3>1. i \in 1 .. l - d /\ i + d \in 1 .. l /\ k = n - l + (i + d) /\ k \in 1 .. n
      BY <2>2, <1>5, <1>6
    <3>2. job_ids'[i] = job_ids[i + d]
      BY <3>1, <1>4, Zenon DEF Assigned, d, l
    <3>3. job_ids[i + d].id = sent[k].id /\ job_ids[i + d].job = sent[k].number
      BY <3>1, <1>1 DEF IdsInv, l, n
    <3>4. sent'[k].id = sent[k].id /\ sent'[k].number = sent[k].number
      BY <3>1, <1>3, Zenon DEF Sent, n
    <3> QED
      BY <3>2, <3>3, <3>4, Zenon
  <2> QED
    BY <2>1, <2>2, Zenon
<1>8. ASSUME NEW i \in 1 .. n + 1, n + 2 - i <= JobIds
      PROVE  sent'[i].id = IdBack(next_job_id', n + 2 - i)
  <2> HIDE DEF n
  <2>1. next_job_id' = IF next_job_id = JobIds THEN 1 ELSE next_job_id + 1
    BY <1>1, Zenon DEF NextJobId
  <2>2. CASE i = n + 1
    <3>1. sent'[i].id = next_job_id
      BY <2>2, <1>3, Zenon DEF Sent, n
    <3> QED
      BY <3>1, <2>1, <2>2, <1>0, <1>5 DEF IdBack
  <2>3. CASE i # n + 1
    <3>1. i \in 1 .. n /\ n + 1 - i <= JobIds
      BY <2>3, <1>5, <1>8
    <3>2. sent'[i].id = IdBack(next_job_id, n + 1 - i)
      BY <3>1, <1>1, <1>3, Zenon DEF Sent, IdsInv, n
    <3> QED
      BY <3>1, <3>2, <2>1, <1>0, <1>5, <1>8 DEF IdBack
  <2> QED
    BY <2>2, <2>3, Zenon
<1>9. ASSUME NEW i \in 1 .. Len(sent'), Len(sent') + 1 - i <= JobIds
      PROVE  sent'[i].id = IdBack(next_job_id', Len(sent') + 1 - i)
  <2>1. Len(sent') + 1 - i = n + 2 - i
    BY <1>5, <1>6
  <2>2. i \in 1 .. n + 1 /\ n + 2 - i <= JobIds
    BY <1>5, <1>6, <1>9
  <2> QED
    BY <1>8, <2>1, <2>2, Zenon
<1> QED
  BY <1>1, <1>6, <1>7, <1>9, Zenon DEF IdsInv

\* Every step keeps an id in the table naming the job sent with it.
LEMMA IdsStep == TypeInv /\ HistoryInv /\ IdsInv /\ [Next]_vars => IdsInv'
<1> SUFFICES ASSUME TypeInv, HistoryInv, IdsInv, [Next]_vars PROVE IdsInv'
  BY Zenon
<1> USE SessionAssumption
<1>0. /\ issued_jobs \in Seq(Entry(Jobs)) /\ Len(issued_jobs) <= JOB_HISTORY_DEPTH
      /\ sent \in Seq(SentJobs)
  BY Zenon DEF TypeInv, JobTable
<1>1. ASSUME NEW clean \in BOOLEAN, RecvJob(clean) PROVE IdsInv'
  <2>1. CASE ready
    <3>1. identity \in Identities /\ UNCHANGED proto
      BY <1>1, <2>1, Zenon DEF RecvJob, TypeInv, Who, greeting
    <3>2. CASE build_notify(issued_jobs, sent, identity, clean)
      <4>1. \A i \in 1 .. Len(sent) : sent[i].id = sent[i].number
        BY <3>2, Zenon DEF build_notify, IdsInv
      <4> QED
        BY <1>0, <3>1, <3>2, <4>1, NotifyIds, Zenon
    <3>3. CASE send_job(issued_jobs, sent, identity, clean)
      BY <3>1, <3>3, ChannelIds, Zenon
    <3> QED
      BY <1>1, <2>1, <3>2, <3>3, Zenon DEF RecvJob
  <2>2. CASE ~ready
    BY <1>1, <2>2, IdsFrame, Zenon DEF RecvJob, greeting
  <2> QED
    BY <2>1, <2>2, Zenon
<1>2. ASSUME NEW typed \in Names, handle_authorize(typed) PROVE IdsInv'
  <2> DEFINE who == Canonical[typed]
  <2> DEFINE new == who # identity
  <2> DEFINE jobs == ClearedIf(new, issued_jobs)
  <2> DEFINE h == IF new THEN <<>> ELSE sent
  <2>0. proto = "sv1" /\ UNCHANGED proto
    BY <1>2, Zenon DEF handle_authorize, TooManyIdentities, greeting
  <2>1. CASE new /\ ~WithinBudget
    BY <1>2, <2>0, <2>1, IdsFrame, Zenon DEF handle_authorize, TooManyIdentities, tables
  <2>2. CASE ~(new /\ ~WithinBudget)
    <3>1. build_notify(jobs, h, who, TRUE) \/ sent' = h
      BY <1>2, <2>2, Zenon DEF handle_authorize
    <3>2. /\ jobs \in Seq(Entry(Jobs)) /\ Len(jobs) <= JOB_HISTORY_DEPTH /\ h \in Seq(SentJobs)
          /\ \A i \in 1 .. Len(h) : h[i].id = h[i].number
      BY <1>0, <2>0, DepthAssumption DEF ClearedIf, IdsInv
    <3>3. who \in Identities
      BY Zenon
    <3> HIDE DEF jobs, h, who, new
    <3>4. CASE build_notify(jobs, h, who, TRUE)
      BY <2>0, <3>2, <3>3, <3>4, NotifyIds, Zenon
    <3>5. CASE sent' = h
      BY <2>0, <3>2, <3>5, Zenon DEF IdsInv
    <3> QED
      BY <3>1, <3>4, <3>5, Zenon
  <2> QED
    BY <2>1, <2>2, Zenon
<1>3. ASSUME NEW typed \in Names, NEW fits \in BOOLEAN, handle_open_extended(typed, fits)
      PROVE  IdsInv'
  <2> DEFINE who == Canonical[typed]
  <2>0. UNCHANGED proto /\ who \in Identities
    BY <1>3, Zenon DEF handle_open_extended, greeting
  <2>1. CASE send_job(issued_jobs, sent, who, TRUE)
    <3> HIDE DEF who
    <3> QED
      BY <2>0, <2>1, ChannelIds, Zenon
  <2>2. CASE UNCHANGED <<issued_jobs, sent, job_ids, next_job_id>>
    BY <2>0, <2>2, IdsFrame, Zenon
  <2> QED
    BY <1>3, <2>1, <2>2, Zenon DEF handle_open_extended, tables
<1>4. CASE UNCHANGED <<proto, sent, issued_jobs, job_ids, next_job_id>>
  BY <1>4, IdsFrame, Zenon
<1> QED
  BY <1>1, <1>2, <1>3, <1>4, Zenon
     DEF Next, vars, greeting, tables, handle_configure, handle_subscribe, handle_setup_connection,
         Mine, handle_submit_sv1, handle_submit_sv2, TakeShare, EndSession

-----------------------------------------------------------------------------
(* The dedup set and the shares credited *)

\* A credit whose key the set holds no more, if it is recent, is of a job that
\* is not live.
Forgotten(set, cr, h) ==
    \A i \in 1 .. Len(cr) - Len(set) :
        i > Len(cr) - MaxShareSet =>
            \A j \in 1 .. Len(h) : h[j].number = cr[i].number => ~h[j].live

\* The set holds the keys of the last credits.
Remembered(set, cr) ==
    /\ Len(set) <= Len(cr)
    /\ \A i \in 1 .. Len(set) :
           set[i] = ShareKey(cr[Len(cr) - Len(set) + i].number, cr[Len(cr) - Len(set) + i].work)

Older(cr, next) == \A i \in 1 .. Len(cr) : cr[i].number < next

DedupInv ==
    /\ Remembered(share_set, credited) /\ Forgotten(share_set, credited, sent)
    /\ Older(credited, nextJob)

\* Steps elsewhere change nothing of the duplicate set.
LEMMA DedupFrame ==
    ASSUME DedupInv, UNCHANGED <<share_set, credited, sent, nextJob>>
    PROVE  DedupInv'
BY Zenon DEF DedupInv, Remembered, Forgotten, Older

(* A set that is emptied still guards every live job when none is. *)
LEMMA DedupEmptied ==
    ASSUME TypeInv, NEW h, \A j \in 1 .. Len(h) : ~h[j].live
    PROVE  Remembered(<<>>, credited) /\ Forgotten(<<>>, credited, h)
<1>1. Len(credited) \in Nat
  BY DEF TypeInv, Wires
<1> QED
  BY <1>1 DEF Remembered, Forgotten

(* A job sent is younger than every credit, and brings no earlier one back. *)
LEMMA DedupSend ==
    ASSUME TypeInv, DedupInv,
           NEW jobs \in Seq(Entry(Jobs)), Len(jobs) <= JOB_HISTORY_DEPTH,
           NEW h \in Seq(SentJobs), NEW who \in Identities, NEW clean \in BOOLEAN,
           build_notify(jobs, h, who, clean) \/ send_job(jobs, h, who, clean),
           NEW set, Remembered(set, credited),
           clean \/ Forgotten(set, credited, h),
           share_set' = set, UNCHANGED credited
    PROVE  DedupInv'
<1>0. nextJob \in Nat /\ next_job_id \in Nat
  BY DEF TypeInv, JobTable, IdTable
<1>1. PICK id \in Nat : Send(jobs, h, who, clean, id)
  BY <1>0, Zenon DEF build_notify, send_job
<1>2. Sent(h, sent', id, nextJob, who, clean)
  BY <1>0, <1>1, SentFields, Zenon
<1>3. nextJob' = nextJob + 1
  BY <1>1, Zenon DEF Send
<1>4. \A i \in 1 .. Len(credited) : credited[i].number < nextJob /\ credited[i].number \in Nat
  <2>1. \A i \in 1 .. Len(credited) : credited[i] \in Credits
    BY DEF TypeInv, Wires
  <2> QED
    BY <2>1, Zenon DEF DedupInv, Older, Credits
<1>5. Older(credited', nextJob')
  <2>1. \A i \in 1 .. Len(credited) : credited[i].number < nextJob + 1
    BY <1>0, <1>4, SMTT(30)
  <2> QED
    BY <1>3, <2>1, Zenon DEF Older
<1>6. ASSUME NEW i \in 1 .. Len(credited) - Len(set), i > Len(credited) - MaxShareSet,
             i \in 1 .. Len(credited),
             NEW j \in 1 .. Len(sent'), sent'[j].number = credited[i].number
      PROVE  ~sent'[j].live
  <2>1. j # Len(h) + 1
    <3>1. credited[i].number # nextJob
      <4>1. credited[i].number < nextJob /\ credited[i].number \in Nat
        BY <1>4, <1>6, Zenon
      <4> QED
        BY <1>0, <4>1, SMTT(30)
    <3>2. sent'[Len(h) + 1].number = nextJob
      BY <1>2, Zenon DEF Sent
    <3> QED
      BY <1>6, <3>1, <3>2, Zenon
  <2>2. j \in 1 .. Len(h) /\ sent'[j].number = h[j].number /\ (sent'[j].live <=> h[j].live /\ ~clean)
    BY <1>2, <2>1, Zenon DEF Sent
  <2> QED
    BY <1>6, <2>2, Zenon DEF Forgotten
<1>7. Forgotten(share_set', credited', sent')
  <2>1. Len(credited) \in Nat /\ Len(set) <= Len(credited)
    BY DEF TypeInv, Wires, Remembered
  <2>2. \A i \in 1 .. Len(credited) - Len(set) : i \in 1 .. Len(credited)
    BY <2>1
  <2> QED
    BY <1>6, <2>2, Zenon DEF Forgotten
<1> QED
  BY <1>5, <1>7, Zenon DEF DedupInv

(* A share accepted: its key enters the set as its credit enters the record,  *)
(* and the key that gives way is of the one credit too old to count.          *)
LEMMA DedupAccept ==
    ASSUME TypeInv, HistoryInv, DedupInv, wire \in Shares,
           NEW e \in 1 .. Len(issued_jobs), accept_share(issued_jobs[e], wire.work),
           UNCHANGED <<sent, nextJob>>
    PROVE  DedupInv'
<1> USE SessionAssumption
<1> DEFINE number == issued_jobs[e].job.id
<1> DEFINE key == ShareKey(number, wire.work)
<1> DEFINE due == [payee |-> identity, paid |-> issued_jobs[e].job.payee,
                   number |-> number, work |-> wire.work]
<1> DEFINE n == Len(credited)
<1> DEFINE l == Len(share_set)
<1> DEFINE full == l >= MaxShareSet
<1> DEFINE old == IF full THEN Tail(share_set) ELSE share_set
<1>0. /\ credited \in Seq(Credits) /\ share_set \in Seq(Keys) /\ n \in Nat /\ l \in Nat
      /\ l <= MaxShareSet /\ l <= n /\ nextJob \in Nat
  BY DEF TypeInv, Wires, Dedup, JobTable, DedupInv, Remembered
<1>1. number < nextJob
  <2>1. Len(issued_jobs) \in Nat /\ Len(sent) \in Nat
    BY DEF TypeInv, JobTable
  <2>2. Len(sent) - Len(issued_jobs) + e \in 1 .. Len(sent)
    BY <2>1, DepthAssumption DEF HistoryInv, History, Mirrors
  <2> QED
    BY <2>2, Zenon DEF HistoryInv, History, Mirrors, Same, Ordered
<1>2. credited' = Append(credited, due) /\ share_set' = Append(old, key)
  BY Zenon DEF accept_share, insert
<1>3. due.number = number /\ due.work = wire.work
  BY Zenon
<1>4. /\ Len(credited') = n + 1 /\ credited'[n + 1] = due
      /\ \A i \in 1 .. n : credited'[i] = credited[i]
  <2> HIDE DEF due
  <2> QED
    BY <1>0, <1>2
<1>5. /\ old \in Seq(Keys) /\ Len(old) = (IF full THEN l - 1 ELSE l)
      /\ \A i \in 1 .. Len(old) : old[i] = share_set[IF full THEN i + 1 ELSE i]
  <2>1. CASE full
    <3>1. l > 0
      BY <1>0, <2>1
    <3> QED
      BY <1>0, <2>1, <3>1, TailSeq, Zenon
  <2>2. CASE ~full
    BY <1>0, <2>2, Zenon
  <2> QED
    BY <2>1, <2>2, Zenon
<1>6. /\ Len(share_set') = Len(old) + 1 /\ share_set'[Len(old) + 1] = key
      /\ \A i \in 1 .. Len(old) : share_set'[i] = old[i]
  <2> HIDE DEF old, key
  <2> QED
    BY <1>2, <1>5
<1> HIDE DEF due, key, number, old
<1>a. /\ n \in Nat /\ l \in Nat /\ l <= n /\ Len(credited') = n + 1 /\ Len(share_set') = Len(old) + 1
      /\ \/ full /\ l = MaxShareSet /\ Len(old) = l - 1
         \/ ~full /\ l < MaxShareSet /\ Len(old) = l
  BY <1>0, <1>4, <1>5, <1>6
<1>7. Remembered(share_set', credited')
  <2>1. ASSUME NEW i \in 1 .. Len(share_set')
        PROVE  LET k == Len(credited') - Len(share_set') + i
               IN  share_set'[i] = ShareKey(credited'[k].number, credited'[k].work)
    <3> DEFINE k == Len(credited') - Len(share_set') + i
    <3>1. CASE i = Len(old) + 1
      <4>1. k = n + 1
        <5> HIDE DEF n, l, full
        <5> QED
          BY <1>a, <3>1
      <4> QED
        BY <4>1, <1>3, <1>4, <1>6, <3>1, Zenon DEF key
    <3>2. CASE i # Len(old) + 1
      <4> DEFINE j == IF full THEN i + 1 ELSE i
      <4>1. i \in 1 .. Len(old) /\ j \in 1 .. l /\ k = n - l + j /\ k \in 1 .. n
        BY <1>0, <1>4, <1>5, <1>6, <3>2
      <4>2. share_set'[i] = share_set[j] /\ credited'[k] = credited[k]
        BY <4>1, <1>4, <1>5, <1>6, Zenon
      <4>3. share_set[j] = ShareKey(credited[n - l + j].number, credited[n - l + j].work)
        BY <4>1, Zenon DEF DedupInv, Remembered
      <4> QED
        BY <4>1, <4>2, <4>3, Zenon
    <3> QED
      BY <3>1, <3>2, Zenon
  <2>2. Len(share_set') <= Len(credited')
    BY <1>0, <1>4, <1>5, <1>6
  <2> QED
    BY <2>1, <2>2, Zenon DEF Remembered
<1>8. Forgotten(share_set', credited', sent')
  <2>1. ASSUME NEW i \in 1 .. Len(credited') - Len(share_set'), i > Len(credited') - MaxShareSet
        PROVE  i \in 1 .. n - l /\ i > n - MaxShareSet /\ credited'[i] = credited[i]
    <3>1. i \in 1 .. n - l /\ i > n - MaxShareSet /\ i \in 1 .. n
      <4> HIDE DEF n, l, full
      <4> QED
        BY <1>a, <2>1
    <3> QED
      BY <1>4, <3>1, Zenon
  <2> QED
    BY <2>1 DEF DedupInv, Forgotten
<1>9. Older(credited', nextJob')
  BY <1>0, <1>1, <1>3, <1>4 DEF DedupInv, Older
<1> QED
  BY <1>7, <1>8, <1>9, Zenon DEF DedupInv

\* Every step keeps the duplicate set the latest credits.
LEMMA DedupStep == TypeInv /\ HistoryInv /\ DedupInv /\ [Next]_vars => DedupInv'
<1> SUFFICES ASSUME TypeInv, HistoryInv, DedupInv, [Next]_vars PROVE DedupInv'
  BY Zenon
<1> USE SessionAssumption
<1>0. /\ issued_jobs \in Seq(Entry(Jobs)) /\ Len(issued_jobs) <= JOB_HISTORY_DEPTH
      /\ sent \in Seq(SentJobs) /\ Len(credited) \in Nat
      /\ Remembered(share_set, credited) /\ Forgotten(share_set, credited, sent)
  BY DEF TypeInv, JobTable, Wires, DedupInv
<1>1. Remembered(<<>>, credited) /\ Forgotten(<<>>, credited, <<>>)
  BY DedupEmptied
<1>2. ASSUME NEW clean \in BOOLEAN, RecvJob(clean) PROVE DedupInv'
  <2> DEFINE set == ShareSetAfter(share_set, clean)
  <2>1. /\ share_set' = set /\ UNCHANGED credited
        /\ Remembered(set, credited) /\ (clean \/ Forgotten(set, credited, sent))
    BY <1>0, <1>1, <1>2, Zenon DEF RecvJob, ShareSetAfter
  <2>2. CASE ready
    <3>1. /\ build_notify(issued_jobs, sent, identity, clean)
             \/ send_job(issued_jobs, sent, identity, clean)
          /\ identity \in Identities
      BY <1>2, <2>2, Zenon DEF RecvJob, TypeInv, Who
    <3> HIDE DEF set
    <3> QED
      BY <1>0, <2>1, <3>1, DedupSend, Zenon
  <2>3. CASE ~ready
    <3>1. UNCHANGED <<sent, nextJob>> /\ sent = <<>>
      BY <1>2, <2>3, Zenon DEF RecvJob, HistoryInv
    <3>2. Forgotten(set, credited, <<>>)
      BY DEF Forgotten
    <3> QED
      BY <2>1, <3>1, <3>2, Zenon DEF DedupInv
  <2> QED
    BY <2>2, <2>3, Zenon
<1>3. ASSUME NEW typed \in Names, handle_authorize(typed) PROVE DedupInv'
  <2> DEFINE who == Canonical[typed]
  <2> DEFINE new == who # identity
  <2> DEFINE jobs == ClearedIf(new, issued_jobs)
  <2> DEFINE h == IF new THEN <<>> ELSE sent
  <2> DEFINE set == ClearedIf(new, share_set)
  <2>1. CASE new /\ ~WithinBudget
    BY <1>3, <2>1, DedupFrame, Zenon DEF handle_authorize, TooManyIdentities, tables
  <2>2. CASE ~(new /\ ~WithinBudget)
    <3>1. /\ share_set' = set /\ UNCHANGED credited
          /\ build_notify(jobs, h, who, TRUE) \/ (sent' = h /\ UNCHANGED nextJob)
      BY <1>3, <2>2, Zenon DEF handle_authorize
    <3>2. /\ jobs \in Seq(Entry(Jobs)) /\ Len(jobs) <= JOB_HISTORY_DEPTH /\ h \in Seq(SentJobs)
          /\ who \in Identities
      BY <1>0, DepthAssumption DEF ClearedIf
    <3>3. Remembered(set, credited) /\ Forgotten(set, credited, h)
      BY <1>0, <1>1, Zenon DEF ClearedIf
    <3> HIDE DEF jobs, h, who, new, set
    <3>4. CASE build_notify(jobs, h, who, TRUE)
      BY <3>1, <3>2, <3>3, <3>4, DedupSend, Zenon
    <3>5. CASE sent' = h /\ UNCHANGED nextJob
      BY <3>1, <3>3, <3>5, Zenon DEF DedupInv
    <3> QED
      BY <3>1, <3>4, <3>5, Zenon
  <2> QED
    BY <2>1, <2>2, Zenon
<1>4. ASSUME NEW typed \in Names, NEW fits \in BOOLEAN, handle_open_extended(typed, fits)
      PROVE  DedupInv'
  <2> DEFINE who == Canonical[typed]
  <2>1. who \in Identities /\ UNCHANGED <<share_set, credited>>
    BY <1>4, Zenon DEF handle_open_extended, tables
  <2>2. CASE send_job(issued_jobs, sent, who, TRUE)
    <3> HIDE DEF who
    <3> QED
      BY <1>0, <2>1, <2>2, DedupSend, Zenon
  <2>3. CASE UNCHANGED <<sent, nextJob>>
    BY <2>1, <2>3, DedupFrame, Zenon
  <2> QED
    BY <1>4, <2>2, <2>3, Zenon DEF handle_open_extended, tables
<1>5. CASE handle_submit_sv1 \/ handle_submit_sv2
  <2>1. wire \in Shares /\ UNCHANGED <<sent, nextJob>>
    BY <1>5, Zenon DEF handle_submit_sv1, handle_submit_sv2, TakeShare, TypeInv, Wires
  <2> QED
    BY <1>5, <2>1, SubmitOutcome, DedupAccept, DedupFrame, Zenon
<1>6. CASE UNCHANGED <<share_set, credited, sent, nextJob>>
  BY <1>6, DedupFrame, Zenon
<1> QED
  BY <1>2, <1>3, <1>4, <1>5, <1>6, Zenon
     DEF Next, vars, tables, handle_configure, handle_subscribe, handle_setup_connection, Mine,
         EndSession

-----------------------------------------------------------------------------
(* A submission is judged by the job it names *)

\* Where the entry e of the table was sent.
At(e) == Len(sent) - Len(issued_jobs) + e

(* The table is the window of jobs that are still valid. *)
LEMMA Window ==
    ASSUME TypeInv, HistoryInv
    PROVE  /\ Len(issued_jobs) \in Nat /\ Len(sent) \in Nat
           /\ \A e \in 1 .. Len(issued_jobs) :
                  /\ At(e) \in 1 .. Len(sent) /\ sent[At(e)] \in SentJobs
                  /\ issued_jobs[e] \in Entry(Jobs) /\ Same(issued_jobs[e], sent[At(e)])
                  /\ Len(sent) + 1 - At(e) \in 1 .. JOB_HISTORY_DEPTH
           /\ \A e, f \in 1 .. Len(issued_jobs) :
                  sent[At(e)].number = sent[At(f)].number => e = f
           /\ Contract!Recent(sent, JOB_HISTORY_DEPTH) =
                  {sent[At(e)] : e \in 1 .. Len(issued_jobs)}
<1> USE DepthAssumption
<1>1. /\ Len(issued_jobs) \in Nat /\ Len(sent) \in Nat
      /\ sent \in Seq(SentJobs) /\ issued_jobs \in Seq(Entry(Jobs))
      /\ \/ Len(sent) <= JOB_HISTORY_DEPTH /\ Len(issued_jobs) = Len(sent)
         \/ Len(sent) > JOB_HISTORY_DEPTH /\ Len(issued_jobs) = JOB_HISTORY_DEPTH
  BY DEF TypeInv, JobTable, HistoryInv, History, Mirrors
<1>2. \A e \in 1 .. Len(issued_jobs) :
          At(e) \in 1 .. Len(sent) /\ Len(sent) + 1 - At(e) \in 1 .. JOB_HISTORY_DEPTH
  BY <1>1 DEF At
<1>3. \A e \in 1 .. Len(issued_jobs) :
          /\ sent[At(e)] \in SentJobs /\ issued_jobs[e] \in Entry(Jobs)
          /\ Same(issued_jobs[e], sent[At(e)])
  <2>1. \A e \in 1 .. Len(issued_jobs) : sent[At(e)] \in SentJobs /\ issued_jobs[e] \in Entry(Jobs)
    BY <1>1, <1>2
  <2>2. \A e \in 1 .. Len(issued_jobs) : Same(issued_jobs[e], sent[At(e)])
    BY Zenon DEF HistoryInv, History, Mirrors, At
  <2> QED
    BY <2>1, <2>2, Zenon
<1>4. ASSUME NEW e \in 1 .. Len(issued_jobs), NEW f \in 1 .. Len(issued_jobs), e < f
      PROVE  sent[At(e)].number < sent[At(f)].number
  <2>1. At(e) \in 1 .. At(f) - 1 /\ At(f) \in 1 .. Len(sent)
    BY <1>1, <1>2, <1>4 DEF At
  <2> QED
    BY <2>1, Zenon DEF HistoryInv, History, Ordered
<1>5. ASSUME NEW e \in 1 .. Len(issued_jobs), NEW f \in 1 .. Len(issued_jobs),
             sent[At(e)].number = sent[At(f)].number
      PROVE  e = f
  <2>1. sent[At(e)].number \in Nat /\ sent[At(f)].number \in Nat
    BY <1>3, Zenon DEF SentJobs
  <2>2. e < f \/ f < e \/ e = f
    BY <1>1
  <2>3. ~(e < f)
    BY <1>4, <1>5, <2>1
  <2>4. ~(f < e)
    BY <1>4, <1>5, <2>1
  <2> QED
    BY <2>2, <2>3, <2>4, Zenon
<1>6. Contract!Recent(sent, JOB_HISTORY_DEPTH) = {sent[At(e)] : e \in 1 .. Len(issued_jobs)}
  <2>1. \A j \in 1 .. Len(sent) : j > Len(sent) - JOB_HISTORY_DEPTH =>
            \E e \in 1 .. Len(issued_jobs) : At(e) = j
    <3>1. ASSUME NEW j \in 1 .. Len(sent), j > Len(sent) - JOB_HISTORY_DEPTH
          PROVE  LET e == j - (Len(sent) - Len(issued_jobs))
                 IN  e \in 1 .. Len(issued_jobs) /\ At(e) = j
      BY <1>1, <3>1 DEF At
    <3> QED
      BY <3>1, Zenon
  <2>2. \A e \in 1 .. Len(issued_jobs) :
            At(e) \in 1 .. Len(sent) /\ At(e) > Len(sent) - JOB_HISTORY_DEPTH
    BY <1>1, <1>2 DEF At
  <2> QED
    BY <2>1, <2>2, Zenon DEF Contract!Recent
<1> QED
  BY <1>1, <1>2, <1>3, <1>5, <1>6, Zenon

(* In the window no id is given twice: SV1's are the job numbers, and SV2's   *)
(* counter does not come round within as many jobs as the table holds.        *)
LEMMA IdsDiffer ==
    ASSUME TypeInv, HistoryInv, IdsInv,
           NEW e \in 1 .. Len(issued_jobs), NEW f \in 1 .. Len(issued_jobs),
           sent[At(e)].id = sent[At(f)].id
    PROVE  e = f
<1> USE SessionAssumption, DepthAssumption
<1>1. CASE proto = "sv1"
  BY <1>1, Window, Zenon DEF IdsInv
<1>2. CASE proto = "sv2"
  <2> DEFINE b == Len(sent) + 1 - At(e)
  <2> DEFINE c == Len(sent) + 1 - At(f)
  <2>1. /\ At(e) \in 1 .. Len(sent) /\ At(f) \in 1 .. Len(sent)
        /\ b \in 1 .. JobIds /\ c \in 1 .. JobIds
        /\ next_job_id \in 1 .. JobIds /\ Len(sent) \in Nat /\ Len(issued_jobs) \in Nat
    <3>1. /\ At(e) \in 1 .. Len(sent) /\ At(f) \in 1 .. Len(sent)
          /\ b \in 1 .. JOB_HISTORY_DEPTH /\ c \in 1 .. JOB_HISTORY_DEPTH
          /\ Len(sent) \in Nat /\ Len(issued_jobs) \in Nat
      BY Window, Zenon
    <3>2. next_job_id \in 1 .. JobIds
      BY Zenon DEF TypeInv, IdTable
    <3> HIDE DEF b, c
    <3> QED
      BY <3>1, <3>2
  <2>2. sent[At(e)].id = IdBack(next_job_id, b) /\ sent[At(f)].id = IdBack(next_job_id, c)
    <3>1. \A i \in 1 .. Len(sent) :
              Len(sent) + 1 - i <= JobIds => sent[i].id = IdBack(next_job_id, Len(sent) + 1 - i)
      BY <1>2, Zenon DEF IdsInv
    <3>2. b <= JobIds /\ c <= JobIds
      BY <2>1
    <3> QED
      BY <2>1, <3>1, <3>2, Zenon
  <2>3. IdBack(next_job_id, b) = IdBack(next_job_id, c)
    BY <2>2, Zenon
  <2>4. b = c
    <3> HIDE DEF b, c
    <3> QED
      BY <2>1, <2>3 DEF IdBack
  <2> QED
    BY <2>1, <2>4 DEF At
<1> QED
  BY <1>1, <1>2, Zenon DEF TypeInv, Flags

\* The entries a submission's id leads the session to.
Found(id) ==
    IF proto = "sv1" THEN find(issued_jobs, id)
    ELSE UNION {find(issued_jobs, job) : job \in engine_job_id(id)}

(* find, and find through the id table, lead to the entries whose job was     *)
(* sent under the id.                                                         *)
LEMMA FoundAt ==
    ASSUME TypeInv, HistoryInv, IdsInv, NEW id
    PROVE  Found(id) = {issued_jobs[e] : e \in {f \in 1 .. Len(issued_jobs) : sent[At(f)].id = id}}
<1> DEFINE L == 1 .. Len(issued_jobs)
<1>1. \A e \in L : issued_jobs[e].job.id = sent[At(e)].number
  BY Window, Zenon DEF Same
<1>2. \A n : find(issued_jobs, n) = {issued_jobs[e] : e \in {f \in L : sent[At(f)].number = n}}
  BY <1>1, Zenon DEF find
<1>3. CASE proto = "sv1"
  <2>1. \A e \in L : sent[At(e)].number = sent[At(e)].id
    BY <1>3, Window, Zenon DEF IdsInv
  <2>2. Found(id) = find(issued_jobs, id)
    BY <1>3, Zenon DEF Found
  <2> QED
    BY <1>2, <2>1, <2>2
<1>4. CASE proto = "sv2"
  <2>1. /\ Len(job_ids) = Len(issued_jobs)
        /\ \A e \in L : job_ids[e].id = sent[At(e)].id /\ job_ids[e].job = sent[At(e)].number
    BY <1>4, Zenon DEF IdsInv, At
  <2>2. engine_job_id(id) = {sent[At(e)].number : e \in {f \in L : sent[At(f)].id = id}}
    BY <2>1 DEF engine_job_id
  <2>3. \A e \in L : find(issued_jobs, sent[At(e)].number) = {issued_jobs[e]}
    <3>1. ASSUME NEW e \in L
          PROVE  {f \in L : sent[At(f)].number = sent[At(e)].number} = {e}
      BY Window, Zenon
    <3>2. ASSUME NEW e \in L
          PROVE  find(issued_jobs, sent[At(e)].number) = {issued_jobs[f] : f \in {e}}
      <4> DEFINE at == {f \in L : sent[At(f)].number = sent[At(e)].number}
      <4>1. find(issued_jobs, sent[At(e)].number) = {issued_jobs[f] : f \in at}
        BY <1>2, Zenon
      <4>2. at = {e}
        BY <3>1, Zenon
      <4> HIDE DEF at
      <4> QED
        BY <4>1, <4>2, Zenon
    <3> QED
      BY <3>2, Zenon
  <2>4. Found(id) = UNION {find(issued_jobs, job) : job \in engine_job_id(id)}
    BY <1>4, Zenon DEF Found
  <2> DEFINE hits == {f \in L : sent[At(f)].id = id}
  <2>5. ASSUME NEW entry
        PROVE  entry \in Found(id) <=> \E e \in hits : entry = issued_jobs[e]
    <3>1. entry \in Found(id) <=> \E job \in engine_job_id(id) : entry \in find(issued_jobs, job)
      BY <2>4, Zenon
    <3>2. ASSUME NEW job
          PROVE  job \in engine_job_id(id) <=> \E e \in hits : job = sent[At(e)].number
      BY <2>2, Zenon
    <3>3. \A e \in hits : entry \in find(issued_jobs, sent[At(e)].number) <=> entry = issued_jobs[e]
      BY <2>3, Zenon
    <3> HIDE DEF hits
    <3> QED
      BY <3>1, <3>2, <3>3, Zenon
  <2>6. \A entry : entry \in {issued_jobs[e] : e \in hits} <=> \E e \in hits : entry = issued_jobs[e]
    BY Zenon
  <2> HIDE DEF hits
  <2>7. Found(id) = {issued_jobs[e] : e \in hits}
    BY <2>5, <2>6, Zenon
  <2> QED
    BY <2>7, Zenon DEF hits
<1> QED
  BY <1>3, <1>4, Zenon DEF TypeInv, Flags

(* The session and the contract agree on the job that a submission names. *)
LEMMA Resolve ==
    ASSUME TypeInv, HistoryInv, IdsInv, NEW id
    PROVE  \/ Found(id) = {} /\ Contract!Named(id) = {}
           \/ \E e \in 1 .. Len(issued_jobs) :
                  Found(id) = {issued_jobs[e]} /\ Contract!Named(id) = {sent[At(e)]}
<1> DEFINE L == 1 .. Len(issued_jobs)
<1> DEFINE hits == {f \in L : sent[At(f)].id = id}
<1>1. Found(id) = {issued_jobs[e] : e \in hits}
  BY FoundAt, Zenon
<1>2. Contract!Recent(sent, JOB_HISTORY_DEPTH) = {sent[At(e)] : e \in L}
  BY Window, Zenon
<1>3. CASE hits = {}
  <2>1. Found(id) = {}
    BY <1>1, <1>3, Zenon
  <2>2. Contract!Named(id) = {}
    BY <1>2, <1>3, Zenon DEF Contract!Named
  <2> QED
    BY <2>1, <2>2, Zenon
<1>4. ASSUME NEW e \in hits
      PROVE  Found(id) = {issued_jobs[e]} /\ Contract!Named(id) = {sent[At(e)]}
  <2>1. hits = {e}
    BY IdsDiffer, Zenon
  <2>2. Found(id) = {issued_jobs[f] : f \in {e}}
    BY <1>1, <2>1, Zenon
  <2>3. sent[At(e)].number <= sent[At(e)].number
    <3>1. sent[At(e)] \in SentJobs
      BY Window, Zenon
    <3>2. sent[At(e)].number \in Nat
      BY <3>1, Zenon DEF SentJobs
    <3> QED
      BY <3>2
  <2>4. \A job \in Contract!Recent(sent, JOB_HISTORY_DEPTH) : job.id = id <=> job = sent[At(e)]
    BY <1>2, <2>1, Zenon
  <2>5. sent[At(e)] \in Contract!Recent(sent, JOB_HISTORY_DEPTH)
    BY <1>2, Zenon
  <2>6. Contract!Named(id) = {sent[At(e)]}
    BY <2>3, <2>4, <2>5, Zenon DEF Contract!Named
  <2> QED
    BY <2>2, <2>6, Zenon
<1> QED
  BY <1>3, <1>4, Zenon

(* A key in the set is of a recent credit, and a recent credit of a live job  *)
(* has its key in the set.                                                    *)
LEMMA SeenIsRepeated ==
    ASSUME TypeInv, HistoryInv, DedupInv, NEW e \in 1 .. Len(issued_jobs), NEW share \in Shares,
           Contract!Named(share.id) = {sent[At(e)]}
    PROVE  /\ contains(share_set, ShareKey(issued_jobs[e].job.id, share.work))
                  => Contract!Repeated(share)
           /\ Contract!Repeated(share) /\ sent[At(e)].live
                  => contains(share_set, ShareKey(issued_jobs[e].job.id, share.work))
<1> DEFINE n == Len(credited)
<1> DEFINE l == Len(share_set)
<1> DEFINE number == sent[At(e)].number
<1>0. /\ issued_jobs[e].job.id = number /\ At(e) \in 1 .. Len(sent)
      /\ n \in Nat /\ l \in Nat /\ l <= n /\ l <= MaxShareSet /\ MaxShareSet \in Nat
  <2>1. issued_jobs[e].job.id = number /\ At(e) \in 1 .. Len(sent)
    BY Window, Zenon DEF Same
  <2>2. n \in Nat /\ l \in Nat /\ l <= MaxShareSet /\ MaxShareSet \in Nat
    BY SessionAssumption DEF TypeInv, Wires, Dedup
  <2>3. l <= n
    BY Zenon DEF DedupInv, Remembered
  <2> QED
    BY <2>1, <2>2, <2>3, Zenon
<1>1. \A i \in 1 .. n : credited[i] \in Credits
  BY DEF TypeInv, Wires
<1>2. ASSUME NEW i \in 1 .. n
      PROVE  ShareKey(credited[i].number, credited[i].work) = ShareKey(number, share.work)
             <=> credited[i].number = number /\ credited[i].work = share.work
  <2> DEFINE a == credited[i].work
  <2> DEFINE b == share.work
  <2>1. a \in Work /\ b \in Work
    BY <1>1, Zenon DEF Credits, Shares
  <2>2. a = [nonce |-> a.nonce, bits |-> a.bits] /\ b = [nonce |-> b.nonce, bits |-> b.bits]
    BY <2>1, Zenon DEF Work
  <2> HIDE DEF number, a, b
  <2>3. ShareKey(credited[i].number, a) = ShareKey(number, b)
        <=> credited[i].number = number /\ a.nonce = b.nonce /\ a.bits = b.bits
    BY Zenon DEF ShareKey
  <2>4. a = b <=> a.nonce = b.nonce /\ a.bits = b.bits
    BY <2>2, Zenon
  <2> QED
    BY <2>3, <2>4, Zenon DEF a, b
<1>3. ASSUME NEW k \in 1 .. l, share_set[k] = ShareKey(number, share.work)
      PROVE  Contract!Repeated(share)
  <2> DEFINE i == n - l + k
  <2>1. i \in 1 .. n /\ i > n - MaxShareSet
    BY <1>0
  <2>2. share_set[k] = ShareKey(credited[i].number, credited[i].work)
    BY Zenon DEF DedupInv, Remembered
  <2>3. credited[i].number = number /\ credited[i].work = share.work
    BY <1>2, <1>3, <2>1, <2>2, Zenon
  <2>4. credited[i] \in Contract!Recent(credited, MaxShareSet)
    BY <2>1, Zenon DEF Contract!Recent
  <2> QED
    BY <2>3, <2>4, Zenon DEF Contract!Repeated
<1>4. ASSUME Contract!Repeated(share), sent[At(e)].live
      PROVE  contains(share_set, ShareKey(number, share.work))
  <2>1. PICK i \in 1 .. n : /\ i > n - MaxShareSet
                            /\ credited[i].number = number /\ credited[i].work = share.work
    BY <1>4, Zenon DEF Contract!Repeated, Contract!Recent
  <2>2. ~(i \in 1 .. n - l)
    BY <1>0, <1>4, <2>1, Zenon DEF DedupInv, Forgotten
  <2> DEFINE k == i - (n - l)
  <2>3. k \in 1 .. l /\ n - l + k = i
    BY <1>0, <2>1, <2>2
  <2>4. share_set[k] = ShareKey(credited[i].number, credited[i].work)
    BY <2>3, Zenon DEF DedupInv, Remembered
  <2> QED
    BY <2>1, <2>3, <2>4, Zenon DEF contains
<1> QED
  BY <1>0, <1>3, <1>4, Zenon DEF contains

-----------------------------------------------------------------------------
(* Every step keeps the contract *)

(* A charge is a blame, or passes over a submission that earns nothing when   *)
(* no limit is configured.                                                    *)
LEMMA ChargeKeeps ==
    ASSUME TypeInv, RejectInvalid, Contract!Deserved(wire)
    PROVE  Contract!Blame(wire) \/ Contract!TurnDown(wire)
<1>1. UNCHANGED credited
  BY Zenon DEF RejectInvalid
<1>2. CASE MaxInvalid = 0
  <2>1. UNCHANGED invalid_shares
    BY <1>2, Zenon DEF RejectInvalid, TypeInv, Budgets
  <2>2. ~Contract!Due(wire)
    BY Zenon DEF Contract!Deserved, Contract!Due
  <2> QED
    BY <1>1, <2>1, <2>2, Zenon DEF Contract!TurnDown
<1>3. CASE MaxInvalid # 0
  <2>1. invalid_shares' = invalid_shares + 1
    BY <1>3, Zenon DEF RejectInvalid
  <2> QED
    BY <1>1, <2>1, Zenon DEF Contract!Blame
<1> QED
  BY <1>2, <1>3, Zenon

(* Judge: credit, blame and refusal fall where the contract puts them. *)
LEMMA JudgeKeeps ==
    ASSUME TypeInv, HistoryInv, IdsInv, DedupInv, wire \in Shares, Contract!Addressed(wire),
           Judge(Found(wire.id), wire)
    PROVE  Contract!Credit(wire) \/ Contract!Blame(wire) \/ Contract!TurnDown(wire)
<1>1. CASE Found(wire.id) = {} /\ Contract!Named(wire.id) = {}
  <2>1. RejectInvalid
    BY <1>1, Zenon DEF Judge
  <2>2. Contract!Deserved(wire)
    BY <1>1, Zenon DEF Contract!Deserved
  <2> QED
    BY <2>1, <2>2, ChargeKeeps, Zenon
<1>2. ASSUME NEW e \in 1 .. Len(issued_jobs),
             Found(wire.id) = {issued_jobs[e]}, Contract!Named(wire.id) = {sent[At(e)]}
      PROVE  Contract!Credit(wire) \/ Contract!Blame(wire) \/ Contract!TurnDown(wire)
  <2> DEFINE entry == issued_jobs[e]
  <2> DEFINE job == sent[At(e)]
  <2> DEFINE seen == contains(share_set, ShareKey(entry.job.id, wire.work))
  <2>1. /\ entry.job.id = job.number /\ entry.job.payee = job.payee
        /\ entry.superseded_by_clean <=> ~job.live
    BY Window, Zenon DEF Same
  <2>2. /\ seen => Contract!Repeated(wire)
        /\ Contract!Repeated(wire) /\ job.live => seen
    BY <1>2, SeenIsRepeated, Zenon
  <2>3. IF seen THEN RejectInvalid ELSE validate_share_no_dedup(entry, wire)
    BY <1>2, Zenon DEF Judge
  <2>4. CASE seen
    <3>1. Contract!Deserved(wire)
      BY <2>2, <2>4, Zenon DEF Contract!Deserved
    <3> QED
      BY <2>3, <2>4, <3>1, ChargeKeeps, Zenon
  <2>5. CASE ~seen /\ (entry.superseded_by_clean \/ wire.quality \in {"low", "short"}) /\ Reject
    <3>1. ~Contract!Due(wire)
      BY <1>2, <2>1, <2>5, Zenon DEF Contract!Due
    <3> QED
      BY <2>5, <3>1, Zenon DEF Reject, Contract!TurnDown
  <2>6. CASE (wire.quality = "malformed" \/ RolledOutside(wire.work.bits)) /\ RejectInvalid
    <3>1. Contract!Malformed(wire)
      BY <2>6, Zenon DEF RolledOutside, Contract!Malformed
    <3> QED
      BY <2>6, <3>1, ChargeKeeps, Zenon DEF Contract!Deserved
  <2>7. CASE /\ ~seen /\ ~entry.superseded_by_clean /\ wire.quality = "good"
             /\ ~RolledOutside(wire.work.bits) /\ accept_share(entry, wire.work)
    <3>1. wire.work.bits \subseteq MaskBits
      BY Zenon DEF Shares, Work
    <3>2. ~Contract!Malformed(wire)
      BY <2>7, <3>1, Zenon DEF Contract!Malformed, RolledOutside
    <3>3. Contract!Due(wire)
      BY <1>2, <2>1, <2>2, <2>7, <3>2, Zenon DEF Contract!Due
    <3>4. /\ UNCHANGED invalid_shares
          /\ credited' = Append(credited, [payee |-> identity, paid |-> job.payee,
                                           number |-> job.number, work |-> wire.work])
      BY <2>1, <2>7, Zenon DEF accept_share
    <3> HIDE DEF job
    <3>5. job \in Contract!Named(wire.id)
      BY <1>2, Zenon DEF job
    <3> QED
      BY <3>3, <3>4, <3>5, Zenon DEF Contract!Credit
  <2>8. wire.quality \in {"good", "low", "malformed", "short"}
    BY Zenon DEF Shares
  <2> QED
    BY <2>3, <2>4, <2>5, <2>6, <2>7, <2>8, Zenon DEF validate_share_no_dedup
<1> QED
  BY <1>1, <1>2, Resolve, Zenon

(* What a session that is not ready has to judge, it turns down. *)
LEMMA NothingDue ==
    ASSUME TypeInv, HistoryInv, ~ready, NEW share
    PROVE  ~Contract!Due(share)
<1>1. Contract!Recent(sent, JOB_HISTORY_DEPTH) = {}
  BY DEF HistoryInv, Contract!Recent
<1> QED
  BY <1>1, Zenon DEF Contract!Due, Contract!Named

\* SV1 shares carry a name, SV2 shares none.
WireInv == wire # NoShare => (wire.name = NoOne <=> proto = "sv2")

(* handle_submit, of both protocols. *)
LEMMA SubmitKeeps ==
    ASSUME TypeInv, HistoryInv, IdsInv, DedupInv, WireInv, handle_submit_sv1 \/ handle_submit_sv2
    PROVE  Contract!Answer
<1>1. TakeShare
  BY Zenon DEF handle_submit_sv1, handle_submit_sv2
<1>2. /\ wire # NoShare /\ wire' = NoShare /\ wire \in Shares
      /\ UNCHANGED <<proto, rolling, mask, worker, identity, sent>>
  BY <1>1, Zenon DEF TakeShare, greeting, TypeInv, Wires
<1>3. Contract!Credit(wire) \/ Contract!Blame(wire) \/ Contract!TurnDown(wire)
  <2>1. CASE handle_submit_sv1 /\ (~ready \/ worker # wire.name)
    <3>1. ~Contract!Addressed(wire)
      BY <1>2, <2>1, Zenon DEF handle_submit_sv1, WireInv, TypeInv, Who, Contract!Addressed
    <3>2. Reject
      BY <2>1, Zenon DEF handle_submit_sv1
    <3> QED
      BY <3>1, <3>2, Zenon DEF Reject, Contract!TurnDown, Contract!Due
  <2>2. CASE handle_submit_sv1 /\ ready /\ worker = wire.name
    <3>1. Judge(Found(wire.id), wire) /\ Contract!Addressed(wire)
      BY <2>2, Zenon DEF handle_submit_sv1, Found, Contract!Addressed
    <3> QED
      BY <1>2, <3>1, JudgeKeeps, Zenon
  <2>3. CASE handle_submit_sv2 /\ ~ready
    <3>1. UNCHANGED <<invalid_shares, credited>>
      BY <2>3, Zenon DEF handle_submit_sv2
    <3> QED
      BY <2>3, <3>1, NothingDue, Zenon DEF Contract!TurnDown
  <2>4. CASE handle_submit_sv2 /\ ready
    <3>1. Contract!Addressed(wire)
      BY <1>2, <2>4, Zenon DEF handle_submit_sv2, WireInv, Contract!Addressed
    <3>2. CASE wire.quality = "short"
      <4>1. RejectInvalid
        BY <2>4, <3>2, Zenon DEF handle_submit_sv2
      <4>2. Contract!Deserved(wire)
        BY <3>1, <3>2, Zenon DEF Contract!Deserved, Contract!Malformed
      <4> QED
        BY <4>1, <4>2, ChargeKeeps, Zenon
    <3>3. CASE wire.quality # "short"
      <4>1. Judge(Found(wire.id), wire)
        BY <2>4, <3>3, Zenon DEF handle_submit_sv2, Found
      <4> QED
        BY <1>2, <3>1, <4>1, JudgeKeeps, Zenon
    <3> QED
      BY <3>2, <3>3, Zenon
  <2> QED
    BY <2>1, <2>2, <2>3, <2>4, Zenon DEF TypeInv, Flags
<1> QED
  BY <1>2, <1>3, Zenon DEF Contract!Answer

(* A job that is built and sent is what the contract calls sending. *)
LEMMA SendKeeps ==
    ASSUME TypeInv, NEW jobs \in Seq(Entry(Jobs)), Len(jobs) <= JOB_HISTORY_DEPTH,
           NEW h \in Seq(SentJobs), NEW who \in Identities, NEW clean \in BOOLEAN,
           build_notify(jobs, h, who, clean) \/ send_job(jobs, h, who, clean)
    PROVE  Contract!Sends(h, who, clean)
<1>0. nextJob \in Nat /\ next_job_id \in Nat
  BY DEF TypeInv, JobTable, IdTable
<1>1. PICK id \in Nat : Send(jobs, h, who, clean, id)
  BY <1>0, Zenon DEF build_notify, send_job
<1>2. Sent(h, sent', id, nextJob, who, clean) /\ JobTable'
  BY <1>0, <1>1, SendStep, SentFields, Zenon
<1>3. sent' \in Seq(SentJobs) /\ Len(h) \in Nat /\ Len(sent') = Len(h) + 1
  BY <1>2, Zenon DEF JobTable, Sent
<1> DEFINE job == sent'[Len(h) + 1]
<1> DEFINE kept(i) == [id |-> h[i].id, number |-> h[i].number,
                       payee |-> h[i].payee, live |-> h[i].live /\ ~clean]
<1> DEFINE before == [i \in 1 .. Len(h) |-> kept(i)]
<1>4. job \in SentJobs /\ job.payee = who /\ job.live
  <2>1. job \in SentJobs
    BY <1>3
  <2>2. job.payee = who /\ job.live = TRUE
    BY <1>2, Zenon DEF Sent
  <2> QED
    BY <2>1, <2>2, Zenon
<1>5. ASSUME NEW i \in 1 .. Len(h)
      PROVE  sent'[i] = kept(i) /\ kept(i) \in SentJobs
  <2>1. sent'[i] \in SentJobs /\ h[i] \in SentJobs
    BY <1>3
  <2>2. /\ sent'[i].id = h[i].id /\ sent'[i].number = h[i].number /\ sent'[i].payee = h[i].payee
        /\ sent'[i].live <=> h[i].live /\ ~clean
    BY <1>2, Zenon DEF Sent
  <2>3. sent'[i].live = (h[i].live /\ ~clean)
    BY <2>1, <2>2, Zenon DEF SentJobs
  <2>4. sent'[i] = [id |-> sent'[i].id, number |-> sent'[i].number,
                    payee |-> sent'[i].payee, live |-> sent'[i].live]
    BY <2>1, Zenon DEF SentJobs
  <2> QED
    BY <2>1, <2>2, <2>3, <2>4, Zenon
<1> HIDE DEF kept
<1>6. before \in Seq(SentJobs) /\ Len(before) = Len(h) /\ \A i \in 1 .. Len(h) : before[i] = sent'[i]
  <2>1. before \in [1 .. Len(h) -> SentJobs] /\ \A i \in 1 .. Len(h) : before[i] = sent'[i]
    BY <1>5, Zenon
  <2> HIDE DEF before
  <2> QED
    BY <1>3, <2>1
<1>7. Contract!After(h, job, clean) = Append(before, job)
  BY Zenon DEF Contract!After, kept
<1> HIDE DEF before, job
<1>8. /\ Append(before, job) \in Seq(SentJobs) /\ Len(Append(before, job)) = Len(h) + 1
      /\ Append(before, job)[Len(h) + 1] = job
      /\ \A i \in 1 .. Len(h) : Append(before, job)[i] = before[i]
  <2>1. job \in SentJobs /\ before \in Seq(SentJobs) /\ Len(before) = Len(h)
    BY <1>4, <1>6, Zenon
  <2> QED
    BY <2>1, AppendSeq
<1>9. sent' = Append(before, job)
  <2> DEFINE r == Append(before, job)
  <2> HIDE DEF r
  <2>1. r \in Seq(SentJobs) /\ Len(r) = Len(sent')
    BY <1>3, <1>8, Zenon DEF r
  <2>2. \A i \in 1 .. Len(sent') : r[i] = sent'[i]
    BY <1>3, <1>6, <1>8, SMTT(30) DEF r, job
  <2> QED
    BY <1>3, <2>1, <2>2 DEF r
<1>10. sent' # <<>> /\ sent'[Len(sent')] = job
  BY <1>3 DEF job
<1> QED
  BY <1>4, <1>7, <1>9, <1>10 DEF Contract!Sends

(* A broadcast. *)
LEMMA RecvJobKeeps ==
    ASSUME TypeInv, NEW clean \in BOOLEAN, RecvJob(clean)
    PROVE  Contract!Next
<1>1. UNCHANGED <<proto, rolling, mask, worker, identity, credited, invalid_shares, wire>>
  BY Zenon DEF RecvJob, greeting
<1>2. CASE ready
  <2>1. /\ issued_jobs \in Seq(Entry(Jobs)) /\ Len(issued_jobs) <= JOB_HISTORY_DEPTH
        /\ sent \in Seq(SentJobs) /\ identity \in Identities /\ identity # NoOne
    BY <1>2, SessionAssumption, Zenon DEF TypeInv, JobTable, Who
  <2>2. build_notify(issued_jobs, sent, identity, clean)
        \/ send_job(issued_jobs, sent, identity, clean)
    BY <1>2, Zenon DEF RecvJob
  <2>3. Contract!Sends(sent, identity, clean)
    BY <2>1, <2>2, SendKeeps, Zenon
  <2>4. Contract!Send
    BY <1>1, <2>1, <2>3, Zenon DEF Contract!Send
  <2> QED
    BY <2>4, Zenon DEF Contract!Next
<1>3. CASE ~ready
  BY <1>1, <1>3, Zenon DEF RecvJob, Contract!Negotiate, Contract!Next
<1> QED
  BY <1>2, <1>3, Zenon

(* mining.authorize. *)
LEMMA AuthorizeKeeps ==
    ASSUME TypeInv, NEW typed \in Names, handle_authorize(typed)
    PROVE  Contract!Next
<1> USE SessionAssumption
<1> DEFINE who == Canonical[typed]
<1> DEFINE new == who # identity
<1> DEFINE jobs == ClearedIf(new, issued_jobs)
<1> DEFINE kept == IF new THEN <<>> ELSE sent
<1>1. CASE new /\ ~WithinBudget
  BY <1>1, Zenon DEF handle_authorize, TooManyIdentities, tables, Contract!Negotiate, Contract!Next
<1>2. CASE ~(new /\ ~WithinBudget)
  <2>1. /\ worker' = typed /\ identity' = who
        /\ build_notify(jobs, kept, who, TRUE) \/ sent' = kept
        /\ UNCHANGED <<proto, rolling, mask, invalid_shares, wire, credited>>
    BY <1>2, Zenon DEF handle_authorize, greeting
  <2>2. /\ jobs \in Seq(Entry(Jobs)) /\ Len(jobs) <= JOB_HISTORY_DEPTH
        /\ kept \in Seq(SentJobs) /\ who \in Identities /\ typed # NoOne
    BY DepthAssumption DEF TypeInv, JobTable, ClearedIf
  <2>3. kept = IF identity' = identity THEN sent ELSE <<>>
    BY <2>1, Zenon
  <2> HIDE DEF jobs, kept, who, new
  <2>4. sent' = kept \/ Contract!Sends(kept, identity', TRUE)
    <3>1. CASE build_notify(jobs, kept, who, TRUE)
      <4>1. Contract!Sends(kept, who, TRUE)
        BY <2>2, <3>1, SendKeeps, Zenon
      <4> QED
        BY <2>1, <4>1, Zenon
    <3> QED
      BY <2>1, <3>1, Zenon
  <2>5. Contract!Authorise
    BY <2>1, <2>2, <2>3, <2>4, Zenon DEF Contract!Authorise
  <2> QED
    BY <2>5, Zenon DEF Contract!Next
<1> QED
  BY <1>1, <1>2, Zenon

(* OpenExtendedMiningChannel. *)
LEMMA OpenKeeps ==
    ASSUME TypeInv, HistoryInv, NEW typed \in Names, NEW fits \in BOOLEAN,
           handle_open_extended(typed, fits)
    PROVE  Contract!Next
<1> USE SessionAssumption
<1> DEFINE who == Canonical[typed]
<1>1. /\ worker = NoOne /\ identity = NoOne /\ sent = <<>>
      /\ who \in Identities /\ who # NoOne /\ typed # NoOne
      /\ issued_jobs \in Seq(Entry(Jobs)) /\ Len(issued_jobs) <= JOB_HISTORY_DEPTH
      /\ sent \in Seq(SentJobs)
      /\ UNCHANGED <<proto, rolling, mask, invalid_shares, wire, credited>>
  BY DEF handle_open_extended, greeting, TypeInv, Who, JobTable, HistoryInv
<1>2. CASE UNCHANGED <<worker, identity, sent>>
  BY <1>1, <1>2, Zenon DEF Contract!Negotiate, Contract!Next
<1>3. CASE /\ worker' = typed /\ identity' = who
           /\ send_job(issued_jobs, sent, who, TRUE) \/ UNCHANGED sent
  <2> HIDE DEF who
  <2>1. sent' = <<>> \/ Contract!Sends(<<>>, identity', TRUE)
    <3>1. CASE send_job(issued_jobs, sent, who, TRUE)
      <4>1. Contract!Sends(sent, who, TRUE)
        BY <1>1, <3>1, SendKeeps, Zenon
      <4> QED
        BY <1>1, <1>3, <4>1, Zenon
    <3> QED
      BY <1>1, <1>3, <3>1, Zenon
  <2>2. Contract!Authorise
    BY <1>1, <1>3, <2>1, Zenon DEF Contract!Authorise
  <2> QED
    BY <2>2, Zenon DEF Contract!Next
<1> QED
  BY <1>1, <1>2, <1>3, Zenon DEF handle_open_extended, tables

\* Every step keeps the shares under way named, or nameless, as their protocol has them.
LEMMA WireStep == TypeInv /\ WireInv /\ [Next]_vars => WireInv'
BY Zenon DEF TypeInv, Flags, WireInv, Next, vars, greeting, handle_configure, handle_subscribe,
       handle_setup_connection, RecvJob, handle_authorize, TooManyIdentities,
       handle_open_extended, Mine, handle_submit_sv1, handle_submit_sv2, TakeShare, EndSession

(* KeepsContract: the bounded tables decide as the contract's full memory     *)
(* does.  HistoryInv ties the job table to the jobs sent, IdsInv the channel's*)
(* ids to it, and DedupInv the dedup set to the credits: what it has          *)
(* forgotten is older than the contract remembers or of a job retired since   *)
(* (jobs.rs:31-53, sv2/mod.rs:172-191, validator.rs:76-157).                  *)
THEOREM SessionKeepsContract == Spec => KeepsContract
<1> DEFINE Inv == TypeInv /\ HistoryInv /\ IdsInv /\ DedupInv /\ WireInv
<1>1. Init => Inv /\ Contract!Init
  <2> SUFFICES ASSUME Init PROVE Inv /\ Contract!Init
    BY Zenon
  <2>1. TypeInv
    BY TypeInit, Zenon
  <2>2. HistoryInv
    BY HistoryInit, Zenon
  <2>3. IdsInv
    BY DEF Init, IdsInv
  <2>4. DedupInv
    <3>1. share_set = <<>> /\ credited = <<>> /\ sent = <<>> /\ Len(credited) = 0 /\ Len(share_set) = 0
      BY Zenon DEF Init
    <3>2. Remembered(share_set, credited) /\ Older(credited, nextJob)
      BY <3>1 DEF Remembered, Older
    <3>3. Forgotten(share_set, credited, sent)
      BY <3>1 DEF Forgotten
    <3> QED
      BY <3>2, <3>3, Zenon DEF DedupInv
  <2>5. WireInv /\ Contract!Init
    BY Zenon DEF Init, WireInv, Contract!Init
  <2> QED
    BY <2>1, <2>2, <2>3, <2>4, <2>5, Zenon
<1>2. Inv /\ [Next]_vars => Inv'
  BY TypeStep, HistoryStep, IdsStep, DedupStep, WireStep, Zenon
<1>3. Inv /\ [Next]_vars => [Contract!Next]_(Contract!vars)
  <2> SUFFICES ASSUME Inv, [Next]_vars PROVE Contract!Next \/ UNCHANGED Contract!vars
    BY Zenon
  <2>1. CASE \E clean \in BOOLEAN : RecvJob(clean)
    BY <2>1, RecvJobKeeps, Zenon
  <2>2. CASE \E typed \in Names : handle_authorize(typed)
    BY <2>2, AuthorizeKeeps, Zenon
  <2>3. CASE \E typed \in Names, fits \in BOOLEAN : handle_open_extended(typed, fits)
    BY <2>3, OpenKeeps, Zenon
  <2>4. CASE handle_submit_sv1 \/ handle_submit_sv2
    BY <2>4, SubmitKeeps, Zenon DEF Contract!Next
  <2>5. CASE \E share \in Shares : Mine(share)
    <3>1. /\ wire = NoShare
          /\ UNCHANGED <<proto, rolling, mask, worker, identity, sent, credited, invalid_shares>>
      BY <2>5, Zenon DEF Mine, greeting, tables
    <3>2. CASE wire' = NoShare
      BY <3>1, <3>2, Zenon DEF Contract!Negotiate, Contract!Next
    <3>3. CASE wire' # NoShare
      BY <3>1, <3>3, Zenon DEF Contract!Ask, Contract!Next
    <3> QED
      BY <3>2, <3>3, Zenon
  <2>6. CASE UNCHANGED <<worker, identity, sent, credited, invalid_shares, wire>>
    BY <2>6, Zenon DEF Contract!Negotiate, Contract!Next
  <2> QED
    BY <2>1, <2>2, <2>3, <2>4, <2>5, <2>6
       DEF Next, vars, tables, handle_configure, handle_subscribe, handle_setup_connection,
           EndSession
<1> QED
  BY <1>1, <1>2, <1>3, PTL DEF Spec, KeepsContract, Contract!Spec
=============================================================================
