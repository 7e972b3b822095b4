------------------------- MODULE StatsWriterProofs -------------------------
(***************************************************************************)
(* What one step of the stats writer does to the writes in flight, for any *)
(* kind of write and any backlog cap.  The components that extend          *)
(* StatsWriter reason about InFlight through these lemmas only.            *)
(***************************************************************************)
EXTENDS StatsWriter, TLAPS

(* push_back adds one write at the end of a queue and nothing else. *)
LEMMA RangeAppend ==
    ASSUME NEW S, NEW s \in Seq(S), NEW x \in S
    PROVE  /\ Append(s, x) \in Seq(S)
           /\ Len(Append(s, x)) = Len(s) + 1
           /\ Range(Append(s, x)) = Range(s) \cup {x}
<1>1. /\ Append(s, x) \in Seq(S)
      /\ Len(Append(s, x)) = Len(s) + 1
      /\ \A i \in 1..Len(s) : Append(s, x)[i] = s[i]
      /\ Append(s, x)[Len(s) + 1] = x
  OBVIOUS
<1>2. DOMAIN Append(s, x) = DOMAIN s \cup {Len(s) + 1}
  BY <1>1
<1>3. DOMAIN s = 1..Len(s)
  OBVIOUS
<1> QED
  BY <1>1, <1>2, <1>3 DEF Range

(* pop_front removes at most the front write. *)
LEMMA RangeTail ==
    ASSUME NEW S, NEW s \in Seq(S), s # <<>>
    PROVE  /\ Head(s) \in S
           /\ Tail(s) \in Seq(S)
           /\ Len(Tail(s)) = Len(s) - 1
           /\ Len(s) \in Nat \ {0}
           /\ Range(s) = {Head(s)} \cup Range(Tail(s))
<1>1. /\ Len(s) \in Nat \ {0}
      /\ Head(s) = s[1] /\ Head(s) \in S
      /\ Tail(s) \in Seq(S)
      /\ Len(Tail(s)) = Len(s) - 1
      /\ \A i \in 1..(Len(s) - 1) : Tail(s)[i] = s[i + 1]
  OBVIOUS
<1>2. DOMAIN s = 1..Len(s) /\ DOMAIN Tail(s) = 1..(Len(s) - 1)
  BY <1>1
<1>3. Range(Tail(s)) \subseteq Range(s)
  BY <1>1, <1>2 DEF Range
<1>4. Head(s) \in Range(s)
  BY <1>1, <1>2 DEF Range
<1>5. ASSUME NEW i \in 1..Len(s), i # 1
      PROVE  s[i] \in Range(Tail(s))
  <2>1. i - 1 \in 1..(Len(s) - 1) /\ Tail(s)[i - 1] = s[i]
    BY <1>1, <1>5
  <2> QED
    BY <2>1, <1>2, Zenon DEF Range
<1>6. Range(s) \subseteq {Head(s)} \cup Range(Tail(s))
  BY <1>1, <1>2, <1>5 DEF Range
<1> QED
  BY <1>1, <1>3, <1>4, <1>6

(* pop_front then push_back, as the backlog does at its cap. *)
LEMMA RangeEvict ==
    ASSUME NEW S, NEW s \in Seq(S), s # <<>>, NEW x \in S
    PROVE  /\ Append(Tail(s), x) \in Seq(S)
           /\ Len(Append(Tail(s), x)) = Len(s)
           /\ Range(Append(Tail(s), x)) = Range(Tail(s)) \cup {x}
<1>1. \A r \in Seq(S) : /\ Append(r, x) \in Seq(S)
                        /\ Len(Append(r, x)) = Len(r) + 1
                        /\ Range(Append(r, x)) = Range(r) \cup {x}
  BY RangeAppend
<1>2. Tail(s) \in Seq(S) /\ Len(Tail(s)) = Len(s) - 1 /\ Len(s) \in Nat
  BY RangeTail
<1>3. Range(Append(Tail(s), x)) = Range(Tail(s)) \cup {x}
  BY <1>1, <1>2, Zenon
<1> QED
  BY <1>2, <1>3

(* A channel or backlog that is empty holds no write. *)
LEMMA RangeEmpty == Range(<<>>) = {}
BY DEF Range

(* The write in hand is the only element of a sequence of length one. *)
LEMMA RangeSingle ==
    ASSUME NEW S, NEW x \in S
    PROVE  <<x>> \in Seq(S) /\ Len(<<x>>) = 1 /\ Range(<<x>>) = {x} /\ Head(<<x>>) = x
<1>1. <<x>> \in Seq(S) /\ Len(<<x>>) = 1 /\ DOMAIN <<x>> = {1} /\ <<x>>[1] = x
  OBVIOUS
<1> QED
  BY <1>1 DEF Range

(* What `next` holds, when it holds something. *)
LEMMA InHandSingle ==
    ASSUME NEW S, WriterTypeOK(S), inHand # <<>>
    PROVE  Head(inHand) \in S /\ Range(inHand) = {Head(inHand)}
<1>1. inHand \in Seq(S) /\ Len(inHand) <= 1
  BY DEF WriterTypeOK
<1>2. Tail(inHand) = <<>>
  BY <1>1, RangeTail
<1>3. Head(inHand) \in S /\ Range(inHand) = {Head(inHand)} \cup Range(Tail(inHand))
  BY <1>1, RangeTail
<1>4. Range(Tail(inHand)) = {}
  BY <1>2, RangeEmpty, Zenon
<1> QED
  BY <1>3, <1>4

-----------------------------------------------------------------------------
(* enqueue never drops: the write is in flight, with everything before it. *)
LEMMA EnqueueStep ==
    ASSUME NEW S, WriterTypeOK(S), NEW w \in S, Enqueue(w)
    PROVE  /\ WriterTypeOK(S)'
           /\ InFlight' = InFlight \cup {w}
           /\ overflowed' = overflowed
<1>1. queue' \in Seq(S) /\ Range(queue') = Range(queue) \cup {w}
  BY RangeAppend DEF WriterTypeOK, Enqueue
<1>2. WriterTypeOK(S)'
  BY <1>1 DEF WriterTypeOK, Enqueue
<1> QED
  BY <1>1, <1>2 DEF InFlight, Enqueue

(* Taking a write from the channel, or timing out, loses nothing. *)
LEMMA ReceiveStep ==
    ASSUME NEW S, WriterTypeOK(S), ReceiveWrite \/ ReceiveTimeout
    PROVE  /\ WriterTypeOK(S)'
           /\ InFlight' = InFlight
           /\ overflowed' = overflowed
<1>1. CASE ReceiveWrite
  <2>1. /\ Head(queue) \in S
        /\ Tail(queue) \in Seq(S)
        /\ Range(queue) = {Head(queue)} \cup Range(Tail(queue))
    BY <1>1, RangeTail DEF WriterTypeOK, ReceiveWrite
  <2>2. /\ inHand' \in Seq(S) /\ Len(inHand') = 1
        /\ Range(inHand') = {Head(queue)}
    BY <1>1, <2>1, RangeSingle DEF ReceiveWrite
  <2>3. Range(inHand) = {}
    BY <1>1, RangeEmpty DEF ReceiveWrite, Waiting
  <2>4. WriterTypeOK(S)'
    BY <1>1, <2>1, <2>2 DEF WriterTypeOK, ReceiveWrite
  <2> QED
    BY <1>1, <2>1, <2>2, <2>3, <2>4 DEF InFlight, ReceiveWrite
<1>2. CASE ReceiveTimeout
  <2>1. WriterTypeOK(S)'
    BY <1>2 DEF WriterTypeOK, ReceiveTimeout
  <2> QED
    BY <1>2, <2>1 DEF InFlight, ReceiveTimeout
<1> QED
  BY <1>1, <1>2

(* The write being applied is one of those in flight. *)
LEMMA CurrentInFlight ==
    ASSUME NEW S, WriterTypeOK(S), Attempting
    PROVE  Current \in S /\ Current \in InFlight
<1>1. CASE retries > 0
  <2>1. backlog # <<>>
    BY <1>1 DEF WriterTypeOK
  <2> QED
    BY <1>1, <2>1, RangeTail DEF WriterTypeOK, Current, InFlight
<1>2. CASE ~(retries > 0)
  BY <1>2, InHandSingle DEF Attempting, Current, InFlight
<1> QED
  BY <1>1, <1>2

(* A committed write leaves; no other does, and none is added. *)
LEMMA AppliedStep ==
    ASSUME NEW S, WriterTypeOK(S), Attempting, WriteApplied
    PROVE  /\ WriterTypeOK(S)'
           /\ InFlight' \subseteq InFlight
           /\ InFlight \subseteq InFlight' \cup {Current}
           /\ overflowed' = overflowed
<1>1. CASE RetryApplied
  <2>1. backlog # <<>>
    BY <1>1 DEF WriterTypeOK, RetryApplied
  <2>2. /\ Tail(backlog) \in Seq(S)
        /\ Len(Tail(backlog)) = Len(backlog) - 1
        /\ Len(backlog) \in Nat \ {0}
        /\ Range(backlog) = {Head(backlog)} \cup Range(Tail(backlog))
    BY <2>1, RangeTail DEF WriterTypeOK
  <2>3. WriterTypeOK(S)'
    BY <1>1, <2>2, MaxBacklogAssumption DEF WriterTypeOK, RetryApplied
  <2> QED
    BY <1>1, <2>2, <2>3 DEF InFlight, RetryApplied, Current
<1>2. CASE HandleApplied
  <2>1. Range(inHand) = {Head(inHand)} /\ Range(<<>>) = {}
    BY <1>2, InHandSingle, RangeEmpty DEF HandleApplied
  <2>2. WriterTypeOK(S)'
    BY <1>2 DEF WriterTypeOK, HandleApplied
  <2> QED
    BY <1>2, <2>1, <2>2 DEF InFlight, HandleApplied, Current, WriterTypeOK
<1> QED
  BY <1>1, <1>2 DEF WriteApplied

(* A failed durable write stays in flight, with all the others, unless the *)
(* backlog overflows; a failed write of another kind is dropped alone.     *)
LEMMA FailedStep ==
    ASSUME NEW S, WriterTypeOK(S), NEW durable \in BOOLEAN, Attempting, WriteFailed(durable)
    PROVE  /\ WriterTypeOK(S)'
           /\ InFlight' \subseteq InFlight
           /\ ~overflowed' => ~overflowed
           /\ ~overflowed' => InFlight \subseteq InFlight' \cup {Current}
           /\ ~overflowed' /\ durable => InFlight' = InFlight
<1>1. CASE RetryFailed
  <2>1. WriterTypeOK(S)'
    BY <1>1 DEF WriterTypeOK, RetryFailed
  <2> QED
    BY <1>1, <2>1 DEF InFlight, RetryFailed
<1>2. CASE HandleFailed(durable)
  <2>1. /\ Range(inHand) = {Head(inHand)} /\ Head(inHand) \in S /\ Range(<<>>) = {}
        /\ <<>> \in Seq(S) /\ Len(<<>>) = 0
    BY <1>2, InHandSingle, RangeEmpty DEF HandleFailed
  <2>2. CASE ~durable
    <3>1. WriterTypeOK(S)'
      BY <1>2, <2>1, <2>2 DEF WriterTypeOK, HandleFailed
    <3> QED
      BY <1>2, <2>1, <2>2, <3>1 DEF InFlight, HandleFailed, Current, WriterTypeOK
  <2>3. CASE durable /\ Full
    <3>1. Len(backlog) \in Nat /\ Len(backlog) <= MaxBacklog /\ Len(backlog) >= MaxBacklog
      BY <2>3 DEF WriterTypeOK, Full
    <3>2. backlog # <<>>
      BY <3>1, MaxBacklogAssumption DEF WriterTypeOK
    <3>3. /\ Tail(backlog) \in Seq(S)
          /\ Len(Tail(backlog)) = Len(backlog) - 1
          /\ Range(backlog) = {Head(backlog)} \cup Range(Tail(backlog))
      BY <3>2, RangeTail DEF WriterTypeOK
    <3>4. backlog' = Append(Tail(backlog), Head(inHand))
      BY <1>2, <2>3 DEF HandleFailed, Park
    <3>5. /\ backlog' \in Seq(S)
          /\ Len(backlog') = Len(backlog)
          /\ Range(backlog') = Range(Tail(backlog)) \cup {Head(inHand)}
      BY <2>1, <3>2, <3>4, RangeEvict DEF WriterTypeOK
    <3>6. WriterTypeOK(S)'
      BY <1>2, <2>1, <3>1, <3>3, <3>5 DEF WriterTypeOK, HandleFailed
    <3>7. overflowed'
      BY <1>2, <2>3, Zenon DEF HandleFailed
    <3> QED
      BY <1>2, <2>1, <3>3, <3>5, <3>6, <3>7 DEF InFlight, HandleFailed
  <2>4. CASE durable /\ ~Full
    <3>1. Len(backlog) \in Nat /\ Len(backlog) + 1 <= MaxBacklog
      BY <2>4, MaxBacklogAssumption DEF WriterTypeOK, Full
    <3>2. backlog' = Append(backlog, Head(inHand))
      BY <1>2, <2>4 DEF HandleFailed, Park
    <3>3. /\ backlog' \in Seq(S)
          /\ Len(backlog') = Len(backlog) + 1
          /\ Range(backlog') = Range(backlog) \cup {Head(inHand)}
      BY <2>1, <3>2, RangeAppend DEF WriterTypeOK
    <3>4. WriterTypeOK(S)'
      BY <1>2, <2>1, <3>1, <3>3 DEF WriterTypeOK, HandleFailed
    <3>5. overflowed' = overflowed
      BY <1>2, <2>4 DEF HandleFailed, WriterTypeOK
    <3> QED
      BY <1>2, <2>1, <3>3, <3>4, <3>5 DEF InFlight, HandleFailed
  <2> QED
    BY <2>2, <2>3, <2>4
<1> QED
  BY <1>1, <1>2 DEF WriteFailed

(* A process death takes every write in flight with it. *)
LEMMA LostStep ==
    ASSUME NEW S, WriterLost
    PROVE  WriterTypeOK(S)' /\ InFlight' = {} /\ ~overflowed'
<1>1. <<>> \in Seq(S) /\ Len(<<>>) <= 1 /\ 0 \in 0..Len(<<>>) /\ Range(<<>>) = {}
  BY RangeEmpty
<1>2. Len(<<>>) <= MaxBacklog
  BY MaxBacklogAssumption
<1>3. WriterTypeOK(S)'
  BY <1>1, <1>2, Zenon DEF WriterLost, WriterTypeOK
<1>4. InFlight' = {} /\ ~overflowed'
  BY <1>1 DEF WriterLost, InFlight
<1> QED
  BY <1>3, <1>4

(* The writer starts with nothing in flight. *)
LEMMA WriterStarts ==
    ASSUME NEW S, WriterInit
    PROVE  WriterTypeOK(S) /\ InFlight = {} /\ ~overflowed
<1>1. <<>> \in Seq(S) /\ Len(<<>>) <= 1 /\ 0 \in 0..Len(<<>>) /\ Range(<<>>) = {}
  BY RangeEmpty
<1>2. Len(<<>>) <= MaxBacklog
  BY MaxBacklogAssumption
<1>3. WriterTypeOK(S)
  BY <1>1, <1>2, Zenon DEF WriterInit, WriterTypeOK
<1>4. InFlight = {} /\ ~overflowed
  BY <1>1 DEF WriterInit, InFlight
<1> QED
  BY <1>3, <1>4

(* A step that leaves the writer alone. *)
LEMMA WriterIdle ==
    ASSUME NEW S, WriterTypeOK(S), UNCHANGED writerVars
    PROVE  WriterTypeOK(S)' /\ InFlight' = InFlight /\ overflowed' = overflowed
BY DEF writerVars, WriterTypeOK, InFlight
=============================================================================
