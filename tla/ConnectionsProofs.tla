------------------------- MODULE ConnectionsProofs -------------------------
(***************************************************************************)
(* The counters, the bans, the limit and the presence counts hold for any  *)
(* number of connections, addresses and workers.                           *)
(***************************************************************************)
EXTENDS Connections, FiniteSetTheorems, SequenceTheorems, WellFoundedInduction, TLAPS

(* The sessions of w that are in mark_worker_online again: they have the name, and   *)
(* are not counted.                                                                  *)
Renewing(w) == {c \in Online(w) : ~Idle(c)}

Session == [name : Names \cup {NoOne}, call : {"none", "online", "insert"}, new : Names \cup {NoOne}]

PresenceTypes ==
    /\ worker_states \in [Names -> Nat \cup {Absent}]
    /\ session \in [Conns -> Session]
    /\ stale \subseteq Names
    /\ raced \subseteq Names

InCall(c) == ~Idle(c) => session[c].new \in Names /\ Named(c) \in {NoOne, session[c].new}

Counts(w) ==
    /\ ActiveSessions(w) + Cardinality(Renewing(w)) <= Cardinality(Online(w))
    /\ w \notin raced => ActiveSessions(w) = Cardinality(Online(w))
    /\ Renewing(w) # {} => w \in raced

PresenceInv ==
    /\ PresenceTypes
    /\ \A c \in Conns : InCall(c)
    /\ \A w \in Names : Counts(w)

-----------------------------------------------------------------------------

Stages == {"none", "accepted", "peek", "unbanned", "noise", "live", "leaving"}

TaskTypes ==
    /\ acceptor \in [at : {"accept", "reserve", "check", "limit"}, peer : Conns \cup {NoOne}]
    /\ task \in [Conns -> Stages]
    /\ active_count \in Nat /\ connected \in Nat

Slots == {c \in Conns : HoldsSlot(c)}
Miner(stage) == stage \in {"live", "leaving"}
Miners == {c \in Conns : Miner(task[c])}

(* The accept loop has one connection at hand, and a call is made by a live session. *)
OneAtHand ==
    /\ acceptor.at # "accept" => acceptor.peer \in Conns /\ task[acceptor.peer] = "accepted"
    /\ \A c \in Conns : task[c] = "accepted" => acceptor.at # "accept" /\ acceptor.peer = c

CallersLive == \A c \in Conns : ~Idle(c) => task[c] = "live"

TasksInv == TaskTypes /\ OneAtHand /\ CountersMatch

BansType == bans \in [Ips -> Int] /\ \A ip \in Ips : -1 <= bans[ip] /\ bans[ip] <= BanDuration

-----------------------------------------------------------------------------

OldestFirst(ages) == \A i, j \in DOMAIN ages : i <= j => ages[i] >= ages[j]

(* What the limiter would count now is what really came within the minute. *)
WindowInv(ip) ==
    /\ windows[ip] \in Seq(Nat) /\ OldestFirst(windows[ip])
    /\ lately[ip] = Recent(windows[ip])
    /\ Len(lately[ip]) <= MaxPerMinute

WindowsInv ==
    /\ windows \in [Ips -> Seq(Nat)] /\ lately \in [Ips -> Seq(Nat)]
    /\ \A ip \in Ips : WindowInv(ip)
-----------------------------------------------------------------------------
(* Sets of connections are finite. *)
LEMMA ConnsAreFinite ==
    \A S \in SUBSET Conns : IsFiniteSet(S) /\ Cardinality(S) \in Nat
BY PresenceAssumption, FS_Subset, FS_CardinalityType, Zenon

(* One more, one fewer, part of them, none *)
LEMMA CountingConns ==
    ASSUME NEW S \in SUBSET Conns
    PROVE  /\ \A c \in Conns \ S : Cardinality(S \cup {c}) = Cardinality(S) + 1
           /\ \A c \in S : Cardinality(S \ {c}) = Cardinality(S) - 1
           /\ \A T \in SUBSET S : Cardinality(T) <= Cardinality(S)
           /\ Cardinality(S) = 0 <=> S = {}
BY ConnsAreFinite, FS_AddElement, FS_RemoveElement, FS_Subset, FS_EmptySet, Zenon

\* The sessions online under a name are connections; those renewing it are among them.
LEMMA OnlineSets == \A w : Online(w) \in SUBSET Conns /\ Renewing(w) \in SUBSET Online(w)
BY Zenon DEF Online, Renewing

(* The counts of a worker no part of whose state changes *)
LEMMA UnmovedCounts ==
    ASSUME NEW w \in Names, Counts(w), worker_states'[w] = worker_states[w],
           Online(w)' = Online(w), Renewing(w)' = Renewing(w), w \in raced' <=> w \in raced
    PROVE  Counts(w)'
BY Zenon DEF Counts, ActiveSessions

\* At the start nobody is online and nobody is counted.
LEMMA PresenceInitInv == PresenceInit => PresenceInv
<1> SUFFICES ASSUME PresenceInit PROVE PresenceInv
  BY Zenon
<1>1. PresenceTypes /\ \A c \in Conns : InCall(c)
  BY Zenon DEF PresenceInit, PresenceTypes, Session, Absent, InCall, Idle
<1>2. ASSUME NEW w \in Names PROVE Counts(w)
  <2>1. Online(w) = {} /\ Renewing(w) = {}
    BY PresenceAssumption, Zenon DEF PresenceInit, Online, Renewing, Named
  <2>2. ActiveSessions(w) = 0
    BY Zenon DEF PresenceInit, ActiveSessions
  <2> QED
    BY <2>1, <2>2, FS_EmptySet DEF Counts
<1> QED
  BY <1>1, <1>2, Zenon DEF PresenceInv

(* A session that gives up its name takes one from its worker's count, if the worker *)
(* is known and has any, and is itself no longer online.                             *)
LEMMA GoOfflineCounts ==
    ASSUME PresenceInv, NEW c \in Conns, Idle(c), GoOffline(c), NEW w \in Names,
           Named(c)' = NoOne, \A d \in Conns \ {c} : session'[d] = session[d]
    PROVE  Counts(w)'
<1>1. CASE w # Named(c)
  <2>1. Online(w)' = Online(w) /\ Renewing(w)' = Renewing(w)
    BY <1>1, PresenceAssumption, Zenon DEF Online, Renewing, Named, Idle
  <2>2. worker_states'[w] = worker_states[w] /\ (w \in raced' <=> w \in raced)
    BY <1>1, Zenon DEF GoOffline, mark_worker_offline, PresenceInv, PresenceTypes
  <2> QED
    BY <2>1, <2>2, UnmovedCounts, Zenon DEF PresenceInv
<1>2. CASE w = Named(c)
  <2>1. c \in Online(w) /\ Online(w)' = Online(w) \ {c}
    BY <1>2, PresenceAssumption DEF Online, Named
  <2>2. Renewing(w)' = Renewing(w) /\ Renewing(w) \in SUBSET (Online(w) \ {c})
    BY <1>2, PresenceAssumption DEF Online, Named, Renewing, Idle
  <2>3. /\ Cardinality(Online(w)') = Cardinality(Online(w)) - 1
        /\ Cardinality(Renewing(w)') <= Cardinality(Online(w)')
        /\ Cardinality(Online(w)) \in Nat /\ Cardinality(Renewing(w)) \in Nat
    <3>1. Online(w) \in SUBSET Conns /\ Online(w) \ {c} \in SUBSET Conns /\ Renewing(w) \in SUBSET Conns
      BY OnlineSets, Zenon
    <3> QED
      BY <2>1, <2>2, <3>1, ConnsAreFinite, CountingConns
  <2>4. worker_states'[w] = Offline(w) /\ worker_states[w] \in Nat \cup {Absent}
    BY <1>2, PresenceAssumption, Zenon DEF GoOffline, mark_worker_offline, PresenceInv, PresenceTypes
  <2>5. /\ ActiveSessions(w) \in Nat
        /\ ActiveSessions(w)' = IF ActiveSessions(w) > 0 THEN ActiveSessions(w) - 1 ELSE 0
    BY <2>4 DEF ActiveSessions, Offline, Absent
  <2>6. Counts(w)
    BY Zenon DEF PresenceInv
  <2>7. ActiveSessions(w)' + Cardinality(Renewing(w)') <= Cardinality(Online(w)')
    BY <2>2, <2>3, <2>5, <2>6 DEF Counts
  <2>8. CASE \E d \in Conns \ {c} : Named(d) = Named(c)
    <3>1. raced' = raced
      BY <2>8, Zenon DEF GoOffline
    <3> QED
      BY <2>2, <2>3, <2>5, <2>6, <2>7, <3>1 DEF Counts
  <2>9. CASE ~\E d \in Conns \ {c} : Named(d) = Named(c)
    <3>1. Online(w)' = {}
      BY <1>2, <2>1, <2>9 DEF Online
    <3>2. Cardinality(Online(w)') = 0 /\ Renewing(w)' = {} /\ Cardinality(Renewing(w)') = 0
      BY <2>1, <2>2, <3>1, FS_EmptySet, Zenon
    <3> QED
      BY <2>5, <2>7, <3>2 DEF Counts
  <2> QED
    BY <2>8, <2>9, Zenon
<1> QED
  BY <1>1, <1>2, Zenon

\* A name given up keeps the types: a session count stops at zero.
LEMMA GoOfflineTypes ==
    ASSUME PresenceInv, NEW c \in Conns, GoOffline(c)
    PROVE  /\ worker_states' \in [Names -> Nat \cup {Absent}]
           /\ stale' \subseteq Names /\ raced' \subseteq Names
<1>1. Named(c) \in Names => Offline(Named(c)) \in Nat \cup {Absent}
  BY DEF Offline, PresenceInv, PresenceTypes, Absent
<1>2. Named(c) \in Names \cup {NoOne}
  BY Zenon DEF Named, PresenceInv, PresenceTypes, Session
<1> QED
  BY <1>1, <1>2, Zenon DEF GoOffline, mark_worker_offline, PresenceInv, PresenceTypes

\* A connection that ends gives its name back, and is counted out just if it was counted in.
LEMMA LeaveInv ==
    ASSUME PresenceInv, NEW c \in Conns, Idle(c), LeavePresence(c)
    PROVE  PresenceInv'
<1>1. /\ session' = [session EXCEPT ![c].name = NoOne]
      /\ session \in [Conns -> Session]
  BY Zenon DEF LeavePresence, PresenceInv, PresenceTypes
<1>2. /\ Named(c)' = NoOne /\ Idle(c)' /\ \A d \in Conns \ {c} : session'[d] = session[d]
      /\ session' \in [Conns -> Session]
  BY <1>1 DEF Named, Idle, Session
<1>3. PresenceTypes' /\ \A w \in Names : Counts(w)'
  BY <1>2, GoOfflineTypes, GoOfflineCounts, Zenon DEF LeavePresence, PresenceTypes
<1>4. \A d \in Conns : InCall(d)'
  BY <1>2, Zenon DEF InCall, Idle, Named, PresenceInv
<1> QED
  BY <1>3, <1>4, Zenon DEF PresenceInv

\* A session that takes a name gives up the one it had, and is not counted under the new one yet.
LEMMA TakeNameInv ==
    ASSUME PresenceInv, NEW c \in Conns, NEW w \in Names, TakeName(c, w)
    PROVE  PresenceInv' /\ \A d \in Conns \ {c} : Idle(d)' = Idle(d)
<1>1. /\ session' = [session EXCEPT ![c] = [name |-> NoOne, call |-> "online", new |-> w]]
      /\ session \in [Conns -> Session] /\ Idle(c) /\ GoOffline(c)
  BY Zenon DEF TakeName, PresenceInv, PresenceTypes
<1>2. /\ session'[c] = [name |-> NoOne, call |-> "online", new |-> w]
      /\ \A d \in Conns \ {c} : session'[d] = session[d]
      /\ session' \in [Conns -> Session]
  BY <1>1, Zenon DEF Session
<1>3. PresenceTypes' /\ \A u \in Names : Counts(u)'
  BY <1>1, <1>2, GoOfflineTypes, GoOfflineCounts, Zenon DEF PresenceTypes, Named
<1>4. \A d \in Conns : InCall(d)'
  BY <1>2 DEF InCall, Idle, Named, PresenceInv
<1> QED
  BY <1>2, <1>3, <1>4, Zenon DEF PresenceInv, Idle

(* A session whose worker was evicted under it: it is one that lost a race. *)
LEMMA RenewNameInv ==
    ASSUME PresenceInv, NEW c \in Conns, RenewName(c)
    PROVE  PresenceInv' /\ \A d \in Conns \ {c} : Idle(d)' = Idle(d)
<1> SUFFICES ASSUME NEW w, w = Named(c)
             PROVE  PresenceInv' /\ \A d \in Conns \ {c} : Idle(d)' = Idle(d)
  BY Zenon
<1>1. /\ session' = [session EXCEPT ![c].call = "online", ![c].new = w]
      /\ session \in [Conns -> Session] /\ Idle(c) /\ w \in Names
      /\ worker_states[w] = Absent /\ worker_states' = worker_states /\ raced' = raced /\ stale' = stale
  BY Zenon DEF RenewName, PresenceInv, PresenceTypes, Session, Named
<1>2. /\ session'[c] = [name |-> w, call |-> "online", new |-> w]
      /\ \A d \in Conns \ {c} : session'[d] = session[d]
      /\ session' \in [Conns -> Session]
  BY <1>1, Zenon DEF Session, Named
<1>3. \A u \in Names : Online(u)' = Online(u)
  BY <1>2 DEF Online, Named
<1>4. \A u \in Names : u # w => Renewing(u)' = Renewing(u)
  BY <1>2, <1>3 DEF Renewing, Idle, Online, Named
<1>5. Counts(w)'
  <2>1. c \in Online(w) /\ Online(w) \in SUBSET Conns /\ Renewing(w)' \in SUBSET Online(w)
    BY <1>1, <1>3, OnlineSets, Zenon DEF Online, Renewing, Named
  <2>2. Cardinality(Renewing(w)') <= Cardinality(Online(w)) /\ Cardinality(Online(w)) # 0
    BY <2>1, CountingConns, Zenon
  <2>3. ActiveSessions(w) = 0 /\ ActiveSessions(w)' = 0
    BY <1>1, Zenon DEF ActiveSessions
  <2>4. w \in raced
    BY <1>1, <2>2, <2>3, Zenon DEF PresenceInv, Counts
  <2>5. Cardinality(Renewing(w)') \in Nat
    BY <2>1, ConnsAreFinite, Zenon
  <2> QED
    BY <1>1, <1>3, <2>2, <2>3, <2>4, <2>5 DEF Counts
<1>6. \A u \in Names : Counts(u)'
  BY <1>1, <1>3, <1>4, <1>5, UnmovedCounts DEF PresenceInv
<1>7. \A d \in Conns : InCall(d)'
  BY <1>1, <1>2 DEF InCall, Idle, Named, PresenceInv
<1> QED
  BY <1>1, <1>2, <1>6, <1>7, Zenon DEF PresenceInv, PresenceTypes, Idle

(* mark_worker_online returns: the session is online, and in no call. *)
LEMMA ReturnMoves ==
    ASSUME PresenceInv, NEW c \in Conns, ~Idle(c), Return(c), NEW w, w = session[c].new
    PROVE  /\ w \in Names /\ session' \in [Conns -> Session]
           /\ session'[c] = [name |-> w, call |-> "none", new |-> NoOne]
           /\ \A d \in Conns \ {c} : session'[d] = session[d]
           /\ \A d \in Conns : InCall(d)'
           /\ Online(w)' = Online(w) \cup {c} /\ Renewing(w)' = Renewing(w) \ {c}
           /\ \A u \in Names \ {w} : Online(u)' = Online(u) /\ Renewing(u)' = Renewing(u)
<1>1. /\ session' = [session EXCEPT ![c] = [name |-> w, call |-> "none", new |-> NoOne]]
      /\ session \in [Conns -> Session] /\ w \in Names /\ Named(c) \in {NoOne, w}
  BY Zenon DEF Return, PresenceInv, PresenceTypes, InCall
<1>2. /\ session'[c] = [name |-> w, call |-> "none", new |-> NoOne]
      /\ \A d \in Conns \ {c} : session'[d] = session[d]
      /\ session' \in [Conns -> Session]
  BY <1>1, Zenon DEF Session
<1>3. \A d \in Conns : InCall(d)'
  BY <1>2 DEF InCall, Idle, Named, PresenceInv
<1>4. Online(w)' = Online(w) \cup {c} /\ Renewing(w)' = Renewing(w) \ {c}
  BY <1>1, <1>2, Zenon DEF Online, Renewing, Named, Idle
<1>5. ASSUME NEW u \in Names \ {w} PROVE Online(u)' = Online(u) /\ Renewing(u)' = Renewing(u)
  BY <1>1, <1>2, PresenceAssumption DEF Online, Renewing, Named, Idle
<1> QED
  BY <1>1, <1>2, <1>3, <1>4, <1>5, Zenon

\* The look-up of mark_worker_online counts the session in, or leaves that to the insertion.
LEMMA OnlineLookInv ==
    ASSUME PresenceInv, NEW c \in Conns, OnlineLook(c)
    PROVE  PresenceInv' /\ ~Idle(c) /\ \A d \in Conns \ {c} : Idle(d)' = Idle(d)
<1> SUFFICES ASSUME NEW w, w = session[c].new
             PROVE  PresenceInv' /\ ~Idle(c) /\ \A d \in Conns \ {c} : Idle(d)' = Idle(d)
  BY Zenon
<1>1. /\ session[c].call = "online" /\ ~Idle(c) /\ w \in Names /\ Named(c) \in {NoOne, w}
      /\ stale' = stale /\ raced' = raced /\ session \in [Conns -> Session]
      /\ worker_states \in [Names -> Nat \cup {Absent}]
  BY Zenon DEF OnlineLook, Idle, PresenceInv, PresenceTypes, InCall
<1>2. CASE worker_states[w] # Absent /\ Return(c) /\ worker_states' = [worker_states EXCEPT ![w] = @ + 1]
  <2>1. /\ session' \in [Conns -> Session] /\ \A d \in Conns \ {c} : session'[d] = session[d]
        /\ \A d \in Conns : InCall(d)'
        /\ Online(w)' = Online(w) \cup {c} /\ Renewing(w)' = Renewing(w) \ {c}
        /\ \A u \in Names \ {w} : Online(u)' = Online(u) /\ Renewing(u)' = Renewing(u)
    BY <1>1, <1>2, ReturnMoves, Zenon
  <2>2. /\ worker_states' \in [Names -> Nat \cup {Absent}]
        /\ \A u \in Names \ {w} : worker_states'[u] = worker_states[u]
        /\ ActiveSessions(w)' = ActiveSessions(w) + 1 /\ ActiveSessions(w) \in Nat
    BY <1>1, <1>2 DEF ActiveSessions, Absent
  <2>3. Counts(w)'
    <3>1. Counts(w) /\ Online(w) \in SUBSET Conns /\ Renewing(w) \in SUBSET Conns
      BY <1>1, OnlineSets, Zenon DEF PresenceInv
    <3>2. Cardinality(Online(w)) \in Nat /\ Cardinality(Renewing(w)) \in Nat
      BY <3>1, ConnsAreFinite, Zenon
    <3>3. CASE Named(c) = w
      <4>1. c \in Renewing(w) /\ Online(w)' = Online(w)
        BY <1>1, <2>1, <3>3, Zenon DEF Renewing, Online
      <4>2. Cardinality(Renewing(w)') = Cardinality(Renewing(w)) - 1
        BY <2>1, <3>1, <4>1, CountingConns
      <4> QED
        BY <1>1, <2>2, <3>1, <3>2, <4>1, <4>2 DEF Counts
    <3>4. CASE Named(c) # w
      <4>1. c \notin Online(w) /\ Renewing(w)' = Renewing(w)
        BY <1>1, <2>1, <3>4, Zenon DEF Renewing, Online
      <4>2. Cardinality(Online(w)') = Cardinality(Online(w)) + 1
        BY <2>1, <3>1, <4>1, CountingConns
      <4> QED
        BY <1>1, <2>2, <3>1, <3>2, <4>1, <4>2 DEF Counts
    <3> QED
      BY <3>3, <3>4, Zenon
  <2>4. \A u \in Names : Counts(u)'
    BY <1>1, <2>1, <2>2, <2>3, UnmovedCounts, Zenon DEF PresenceInv
  <2> QED
    BY <1>1, <2>1, <2>2, <2>4, Zenon DEF PresenceInv, PresenceTypes, Idle
<1>3. CASE /\ session' = [session EXCEPT ![c].call = "insert"]
           /\ worker_states' = worker_states
  <2>1. /\ session' \in [Conns -> Session] /\ \A d \in Conns \ {c} : session'[d] = session[d]
        /\ session'[c] = [name |-> Named(c), call |-> "insert", new |-> w]
    BY <1>1, <1>3, Zenon DEF Session, Named
  <2>2. \A u \in Names : Online(u)' = Online(u) /\ Renewing(u)' = Renewing(u)
    BY <1>1, <2>1 DEF Online, Renewing, Named, Idle
  <2>3. \A d \in Conns : InCall(d)'
    BY <1>1, <2>1 DEF InCall, Idle, Named, PresenceInv
  <2>4. \A u \in Names : Counts(u)'
    BY <1>1, <1>3, <2>2, UnmovedCounts, Zenon DEF PresenceInv
  <2> QED
    BY <1>1, <1>3, <2>1, <2>3, <2>4, Zenon DEF PresenceInv, PresenceTypes, Idle
<1> QED
  BY <1>2, <1>3, Zenon DEF OnlineLook

(* The insert leaves a count of one, its own session's; those it overwrites have lost *)
(* a race.                                                                            *)
LEMMA OnlineInsertInv ==
    ASSUME PresenceInv, NEW c \in Conns, OnlineInsert(c)
    PROVE  PresenceInv' /\ ~Idle(c) /\ \A d \in Conns \ {c} : Idle(d)' = Idle(d)
<1> SUFFICES ASSUME NEW w, w = session[c].new
             PROVE  PresenceInv' /\ ~Idle(c) /\ \A d \in Conns \ {c} : Idle(d)' = Idle(d)
  BY Zenon
<1>1. /\ session[c].call = "insert" /\ ~Idle(c) /\ w \in Names /\ Named(c) \in {NoOne, w}
      /\ worker_states' = [worker_states EXCEPT ![w] = 1] /\ Return(c) /\ stale' = stale
      /\ raced' = IF ActiveSessions(w) > 0 THEN raced \cup {w} ELSE raced
      /\ worker_states \in [Names -> Nat \cup {Absent}] /\ raced \subseteq Names /\ stale \subseteq Names
  BY Zenon DEF OnlineInsert, Idle, PresenceInv, PresenceTypes, InCall
<1>2. /\ session' \in [Conns -> Session] /\ \A d \in Conns \ {c} : session'[d] = session[d]
      /\ \A d \in Conns : InCall(d)'
      /\ Online(w)' = Online(w) \cup {c} /\ Renewing(w)' = Renewing(w) \ {c}
      /\ \A u \in Names \ {w} : Online(u)' = Online(u) /\ Renewing(u)' = Renewing(u)
  BY <1>1, ReturnMoves, Zenon
<1>3. /\ worker_states' \in [Names -> Nat \cup {Absent}]
      /\ \A u \in Names \ {w} : worker_states'[u] = worker_states[u]
      /\ ActiveSessions(w)' = 1 /\ ActiveSessions(w) \in Nat
  BY <1>1 DEF ActiveSessions, Absent
<1>4. Counts(w)'
  <2>1. /\ Counts(w) /\ Online(w) \in SUBSET Conns /\ Online(w)' \in SUBSET Conns
        /\ Renewing(w)' \in SUBSET (Online(w)' \ {c}) /\ Renewing(w)' \in SUBSET Renewing(w)
    BY <1>1, <1>2, OnlineSets, Zenon DEF PresenceInv
  <2>2. Cardinality(Online(w)' \ {c}) = Cardinality(Online(w)') - 1
    BY <1>2, <2>1, CountingConns
  <2>3. /\ Cardinality(Renewing(w)') <= Cardinality(Online(w)' \ {c})
        /\ Cardinality(Online(w)') \in Nat /\ Cardinality(Renewing(w)') \in Nat
    <3>1. Online(w)' \ {c} \in SUBSET Conns /\ Renewing(w)' \in SUBSET Conns
      BY <2>1, Zenon
    <3> QED
      BY <2>1, <3>1, ConnsAreFinite, CountingConns, Zenon
  <2>4. w \notin raced' => Online(w) = {}
    BY <1>1, <1>3, <2>1, CountingConns DEF Counts
  <2>5. w \notin raced' => Cardinality(Online(w)') = 1
    BY <1>2, <2>4, FS_Singleton
  <2>6. Renewing(w)' # {} => w \in raced'
    BY <1>1, <2>1, Zenon DEF Counts
  <2> QED
    BY <1>3, <2>2, <2>3, <2>5, <2>6 DEF Counts
<1>5. \A u \in Names \ {w} : u \in raced' <=> u \in raced
  BY <1>1, Zenon
<1>6. \A u \in Names : Counts(u)'
  BY <1>1, <1>2, <1>3, <1>4, <1>5, UnmovedCounts DEF PresenceInv
<1> QED
  BY <1>1, <1>2, <1>3, <1>6, Zenon DEF PresenceInv, PresenceTypes, Idle

\* The pruner's look changes no count.
LEMMA CollectStaleInv ==
    ASSUME PresenceInv, CollectStale
    PROVE  PresenceInv' /\ \A d \in Conns : Idle(d)' = Idle(d)
<1>1. /\ worker_states' = worker_states /\ session' = session /\ raced' = raced
      /\ stale' \subseteq Names
  BY Zenon DEF CollectStale, Evictable
<1> QED
  BY <1>1, Zenon DEF PresenceInv, PresenceTypes, InCall, Idle, Named, Counts, ActiveSessions, Online, Renewing

(* The pruner forgets a worker; the sessions of one who came back lose a race. *)
LEMMA RemoveStaleInv ==
    ASSUME PresenceInv, RemoveStale
    PROVE  PresenceInv' /\ \A d \in Conns : Idle(d)' = Idle(d)
<1>1. PICK w \in stale : /\ stale' = stale \ {w}
                         /\ worker_states' = [worker_states EXCEPT ![w] = Absent]
                         /\ raced' = IF ActiveSessions(w) > 0 THEN raced \cup {w} ELSE raced
                         /\ session' = session
  BY Zenon DEF RemoveStale
<1>2. w \in Names /\ worker_states \in [Names -> Nat \cup {Absent}] /\ PresenceTypes'
  BY <1>1, Zenon DEF PresenceInv, PresenceTypes
<1>3. \A u \in Names : Online(u)' = Online(u) /\ Renewing(u)' = Renewing(u)
  BY <1>1, Zenon DEF Online, Renewing, Named, Idle
<1>4. Counts(w)'
  <2>1. Counts(w) /\ ActiveSessions(w)' = 0 /\ ActiveSessions(w) \in Nat
    BY <1>1, <1>2, Zenon DEF PresenceInv, ActiveSessions, Absent
  <2>2. Cardinality(Online(w)) \in Nat /\ Cardinality(Renewing(w)) \in Nat
    <3>1. Online(w) \in SUBSET Conns /\ Renewing(w) \in SUBSET Conns
      BY OnlineSets, Zenon
    <3> QED
      BY <3>1, ConnsAreFinite, Zenon
  <2> QED
    BY <1>1, <1>2, <1>3, <2>1, <2>2 DEF Counts
<1>5. ASSUME NEW u \in Names \ {w} PROVE Counts(u)'
  <2>1. worker_states'[u] = worker_states[u] /\ (u \in raced' <=> u \in raced)
    BY <1>1, <1>2, Zenon
  <2> QED
    BY <1>3, <2>1, UnmovedCounts, Zenon DEF PresenceInv
<1> QED
  BY <1>1, <1>2, <1>4, <1>5 DEF PresenceInv, InCall, Idle, Named

-----------------------------------------------------------------------------
\* The counters are right just if they are the sizes of two sets.
LEMMA Counters ==
    CountersMatch <=> /\ active_count <= MaxConnections
                      /\ active_count = Cardinality(Slots)
                      /\ connected = Cardinality(Miners)
BY Zenon DEF CountersMatch, Slots, Miners, Miner

(* A connection's task goes on to another stage: it keeps its slot. *)
LEMMA TaskGoesOn ==
    ASSUME TasksInv, NEW c \in Conns, NEW where \in Stages \ {"none", "accepted"},
           task[c] \notin {"none", "accepted"}, task' = [task EXCEPT ![c] = where],
           acceptor' = acceptor, active_count' = active_count,
           Miner(task[c]) => Miner(where),
           connected' = IF Miner(task[c]) = Miner(where) THEN connected ELSE connected + 1
    PROVE  TasksInv'
<1>1. /\ task \in [Conns -> Stages] /\ task'[c] = where /\ \A d \in Conns \ {c} : task'[d] = task[d]
      /\ connected \in Nat
  BY Zenon DEF TasksInv, TaskTypes
<1>2. Slots' = Slots
  BY <1>1, Zenon DEF Slots, HoldsSlot
<1>3. Miners' = IF Miner(task[c]) = Miner(where) THEN Miners ELSE Miners \cup {c}
  BY <1>1 DEF Miners, Miner
<1>4. c \in Miners <=> Miner(task[c])
  BY Zenon DEF Miners
<1>5. Cardinality(Miners') = IF Miner(task[c]) = Miner(where) THEN Cardinality(Miners)
                             ELSE Cardinality(Miners) + 1
  <2>1. Miners \in SUBSET Conns
    BY Zenon DEF Miners
  <2> QED
    BY <1>3, <1>4, <2>1, CountingConns, Zenon
<1>6. CountersMatch'
  <2>1. /\ active_count <= MaxConnections /\ active_count = Cardinality(Slots)
        /\ connected = Cardinality(Miners)
    BY Counters, Zenon DEF TasksInv
  <2> QED
    BY <1>2, <1>5, <2>1, Zenon DEF CountersMatch, Slots, Miners, Miner
<1>7. OneAtHand'
  BY <1>1, Zenon DEF TasksInv, OneAtHand
<1>8. TaskTypes'
  BY <1>1 DEF TasksInv, TaskTypes
<1> QED
  BY <1>6, <1>7, <1>8, Zenon DEF TasksInv

(* A connection's task ends: it gives back its slot, and its place among the miners. *)
LEMMA TaskEnds ==
    ASSUME TasksInv, NEW c \in Conns, task[c] \notin {"none", "accepted"},
           task' = [task EXCEPT ![c] = "none"], acceptor' = acceptor,
           active_count' = active_count - 1,
           connected' = IF Miner(task[c]) THEN connected - 1 ELSE connected
    PROVE  TasksInv'
<1>1. /\ task \in [Conns -> Stages] /\ task'[c] = "none" /\ \A d \in Conns \ {c} : task'[d] = task[d]
      /\ connected \in Nat /\ active_count \in Nat /\ ~Miner("none")
  BY Zenon DEF TasksInv, TaskTypes, Miner
<1>2. Slots' = Slots \ {c} /\ c \in Slots
  BY <1>1, Zenon DEF Slots, HoldsSlot
<1>3. Miners' = Miners \ {c} /\ (c \in Miners <=> Miner(task[c]))
  BY <1>1, Zenon DEF Miners
<1>4. Slots \in SUBSET Conns /\ Miners \in SUBSET Conns /\ Slots' \in SUBSET Conns /\ Miners' \in SUBSET Conns
  BY Zenon DEF Slots, Miners
<1>5. /\ active_count <= MaxConnections /\ active_count = Cardinality(Slots)
      /\ connected = Cardinality(Miners)
  BY Counters, Zenon DEF TasksInv
<1>6. active_count' = Cardinality(Slots')
  BY <1>2, <1>4, <1>5, CountingConns, Zenon
<1>7. connected' = Cardinality(Miners')
  <2>1. CASE Miner(task[c])
    BY <1>3, <1>4, <1>5, <2>1, CountingConns
  <2>2. CASE ~Miner(task[c])
    <3>1. Miners' = Miners
      BY <1>3, <2>2, Zenon
    <3> QED
      BY <1>5, <2>2, <3>1, Zenon
  <2> QED
    BY <2>1, <2>2, Zenon
<1>8. active_count' \in Nat /\ connected' \in Nat
  BY <1>4, <1>6, <1>7, ConnsAreFinite, Zenon
<1>9. active_count' <= MaxConnections
  BY <1>1, <1>5, ConnectionsAssumption
<1>10. CountersMatch'
  BY <1>6, <1>7, <1>9, Zenon DEF CountersMatch, Slots, Miners, Miner
<1>11. TaskTypes'
  BY <1>1, <1>8, Zenon DEF TasksInv, TaskTypes, Stages
<1>12. OneAtHand'
  BY <1>1, Zenon DEF TasksInv, OneAtHand
<1> QED
  BY <1>10, <1>11, <1>12, Zenon DEF TasksInv

\* Steps elsewhere change no slot.
LEMMA TasksUnmoved ==
    ASSUME TasksInv, UNCHANGED <<task, acceptor, active_count, connected>>
    PROVE  TasksInv'
BY Zenon DEF TasksInv, TaskTypes, OneAtHand, CountersMatch, HoldsSlot

-----------------------------------------------------------------------------
(* The accept loop *)

\* The acceptor takes a connection in hand.
LEMMA AcceptTasks == TasksInv /\ Accept => TasksInv'
<1> SUFFICES ASSUME TasksInv, Accept PROVE TasksInv'
  BY Zenon
<1>1. PICK c \in Conns : /\ task[c] = "none"
                         /\ acceptor' = [at |-> "reserve", peer |-> c]
                         /\ task' = [task EXCEPT ![c] = "accepted"]
  BY Zenon DEF Accept
<1>2. /\ task \in [Conns -> Stages] /\ acceptor.at = "accept"
      /\ UNCHANGED <<active_count, connected>> /\ \A d \in Conns : task[d] # "accepted"
  BY Zenon DEF Accept, TasksInv, TaskTypes, OneAtHand
<1>3. task'[c] = "accepted" /\ \A d \in Conns \ {c} : task'[d] = task[d]
  BY <1>1, <1>2, Zenon
<1>4. Slots' = Slots /\ Miners' = Miners
  BY <1>1, <1>2, <1>3, Zenon DEF Slots, HoldsSlot, Miners, Miner
<1>5. CountersMatch'
  BY <1>2, <1>4, Counters, Zenon DEF TasksInv, CountersMatch, Slots, Miners, Miner
<1>6. TaskTypes' /\ OneAtHand'
  BY <1>1, <1>2, <1>3, Zenon DEF TasksInv, TaskTypes, OneAtHand, Stages
<1> QED
  BY <1>5, <1>6, Zenon DEF TasksInv

(* The peer at hand is let go; if it had a slot, that is given back. *)
LEMMA PeerDropped ==
    ASSUME TasksInv, acceptor.at # "accept", NextPeer, Drop, connected' = connected,
           active_count' = IF acceptor.at = "reserve" THEN active_count ELSE active_count - 1
    PROVE  TasksInv'
<1> SUFFICES ASSUME NEW c, c = acceptor.peer PROVE TasksInv'
  BY Zenon
<1>1. /\ c \in Conns /\ task[c] = "accepted" /\ task \in [Conns -> Stages]
      /\ active_count \in Nat /\ connected \in Nat
      /\ acceptor.at \in {"reserve", "check", "limit"}
      /\ \A d \in Conns \ {c} : task[d] # "accepted"
      /\ acceptor' = [at |-> "accept", peer |-> NoOne] /\ task' = [task EXCEPT ![c] = "none"]
  BY Zenon DEF TasksInv, TaskTypes, OneAtHand, NextPeer, Drop
<1>2. task'[c] = "none" /\ \A d \in Conns \ {c} : task'[d] = task[d]
  BY <1>1, Zenon
<1>3. Slots' = Slots \ {c} /\ (c \in Slots <=> acceptor.at # "reserve") /\ Miners' = Miners
  BY <1>1, <1>2, Zenon DEF Slots, HoldsSlot, Miners, Miner
<1>4. Slots \in SUBSET Conns /\ Slots' \in SUBSET Conns
  BY Zenon DEF Slots
<1>5. /\ active_count <= MaxConnections /\ active_count = Cardinality(Slots)
      /\ connected = Cardinality(Miners)
  BY Counters, Zenon DEF TasksInv
<1>6. active_count' = Cardinality(Slots')
  <2>1. CASE acceptor.at = "reserve"
    <3>1. Slots' = Slots
      BY <1>3, <2>1, Zenon
    <3> QED
      BY <1>5, <2>1, <3>1, Zenon
  <2>2. CASE acceptor.at # "reserve"
    BY <1>3, <1>4, <1>5, <2>2, CountingConns, Zenon
  <2> QED
    BY <2>1, <2>2, Zenon
<1>7. active_count' \in Nat /\ active_count' <= MaxConnections
  BY <1>1, <1>4, <1>5, <1>6, ConnsAreFinite, ConnectionsAssumption
<1>8. CountersMatch'
  BY <1>3, <1>5, <1>6, <1>7, Zenon DEF CountersMatch, Slots, Miners, Miner
<1>9. TaskTypes' /\ OneAtHand'
  BY <1>1, <1>2, <1>7, Zenon DEF TasksInv, TaskTypes, OneAtHand, Stages
<1> QED
  BY <1>8, <1>9, Zenon DEF TasksInv

\* A slot is reserved for it, or it is turned away.
LEMMA ReserveSlotTasks == TasksInv /\ ReserveSlot => TasksInv'
<1> SUFFICES ASSUME TasksInv, ReserveSlot PROVE TasksInv'
  BY Zenon
<1>1. acceptor.at = "reserve" /\ connected' = connected
  BY Zenon DEF ReserveSlot
<1>2. CASE NextPeer /\ Drop /\ UNCHANGED active_count
  BY <1>1, <1>2, PeerDropped, Zenon
<1>3. CASE ~Full /\ active_count' = active_count + 1 /\ AcceptorAt("check") /\ UNCHANGED task
  <2> SUFFICES ASSUME NEW c, c = acceptor.peer PROVE TasksInv'
    BY Zenon
  <2>1. /\ c \in Conns /\ task[c] = "accepted" /\ \A d \in Conns \ {c} : task[d] # "accepted"
        /\ acceptor' = [at |-> "check", peer |-> c] /\ active_count \in Nat /\ connected \in Nat
    BY <1>1, <1>3, Zenon DEF TasksInv, TaskTypes, OneAtHand, AcceptorAt
  <2>2. Slots' = Slots \cup {c} /\ c \notin Slots /\ Slots \in SUBSET Conns /\ Miners' = Miners
    BY <1>1, <1>3, <2>1, Zenon DEF Slots, HoldsSlot, Miners, Miner
  <2>3. active_count = Cardinality(Slots) /\ connected = Cardinality(Miners)
    BY Counters, Zenon DEF TasksInv
  <2>4. active_count' = Cardinality(Slots') /\ connected' = Cardinality(Miners')
    BY <1>1, <1>3, <2>1, <2>2, <2>3, CountingConns, Zenon
  <2>5. active_count' \in Nat /\ active_count' <= MaxConnections
    BY <1>3, <2>1, ConnectionsAssumption DEF Full
  <2>6. CountersMatch'
    BY <2>4, <2>5, Zenon DEF CountersMatch, Slots, Miners, Miner
  <2>7. TaskTypes' /\ OneAtHand'
    BY <1>1, <1>3, <2>1, <2>5, Zenon DEF TasksInv, TaskTypes, OneAtHand
  <2> QED
    BY <2>6, <2>7, Zenon DEF TasksInv
<1> QED
  BY <1>2, <1>3, Zenon DEF ReserveSlot

\* A banned peer is turned away, and its slot given back.
LEMMA CheckBanTasks == TasksInv /\ CheckBan => TasksInv'
<1> SUFFICES ASSUME TasksInv, CheckBan PROVE TasksInv'
  BY Zenon
<1>1. acceptor.at = "check" /\ connected' = connected
  BY Zenon DEF CheckBan
<1>2. CASE GiveBack /\ NextPeer /\ Drop
  BY <1>1, <1>2, PeerDropped, Zenon DEF GiveBack
<1>3. CASE AcceptorAt("limit") /\ UNCHANGED <<active_count, task>>
  <2>1. acceptor' = [at |-> "limit", peer |-> acceptor.peer]
    BY <1>1, <1>3, Zenon DEF TasksInv, TaskTypes, AcceptorAt
  <2>2. Slots' = Slots /\ Miners' = Miners
    BY <1>1, <1>3, <2>1, Zenon DEF Slots, HoldsSlot, Miners
  <2>3. CountersMatch'
    BY <1>1, <1>3, <2>2, Counters DEF TasksInv, CountersMatch, Slots, Miners, Miner
  <2>4. TaskTypes' /\ OneAtHand'
    BY <1>1, <1>3, <2>1, Zenon DEF TasksInv, TaskTypes, OneAtHand
  <2> QED
    BY <2>3, <2>4, Zenon DEF TasksInv
<1> QED
  BY <1>2, <1>3, Zenon DEF CheckBan

\* A peer over its rate is turned away, and its slot given back; any other gets a task.
LEMMA CheckRateTasks == TasksInv /\ CheckRate => TasksInv'
<1> SUFFICES ASSUME TasksInv, CheckRate PROVE TasksInv'
  BY Zenon
<1>1. acceptor.at = "limit" /\ connected' = connected /\ NextPeer
  BY Zenon DEF CheckRate
<1>2. CASE active_count' = active_count - 1 /\ Drop
  BY <1>1, <1>2, PeerDropped, Zenon
<1>3. CASE task' = [task EXCEPT ![acceptor.peer] = "peek"] /\ UNCHANGED active_count
  <2> SUFFICES ASSUME NEW c, c = acceptor.peer PROVE TasksInv'
    BY Zenon
  <2>1. /\ c \in Conns /\ task[c] = "accepted" /\ \A d \in Conns \ {c} : task[d] # "accepted"
        /\ acceptor' = [at |-> "accept", peer |-> NoOne] /\ task \in [Conns -> Stages]
        /\ task'[c] = "peek" /\ \A d \in Conns \ {c} : task'[d] = task[d]
    BY <1>1, <1>3, Zenon DEF TasksInv, TaskTypes, OneAtHand, NextPeer
  <2>2. Slots' = Slots /\ Miners' = Miners
    BY <1>1, <2>1, Zenon DEF Slots, HoldsSlot, Miners, Miner
  <2>3. CountersMatch'
    BY <1>1, <1>3, <2>2, Counters DEF TasksInv, CountersMatch, Slots, Miners, Miner
  <2>4. TaskTypes' /\ OneAtHand'
    BY <1>1, <1>3, <2>1, Zenon DEF TasksInv, TaskTypes, OneAtHand, Stages
  <2> QED
    BY <2>3, <2>4, Zenon DEF TasksInv
<1> QED
  BY <1>2, <1>3, Zenon DEF CheckRate

-----------------------------------------------------------------------------
(* The counters and the counts, over every step *)

SessionsInv == PresenceInv /\ TasksInv /\ CallersLive

\* Steps elsewhere change nobody's presence.
LEMMA PresenceUnmoved ==
    ASSUME PresenceInv, UNCHANGED presence
    PROVE  PresenceInv' /\ \A d \in Conns : Idle(d)' = Idle(d)
BY Zenon DEF presence, PresenceInv, PresenceTypes, InCall, Idle, Named, Counts, ActiveSessions, Online, Renewing

\* At the start there are no sessions.
LEMMA SessionsInitInv == Init => SessionsInv
<1> SUFFICES ASSUME Init PROVE SessionsInv
  BY Zenon
<1>1. Slots = {} /\ Miners = {}
  BY Zenon DEF Init, Slots, HoldsSlot, Miners, Miner
<1>2. CountersMatch
  BY <1>1, FS_EmptySet, Counters, ConnectionsAssumption DEF Init
<1>3. TaskTypes /\ OneAtHand /\ CallersLive
  BY Zenon DEF Init, TaskTypes, OneAtHand, CallersLive, Stages, PresenceInit, Idle
<1> QED
  BY <1>2, <1>3, PresenceInitInv, Zenon DEF Init, SessionsInv, TasksInv

(* The loop takes up and lets go of connections that have no session yet. *)
LEMMA AcceptLoopSessions == SessionsInv /\ AcceptLoop => SessionsInv'
<1> SUFFICES ASSUME SessionsInv, AcceptLoop PROVE SessionsInv'
  BY Zenon
<1>1. TasksInv'
  BY AcceptTasks, ReserveSlotTasks, CheckBanTasks, CheckRateTasks, Zenon DEF AcceptLoop, SessionsInv
<1>2. PresenceInv' /\ \A d \in Conns : Idle(d)' = Idle(d)
  BY PresenceUnmoved, Zenon DEF SessionsInv, AcceptLoop, Accept, ReserveSlot, CheckBan, CheckRate
<1>3. ASSUME NEW d \in Conns, task[d] = "live" PROVE task'[d] = "live"
  BY <1>3, Zenon DEF SessionsInv, TasksInv, TaskTypes, OneAtHand, AcceptLoop, Accept, ReserveSlot, CheckBan,
              CheckRate, Drop
<1> QED
  BY <1>1, <1>2, <1>3, Zenon DEF SessionsInv, CallersLive

(* Before the session *)
LEMMA EntrySessions ==
    ASSUME SessionsInv, NEW c \in Conns,
           FirstByte(c) \/ EnterSession(c) \/ HandshakeDone(c) \/ NoSession(c)
    PROVE  SessionsInv'
<1>1. /\ task \in [Conns -> Stages] /\ acceptor' = acceptor
      /\ task[c] \in {"peek", "unbanned", "noise"} /\ ~Miner(task[c])
  BY Zenon DEF SessionsInv, TasksInv, TaskTypes, FirstByte, EnterSession, HandshakeDone, NoSession, At, Miner
<1>2. PresenceInv' /\ \A d \in Conns : Idle(d)' = Idle(d)
  BY PresenceUnmoved, Zenon DEF SessionsInv, FirstByte, EnterSession, HandshakeDone, NoSession
<1>3. TasksInv'
  <2>1. CASE Forget(c) /\ UNCHANGED connected
    BY <1>1, <2>1, TaskEnds, Zenon DEF SessionsInv, Forget
  <2>2. ASSUME NEW where \in {"unbanned", "noise"}, Enter(c, where), UNCHANGED <<active_count, connected>>
        PROVE  TasksInv'
    <3>1. where \in Stages \ {"none", "accepted"} /\ Miner(task[c]) = Miner(where)
      BY <1>1 DEF Miner, Stages
    <3> QED
      BY <1>1, <2>2, <3>1, TaskGoesOn, Zenon DEF SessionsInv, Enter
  <2>3. CASE Enter(c, "live") /\ connected' = connected + 1 /\ UNCHANGED active_count
    <3>1. "live" \in Stages \ {"none", "accepted"} /\ Miner(task[c]) # Miner("live")
      BY <1>1, Zenon DEF Miner, Stages
    <3> QED
      BY <1>1, <2>3, <3>1, TaskGoesOn, Zenon DEF SessionsInv, Enter
  <2> QED
    BY <2>1, <2>2, <2>3, Zenon DEF FirstByte, EnterSession, HandshakeDone, NoSession
<1>4. \A d \in Conns \ {c} : task'[d] = task[d]
  BY <1>1, Zenon DEF FirstByte, EnterSession, HandshakeDone, NoSession, Forget, Enter
<1>5. CallersLive'
  BY <1>1, <1>2, <1>4, Zenon DEF SessionsInv, CallersLive
<1> QED
  BY <1>2, <1>3, <1>5, Zenon DEF SessionsInv

\* A session that leaves its loop still holds its slot.
LEMMA LeavesTasks ==
    ASSUME SessionsInv, NEW c \in Conns, Looping(c), Leaves(c),
           UNCHANGED <<presence, acceptor, active_count, connected>>
    PROVE  SessionsInv'
<1>1. /\ task \in [Conns -> Stages] /\ task[c] = "live" /\ Idle(c) /\ Miner("live") /\ Miner("leaving")
      /\ task' = [task EXCEPT ![c] = "leaving"] /\ "leaving" \in Stages \ {"none", "accepted"}
  BY Zenon DEF SessionsInv, TasksInv, TaskTypes, Looping, At, Leaves, Miner, Stages
<1>2. TasksInv'
  BY <1>1, TaskGoesOn, Zenon DEF SessionsInv, Miner
<1>3. PresenceInv' /\ \A d \in Conns : Idle(d)' = Idle(d)
  BY PresenceUnmoved, Zenon DEF SessionsInv
<1>4. CallersLive'
  BY <1>1, <1>3, Zenon DEF SessionsInv, CallersLive
<1> QED
  BY <1>2, <1>3, <1>4, Zenon DEF SessionsInv

(* In the session: it calls mark_worker_online from its loop, or ends. *)
LEMMA LoopSessions ==
    ASSUME SessionsInv, NEW c \in Conns, Inbound(c) \/ Banned(c) \/ JobArrives(c) \/ NoMore(c)
    PROVE  SessionsInv'
<1>1. Looping(c) /\ UNCHANGED <<acceptor, active_count, connected>>
  BY Zenon DEF Inbound, Banned, JobArrives, NoMore
<1>2. CASE Leaves(c) /\ UNCHANGED presence
  BY <1>1, <1>2, LeavesTasks, Zenon
<1>3. CASE (Retarget(c) \/ \E w \in Names : TakeName(c, w)) /\ UNCHANGED task
  <2>1. PresenceInv' /\ \A d \in Conns \ {c} : Idle(d)' = Idle(d)
    BY <1>3, PresenceUnmoved, RenewNameInv, TakeNameInv, Zenon DEF SessionsInv, Retarget
  <2>2. TasksInv'
    BY <1>1, <1>3, TasksUnmoved, Zenon DEF SessionsInv
  <2>3. CallersLive'
    BY <1>1, <1>3, <2>1, Zenon DEF SessionsInv, CallersLive, Looping, At
  <2> QED
    BY <2>1, <2>2, <2>3, Zenon DEF SessionsInv
<1> QED
  BY <1>2, <1>3, Zenon DEF Inbound, Banned, JobArrives, NoMore

\* The steps of mark_worker_online, within a session that is live.
LEMMA NamingSessions ==
    ASSUME SessionsInv, NEW c \in Conns, Naming(c)
    PROVE  SessionsInv'
<1>1. PresenceInv' /\ ~Idle(c) /\ \A d \in Conns \ {c} : Idle(d)' = Idle(d)
  BY OnlineLookInv, OnlineInsertInv, Zenon DEF SessionsInv, Naming
<1>2. TasksInv'
  BY TasksUnmoved, Zenon DEF SessionsInv, Naming, conns
<1>3. CallersLive'
  BY <1>1, Zenon DEF SessionsInv, CallersLive, Naming, conns
<1> QED
  BY <1>1, <1>2, <1>3, Zenon DEF SessionsInv

\* The end of a session: its place among the miners, its name, then its slot.
LEMMA DepartSessions ==
    ASSUME SessionsInv, NEW c \in Conns, Depart(c)
    PROVE  SessionsInv'
<1>1. /\ task \in [Conns -> Stages] /\ task[c] = "leaving" /\ Idle(c) /\ Miner("leaving")
      /\ task' = [task EXCEPT ![c] = "none"]
  BY Zenon DEF SessionsInv, TasksInv, TaskTypes, CallersLive, Depart, At, Forget, Miner
<1>2. TasksInv'
  BY <1>1, TaskEnds, Zenon DEF SessionsInv, Depart, Forget
<1>3. PresenceInv'
  BY <1>1, LeaveInv, Zenon DEF SessionsInv, Depart
<1>4. \A d \in Conns : Idle(d)' = Idle(d)
  BY Zenon DEF Depart, LeavePresence, SessionsInv, PresenceInv, PresenceTypes, Session, Idle
<1>5. CallersLive'
  BY <1>1, <1>4, Zenon DEF SessionsInv, CallersLive
<1> QED
  BY <1>2, <1>3, <1>5, Zenon DEF SessionsInv

\* Every step keeps slots and presence right.
LEMMA SessionsStep == SessionsInv /\ [Next]_vars => SessionsInv'
<1> SUFFICES ASSUME SessionsInv, [Next]_vars PROVE SessionsInv'
  BY Zenon
<1>1. ASSUME UNCHANGED <<task, acceptor, active_count, connected>>, PresenceInv',
             \A d \in Conns : Idle(d)' = Idle(d)
      PROVE  SessionsInv'
  BY <1>1, TasksUnmoved, Zenon DEF SessionsInv, CallersLive
<1>2. ASSUME NEW c \in Conns, PeerDies(c) PROVE SessionsInv'
  BY <1>1, <1>2, PresenceUnmoved, Zenon DEF SessionsInv, PeerDies
<1>3. CASE Prune
  BY <1>1, <1>3, CollectStaleInv, Zenon DEF SessionsInv, Prune, conns
<1>4. CASE Evict
  BY <1>1, <1>4, RemoveStaleInv, Zenon DEF SessionsInv, Evict, conns
<1>5. CASE Tick
  BY <1>1, <1>5, PresenceUnmoved, Zenon DEF SessionsInv, Tick
<1>6. CASE UNCHANGED vars
  BY <1>1, <1>6, PresenceUnmoved, Zenon DEF SessionsInv, vars, conns
<1> QED
  BY <1>2, <1>3, <1>4, <1>5, <1>6, AcceptLoopSessions, EntrySessions, LoopSessions, NamingSessions,
     DepartSessions DEF Next, Peer, Task

(* The slots taken and the miners connected are those of the connections there are,  *)
(* and never more than max_connections, for any number of connections and workers.   *)
THEOREM CountersAreRight == Spec => []CountersMatch
<1>1. SessionsInv => CountersMatch
  BY Zenon DEF SessionsInv, TasksInv
<1> QED
  BY <1>1, SessionsInitInv, SessionsStep, PTL DEF Spec

(* A worker is shown with the sessions it has: never more, and fewer only after a    *)
(* race of two first sessions or of an eviction with a return.                       *)
THEOREM PresenceIsRight == Spec => []PresenceIsExact
<1>1. SessionsInv => PresenceIsExact
  <2> SUFFICES ASSUME SessionsInv, NEW w \in Names
               PROVE  /\ ActiveSessions(w) <= Cardinality(Online(w))
                      /\ w \notin raced => ActiveSessions(w) = Cardinality(Online(w))
    BY Zenon DEF PresenceIsExact
  <2>1. Counts(w) /\ ActiveSessions(w) \in Nat
    BY Zenon DEF SessionsInv, PresenceInv, PresenceTypes, ActiveSessions
  <2>2. Online(w) \in SUBSET Conns /\ Renewing(w) \in SUBSET Conns
    BY OnlineSets, Zenon
  <2>3. Cardinality(Online(w)) \in Nat /\ Cardinality(Renewing(w)) \in Nat
    BY <2>2, ConnsAreFinite, Zenon
  <2> QED
    BY <2>1, <2>3 DEF Counts
<1> QED
  BY <1>1, SessionsInitInv, SessionsStep, PTL DEF Spec

-----------------------------------------------------------------------------
(* Bans *)

\* No step shortens a ban by more than the second that has passed.
LEMMA BansStep ==
    ASSUME BansType, TasksInv, [Next]_vars
    PROVE  BansType' /\ \A ip \in Ips : bans[ip] > 0 => bans'[ip] >= bans[ip] - 1
<1> DEFINE Stand == BansType' /\ \A ip \in Ips : bans[ip] > 0 => bans'[ip] >= bans[ip] - 1
<1>1. /\ BanDuration \in Nat \ {0} /\ \A c \in Conns : IpOf[c] \in Ips
      /\ acceptor.at = "limit" => acceptor.peer \in Conns
  BY ConnectionsAssumption, Zenon DEF TasksInv, OneAtHand
<1>2. CASE UNCHANGED bans
  BY <1>1, <1>2 DEF BansType
<1>3. ASSUME NEW ip \in Ips, bans' = ban(ip) PROVE Stand
  BY <1>1, <1>3 DEF BansType, ban
<1>4. ASSUME NEW ip \in Ips, bans' = Swept(ip) PROVE Stand
  BY <1>1, <1>4 DEF BansType, Swept, NotBanned
<1>5. CASE Prune
  BY <1>1, <1>5 DEF BansType, Prune, NotBanned
<1>6. CASE Tick
  BY <1>1, <1>6 DEF BansType, Tick
<1>7. CASE CheckRate
  <2>1. IpOf[acceptor.peer] \in Ips
    BY <1>1, <1>7, Zenon DEF CheckRate
  <2> QED
    BY <1>3, <1>4, <1>7, <2>1 DEF CheckRate
<1>8. ASSUME NEW c \in Conns, EnterSession(c) PROVE Stand
  BY <1>1, <1>4, <1>8, Zenon DEF EnterSession
<1>9. ASSUME NEW c \in Conns, Banned(c) PROVE Stand
  BY <1>1, <1>3, <1>9, Zenon DEF Banned
<1>10. CASE AcceptLoop
  BY <1>2, <1>7, <1>10 DEF AcceptLoop, Accept, ReserveSlot, CheckBan
<1>11. ASSUME NEW c \in Conns, Peer(c) \/ Task(c) \/ NoSession(c) \/ NoMore(c) \/ JobArrives(c)
       PROVE  Stand
  BY <1>2, <1>8, <1>9, <1>11 DEF Peer, Task, FirstByte, HandshakeDone, Inbound, PeerDies, Naming, Depart,
                                NoSession, NoMore, JobArrives
<1>12. CASE Evict
  BY <1>2, <1>12, Zenon DEF Evict
<1>13. CASE UNCHANGED vars
  BY <1>2, <1>13, Zenon DEF vars
<1> QED
  BY <1>5, <1>6, <1>10, <1>11, <1>12, <1>13 DEF Next

(* A ban is only ever replaced by a full one, or by what is left of it a tick later. *)
THEOREM BansStand == Spec => BanStands
<1>1. Init => BansType
  BY ConnectionsAssumption DEF Init, BansType, NotBanned
<1>2. SessionsInv /\ BansType /\ [Next]_vars => BansType'
  BY BansStep, Zenon DEF SessionsInv
<1>3. SessionsInv /\ BansType /\ [Next]_vars
        => [\A ip \in Ips : bans[ip] > 0 => bans'[ip] >= bans[ip] - 1]_vars
  BY BansStep, Zenon DEF SessionsInv
<1> QED
  BY <1>1, <1>2, <1>3, SessionsInitInv, SessionsStep, PTL DEF Spec, BanStands

-----------------------------------------------------------------------------
(* Windows *)

\* A set of numbers that is not empty has a least.
LEMMA SmallestIndex ==
    ASSUME NEW T \in SUBSET Nat, T # {}
    PROVE  \E m \in T : \A n \in T : m <= n
<1>1. PICK m \in T : \A n \in T : ~(<<n, m>> \in OpToRel(<, Nat))
  BY WFMin, NatLessThanWellFounded, Zenon
<1>2. \A n \in T : ~(n < m)
  BY <1>1, Zenon DEF OpToRel
<1> QED
  BY <1>2

(* Ages that do not increase split into a beginning that has expired and the rest. *)
LEMMA ExpiredSplits ==
    ASSUME NEW s \in Seq(Nat), OldestFirst(s)
    PROVE  Expired(s) \in 0..Len(s) /\ \A i \in DOMAIN s : s[i] >= Minute <=> i <= Expired(s)
<1> DEFINE Young == {i \in DOMAIN s : s[i] < Minute}
<1>1. Minute \in Nat /\ Len(s) \in Nat /\ DOMAIN s = 1..Len(s) /\ \A i \in DOMAIN s : s[i] \in Nat
  BY ConnectionsAssumption
<1>2. \E n \in 0..Len(s) : \A i \in DOMAIN s : s[i] >= Minute <=> i <= n
  <2>1. CASE Young = {}
    <3>1. Len(s) \in 0..Len(s) /\ \A i \in DOMAIN s : s[i] >= Minute /\ i <= Len(s)
      BY <1>1, <2>1
    <3> QED
      BY <3>1, Zenon
  <2>2. CASE Young # {}
    <3>1. PICK m \in Young : \A i \in Young : m <= i
      <4>1. Young \in SUBSET Nat
        BY <1>1
      <4> QED
        BY <2>2, <4>1, SmallestIndex, Zenon
    <3>2. m - 1 \in 0..Len(s) /\ m \in Nat /\ s[m] < Minute
      BY <1>1, <3>1
    <3>3. ASSUME NEW i \in DOMAIN s PROVE s[i] >= Minute <=> i <= m - 1
      <4>1. CASE i < m
        <5>1. i \notin Young /\ i <= m - 1
          BY <1>1, <3>1, <3>2, <4>1
        <5> QED
          BY <1>1, <5>1
      <4>2. CASE ~(i < m)
        <5>1. i \in Nat /\ m <= i /\ m \in DOMAIN s
          BY <1>1, <3>1, <3>2, <4>2
        <5>2. s[m] >= s[i]
          BY <5>1, Zenon DEF OldestFirst
        <5> QED
          BY <1>1, <3>2, <5>1, <5>2
      <4> QED
        BY <1>1, <3>2, <4>1, <4>2, Zenon
    <3> QED
      BY <3>2, <3>3, Zenon
  <2> QED
    BY <2>1, <2>2, Zenon
<1> QED
  BY <1>2, Zenon DEF Expired

\* What has expired is as long as the run of times a minute old or older.
LEMMA ExpiredIs ==
    ASSUME NEW s \in Seq(Nat), OldestFirst(s), NEW n \in 0..Len(s),
           \A i \in DOMAIN s : s[i] >= Minute <=> i <= n
    PROVE  Expired(s) = n
<1>1. /\ Expired(s) \in 0..Len(s) /\ \A i \in DOMAIN s : s[i] >= Minute <=> i <= Expired(s)
  BY ExpiredSplits, Zenon
<1>2. Len(s) \in Nat /\ DOMAIN s = 1..Len(s)
  OBVIOUS
<1>3. CASE Expired(s) < n
  <2>1. n \in DOMAIN s
    BY <1>1, <1>2, <1>3
  <2> QED
    BY <1>1, <1>2, <1>3, <2>1
<1>4. CASE n < Expired(s)
  <2>1. Expired(s) \in DOMAIN s
    BY <1>1, <1>2, <1>4
  <2> QED
    BY <1>1, <1>2, <1>4, <2>1
<1> QED
  BY <1>1, <1>2, <1>3, <1>4

\* What is left is the end of the window, in order, all within the minute.
LEMMA RecentIs ==
    ASSUME NEW s \in Seq(Nat), OldestFirst(s)
    PROVE  /\ Recent(s) \in Seq(Nat) /\ Len(Recent(s)) = Len(s) - Expired(s)
           /\ \A j \in 1..(Len(s) - Expired(s)) : Recent(s)[j] = s[Expired(s) + j]
           /\ \A j \in DOMAIN Recent(s) : Recent(s)[j] < Minute
           /\ OldestFirst(Recent(s))
<1>1. /\ Expired(s) \in 0..Len(s) /\ \A i \in DOMAIN s : s[i] >= Minute <=> i <= Expired(s)
      /\ Len(s) \in Nat /\ DOMAIN s = 1..Len(s) /\ Minute \in Nat
  BY ExpiredSplits, ConnectionsAssumption
<1>2. /\ Recent(s) \in Seq(Nat) /\ Len(Recent(s)) = Len(s) - Expired(s)
      /\ \A j \in 1..(Len(s) - Expired(s)) : Recent(s)[j] = s[Expired(s) + j]
  <2>1. /\ Expired(s) + 1 \in Int /\ Len(s) \in Int
        /\ \A i \in (Expired(s) + 1)..Len(s) : s[i] \in Nat
    BY <1>1
  <2>2. /\ Recent(s) \in Seq(Nat)
        /\ Len(Recent(s)) = IF Expired(s) + 1 <= Len(s) THEN Len(s) - (Expired(s) + 1) + 1 ELSE 0
        /\ \A j \in 1..(Len(s) - (Expired(s) + 1) + 1) : Recent(s)[j] = s[Expired(s) + 1 + j - 1]
    BY <2>1, SubSeqProperties DEF Recent
  <2>3. Len(Recent(s)) = Len(s) - Expired(s)
    <3>1. Expired(s) \in Nat /\ Len(s) \in Nat /\ Expired(s) <= Len(s)
      BY <1>1
    <3>2. Len(Recent(s)) = IF Expired(s) + 1 <= Len(s) THEN Len(s) - (Expired(s) + 1) + 1 ELSE 0
      BY <2>2, Zenon
    <3>3. \A e, n \in Nat : e <= n => n - e = IF e + 1 <= n THEN n - (e + 1) + 1 ELSE 0
      OBVIOUS
    <3> QED
      BY <3>1, <3>2, <3>3, Zenon
  <2>4. ASSUME NEW j \in 1..(Len(s) - Expired(s)) PROVE Recent(s)[j] = s[Expired(s) + j]
    <3>1. Expired(s) + 1 + j - 1 = Expired(s) + j /\ j \in 1..(Len(s) - (Expired(s) + 1) + 1)
      BY <1>1
    <3> QED
      BY <2>2, <3>1, Zenon
  <2> QED
    BY <2>2, <2>3, <2>4, Zenon
<1>3. DOMAIN Recent(s) = 1..(Len(s) - Expired(s))
  BY <1>2
<1>4. ASSUME NEW j \in DOMAIN Recent(s) PROVE Recent(s)[j] < Minute /\ Expired(s) + j \in DOMAIN s
  BY <1>1, <1>2, <1>3
<1>5. OldestFirst(Recent(s))
  BY <1>1, <1>2, <1>3, <1>4 DEF OldestFirst
<1> QED
  BY <1>2, <1>4, <1>5, Zenon

\* Nothing is cut from a window within the minute.
LEMMA AllRecent ==
    ASSUME NEW s \in Seq(Nat), \A i \in DOMAIN s : s[i] < Minute, OldestFirst(s)
    PROVE  Recent(s) = s
<1>1. Expired(s) = 0
  <2>1. 0 \in 0..Len(s) /\ \A i \in DOMAIN s : s[i] >= Minute <=> i <= 0
    BY ConnectionsAssumption
  <2> QED
    BY <2>1, ExpiredIs, Zenon
<1> QED
  BY <1>1 DEF Recent

\* Ages that stop at a bound keep their order and their side of the bound.
LEMMA CappedAges ==
    ASSUME NEW m \in Nat
    PROVE  \A a, b \in Nat : /\ a >= b => Capped(a + 1, m) >= Capped(b + 1, m)
                             /\ Capped(a + 1, m) >= m <=> a + 1 >= m
BY DEF Capped

(* A tick: what is left of the recent ages, each a tick older, is what is recent of   *)
(* all of them a tick later.                                                         *)
LEMMA RecentAges ==
    ASSUME NEW s \in Seq(Nat), OldestFirst(s)
    PROVE  LET t == [i \in DOMAIN s |-> Capped(s[i] + 1, Minute)]
               u == [i \in DOMAIN Recent(s) |-> Recent(s)[i] + 1]
           IN  /\ t \in Seq(Nat) /\ OldestFirst(t) /\ Recent(t) = Recent(u)
               /\ Recent(u) \in Seq(Nat) /\ Len(Recent(u)) <= Len(Recent(s))
<1> DEFINE t == [i \in DOMAIN s |-> Capped(s[i] + 1, Minute)]
           u == [i \in DOMAIN Recent(s) |-> Recent(s)[i] + 1]
           n == Len(s)
           e == Expired(s)
           k == n - e
           f == Expired(u)
           l == k - f
<1>1. /\ e \in Nat /\ n \in Nat /\ k \in Nat /\ n = e + k /\ Minute \in Nat /\ DOMAIN s = 1..n
      /\ \A i \in 1..n : s[i] \in Nat /\ (s[i] >= Minute <=> i <= e)
  BY ExpiredSplits, ConnectionsAssumption
<1>2. /\ Recent(s) \in Seq(Nat) /\ Len(Recent(s)) = k /\ OldestFirst(Recent(s))
      /\ \A j \in 1..k : Recent(s)[j] = s[e + j]
  BY RecentIs, Zenon
<1>3. DOMAIN Recent(s) = 1..k /\ \A j \in 1..k : Recent(s)[j] \in Nat
  BY <1>2
<1>4. /\ u \in Seq(Nat) /\ Len(u) = k /\ DOMAIN u = 1..k
      /\ \A j \in 1..k : u[j] = Recent(s)[j] + 1
  <2> HIDE DEF k
  <2>1. u = [i \in 1..k |-> Recent(s)[i] + 1] /\ \A i \in 1..k : Recent(s)[i] + 1 \in Nat
    BY <1>3
  <2> QED
    BY <1>1, <2>1
<1>5. t \in Seq(Nat) /\ Len(t) = n /\ DOMAIN t = 1..n /\ \A i \in 1..n : t[i] = Capped(s[i] + 1, Minute)
  BY <1>1 DEF Capped
<1> HIDE DEF n, e, k, t, u
<1>6. OldestFirst(u)
  BY <1>2, <1>3, <1>4 DEF OldestFirst
<1>7. OldestFirst(t)
  <2> SUFFICES ASSUME NEW i \in 1..n, NEW j \in 1..n, i <= j PROVE t[i] >= t[j]
    BY <1>5, Zenon DEF OldestFirst
  <2>1. s[i] >= s[j]
    BY <1>1, Zenon DEF OldestFirst
  <2>2. s[i] \in Nat /\ s[j] \in Nat /\ t[i] = Capped(s[i] + 1, Minute) /\ t[j] = Capped(s[j] + 1, Minute)
    BY <1>1, <1>5, Zenon
  <2> QED
    BY <1>1, <2>1, <2>2, CappedAges, Zenon
<1>8. f \in 0..k /\ \A j \in 1..k : u[j] >= Minute <=> j <= f
  BY <1>4, <1>6, ExpiredSplits, Zenon
<1>9. f \in Nat /\ l \in Nat /\ k = f + l
  BY <1>1, <1>8
<1>10. /\ Recent(u) \in Seq(Nat) /\ Len(Recent(u)) = l
       /\ \A j \in 1..l : Recent(u)[j] = u[f + j]
  BY <1>4, <1>6, RecentIs, Zenon
<1> HIDE DEF f, l
<1>11. ASSUME NEW i \in 1..n PROVE t[i] >= Minute <=> i <= e + f
  <2>1. t[i] >= Minute <=> s[i] + 1 >= Minute
    <3>1. s[i] \in Nat /\ t[i] = Capped(s[i] + 1, Minute)
      BY <1>1, <1>5, Zenon
    <3> QED
      BY <1>1, <3>1, CappedAges, Zenon
  <2>2. CASE i <= e
    BY <1>1, <1>9, <2>1, <2>2
  <2>3. CASE i > e
    <3>1. i - e \in 1..k /\ e + (i - e) = i
      BY <1>1, <2>3
    <3>2. u[i - e] = s[i] + 1 /\ (u[i - e] >= Minute <=> i - e <= f)
      BY <1>2, <1>4, <1>8, <3>1, Zenon
    <3> QED
      BY <1>1, <1>9, <2>1, <3>2
  <2> QED
    BY <1>1, <2>2, <2>3
<1>12. Expired(t) = e + f
  <2>1. e + f \in 0..n
    BY <1>1, <1>9
  <2> QED
    BY <1>5, <1>7, <1>11, <2>1, ExpiredIs, Zenon
<1>13. /\ Recent(t) \in Seq(Nat) /\ Len(Recent(t)) = l
       /\ \A j \in 1..l : Recent(t)[j] = t[e + f + j]
  <2>1. Len(t) - Expired(t) = l
    BY <1>1, <1>5, <1>9, <1>12
  <2>2. /\ Recent(t) \in Seq(Nat) /\ Len(Recent(t)) = Len(t) - Expired(t)
        /\ \A j \in 1..(Len(t) - Expired(t)) : Recent(t)[j] = t[Expired(t) + j]
    BY <1>5, <1>7, RecentIs, Zenon
  <2>3. \A j \in 1..l : Recent(t)[j] = t[Expired(t) + j]
    BY <2>1, <2>2, Zenon
  <2> QED
    BY <1>12, <2>1, <2>2, <2>3, Zenon
<1>14. ASSUME NEW j \in 1..l PROVE Recent(t)[j] = Recent(u)[j]
  <2>1. f + j \in 1..k /\ ~(f + j <= f) /\ e + f + j \in 1..n /\ e + (f + j) = e + f + j
    BY <1>1, <1>9
  <2>2. Recent(u)[j] = s[e + f + j] + 1 /\ ~(s[e + f + j] + 1 >= Minute)
    <3>1. Recent(u)[j] = u[f + j] /\ u[f + j] = Recent(s)[f + j] + 1
      BY <1>4, <1>10, <2>1
    <3>2. Recent(s)[f + j] = s[e + f + j] /\ ~(u[f + j] >= Minute)
      BY <1>2, <1>8, <2>1
    <3> QED
      BY <3>1, <3>2, Zenon
  <2>3. Recent(t)[j] = Capped(s[e + f + j] + 1, Minute)
    BY <1>5, <1>13, <2>1
  <2> QED
    BY <1>1, <2>1, <2>2, <2>3 DEF Capped
<1>15. Recent(t) = Recent(u)
  BY <1>10, <1>13, <1>14, SeqEqual
<1>16. Len(Recent(u)) <= Len(Recent(s))
  BY <1>2, <1>9, <1>10
<1> QED
  BY <1>5, <1>7, <1>10, <1>15, <1>16 DEF t, u

\* Steps elsewhere change no window.
LEMMA WindowsUnmoved == WindowsInv /\ UNCHANGED <<windows, lately>> => WindowsInv'
BY Zenon DEF WindowsInv, WindowInv

(* A connection recorded now is the youngest of its window. *)
LEMMA AppendRecent ==
    ASSUME NEW s \in Seq(Nat), OldestFirst(s), \A j \in DOMAIN s : s[j] < Minute,
           NEW new, new = Append(s, 0)
    PROVE  new \in Seq(Nat) /\ Len(new) = Len(s) + 1 /\ OldestFirst(new) /\ Recent(new) = new
<1>1. /\ new \in Seq(Nat) /\ Len(new) = Len(s) + 1 /\ new[Len(s) + 1] = 0
      /\ \A i \in 1..Len(s) : new[i] = s[i]
  OBVIOUS
<1>2. DOMAIN new = 1..(Len(s) + 1) /\ Len(s) \in Nat /\ DOMAIN s = 1..Len(s) /\ Minute \in Nat \ {0}
  BY <1>1, ConnectionsAssumption
<1>3. \A i \in DOMAIN new : new[i] \in Nat
  BY <1>1
<1>4. ASSUME NEW i \in DOMAIN new PROVE i = Len(s) + 1 \/ i \in 1..Len(s)
  BY <1>2
<1>5. \A i \in DOMAIN new : new[i] < Minute
  <2> SUFFICES ASSUME NEW i \in DOMAIN new PROVE new[i] < Minute
    BY Zenon
  <2>1. CASE i = Len(s) + 1
    BY <1>1, <1>2, <2>1
  <2>2. CASE i \in 1..Len(s)
    <3>1. new[i] = s[i] /\ s[i] < Minute
      BY <1>1, <1>2, <2>2, Zenon
    <3> QED
      BY <3>1, Zenon
  <2> QED
    BY <1>4, <2>1, <2>2, Zenon
<1>6. OldestFirst(new)
  <2> SUFFICES ASSUME NEW i \in DOMAIN new, NEW j \in DOMAIN new, i <= j PROVE new[i] >= new[j]
    BY Zenon DEF OldestFirst
  <2>1. CASE j = Len(s) + 1
    <3>1. new[j] = 0 /\ new[i] \in Nat
      BY <1>1, <1>3, <2>1, Zenon
    <3> QED
      BY <3>1
  <2>2. CASE j # Len(s) + 1
    <3>1. i \in 1..Len(s) /\ j \in 1..Len(s)
      BY <1>2, <2>2
    <3>2. s[i] >= s[j]
      BY <1>2, <3>1, Zenon DEF OldestFirst
    <3> QED
      BY <1>1, <3>1, <3>2, Zenon
  <2> QED
    BY <2>1, <2>2, Zenon
<1> QED
  BY <1>1, <1>5, <1>6, AllRecent, Zenon

\* The rate check records an arrival just if it lets it pass.
LEMMA CheckRateWindows == WindowsInv /\ TasksInv /\ CheckRate => WindowsInv'
<1> SUFFICES ASSUME WindowsInv, TasksInv, CheckRate, NEW addr, addr = IpOf[acceptor.peer],
                    NEW recent, recent = Recent(windows[addr])
             PROVE  WindowsInv'
  BY Zenon
<1>1. addr \in Ips
  BY ConnectionsAssumption, Zenon DEF TasksInv, OneAtHand, CheckRate
<1>2. WindowInv(addr) /\ windows \in [Ips -> Seq(Nat)] /\ lately \in [Ips -> Seq(Nat)] /\ recent = lately[addr]
  BY <1>1, Zenon DEF WindowsInv, WindowInv
<1>3. /\ recent \in Seq(Nat) /\ OldestFirst(recent) /\ \A j \in DOMAIN recent : recent[j] < Minute
  BY <1>2, RecentIs, Zenon DEF WindowInv
<1>4. CASE windows' = [windows EXCEPT ![addr] = recent] /\ lately' = lately
  <2>1. Recent(recent) = recent
    BY <1>3, AllRecent, Zenon
  <2> QED
    BY <1>1, <1>2, <1>3, <1>4, <2>1 DEF WindowsInv, WindowInv
<1>5. CASE /\ Len(recent) < MaxPerMinute
           /\ windows' = [windows EXCEPT ![addr] = Append(recent, 0)]
           /\ lately' = [lately EXCEPT ![addr] = Append(@, 0)]
  <2> SUFFICES ASSUME NEW new, new = Append(recent, 0) PROVE WindowsInv'
    BY Zenon
  <2>1. new \in Seq(Nat) /\ Len(new) = Len(recent) + 1 /\ OldestFirst(new) /\ Recent(new) = new
    BY <1>3, AppendRecent, Zenon
  <2>2. Len(new) <= MaxPerMinute
    <3>1. Len(recent) \in Nat /\ MaxPerMinute \in Nat
      BY <1>3, ConnectionsAssumption
    <3>2. \A n, m \in Nat : n < m => n + 1 <= m
      OBVIOUS
    <3> QED
      BY <1>5, <2>1, <3>1, <3>2, Zenon
  <2>3. windows' = [windows EXCEPT ![addr] = new] /\ lately' = [lately EXCEPT ![addr] = new]
    BY <1>2, <1>5, Zenon
  <2>4. windows' \in [Ips -> Seq(Nat)] /\ lately' \in [Ips -> Seq(Nat)]
    BY <1>1, <1>2, <2>1, <2>3, Zenon
  <2>5. ASSUME NEW ip \in Ips PROVE WindowInv(ip)'
    <3>1. CASE ip = addr
      <4>1. windows'[ip] = new /\ lately'[ip] = new
        BY <1>1, <1>2, <2>3, <3>1, Zenon
      <4> QED
        BY <2>1, <2>2, <4>1, Zenon DEF WindowInv
    <3>2. CASE ip # addr
      <4>1. windows'[ip] = windows[ip] /\ lately'[ip] = lately[ip]
        BY <1>2, <2>3, <3>2, Zenon
      <4> QED
        BY <4>1, Zenon DEF WindowsInv, WindowInv
    <3> QED
      BY <3>1, <3>2, Zenon
  <2> QED
    BY <2>4, <2>5, Zenon DEF WindowsInv
<1> QED
  BY <1>4, <1>5, Zenon DEF CheckRate

\* A second makes every arrival older, in the windows and in the history.
LEMMA TickWindows == WindowsInv /\ Tick => WindowsInv'
<1> SUFFICES ASSUME WindowsInv, Tick PROVE WindowsInv'
  BY Zenon
<1>1. ASSUME NEW ip \in Ips
      PROVE  windows'[ip] \in Seq(Nat) /\ lately'[ip] \in Seq(Nat) /\ WindowInv(ip)'
  <2>1. /\ windows[ip] \in Seq(Nat) /\ OldestFirst(windows[ip]) /\ lately[ip] = Recent(windows[ip])
        /\ Len(lately[ip]) <= MaxPerMinute /\ Len(lately[ip]) \in Nat
    BY DEF WindowsInv, WindowInv
  <2>2. /\ windows'[ip] = [i \in DOMAIN windows[ip] |-> Capped(windows[ip][i] + 1, Minute)]
        /\ lately'[ip] = Recent([i \in DOMAIN lately[ip] |-> lately[ip][i] + 1])
    BY Zenon DEF Tick
  <2>3. /\ windows'[ip] \in Seq(Nat) /\ OldestFirst(windows'[ip])
        /\ lately'[ip] = Recent(windows'[ip]) /\ lately'[ip] \in Seq(Nat)
        /\ Len(lately'[ip]) <= Len(lately[ip])
    <3> SUFFICES ASSUME NEW s, s = windows[ip]
                 PROVE  /\ windows'[ip] \in Seq(Nat) /\ OldestFirst(windows'[ip])
                        /\ lately'[ip] = Recent(windows'[ip]) /\ lately'[ip] \in Seq(Nat)
                        /\ Len(lately'[ip]) <= Len(lately[ip])
      BY Zenon
    <3>1. s \in Seq(Nat) /\ OldestFirst(s)
      BY <2>1, Zenon
    <3> QED
      BY <2>1, <2>2, <3>1, RecentAges, Zenon
  <2>4. Len(lately'[ip]) <= MaxPerMinute
    <3>1. Len(lately'[ip]) \in Nat /\ MaxPerMinute \in Nat
      <4>1. lately'[ip] \in Seq(Nat)
        BY <2>3, Zenon
      <4> QED
        BY <4>1, ConnectionsAssumption
    <3> QED
      BY <2>1, <2>3, <3>1
  <2> QED
    BY <2>3, <2>4, Zenon DEF WindowInv
<1>2. /\ windows' = [ip \in Ips |-> windows'[ip]] /\ lately' = [ip \in Ips |-> lately'[ip]]
  BY Zenon DEF Tick
<1>3. windows' \in [Ips -> Seq(Nat)] /\ lately' \in [Ips -> Seq(Nat)]
  BY <1>1, <1>2, Zenon
<1> QED
  BY <1>1, <1>3, Zenon DEF WindowsInv

\* The sweep drops only windows in which nothing counts any more.
LEMMA PruneWindows == WindowsInv /\ Prune => WindowsInv'
<1> SUFFICES ASSUME WindowsInv, Prune PROVE WindowsInv'
  BY Zenon
<1>1. <<>> \in Seq(Nat) /\ OldestFirst(<<>>) /\ Recent(<<>>) = <<>>
  <2>1. <<>> \in Seq(Nat) /\ OldestFirst(<<>>) /\ \A i \in DOMAIN <<>> : <<>>[i] < Minute
    BY DEF OldestFirst
  <2> QED
    BY <2>1, AllRecent, Zenon
<1>2. ASSUME NEW ip \in Ips PROVE windows'[ip] \in Seq(Nat) /\ WindowInv(ip)'
  <2>1. windows'[ip] = PrunedWindow(windows[ip]) /\ lately' = lately /\ WindowInv(ip)
    BY Zenon DEF Prune, WindowsInv
  <2> QED
    BY <1>1, <2>1, Zenon DEF PrunedWindow, WindowInv
<1>3. windows' = [ip \in Ips |-> windows'[ip]] /\ lately' = lately
  BY Zenon DEF Prune
<1>4. windows' \in [Ips -> Seq(Nat)]
  BY <1>2, <1>3, Zenon
<1> QED
  BY <1>2, <1>3, <1>4, Zenon DEF WindowsInv

(* No address gets more connections than its limit into any one minute: what the     *)
(* limiter would count is always what really came.                                   *)
THEOREM LimitIsKept == Spec => []LimitHolds
<1>1. Init => WindowsInv
  <2> SUFFICES ASSUME Init PROVE WindowsInv
    BY Zenon
  <2>1. <<>> \in Seq(Nat) /\ OldestFirst(<<>>) /\ \A i \in DOMAIN <<>> : <<>>[i] < Minute
    BY DEF OldestFirst
  <2>2. Recent(<<>>) = <<>>
    BY <2>1, AllRecent, Zenon
  <2> QED
    BY <2>1, <2>2, ConnectionsAssumption DEF Init, WindowsInv, WindowInv
<1>2. WindowsInv /\ SessionsInv /\ [Next]_vars => WindowsInv'
  <2> SUFFICES ASSUME WindowsInv, SessionsInv, [Next]_vars PROVE WindowsInv'
    BY Zenon
  <2>1. CASE UNCHANGED <<windows, lately>>
    BY <2>1, WindowsUnmoved, Zenon
  <2>2. CASE AcceptLoop
    BY <2>1, <2>2, CheckRateWindows, Zenon DEF AcceptLoop, Accept, ReserveSlot, CheckBan, SessionsInv
  <2>3. ASSUME NEW c \in Conns, Peer(c) \/ Task(c) \/ NoSession(c) \/ NoMore(c) \/ JobArrives(c)
        PROVE  WindowsInv'
    BY <2>1, <2>3, Zenon DEF Peer, Task, FirstByte, EnterSession, HandshakeDone, Inbound, Banned, PeerDies,
                      Naming, Depart, NoSession, NoMore, JobArrives
  <2>4. CASE Evict \/ UNCHANGED vars
    BY <2>1, <2>4, Zenon DEF Evict, vars
  <2> QED
    BY <2>2, <2>3, <2>4, TickWindows, PruneWindows, Zenon DEF Next
<1>3. WindowsInv => LimitHolds
  BY Zenon DEF WindowsInv, WindowInv, LimitHolds
<1> QED
  BY <1>1, <1>2, <1>3, SessionsInitInv, SessionsStep, PTL DEF Spec
=============================================================================
