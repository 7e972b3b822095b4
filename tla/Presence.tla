------------------------------ MODULE Presence ------------------------------
(***************************************************************************)
(* Who is online (stats.rs): the number of active sessions the pool keeps  *)
(* for every worker it knows, and the calls by which session tasks and the *)
(* pruner change it.  The map locks one entry at a time, so a call that    *)
(* looks an entry up, finds none and inserts one takes two steps.          *)
(*                                                                         *)
(* A worker is online when its count is positive: mark_worker_online and   *)
(* mark_worker_offline keep the flag and the count together.               *)
(***************************************************************************)
EXTENDS Integers, FiniteSets

CONSTANTS Conns, Names

VARIABLES
    worker_states,      \* active_sessions of every known worker; Absent: no entry
    session,            \* per task: its worker's name, and the call it is in
    stale,              \* the pruner's list of workers to evict
    raced               \* workers that lost a session in a race

NoOne == "none"
Absent == -1

ASSUME PresenceAssumption == IsFiniteSet(Conns) /\ NoOne \notin Names

presence == <<worker_states, session, stale, raced>>

PresenceInit ==
    /\ worker_states = [w \in Names |-> Absent]
    /\ session = [c \in Conns |-> [name |-> NoOne, call |-> "none", new |-> NoOne]]
    /\ stale = {}
    /\ raced = {}

Idle(c) == session[c].call = "none"
Named(c) == session[c].name

ActiveSessions(w) == IF worker_states[w] = Absent THEN 0 ELSE worker_states[w]

\* Mutant: one session's leaving takes the worker offline.
MutAllLeave(w) == IF worker_states[w] = Absent THEN Absent ELSE 0

(* mark_worker_offline, under the entry's lock; a missing entry is left missing *)
Offline(w) ==
    IF worker_states[w] > 1 THEN worker_states[w] - 1
    ELSE IF worker_states[w] = Absent THEN Absent ELSE 0

mark_worker_offline(w) == worker_states' = [worker_states EXCEPT ![w] = Offline(w)]

(* A name is given up, if there was one; with its last session a race is forgotten. *)
GoOffline(c) ==
    /\ IF Named(c) = NoOne THEN UNCHANGED worker_states ELSE mark_worker_offline(Named(c))
    /\ raced' = IF \E d \in Conns \ {c} : Named(d) = Named(c) THEN raced ELSE raced \ {Named(c)}
    /\ UNCHANGED stale

(* A session that leaves *)
LeavePresence(c) ==
    /\ GoOffline(c)
    /\ session' = [session EXCEPT ![c].name = NoOne]

(* A new identity: the old name goes offline, then mark_worker_online is called. *)
TakeName(c, w) ==
    /\ Idle(c) /\ Named(c) # w
    /\ GoOffline(c)
    /\ session' = [session EXCEPT ![c] = [name |-> NoOne, call |-> "online", new |-> w]]

(* update_worker_vardiff finds no entry and calls mark_worker_online. *)
RenewName(c) ==
    /\ Idle(c) /\ Named(c) # NoOne
    /\ worker_states[Named(c)] = Absent
    /\ session' = [session EXCEPT ![c].call = "online", ![c].new = Named(c)]
    /\ UNCHANGED <<worker_states, stale, raced>>

Return(c) == session' = [session EXCEPT ![c] = [name |-> @.new, call |-> "none", new |-> NoOne]]

(* mark_worker_online's first step: the entry is there, or it is not *)
OnlineLook(c) ==
    LET w == session[c].new
    IN  /\ session[c].call = "online"
        /\ \/ /\ worker_states[w] # Absent
              /\ worker_states' = [worker_states EXCEPT ![w] = @ + 1]
              /\ Return(c)
           \/ /\ worker_states[w] = Absent
              /\ session' = [session EXCEPT ![c].call = "insert"]
              /\ UNCHANGED worker_states
        /\ UNCHANGED <<stale, raced>>

(* Its second: an entry made since the look is overwritten. *)
OnlineInsert(c) ==
    LET w == session[c].new
    IN  /\ session[c].call = "insert"
        /\ worker_states' = [worker_states EXCEPT ![w] = 1]
        /\ raced' = IF ActiveSessions(w) > 0 THEN raced \cup {w} ELSE raced
        /\ Return(c)
        /\ UNCHANGED stale

Evictable == {w \in Names : worker_states[w] = 0}

(* prune_idle_workers lists the offline workers idle for long enough: any of them *)
CollectStale ==
    /\ stale = {}
    /\ stale' \in SUBSET Evictable
    /\ UNCHANGED <<worker_states, session, raced>>

(* and then removes them, online again or not. *)
RemoveStale ==
    \E w \in stale :
        /\ stale' = stale \ {w}
        /\ worker_states' = [worker_states EXCEPT ![w] = Absent]
        /\ raced' = IF ActiveSessions(w) > 0 THEN raced \cup {w} ELSE raced
        /\ UNCHANGED session

-----------------------------------------------------------------------------

(* The sessions that are online as w, by their own account *)
Online(w) == {c \in Conns : Named(c) = w}

(* A worker is never shown with more sessions than it has, however authorizations,   *)
(* departures, retargets and evictions interleave: when its last session is gone it  *)
(* is offline.  And with no fewer, but for the two races the code leaves open: two   *)
(* first sessions of a worker inserting at once, and an eviction that removes a      *)
(* worker who came back after it was listed.                                         *)
PresenceIsExact ==
    \A w \in Names : /\ ActiveSessions(w) <= Cardinality(Online(w))
                     /\ w \notin raced => ActiveSessions(w) = Cardinality(Online(w))
=============================================================================
