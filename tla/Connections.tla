---------------------------- MODULE Connections ----------------------------
(***************************************************************************)
(* Connections from accept to release: the accept loop with its slots,     *)
(* bans and per-address limit (network/server.rs, security/mod.rs), the    *)
(* task of every connection (peek, Noise handshake, session loop,          *)
(* departure; network/session.rs, protocol/sv2/mod.rs) and the pruner.     *)
(*                                                                         *)
(* Time passes in ticks; every deadline is kept as an age.  A connection   *)
(* that is over may be made again under the same name.                     *)
(***************************************************************************)
EXTENDS Presence, Sequences

CONSTANTS
    Ips, IpOf,              \* the peers' addresses
    ProtoOf,                \* and what they speak: "sv1" or "sv2"
    Mortal,                 \* the connections whose peer may die without a word
    MaxConnections,         \* [pool] max_connections
    MaxPerMinute, Minute,   \* [security] max_connections_per_ip, and the window
    BanDuration,            \* [security] ban_duration_secs
    HANDSHAKE_TIMEOUT,
    IdleTimeout             \* [pool] idle_timeout_secs

ASSUME ConnectionsAssumption ==
    /\ IpOf \in [Conns -> Ips]
    /\ ProtoOf \in [Conns -> {"sv1", "sv2"}]
    /\ Mortal \subseteq Conns
    /\ {MaxConnections, MaxPerMinute, Minute, BanDuration, HANDSHAKE_TIMEOUT, IdleTimeout}
         \subseteq Nat \ {0}

VARIABLES
    acceptor,       \* the accept loop: where it is, the peer at hand
    active_count,   \* slots taken
    bans,           \* per address, how long its ban still lasts; NotBanned: no entry
    windows,        \* per address, the ages of its recent connections
    lately,         \* the same, kept exactly
    task,           \* per connection, where its task is
    quiet,          \* and the age of the last message or stage
    dead,           \* the peer has gone, without a word
    connected       \* connected_miners

conns == <<task, quiet, dead>>
vars == <<presence, acceptor, active_count, bans, windows, lately, conns, connected>>

NotBanned == -1
Capped(n, cap) == IF n < cap THEN n ELSE cap

Init ==
    /\ PresenceInit
    /\ acceptor = [at |-> "accept", peer |-> NoOne]
    /\ active_count = 0
    /\ bans = [ip \in Ips |-> NotBanned]
    /\ windows = [ip \in Ips |-> <<>>]
    /\ lately = [ip \in Ips |-> <<>>]
    /\ task = [c \in Conns |-> "none"]
    /\ quiet = [c \in Conns |-> 0]
    /\ dead = [c \in Conns |-> FALSE]
    /\ connected = 0

-----------------------------------------------------------------------------
(* BanList and ConnectionRateLimiter *)

ban(ip) == [bans EXCEPT ![ip] = BanDuration]

IsBanned(ip) == bans[ip] > 0

\* Mutant: the entry that looked expired is removed without a second look.
MutRemoves(ip) == [bans EXCEPT ![ip] = NotBanned]

(* is_banned drops an entry that has run out; remove_if looks again. *)
Swept(ip) == IF bans[ip] = 0 THEN [bans EXCEPT ![ip] = NotBanned] ELSE bans

(* retain keeps what is younger than the cutoff.  A window is in the order of the    *)
(* accepts, oldest first: what goes is its beginning.                                *)
Expired(ages) == CHOOSE n \in 0..Len(ages) : \A i \in DOMAIN ages : ages[i] >= Minute <=> i <= n

Recent(ages) == SubSeq(ages, Expired(ages) + 1, Len(ages))

\* Mutant: the pruner's comparison is turned round.
MutForgets(ages) == IF Recent(ages) = ages THEN <<>> ELSE ages

(* ConnectionRateLimiter::prune drops a window with nothing recent in it. *)
PrunedWindow(ages) == IF Recent(ages) = <<>> THEN <<>> ELSE ages

-----------------------------------------------------------------------------
(* The accept loop *)

AcceptorAt(at) == acceptor' = [acceptor EXCEPT !.at = at]
NextPeer == acceptor' = [at |-> "accept", peer |-> NoOne]

Accept ==
    /\ acceptor.at = "accept"
    /\ \E c \in Conns :
        /\ task[c] = "none"
        /\ acceptor' = [at |-> "reserve", peer |-> c]
        /\ task' = [task EXCEPT ![c] = "accepted"]
    /\ UNCHANGED <<presence, active_count, bans, windows, lately, quiet, dead,
                   connected>>

Drop == task' = [task EXCEPT ![acceptor.peer] = "none"]

Full == active_count >= MaxConnections

(* The slot: a compare-exchange repeated until it succeeds, one step to the others *)
ReserveSlot ==
    /\ acceptor.at = "reserve"
    /\ \/ /\ Full
          /\ NextPeer
          /\ Drop
          /\ UNCHANGED active_count
       \/ /\ ~Full
          /\ active_count' = active_count + 1
          /\ AcceptorAt("check")
          /\ UNCHANGED task
    /\ UNCHANGED <<presence, bans, windows, lately, quiet, dead, connected>>

\* Mutant: a banned peer is dropped with its slot.
MutKeepsSlot == UNCHANGED active_count

GiveBack == active_count' = active_count - 1

CheckBan ==
    /\ acceptor.at = "check"
    /\ \/ /\ IsBanned(IpOf[acceptor.peer])
          /\ GiveBack
          /\ NextPeer
          /\ Drop
       \/ /\ ~IsBanned(IpOf[acceptor.peer])
          /\ AcceptorAt("limit")
          /\ UNCHANGED <<active_count, task>>
    /\ UNCHANGED <<presence, bans, windows, lately, quiet, dead, connected>>

(* is_banned's clean-up, then check_and_record.  Over the limit the address is      *)
(* banned; else the task is spawned.                                                 *)
CheckRate ==
    LET addr == IpOf[acceptor.peer]
        recent == Recent(windows[addr])
    IN  /\ acceptor.at = "limit"
        /\ NextPeer
        /\ \/ /\ Len(recent) >= MaxPerMinute
              /\ windows' = [windows EXCEPT ![addr] = recent]
              /\ bans' = ban(addr)
              /\ active_count' = active_count - 1
              /\ Drop
              /\ UNCHANGED <<lately, quiet>>
           \/ /\ Len(recent) < MaxPerMinute
              /\ windows' = [windows EXCEPT ![addr] = Append(recent, 0)]
              /\ lately' = [lately EXCEPT ![addr] = Append(@, 0)]
              /\ bans' = Swept(addr)
              /\ task' = [task EXCEPT ![acceptor.peer] = "peek"]
              /\ quiet' = [quiet EXCEPT ![acceptor.peer] = 0]
              /\ UNCHANGED active_count
        /\ UNCHANGED <<presence, dead, connected>>

-----------------------------------------------------------------------------
(* The connections' tasks *)

At(c, where) == task[c] = where

(* A task that ends before a session has begun gives its slot back at once. *)
Forget(c) ==
    /\ active_count' = active_count - 1
    /\ task' = [task EXCEPT ![c] = "none"]
    /\ quiet' = [quiet EXCEPT ![c] = 0]
    /\ dead' = [dead EXCEPT ![c] = FALSE]

Enter(c, where) ==
    /\ task' = [task EXCEPT ![c] = where]
    /\ quiet' = [quiet EXCEPT ![c] = 0]

(* The first byte tells the protocol and run asks is_banned once more; *)
FirstByte(c) ==
    /\ At(c, "peek") /\ ~dead[c]
    /\ \/ /\ IsBanned(IpOf[c])
          /\ Forget(c)
       \/ /\ ~IsBanned(IpOf[c])
          /\ Enter(c, "unbanned")
          /\ UNCHANGED <<active_count, dead>>
    /\ UNCHANGED <<presence, acceptor, bans, windows, lately, connected>>

(* an SV1 miner counts as connected at once, an SV2 one after the handshake. *)
EnterSession(c) ==
    /\ At(c, "unbanned")
    /\ bans' = Swept(IpOf[c])
    /\ \/ /\ ProtoOf[c] = "sv1"
          /\ Enter(c, "live")
          /\ connected' = connected + 1
       \/ /\ ProtoOf[c] = "sv2"
          /\ Enter(c, "noise")
          /\ UNCHANGED connected
    /\ UNCHANGED <<presence, acceptor, active_count, windows, lately, dead>>

HandshakeDone(c) ==
    /\ At(c, "noise") /\ ~dead[c]
    /\ Enter(c, "live")
    /\ connected' = connected + 1
    /\ UNCHANGED <<presence, acceptor, active_count, bans, windows, lately, dead>>

(* The peek or the handshake fails, or its deadline passes. *)
NoSession(c) ==
    /\ At(c, "peek") \/ At(c, "noise")
    /\ ~dead[c] \/ quiet[c] >= HANDSHAKE_TIMEOUT
    /\ Forget(c)
    /\ UNCHANGED <<presence, acceptor, bans, windows, lately, connected>>

-----------------------------------------------------------------------------
(* The session loop *)

Looping(c) == At(c, "live") /\ Idle(c)

Leaves(c) == task' = [task EXCEPT ![c] = "leaving"]

(* The end of an iteration: a retarget may find the worker's entry gone. *)
Retarget(c) == UNCHANGED presence \/ RenewName(c)

(* A message is handled: an identity is taken, or nothing is that matters here, or   *)
(* the session is to end.                                                            *)
Inbound(c) ==
    /\ Looping(c) /\ ~dead[c]
    /\ quiet' = [quiet EXCEPT ![c] = 0]
    /\ \/ /\ Retarget(c)
          /\ UNCHANGED task
       \/ /\ \E w \in Names : TakeName(c, w)
          /\ UNCHANGED task
       \/ /\ Leaves(c)
          /\ UNCHANGED presence
    /\ UNCHANGED <<acceptor, active_count, bans, windows, lately, dead, connected>>

(* The message is too long, or one too many: the address is banned. *)
Banned(c) ==
    /\ Looping(c) /\ ~dead[c]
    /\ bans' = ban(IpOf[c])
    /\ Leaves(c)
    /\ UNCHANGED <<presence, acceptor, active_count, windows, lately, quiet, 
                   dead, connected>>

\* Mutant: the deadline counts from the last iteration of the loop.
MutClockRestarts(c) == 0

(* Jobs do not move last_inbound. *)
QuietAfterJob(c) == quiet[c]

(* A job is pushed, or the write fails. *)
JobArrives(c) ==
    /\ Looping(c)
    /\ quiet' = [quiet EXCEPT ![c] = QuietAfterJob(c)]
    /\ \/ /\ Retarget(c)
          /\ UNCHANGED task
       \/ /\ Leaves(c)
          /\ UNCHANGED presence
    /\ UNCHANGED <<acceptor, active_count, bans, windows, lately, dead, connected>>

ReadTimeout(c) == IF Named(c) = NoOne THEN HANDSHAKE_TIMEOUT ELSE IdleTimeout

(* The peer hangs up, or the deadline on its next message passes. *)
NoMore(c) ==
    /\ Looping(c)
    /\ ~dead[c] \/ quiet[c] >= ReadTimeout(c)
    /\ Leaves(c)
    /\ UNCHANGED <<presence, acceptor, active_count, bans, windows, lately, quiet,
                   dead, connected>>

Naming(c) ==
    /\ OnlineLook(c) \/ OnlineInsert(c)
    /\ UNCHANGED <<acceptor, active_count, bans, windows, lately, conns, connected>>

(* After the loop: miner_disconnected, mark_worker_offline, and the slot *)
Depart(c) ==
    /\ At(c, "leaving")
    /\ connected' = connected - 1
    /\ LeavePresence(c)
    /\ Forget(c)
    /\ UNCHANGED <<acceptor, bans, windows, lately>>

-----------------------------------------------------------------------------

Waiting(c) == task[c] \in {"peek", "noise", "live"}

(* External: the peer loses power, and sends no FIN. *)
PeerDies(c) ==
    /\ c \in Mortal /\ ~dead[c]
    /\ Waiting(c)
    /\ dead' = [dead EXCEPT ![c] = TRUE]
    /\ UNCHANGED <<presence, acceptor, active_count, bans, windows, lately, task, quiet, connected>>

(* The pruner's round: bans, windows, then the workers to evict *)
Prune ==
    /\ bans' = [ip \in Ips |-> IF bans[ip] = 0 THEN NotBanned ELSE bans[ip]]
    /\ windows' = [ip \in Ips |-> PrunedWindow(windows[ip])]
    /\ CollectStale
    /\ UNCHANGED <<acceptor, active_count, lately, conns, connected>>

Evict ==
    /\ RemoveStale
    /\ UNCHANGED <<acceptor, active_count, bans, windows, lately, conns, connected>>

Deadline == IF HANDSHAKE_TIMEOUT < IdleTimeout THEN IdleTimeout ELSE HANDSHAKE_TIMEOUT

Tick ==
    /\ quiet' = [c \in Conns |-> IF Waiting(c) THEN Capped(quiet[c] + 1, Deadline)
                                  ELSE quiet[c]]
    /\ bans' = [ip \in Ips |-> IF bans[ip] > 0 THEN bans[ip] - 1 ELSE bans[ip]]
    /\ windows' = [ip \in Ips |->
                      [i \in DOMAIN windows[ip] |-> Capped(windows[ip][i] + 1, Minute)]]
    /\ lately' = [ip \in Ips |->
                      Recent([i \in DOMAIN lately[ip] |-> lately[ip][i] + 1])]
    /\ UNCHANGED <<presence, acceptor, active_count, task, dead, connected>>

AcceptLoop == Accept \/ ReserveSlot \/ CheckBan \/ CheckRate
Peer(c) == FirstByte(c) \/ HandshakeDone(c) \/ Inbound(c) \/ Banned(c)
             \/ PeerDies(c)
Task(c) == EnterSession(c) \/ Naming(c) \/ Depart(c)

Next ==
    \/ AcceptLoop
    \/ \E c \in Conns : Peer(c) \/ Task(c) \/ NoSession(c) \/ NoMore(c) \/ JobArrives(c)
    \/ Prune \/ Evict
    \/ Tick

Spec == Init /\ [][Next]_vars

(* Time passes and a task that can run does.  A deadline that has passed is noticed: *)
(* select! picks at random among the arms that are ready.                            *)
LiveSpec ==
    /\ Spec
    /\ WF_vars(Tick)
    /\ \A c \in Mortal : WF_vars(Task(c) \/ NoSession(c)) /\ SF_vars(NoMore(c))

-----------------------------------------------------------------------------

HoldsSlot(c) ==
    \/ task[c] \notin {"none", "accepted"}
    \/ task[c] = "accepted" /\ acceptor.at \in {"check", "limit"}

(* Every way a connection can end gives back its slot once, and its place among the  *)
(* connected miners if it had one: the counters the cap and the dashboard rely on    *)
(* never drift from the connections there are, and these stay within the cap.        *)
CountersMatch ==
    /\ active_count <= MaxConnections
    /\ active_count = Cardinality({c \in Conns : HoldsSlot(c)})
    /\ connected = Cardinality({c \in Conns : task[c] \in {"live", "leaving"}})

(* No address gets more connections than its limit into any one minute, whatever the *)
(* pruner drops in between.                                                          *)
LimitHolds == \A ip \in Ips : Len(lately[ip]) <= MaxPerMinute

(* A ban runs its course: a task that found the last one expired and is about to     *)
(* clean it up does not take away the one another task has just issued.              *)
BanStands == [][\A ip \in Ips : bans[ip] > 0 => bans'[ip] >= bans[ip] - 1]_vars

(* A peer that died without a word gives its slot back, although jobs keep being     *)
(* pushed to it and every push wakes the loop that watches the deadline.             *)
DeadPeerFreesSlot == \A c \in Mortal : dead[c] ~> ~HoldsSlot(c)
=============================================================================
