---------------------------- MODULE StatsWriter ----------------------------
(***************************************************************************)
(* The stats-writer thread of src/stats.rs: an unbounded channel of        *)
(* StoreWrite messages, the loop that takes them one at a time, and the    *)
(* retry backlog in which failed durable writes wait for the disk.         *)
(*                                                                         *)
(* The module knows nothing of what a write does.  A component that owns   *)
(* tables EXTENDS it, says which writes are durable (IsDurable) and        *)
(* conjoins the effect of applying Current with WriteApplied, or leaves    *)
(* its tables alone under WriteFailed.  Each attempt is one transaction,   *)
(* hence one step: between two attempts the process may crash.             *)
(***************************************************************************)
EXTENDS Naturals, Sequences, Functions

CONSTANT MaxBacklog   \* MAX_WRITE_BACKLOG (10 000 in the code)

ASSUME MaxBacklogAssumption == MaxBacklog \in Nat \ {0}

VARIABLES
    queue,     \* the mpsc channel, oldest first
    inHand,    \* `next` of the loop: <<>> or <<write>>
    retries,   \* attempts left in the current retry_backlog pass
    backlog,   \* parked durable writes, oldest first
    overflowed \* history: the backlog has dropped a write this boot

writerVars == <<queue, inHand, retries, backlog, overflowed>>

WriterInit ==
    /\ queue = <<>>
    /\ inHand = <<>>
    /\ retries = 0
    /\ backlog = <<>>
    /\ overflowed = FALSE

Enqueue(write) ==
    /\ queue' = Append(queue, write)
    /\ UNCHANGED <<inHand, retries, backlog, overflowed>>

(* Everything accepted by enqueue and not yet applied or dropped. *)
InFlight == Range(backlog) \cup Range(inHand) \cup Range(queue)

Waiting == retries = 0 /\ inHand = <<>>

(* recv, or recv_timeout answering with a message: the next write is in    *)
(* hand, and the whole backlog is up for one retry pass first.             *)
ReceiveWrite ==
    /\ Waiting
    /\ queue # <<>>
    /\ inHand' = <<Head(queue)>>
    /\ queue' = Tail(queue)
    /\ retries' = Len(backlog)
    /\ UNCHANGED <<backlog, overflowed>>

MutTimeoutIdle ==
    /\ Waiting
    /\ queue = <<>>
    /\ backlog # <<>>
    /\ UNCHANGED <<queue, inHand, retries, backlog, overflowed>>

(* recv_timeout expiring: a retry pass with nothing in hand. *)
ReceiveTimeout ==
    /\ Waiting
    /\ queue = <<>>
    /\ backlog # <<>>
    /\ retries' = Len(backlog)
    /\ UNCHANGED <<queue, inHand, backlog, overflowed>>

(* The write apply_write is being called with. *)
Attempting == retries > 0 \/ inHand # <<>>
Current == IF retries > 0 THEN Head(backlog) ELSE Head(inHand)

(* retry_backlog: the popped head was applied. *)
RetryApplied ==
    /\ retries > 0
    /\ backlog' = Tail(backlog)
    /\ retries' = retries - 1
    /\ UNCHANGED <<queue, inHand, overflowed>>

(* retry_backlog: the head goes back to the front and the pass ends. *)
RetryFailed ==
    /\ retries > 0
    /\ retries' = 0
    /\ UNCHANGED <<queue, inHand, backlog, overflowed>>

HandleApplied ==
    /\ retries = 0
    /\ inHand # <<>>
    /\ inHand' = <<>>
    /\ UNCHANGED <<queue, retries, backlog, overflowed>>

(* handle_write on an error: durable writes are parked, evicting the       *)
(* oldest parked one at the cap; the others are dropped.                   *)
Full == Len(backlog) >= MaxBacklog
Park(write) == Append(IF Full THEN Tail(backlog) ELSE backlog, write)

HandleFailed(durable) ==
    /\ retries = 0
    /\ inHand # <<>>
    /\ inHand' = <<>>
    /\ backlog' = IF durable THEN Park(Head(inHand)) ELSE backlog
    /\ overflowed' = (overflowed \/ (durable /\ Full))
    /\ UNCHANGED <<queue, retries>>

WriteApplied == RetryApplied \/ HandleApplied
WriteFailed(durable) == RetryFailed \/ HandleFailed(durable)

(* The process ends: channel, backlog and the write in hand go with it. *)
WriterLost ==
    /\ queue' = <<>>
    /\ inHand' = <<>>
    /\ retries' = 0
    /\ backlog' = <<>>
    /\ overflowed' = FALSE

WriterTypeOK(Write) ==
    /\ queue \in Seq(Write)
    /\ inHand \in Seq(Write) /\ Len(inHand) <= 1
    /\ backlog \in Seq(Write) /\ Len(backlog) <= MaxBacklog
    /\ retries \in 0..Len(backlog)
    /\ overflowed \in BOOLEAN
=============================================================================
