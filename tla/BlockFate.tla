----------------------------- MODULE BlockFate -----------------------------
(***************************************************************************)
(* What becomes of a found block: the submission ladder of                 *)
(* src/mining/engine.rs and the confirmation sweep of                      *)
(* src/mining/confirm.rs, against a node that reorgs, forgets and answers  *)
(* late.                                                                   *)
(*                                                                         *)
(*   ladder    the session that found the block, inside                    *)
(*             submit_found_block and then record_block_outcome, or the    *)
(*             detached resubmit task that takes over from it              *)
(*   archive   the blocking thread that writes the block's hex             *)
(*   probe     the sweep, between the calls it makes to the node           *)
(*                                                                         *)
(* Enrolling a block and resolving it are one step each here, and what is  *)
(* enrolled survives the process: the steps inside, and the durability,    *)
(* are PoolStats'.  Names marked history are not in the code.              *)
(***************************************************************************)
EXTENDS ChainNode

CONSTANTS
    Depth,           \* confirmation_depth (6 by default)
    InlineAttempts,  \* SUBMIT_INLINE_ATTEMPTS (3)
    MaxAttempts,     \* attempts that fit before SUBMIT_RETRY_DEADLINE
    MaxFailures,     \* bound: failed calls and failed archive writes
    MaxRestarts      \* bound: process deaths

ASSUME BlockFateAssumption ==
    /\ Depth \in 1..100
    /\ MaxReorg < Depth
    /\ InlineAttempts \in Nat \ {0}
    /\ MaxAttempts \in Nat
    /\ InlineAttempts < MaxAttempts
    /\ {MaxFailures, MaxRestarts} \subseteq Nat

VARIABLES
    ladder,      \* per block: pc, attempts made and the outcome in hand
    archive,     \* per block: its hex file
    pending,     \* pending_blocks
    won,         \* the blocks enrolled with won_at_submit
    resolution,  \* per block: the final verdict, or "none"
    aged,        \* the blocks found ABANDON_AFTER ago or earlier
    todo,        \* the rest of the sweep's copy of the pending set
    probe,       \* the sweep
    straddled,   \* history: orphaned though back on chain between two calls
    failures, restarts

ladderVars == <<ladder, archive, pending, won>>
sweepVars == <<todo, probe, resolution, straddled>>
fateVars == <<chainNodeVars, ladderVars, sweepVars, aged, failures, restarts>>

-----------------------------------------------------------------------------
Outcomes == {"accepted", "duplicate", "inconclusive"}
LadderStates == {"unfound", "inline", "retry", "record", "recorded",
                 "rejected", "gave_up", "forgotten"}
Resolutions == {"confirmed", "orphaned", "abandoned"}

Unfound == [pc |-> "unfound", attempts |-> 0, outcome |-> "none"]
Probe(pc, block, position, confirmations) ==
    [pc |-> pc, block |-> block, position |-> position,
     confirmations |-> confirmations, tip_height |-> 0, returned |-> FALSE]
ProbeIdle == Probe("idle", "none", "none", 0)
ProbeNext == Probe("next", "none", "none", 0)

FateInit ==
    /\ NodeInit
    /\ ladder = [b \in Finds |-> Unfound]
    /\ archive = [b \in Finds |-> "none"]
    /\ pending = {} /\ won = {}
    /\ resolution = [b \in Finds |-> "none"]
    /\ aged = {} /\ todo = {}
    /\ probe = ProbeIdle
    /\ straddled = {}
    /\ failures = 0 /\ restarts = 0

-----------------------------------------------------------------------------
(* classify_submit_response; "rejected" is SubmitBlockRejected, the one    *)
(* permanent error.                                                        *)
MutDuplicateIsDuplicate(answer) ==
    CASE answer = "null" -> "accepted"
      [] answer \in {"duplicate", "duplicate-inconclusive"} -> "duplicate"
      [] answer = "inconclusive" -> "inconclusive"
      [] OTHER -> "rejected"

ClassifySubmitResponse(answer) ==
    CASE answer = "null" -> "accepted"
      [] answer = "duplicate" -> "duplicate"
      [] answer \in {"inconclusive", "duplicate-inconclusive"} -> "inconclusive"
      [] OTHER -> "rejected"

IsWin(outcome) == outcome # "inconclusive"

(* A share on a job of height tip + 1, or of an earlier tip, is a block:   *)
(* submit_found_block starts and the archive write goes to its own thread. *)
FindBlock(b) ==
    /\ ladder[b].pc = "unfound"
    /\ HeightOf[b] <= chainHeight + 1
    /\ ladder' = [ladder EXCEPT ![b].pc = "inline"]
    /\ archive' = [archive EXCEPT ![b] = "writing"]
    /\ UNCHANGED <<chainNodeVars, pending, won, sweepVars, aged, failures, restarts>>

(* archive_found_block *)
ArchiveWritten(b) ==
    /\ archive[b] = "writing"
    /\ archive' = [archive EXCEPT ![b] = "written"]
    /\ UNCHANGED <<chainNodeVars, ladder, pending, won, sweepVars, aged, failures, restarts>>

ArchiveFails(b) ==
    /\ archive[b] = "writing"
    /\ failures < MaxFailures
    /\ failures' = failures + 1
    /\ archive' = [archive EXCEPT ![b] = "failed"]
    /\ UNCHANGED <<chainNodeVars, ladder, pending, won, sweepVars, aged, restarts>>

-----------------------------------------------------------------------------
(* One submit_block of the ladder. *)
Attempting(b) ==
    \/ ladder[b].pc = "inline"
    \/ ladder[b].pc = "retry" /\ ladder[b].attempts < MaxAttempts

(* The probe's view when the chain moves under it (history): the block it  *)
(* read as off the chain is on it before the tip is read.                  *)
Watched ==
    probe' = [probe EXCEPT !.returned =
                 @ \/ (probe.pc = "tip" /\ probe.block \in onChain')]

(* The node answers.  `stray` is a first call that failed on a rotated     *)
(* cookie and was repeated by call_with_refresh.                           *)
Answered(b) ==
    /\ Attempting(b)
    /\ \E answer \in Answers, stray \in {{}, {b}} :
          /\ SubmitBlock(b, answer)
          /\ wire' = wire \cup stray
          /\ LET outcome == ClassifySubmitResponse(answer)
             IN ladder' = [ladder EXCEPT ![b] =
                    [pc |-> IF outcome = "rejected" THEN "rejected" ELSE "record",
                     attempts |-> ladder[b].attempts + 1,
                     outcome |-> outcome]]
    /\ Watched
    /\ UNCHANGED <<invalid, reorgs, forgets, archive, pending, won, todo, resolution,
                   straddled, aged, failures, restarts>>

(* A transient error: the call may never have arrived, or may yet land.    *)
(* The last in-line failure spawns the resubmit task.                      *)
AttemptFails(b) ==
    /\ Attempting(b)
    /\ failures < MaxFailures
    /\ failures' = failures + 1
    /\ wire' \in {wire, wire \cup {b}}
    /\ ladder' = [ladder EXCEPT ![b] =
           [pc |-> IF ladder[b].attempts + 1 < InlineAttempts THEN "inline" ELSE "retry",
            attempts |-> ladder[b].attempts + 1,
            outcome |-> "none"]]
    /\ UNCHANGED <<chainVars, invalid, reorgs, forgets, archive, pending, won, sweepVars,
                   aged, restarts>>

(* The deadline passes; it is two hours off when the task starts, so at    *)
(* least one attempt of the task's own has been made.                      *)
GiveUp(b) ==
    /\ ladder[b].pc = "retry"
    /\ ladder[b].attempts > InlineAttempts
    /\ ladder' = [ladder EXCEPT ![b].pc = "gave_up"]
    /\ UNCHANGED <<chainNodeVars, archive, pending, won, sweepVars, aged, failures, restarts>>

(* record_block_outcome, by whoever got the answer. *)
RecordBlockOutcome(b) ==
    /\ ladder[b].pc = "record"
    /\ ladder' = [ladder EXCEPT ![b].pc = "recorded"]
    /\ pending' = pending \cup {b}
    /\ won' = IF IsWin(ladder[b].outcome) THEN won \cup {b} ELSE won
    /\ UNCHANGED <<chainNodeVars, archive, sweepVars, aged, failures, restarts>>

-----------------------------------------------------------------------------
(* sweep, one pass over a copy of the pending set. *)
SweepStarts ==
    /\ probe.pc = "idle"
    /\ pending # {}
    /\ todo' = pending
    /\ probe' = ProbeNext
    /\ UNCHANGED <<chainNodeVars, ladderVars, resolution, straddled, aged, failures, restarts>>

SweepEnds ==
    /\ probe.pc = "next"
    /\ todo = {}
    /\ probe' = ProbeIdle
    /\ UNCHANGED <<chainNodeVars, ladderVars, todo, resolution, straddled, aged, failures,
                   restarts>>

(* block_chain_position, first round trip: getblockheader.  A block the    *)
(* node does not have is an answer.                                        *)
ProbeHeader(b) ==
    /\ probe.pc = "next"
    /\ b \in todo
    /\ todo' = todo \ {b}
    /\ probe' = IF b \in stored
                THEN Probe("tip", b, "none", Confirmations(b))
                ELSE Probe("decide", b, "unknown", 0)
    /\ UNCHANGED <<chainNodeVars, ladderVars, resolution, straddled, aged, failures, restarts>>

(* Second round trip: getblockcount. *)
ProbeTip ==
    /\ probe.pc = "tip"
    /\ probe' = [probe EXCEPT !.pc = "decide", !.tip_height = chainHeight,
                              !.position = IF probe.confirmations < 0
                                           THEN "side_branch" ELSE "on_chain"]
    /\ UNCHANGED <<chainNodeVars, ladderVars, todo, resolution, straddled, aged, failures,
                   restarts>>

(* Either round trip fails: the block waits for the next sweep, or, on a   *)
(* rotated cookie, both are made again.                                    *)
ProbeFails ==
    /\ failures < MaxFailures
    /\ failures' = failures + 1
    /\ probe' = ProbeNext
    /\ \/ probe.pc = "next" /\ \E b \in todo : todo' = todo \ {b}
       \/ probe.pc = "tip" /\ todo' \in {todo, todo \cup {probe.block}}
    /\ UNCHANGED <<chainNodeVars, ladderVars, resolution, straddled, aged, restarts>>

MutShallowBurial(position, confirmations, tipHeight, height) ==
    CASE position = "on_chain" /\ confirmations + 1 >= Depth -> "confirmed"
      [] position = "side_branch" /\ tipHeight >= height + Depth -> "orphaned"
      [] OTHER -> "pending"

MutOrphanedAtOnce(position, confirmations, tipHeight, height) ==
    CASE position = "on_chain" /\ confirmations >= Depth -> "confirmed"
      [] position = "side_branch" -> "orphaned"
      [] OTHER -> "pending"

ClassifyConfirmation(position, confirmations, tipHeight, height) ==
    CASE position = "on_chain" /\ confirmations >= Depth -> "confirmed"
      [] position = "side_branch" /\ tipHeight >= height + Depth -> "orphaned"
      [] OTHER -> "pending"

MutNeverAbandoned == FALSE

IsAbandoned == probe.position = "unknown" /\ probe.block \in aged

(* The rest of the loop's body; record_block_resolution on a final one. *)
Decide ==
    /\ probe.pc = "decide"
    /\ LET b == probe.block
           verdict == ClassifyConfirmation(probe.position, probe.confirmations,
                                           probe.tip_height, HeightOf[b])
           final == IF verdict = "pending" /\ IsAbandoned THEN "abandoned" ELSE verdict
       IN IF final = "pending" THEN UNCHANGED <<pending, resolution, straddled>>
          ELSE /\ pending' = pending \ {b}
               /\ resolution' = [resolution EXCEPT ![b] = final]
               /\ straddled' = IF probe.returned THEN straddled \cup {b} ELSE straddled
    /\ probe' = ProbeNext
    /\ UNCHANGED <<chainNodeVars, ladder, archive, won, todo, aged, failures, restarts>>

-----------------------------------------------------------------------------
(* ABANDON_AFTER has passed since the block was found. *)
Ages(b) ==
    /\ b \in pending \ aged
    /\ aged' = aged \cup {b}
    /\ UNCHANGED <<chainNodeVars, ladderVars, sweepVars, failures, restarts>>

Environment ==
    /\ NodeMoves
    /\ Watched
    /\ UNCHANGED <<ladderVars, todo, resolution, straddled, aged, failures, restarts>>

(* The process dies and boots again: sessions, resubmit tasks, the archive *)
(* threads and the sweep are gone, the found_blocks rows are restored.     *)
Restart ==
    /\ restarts < MaxRestarts
    /\ restarts' = restarts + 1
    /\ ladder' = [b \in Finds |->
           IF ladder[b].pc \in {"inline", "retry", "record"}
           THEN [ladder[b] EXCEPT !.pc = "forgotten"] ELSE ladder[b]]
    /\ archive' = [b \in Finds |-> IF archive[b] = "writing" THEN "torn" ELSE archive[b]]
    /\ todo' = {}
    /\ probe' = ProbeIdle
    /\ UNCHANGED <<chainNodeVars, pending, won, resolution, straddled, aged, failures>>

Sweep ==
    \/ SweepStarts
    \/ SweepEnds
    \/ \E b \in Finds : ProbeHeader(b)
    \/ ProbeTip
    \/ Decide

FateNext ==
    \/ \E b \in Finds :
          \/ FindBlock(b)
          \/ ArchiveWritten(b)
          \/ ArchiveFails(b)
          \/ Answered(b)
          \/ AttemptFails(b)
          \/ GiveUp(b)
          \/ RecordBlockOutcome(b)
          \/ Ages(b)
    \/ Sweep
    \/ ProbeFails
    \/ Environment
    \/ Restart

FateSpec == FateInit /\ [][FateNext]_fateVars

(* The runtime polls every task that can run, the other miners keep        *)
(* extending the chain, and the clock advances.  Failures, reorgs and      *)
(* restarts are never owed.                                                *)
FateFairness ==
    /\ \A b \in Finds :
          /\ WF_fateVars(Answered(b) \/ GiveUp(b) \/ RecordBlockOutcome(b))
          /\ WF_fateVars(Ages(b))
    /\ WF_fateVars(Sweep)
    /\ WF_fateVars(Extend /\ Environment)

FateLiveSpec == FateSpec /\ FateFairness

-----------------------------------------------------------------------------
FateTypeOK ==
    /\ NodeTypeOK
    /\ ladder \in [Finds -> [pc : LadderStates, attempts : 0..MaxAttempts,
                             outcome : Outcomes \cup {"none", "rejected"}]]
    /\ archive \in [Finds -> {"none", "writing", "written", "failed", "torn"}]
    /\ pending \subseteq Finds /\ won \subseteq Finds
    /\ resolution \in [Finds -> Resolutions \cup {"none"}]
    /\ aged \subseteq Finds /\ todo \subseteq pending /\ straddled \subseteq Finds
    /\ probe \in [pc : {"idle", "next", "tip", "decide"}, block : Finds \cup {"none"},
                  position : {"none", "on_chain", "side_branch", "unknown"},
                  confirmations : Int, tip_height : Nat, returned : BOOLEAN]
    /\ probe.pc \in {"tip", "decide"} => probe.block \in pending
    /\ failures \in Nat /\ restarts \in Nat

(* A block the pool declared confirmed never leaves the active chain, as   *)
(* long as no reorg disconnects `depth` blocks (classify_confirmation's    *)
(* "usual finality threshold").                                            *)
ConfirmedStays == \A b \in Finds : resolution[b] = "confirmed" => b \in onChain

(* A block the pool declared orphaned never returns to the active chain:   *)
(* "one a competing chain has buried for good".  The exception is a block  *)
(* that returned between the two calls of one block_chain_position, whose  *)
(* new tip is then weighed against the old position.                       *)
OrphanedStaysOff ==
    \A b \in Finds \ straddled : resolution[b] = "orphaned" => b \notin onChain

(* Only blocks that have been the tip are counted as wins, whichever       *)
(* attempt landed and whichever attempt was answered (is_win).  A block    *)
(* the node has taken, early or late, is never written off as refused      *)
(* (is_permanent_reject): an attempt that follows a submission which       *)
(* landed unnoticed still ends in record_block_outcome.                    *)
OutcomeIsTrue ==
    /\ won \subseteq wasOn
    /\ \A b \in Finds : ladder[b].pc = "rejected" => b \notin released

(* Every found block is decided in the end, unless the node refused it,    *)
(* the resubmit task ran into its deadline or the process died before the  *)
(* node's answer was recorded.                                             *)
FoundIsDecided ==
    \A b \in Finds :
        ladder[b].pc = "inline" ~>
            \/ resolution[b] # "none"
            \/ ladder[b].pc \in {"rejected", "gave_up", "forgotten"}
=============================================================================
