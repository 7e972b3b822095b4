----------------------------- MODULE ChainNode -----------------------------
(***************************************************************************)
(* The Bitcoin node behind src/bitcoin/rpc.rs, as far as the pool's blocks *)
(* are concerned.  The node is external: its answers are the ones the      *)
(* client distinguishes, its moves are the environment's.                  *)
(*                                                                         *)
(* Only the pool's own blocks have an identity; every other block of the   *)
(* chain is a height at or below tip that none of them occupies.  Which    *)
(* parent a block of the pool was built on is left open, so a reorg may    *)
(* bring back any stored block whose height it covers.  The best chain     *)
(* never gets shorter.                                                     *)
(***************************************************************************)
EXTENDS Integers, FiniteSets

CONSTANTS
    Finds,      \* the blocks the pool's miners find, by hash
    HeightOf,   \* the height each was built for
    MaxReorg,   \* blocks one reorg may disconnect
    MaxTip,     \* bound: chain height
    MaxReorgs,  \* bound: reorgs
    MaxForgets  \* bound: reindexes and swaps of the node

ASSUME ChainNodeAssumption ==
    /\ HeightOf \in [Finds -> Nat \ {0}]
    /\ {MaxReorg, MaxTip, MaxReorgs, MaxForgets} \subseteq Nat

VARIABLES
    chainHeight, \* height of the active chain
    onChain,    \* the pool's blocks on the active chain
    stored,     \* the pool's blocks the node has, on any branch
    validated,  \* the stored ones that have been connected
    released,   \* the ones any node has ever taken: peers may hold them
    invalid,    \* the blocks consensus refuses, fixed from the start
    wire,       \* submissions given up by the client that may still land
    wasOn,      \* history: blocks that have been on the active chain
    reorgs, forgets

chainVars == <<chainHeight, onChain, stored, validated, released, wasOn>>
chainNodeVars == <<chainVars, invalid, wire, reorgs, forgets>>

NodeInit ==
    /\ chainHeight = 0
    /\ onChain = {} /\ stored = {} /\ validated = {} /\ released = {}
    /\ invalid \in SUBSET Finds
    /\ wire = {} /\ wasOn = {}
    /\ reorgs = 0 /\ forgets = 0

-----------------------------------------------------------------------------
(* submitblock *)
Answers == {"null", "duplicate", "duplicate-inconclusive", "inconclusive", "rejected"}

(* The block becomes the tip. *)
ConnectBlock(b) ==
    /\ HeightOf[b] = chainHeight + 1
    /\ chainHeight' = chainHeight + 1
    /\ onChain' = onChain \cup {b}
    /\ stored' = stored \cup {b}
    /\ validated' = validated \cup {b}
    /\ released' = released \cup {b}
    /\ wasOn' = wasOn \cup {b}

(* The block is kept on a side branch. *)
KeepAside(b) ==
    /\ stored' = stored \cup {b}
    /\ released' = released \cup {b}
    /\ UNCHANGED <<chainHeight, onChain, validated, wasOn>>

SubmitBlock(b, answer) ==
    \/ /\ answer = "rejected"
       /\ b \in invalid
       /\ UNCHANGED chainVars
    \/ /\ answer = "duplicate"
       /\ b \in validated
       /\ UNCHANGED chainVars
    \/ /\ answer = "duplicate-inconclusive"
       /\ b \in stored \ validated
       /\ UNCHANGED chainVars
    \/ /\ answer = "null"
       /\ b \notin stored \cup invalid
       /\ ConnectBlock(b)
    \/ /\ answer = "inconclusive"
       /\ b \notin stored \cup invalid
       /\ KeepAside(b)

(* A submission whose caller timed out reaches the node after all. *)
WireLands(b) ==
    /\ b \in wire
    /\ wire' = wire \ {b}
    /\ \E answer \in Answers : SubmitBlock(b, answer)
    /\ UNCHANGED <<invalid, reorgs, forgets>>

-----------------------------------------------------------------------------
(* Another miner extends the chain. *)
Extend ==
    /\ chainHeight < MaxTip
    /\ chainHeight' = chainHeight + 1
    /\ UNCHANGED <<onChain, stored, validated, released, wasOn, invalid, wire,
                   reorgs, forgets>>

(* A longer branch replaces the last k blocks.  It may hold blocks of the  *)
(* pool, one to a height.                                                  *)
Reorg(k, newTip, back) ==
    /\ reorgs < MaxReorgs
    /\ k <= chainHeight
    /\ newTip > chainHeight
    /\ \A b \in back : chainHeight - k < HeightOf[b] /\ HeightOf[b] <= newTip
    /\ \A b, c \in back : HeightOf[b] = HeightOf[c] => b = c
    /\ chainHeight' = newTip
    /\ onChain' = {b \in onChain : HeightOf[b] <= chainHeight - k} \cup back
    /\ stored' = stored \cup back
    /\ validated' = validated \cup back
    /\ wasOn' = wasOn \cup back
    /\ reorgs' = reorgs + 1
    /\ UNCHANGED <<released, invalid, wire, forgets>>

(* Reindexed, restored from a snapshot or swapped: the side branches are   *)
(* gone.                                                                   *)
Forget ==
    /\ forgets < MaxForgets
    /\ stored' = onChain
    /\ validated' = onChain
    /\ forgets' = forgets + 1
    /\ UNCHANGED <<chainHeight, onChain, released, wasOn, invalid, wire, reorgs>>

NodeMoves ==
    \/ Extend
    \/ Forget
    \/ \E b \in Finds : WireLands(b)
    \/ \E k \in 1..MaxReorg, newTip \in 1..MaxTip, back \in SUBSET released :
           Reorg(k, newTip, back)

-----------------------------------------------------------------------------
(* getblockheader: confirmations, -1 off the active chain. *)
Confirmations(b) == IF b \in onChain THEN chainHeight - HeightOf[b] + 1 ELSE -1

NodeTypeOK ==
    /\ chainHeight \in Nat
    /\ onChain \subseteq stored /\ stored \subseteq released
    /\ onChain \subseteq validated /\ validated \subseteq stored
    /\ validated \subseteq wasOn
    /\ released \subseteq Finds \ invalid
    /\ wire \subseteq Finds /\ invalid \subseteq Finds
    /\ \A b \in onChain : HeightOf[b] <= chainHeight
=============================================================================
