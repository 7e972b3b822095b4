------------------------- MODULE DifficultyControl -------------------------
(***************************************************************************)
(* One session's difficulty: Vardiff (mining/vardiff.rs) decides it,       *)
(* ShareCredit (mining/credit.rs) decides what an accepted share is worth, *)
(* and the session loop (network/session.rs, protocol/sv2/mod.rs) calls    *)
(* both and tells the device.                                              *)
(*                                                                         *)
(* Instants are kept as ages, each counted no further than the code can    *)
(* tell apart.  The decaying averages are floating point: the optimum that *)
(* check_retarget computes from them is any of Optima.                     *)
(*                                                                         *)
(* The device is honest or pinned.  An honest one mines at the difficulty  *)
(* it was last told and reads every message within the grace period; a     *)
(* pinned one ignores what it is told and mines at the floor.              *)
(***************************************************************************)
EXTENDS Integers, Sequences

CONSTANTS
    MinDifficulty, MaxDifficulty,   \* [vardiff] min_difficulty, max_difficulty
    InitialDifficulties,            \* [pool] initial_difficulty, not validated against them
    NetworkDifficulties,            \* of the blocks being worked on
    Suggestions,                    \* mining.suggest_difficulty
    Optima,                         \* what the averages may say
    DeadzoneLow, DeadzoneHigh,      \* in percent
    MaxRetargetFactor,
    RetargetInterval, RetargetShares,
    EVIDENCE_SHARES, REDEEM_SHARES, RETARGET_GRACE,
    MaxChanges                      \* bound: changes of the difficulty

ASSUME DifficultyAssumption ==
    /\ {MinDifficulty, MaxDifficulty, MaxRetargetFactor, RetargetInterval, RetargetShares,
        EVIDENCE_SHARES, REDEEM_SHARES, RETARGET_GRACE} \subseteq Nat \ {0}
    /\ MinDifficulty <= MaxDifficulty
    /\ RetargetShares >= 4
    /\ InitialDifficulties \cup NetworkDifficulties \cup Suggestions \cup Optima \subseteq Nat
    /\ {DeadzoneLow, DeadzoneHigh, MaxChanges} \subseteq Nat

VARIABLES
    current, changeAge, sharesSinceChange, firstShare,     \* Vardiff
    assigned, assignedAge, below, redeeming, honors,       \* ShareCredit
    difficulty,     \* session.difficulty
    stamps,         \* the difficulties stamped on the session's live jobs
    network,        \* difficulty of the block being worked on; 0: no template
    pinned,         \* the device ignores set_difficulty
    target,         \* the difficulty the device mines at
    wire,           \* set_difficulty messages it has not read: value and age
    changes,        \* of difficulty so far
    returned,       \* the difficulty left the credited one and came back unseen
    overpaid        \* shares credited above their worth since the last new start

vardiff == <<current, changeAge, sharesSinceChange, firstShare>>
credit_ == <<assigned, assignedAge, below, redeeming, honors>>
device == <<pinned, target>>
vars == <<vardiff, credit_, device, difficulty, stamps, network, wire, changes,
          returned, overpaid>>

-----------------------------------------------------------------------------

Smaller(a, b) == IF a < b THEN a ELSE b
Larger(a, b) == IF a < b THEN b ELSE a
clamp(x, low, high) == Larger(low, Smaller(x, high))

(* a / b, rounded half away from zero as f64::round does *)
Rounded(a, b) == (2 * a + b) \div (2 * b)

Init ==
    /\ current \in InitialDifficulties
    /\ changeAge = 0 /\ sharesSinceChange = 0 /\ firstShare = FALSE
    /\ assigned = 0 /\ assignedAge = 0 /\ below = 0 /\ redeeming = 0 /\ honors = TRUE
    /\ difficulty = current
    /\ stamps = {difficulty}
    /\ network \in NetworkDifficulties
    /\ pinned \in BOOLEAN
    /\ target = IF pinned THEN MinDifficulty ELSE difficulty
    /\ wire = <<>>
    /\ changes = 0 /\ returned = FALSE /\ overpaid = 0

-----------------------------------------------------------------------------
(* Vardiff *)

(* check_retarget's first tests.  "before" is what the iteration has changed already. *)
WindowOver(before) ==
    before.firstShare /\ (before.shares >= RetargetShares \/ changeAge >= RetargetInterval)

InDeadzone(optimal) ==
    100 * optimal > DeadzoneLow * current /\ 100 * optimal < DeadzoneHigh * current

(* The floor outranks the network's difficulty. *)
Ceiling(net) ==
    Larger(MinDifficulty, IF net = 0 THEN MaxDifficulty ELSE Smaller(MaxDifficulty, net))

Retargeted(optimal, net) ==
    clamp(clamp(optimal, Rounded(current, MaxRetargetFactor), current * MaxRetargetFactor),
          MinDifficulty, Ceiling(net))

(* A cut needs more than one share since the last change. *)
LeaveOfAbsence(new, shares) == new < current /\ shares <= 1

(* What the device is told; a message that repeats the last one changes nothing. *)
Tell(d) ==
    LET last == IF wire = <<>> THEN target ELSE wire[Len(wire)].d
    IN  wire' = IF pinned \/ d = last THEN wire ELSE Append(wire, [d |-> d, age |-> 0])

(* session.difficulty and vardiff.current become d; credited is ShareCredit's view. *)
Change(d, credited, returnedBefore) ==
    /\ current' = d
    /\ difficulty' = d
    /\ changes' = IF d = difficulty THEN changes ELSE changes + 1
    /\ returned' = (returnedBefore \/ (d # difficulty /\ d = credited))

(* check_retarget leaves the difficulty alone. *)
Keep(age, shares, before) ==
    /\ changeAge' = age
    /\ sharesSinceChange' = shares
    /\ returned' = before.returned
    /\ UNCHANGED <<current, difficulty, changes, wire>>

(* apply_retarget, the end of every iteration of the session loop: check_retarget on *)
(* the window as the iteration leaves it, then set_difficulty if the target moved    *)
apply_retarget(before) ==
    \/ /\ ~WindowOver(before)
       /\ Keep(changeAge, before.shares, before)
    \/ /\ WindowOver(before)
       /\ \E optimal \in Optima :
            LET new == Retargeted(optimal, before.network)
            IN  \/ /\ InDeadzone(optimal)
                   /\ Keep(0, 0, before)
                \/ /\ ~InDeadzone(optimal)
                   /\ LeaveOfAbsence(new, before.shares)
                   /\ Keep(0, before.shares, before)
                \/ /\ ~InDeadzone(optimal)
                   /\ new = current
                   /\ Keep(0, 0, before)
                \/ /\ ~InDeadzone(optimal)
                   /\ new # current
                   /\ ~LeaveOfAbsence(new, before.shares)
                   /\ changes < MaxChanges
                   /\ changeAge' = 0
                   /\ sharesSinceChange' = 0
                   /\ Change(new, before.assigned, before.returned)
                   /\ Tell(new)

-----------------------------------------------------------------------------
(* ShareCredit *)

(* The difficulty a share had to clear *)
effective(stamp) == Larger(MinDifficulty, Smaller(difficulty, stamp))

(* BELOW_TOLERANCE *)
Meets(hash, stamp) == 100 * hash >= 99 * effective(stamp)

(* A changed difficulty is noticed at the first share credited after it. *)
Noticed == difficulty # assigned
BelowNow == IF Noticed THEN 0 ELSE below

\* Mutant: a change does not restart the grace period.
MutNoGrace == assignedAge

AgeNow == IF Noticed THEN 0 ELSE assignedAge

Evidence(hash, stamp) == honors /\ ~Meets(hash, stamp) /\ AgeNow > RETARGET_GRACE

\* Mutant: one share too many is needed.
MutFlagsLate(hash, stamp) == Evidence(hash, stamp) /\ BelowNow >= EVIDENCE_SHARES

Flags(hash, stamp) == Evidence(hash, stamp) /\ BelowNow + 1 >= EVIDENCE_SHARES

Redeems(hash, stamp) == ~honors /\ Meets(hash, stamp) /\ redeeming + 1 >= REDEEM_SHARES

HonorsAfter(hash, stamp) ==
    (honors /\ ~Flags(hash, stamp)) \/ Redeems(hash, stamp)

\* Mutant: every share starts the redeeming run anew.
MutRunRestarts(hash, stamp) == IF ~honors /\ Meets(hash, stamp) THEN 1 ELSE 0

RedeemingAfter(hash, stamp) ==
    IF honors THEN IF Flags(hash, stamp) THEN 0 ELSE redeeming
    ELSE IF Meets(hash, stamp) THEN redeeming + 1 ELSE 0

BelowAfter(hash, stamp) ==
    IF Redeems(hash, stamp) THEN 0
    ELSE IF Evidence(hash, stamp) THEN BelowNow + 1 ELSE BelowNow

(* What credit returns *)
Credited(hash, stamp) ==
    IF HonorsAfter(hash, stamp) THEN effective(stamp) ELSE MinDifficulty

NewStart(hash, stamp) == Noticed \/ Redeems(hash, stamp)

credit(hash, stamp) ==
    /\ assigned' = difficulty
    /\ assignedAge' = IF Redeems(hash, stamp) THEN 0 ELSE AgeNow
    /\ below' = BelowAfter(hash, stamp)
    /\ redeeming' = RedeemingAfter(hash, stamp)
    /\ honors' = HonorsAfter(hash, stamp)
    /\ overpaid' =
         (IF NewStart(hash, stamp) THEN 0 ELSE overpaid)
         + (IF Credited(hash, stamp) * 99 > hash * 100 /\ assignedAge' > RETARGET_GRACE
            THEN 1 ELSE 0)

-----------------------------------------------------------------------------
(* The session loop *)

Shares(n) == Smaller(n, RetargetShares)

(* handle_submit: a share of the device's on a live job, then apply_retarget.  It is *)
(* accepted when it clears the floor, whatever the assigned difficulty is.           *)
handle_submit ==
    \E stamp \in stamps, hash \in {target, Larger(target, MaxDifficulty)} :
        \/ /\ hash >= MinDifficulty
           /\ credit(hash, stamp)
           /\ firstShare' = TRUE
           /\ apply_retarget(
                [shares |-> Shares(sharesSinceChange + 1), firstShare |-> TRUE,
                 network |-> network, assigned |-> difficulty,
                 returned |-> returned /\ ~(NewStart(hash, stamp) /\ HonorsAfter(hash, stamp))])
           /\ UNCHANGED <<device, stamps, network>>
        \/ /\ hash < MinDifficulty
           /\ apply_retarget(
                [shares |-> sharesSinceChange, firstShare |-> firstShare, network |-> network,
                 assigned |-> assigned, returned |-> returned])
           /\ UNCHANGED <<credit_, firstShare, overpaid, device, stamps, network>>

(* A job arrives, of any network difficulty, and is stamped; which older jobs stay   *)
(* live is IssuedJobs's matter.  A lagging receiver gets no job, but apply_retarget  *)
(* runs all the same.                                                                *)
RecvJob ==
    /\ \/ \E older \in SUBSET stamps : stamps' = older \cup {difficulty}
          /\ network' \in NetworkDifficulties
       \/ UNCHANGED <<stamps, network>>
    /\ apply_retarget([shares |-> sharesSinceChange, firstShare |-> firstShare,
                       network |-> network', assigned |-> assigned,
                       returned |-> returned])
    /\ UNCHANGED <<credit_, firstShare, overpaid, device>>

suggest(hint) == clamp(hint, MinDifficulty, MaxDifficulty)

(* The miner's own hint.  The window it opens is not over yet when apply_retarget    *)
(* looks at it.                                                                      *)
handle_suggest_difficulty ==
    \E hint \in Suggestions :
        /\ changes < MaxChanges
        /\ Change(suggest(hint), assigned, returned)
        /\ changeAge' = 0
        /\ sharesSinceChange' = 0
        /\ Tell(suggest(hint))
        /\ UNCHANGED <<credit_, firstShare, overpaid, device, stamps, network>>

(* External: the device reads the oldest message. *)
Apply ==
    /\ wire # <<>>
    /\ target' = Head(wire).d
    /\ wire' = Tail(wire)
    /\ UNCHANGED <<vardiff, credit_, pinned, difficulty, stamps, network, changes,
                   returned, overpaid>>

(* Time passes; an honest device has read a message by the end of the grace period. *)
Tick ==
    /\ \A i \in DOMAIN wire : wire[i].age < RETARGET_GRACE
    /\ wire' = [i \in DOMAIN wire |-> [wire[i] EXCEPT !.age = @ + 1]]
    /\ changeAge' = Smaller(changeAge + 1, RetargetInterval)
    /\ assignedAge' = Smaller(assignedAge + 1, RETARGET_GRACE + 1)
    /\ UNCHANGED <<current, sharesSinceChange, firstShare, assigned, below, redeeming,
                   honors, device, difficulty, stamps, network, changes, returned,
                   overpaid>>

Next == handle_submit \/ RecvJob \/ handle_suggest_difficulty \/ Apply \/ Tick

Spec == Init /\ [][Next]_vars

(* The miner goes on mining and reads what it is sent. *)
LiveSpec == Spec /\ WF_vars(handle_submit) /\ WF_vars(Apply)

-----------------------------------------------------------------------------

(* "A well-behaved miner still has work queued at the old target" (credit.rs): a     *)
(* device that follows every set_difficulty within the grace period is never judged  *)
(* to ignore them, however jobs, retargets, hints and late shares fall, unless the   *)
(* difficulty left the credited one and came back with no share in between:          *)
(* ShareCredit then sees no change and opens no grace period.                        *)
HonestIsBelieved == ~pinned /\ ~returned => honors

(* A session that is paid more than its shares are worth is found out: outside the   *)
(* grace period, fewer than EVIDENCE_SHARES shares are overpaid before its            *)
(* assignment changes or it has redeemed itself.                                     *)
OverpayIsBounded == overpaid < EVIDENCE_SHARES

(* A verdict on an honest device is not for good: once the difficulty rests, the     *)
(* shares it goes on submitting redeem it.                                           *)
HonestIsRedeemed == ~pinned => []<>honors
=============================================================================
