------------------------------ MODULE Targets ------------------------------
(***************************************************************************)
(* Difficulties, targets and hashes.  The code works on 32 bytes, on the 8 *)
(* significant ones of a hash and on u64; here a number is Width digits of *)
(* base Base, with Sig significant ones, so that every hash can be tried.  *)
(* The reference is the integer that the digits stand for.                 *)
(***************************************************************************)
EXTENDS Integers, Sequences

CONSTANTS
    Base, Width, Sig,       \* 256, 32 and 8 in the code
    Diff1At,                \* index from 0 of DIFF1_TARGET's first non-zero digit
    MinDifficulties,        \* [vardiff] min_difficulty
    Difficulties,           \* what a session may be assigned
    DeviceTargets,          \* max_target of an SV2 device, as numbers
    Exponents               \* exponents of the compact form

ASSUME TargetsAssumption ==
    /\ Base \in Nat /\ Base > 1
    /\ Width \in Nat /\ Width >= 3 /\ Sig \in 2..Width /\ Diff1At \in 0..(Width - 2)
    /\ MinDifficulties \subseteq Nat \ {0} /\ Difficulties \subseteq Nat
    /\ DeviceTargets \subseteq Nat /\ Exponents \subseteq Nat

VARIABLES
    min_difficulty, assigned_difficulty,    \* the pool's floor, the session's difficulty
    sent_target,                    \* the target on the wire, little-endian
    bits, network_target,           \* the node's compact target, and what is made of it
    hash,                           \* the last share's hash, little-endian
    accepted, reading               \* what the pool made of it

target_vars ==
    <<min_difficulty, assigned_difficulty, sent_target, bits, network_target, hash, accepted, reading>>

-----------------------------------------------------------------------------
(* Digits and what they stand for *)

Power[k \in Nat] == IF k = 0 THEN 1 ELSE Base * Power[k - 1]

\* What the first digits stand for, for each number of them up to len.
Leading(digits, len) ==
    LET value[i \in 0..len] == IF i = 0 THEN 0 ELSE value[i - 1] * Base + digits[i]
    IN  value

Value(digits) == Leading(digits, Width)[Width]
Digits(n) == [i \in 1..Width |-> (n \div Power[Width - i]) % Base]
Reversed(digits) == [i \in 1..Width |-> digits[Width + 1 - i]]
Zero == Digits(0)
MAX == Power[Sig] - 1

\* Digit by digit from the most significant.
FirstDifference(a, b) == {i \in 1..Width : a[i] # b[i] /\ \A j \in 1..(i - 1) : a[j] = b[j]}
AtMost(a, b) == \A i \in FirstDifference(a, b) : a[i] < b[i]

-----------------------------------------------------------------------------
(* Targets *)

DIFF1_TARGET ==
    [i \in 1..Width |-> IF i \in {Diff1At + 1, Diff1At + 2} THEN Base - 1 ELSE 0]

\* Mutant: the remainder is not carried to the next digit.
MutRemainderLost(value, divisor) == [i \in 1..Width |-> value[i] \div divisor]

\* Long division, a digit at a time, the remainder carried along.
Remainders(value, divisor) ==
    LET carried[i \in 0..Width] ==
            IF i = 0 THEN 0 ELSE (carried[i - 1] * Base + value[i]) % divisor
    IN  carried

div_be_u256_by_u64(value, divisor) ==
    LET carried == Remainders(value, divisor)
    IN  [i \in 1..Width |-> (carried[i - 1] * Base + value[i]) \div divisor]

difficulty_to_target(d) ==
    IF d <= 1 THEN DIFF1_TARGET ELSE div_be_u256_by_u64(DIFF1_TARGET, d)

difficulty_to_sv2_target(d) == Reversed(difficulty_to_target(d))

sv2_target_le(a, b) == AtMost(Reversed(a), Reversed(b))

meets_target(h, target) == AtMost(Reversed(h), target)

\* The mantissa's three digits at their place; those that fall off the low
\* end are lost, and those that fall off the high end are an error.
compact_to_target(exponent, mantissa) ==
    IF mantissa = 0 THEN [ok |-> TRUE, target |-> Zero]
    ELSE IF exponent <= 3
    THEN [ok |-> TRUE, target |-> Digits(mantissa \div Power[3 - exponent])]
    ELSE IF exponent > Width
    THEN [ok |-> FALSE, target |-> Zero]
    ELSE [ok |-> TRUE,
          target |-> [i \in 1..Width |->
            LET k == i - (Width - exponent)
            IN  IF k \in 1..3 THEN (mantissa \div Power[3 - k]) % Base ELSE 0]]

-----------------------------------------------------------------------------
(* What a hash is worth *)

\* Mutant: the quotient of whole numbers, shifted afterwards.
MutWholeQuotient(h) ==
    LET be == Reversed(h)
        nonzero == {i \in 1..Width : be[i] # 0}
        first == CHOOSE i \in nonzero : \A j \in nonzero : i <= j
        Digit(j) == IF first + j <= Width THEN be[first + j] ELSE 0
        hash_sig == Leading([j \in 1..Sig |-> Digit(j - 1)], Sig)[Sig]
        exp == first - 1 - Diff1At
    IN  IF nonzero = {} \/ exp > Sig THEN MAX
        ELSE IF exp < 0 THEN 0
        ELSE LET worth == (((Base * Base - 1) * Power[Sig - 2]) \div hash_sig) * Power[exp]
             IN  IF worth > MAX THEN MAX ELSE worth

\* The first Sig digits from the first that is not zero, divided into those
\* of DIFF1_TARGET with Sig digits of fraction, and shifted by the distance
\* between the two.
hash_to_difficulty(h) ==
    LET be == Reversed(h)
        nonzero == {i \in 1..Width : be[i] # 0}
        first == CHOOSE i \in nonzero : \A j \in nonzero : i <= j
        Digit(j) == IF first + j <= Width THEN be[first + j] ELSE 0
        hash_sig == Leading([j \in 1..Sig |-> Digit(j - 1)], Sig)[Sig]
        ratio == ((Base * Base - 1) * Power[Sig - 2] * Power[Sig]) \div hash_sig
        exp == first - 1 - Diff1At
    IN  IF nonzero = {} \/ exp > Sig THEN MAX
        ELSE LET worth == ratio \div Power[Sig - exp]
             IN  IF worth > MAX THEN MAX ELSE worth

-----------------------------------------------------------------------------
(* A channel and its shares *)

NoHash == <<>>
NoBits == [exponent |-> 0, mantissa |-> 0]

TargetInit ==
    /\ min_difficulty \in MinDifficulties
    /\ assigned_difficulty = 0 /\ sent_target = Zero
    /\ bits = NoBits /\ network_target = Zero
    /\ hash = NoHash /\ accepted = FALSE /\ reading = 0

\* OpenExtendedMiningChannel: no easier than the device can take.
OpenChannel ==
    /\ hash = NoHash /\ sent_target = Zero
    /\ \E d \in Difficulties, m \in DeviceTargets :
        LET target == difficulty_to_sv2_target(d)
            max_target == Reversed(Digits(m))
        IN  /\ d >= min_difficulty
            /\ assigned_difficulty' = d
            /\ sent_target' = IF sv2_target_le(target, max_target) THEN target ELSE max_target
    /\ UNCHANGED <<min_difficulty, bits, network_target, hash, accepted, reading>>

\* A retarget tells the device the new target as it is.
SetTarget ==
    /\ hash = NoHash /\ sent_target # Zero
    /\ \E d \in Difficulties :
        /\ d >= min_difficulty
        /\ assigned_difficulty' = d
        /\ sent_target' = difficulty_to_sv2_target(d)
    /\ UNCHANGED <<min_difficulty, bits, network_target, hash, accepted, reading>>

\* A template's bits; the sign bit of the mantissa is masked off.
NewBits ==
    /\ \E e \in Exponents, m \in 0..(Power[3] \div 2 - 1) :
        /\ compact_to_target(e, m).ok
        /\ bits' = [exponent |-> e, mantissa |-> m]
        /\ network_target' = compact_to_target(e, m).target
    /\ UNCHANGED <<min_difficulty, assigned_difficulty, sent_target, hash, accepted, reading>>

\* The pool takes what meets its floor, whatever the session was assigned.
SubmitHash ==
    /\ sent_target # Zero /\ hash = NoHash
    /\ \E n \in 0..(Power[Width] - 1) : hash' = Reversed(Digits(n))
    /\ accepted' = meets_target(hash', difficulty_to_target(min_difficulty))
    /\ reading' = IF accepted' THEN hash_to_difficulty(hash') ELSE 0
    /\ UNCHANGED <<min_difficulty, assigned_difficulty, sent_target, bits, network_target>>

ChannelNext == OpenChannel \/ SetTarget \/ SubmitHash

TargetSpec == TargetInit /\ [][ChannelNext \/ NewBits]_target_vars

-----------------------------------------------------------------------------
Diff1 == Value(DIFF1_TARGET)
AtMostMax(n) == IF n > MAX THEN MAX ELSE n

\* A share target is difficulty 1's divided by the difficulty, rounded down:
\* the long division over the digits loses nothing on the way.  The network
\* target is the number that the node's compact form stands for.
TargetsAreExact ==
    /\ assigned_difficulty # 0 => Value(difficulty_to_target(assigned_difficulty)) = Diff1 \div assigned_difficulty
    /\ bits # NoBits =>
           Value(network_target) = IF bits.exponent <= 3
                            THEN bits.mantissa \div Power[3 - bits.exponent]
                            ELSE bits.mantissa * Power[bits.exponent - 3]

\* What is left of a number when only its Sig leading digits are kept.
Truncated(n) ==
    LET dropped == {k \in 0..Width : n \div Power[k] < Power[Sig]}
        least == CHOOSE k \in dropped : \A j \in dropped : k <= j
    IN  (n \div Power[least]) * Power[least]

\* A hash that meets the target the device was sent, in the byte order and
\* after the clamping of the wire, is one that the pool accepts at its floor,
\* and for what it is worth: the difficulty read off it is the quotient of
\* difficulty 1's target and the hash, rounded down, exact but for the digits
\* of the hash that are not looked at, which can only make it read higher.
\* So a share that meets its assigned difficulty never reads below it.
AssignedWorkCounts ==
    /\ hash # NoHash /\ Value(Reversed(hash)) <= Value(Reversed(sent_target)) => accepted
    /\ accepted =>
        LET n == Value(Reversed(hash))
        IN  IF n = 0 THEN reading = MAX
            ELSE /\ AtMostMax(Diff1 \div n) <= reading
                 /\ reading = AtMostMax(Diff1 \div Truncated(n))
                 /\ meets_target(hash, difficulty_to_target(assigned_difficulty)) =>
                        reading >= AtMostMax(assigned_difficulty)
=============================================================================
