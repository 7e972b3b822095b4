---------------------------- MODULE BlockProofs ----------------------------
(***************************************************************************)
(* The way of a block, for any configurations, templates, payouts and      *)
(* delays: any number of transactions, any height, any split of the        *)
(* extranonce.                                                             *)
(*                                                                         *)
(* BlockInv says that what was chosen on the way is what the configuration *)
(* and the node allow; the rest is computed, and proved of the computation:*)
(*   ConfiguredCoinbaseBuilds  the scriptSig of a validated configuration  *)
(*                      has a length that a node takes (ScriptIs), and the *)
(*                      search for it ends where it was put (FoundInPlace):*)
(*                      nothing before it begins as a height does          *)
(*   HeadersAgree       the two halves that a device is given and the      *)
(*                      template that the pool overwrites are one coinbase *)
(*                      (OneCoinbase), and words swapped twice are back in *)
(*                      their order (SwappedBack)                          *)
(*   BlocksAreValid     the branch of the coinbase leads to the root of    *)
(*                      the tree (BranchLeadsToRoot), the push of a height *)
(*                      reads back as that height and cannot be shortened  *)
(*                      (ReadsBack), and the reserved weight is enough     *)
(*                      (WeightIs)                                         *)
(* Induction and recursion are over sets and functions, as in WorkProofs.  *)
(***************************************************************************)
EXTENDS BlockBuilding, WellFoundedInduction, TLAPS

-----------------------------------------------------------------------------
(* Every set of numbers that is not empty has a least one. *)
LEMMA LeastNumber ==
    ASSUME NEW T \in SUBSET Nat, T # {}
    PROVE  \E m \in T : \A n \in T : m <= n
<1>1. PICK m \in T : \A n \in T : ~(<<n, m>> \in OpToRel(<, Nat))
  BY WFMin, NatLessThanWellFounded, Zenon
<1>2. \A n \in T : ~(n < m)
  BY <1>1, Zenon DEF OpToRel
<1> QED
  BY <1>2

(* Induction: what holds is given as a set. *)
LEMMA SetInduction ==
    ASSUME NEW S, 0 \in S, \A n \in Nat : n \in S => n + 1 \in S
    PROVE  \A n \in Nat : n \in S
<1> SUFFICES ASSUME NEW n \in Nat, n \notin S PROVE FALSE
  BY Zenon
<1> DEFINE T == {k \in Nat : k \notin S}
<1>1. PICK m \in T : \A k \in T : m <= k
  <2>1. T \in SUBSET Nat /\ T # {}
    BY Zenon
  <2> HIDE DEF T
  <2> QED
    BY <2>1, LeastNumber, Zenon
<1>2. m \in Nat /\ m # 0 /\ m \notin S
  BY <1>1, Zenon
<1>3. m - 1 \in Nat /\ (m - 1) + 1 = m /\ ~(m <= m - 1)
  BY <1>2
<1>4. m - 1 \in S
  BY <1>1, <1>3, Zenon
<1> QED
  BY <1>2, <1>3, <1>4

(* Induction up to a number. *)
LEMMA BoundedInduction ==
    ASSUME NEW N \in Nat, NEW S, 0 \in S, \A n \in 0..(N - 1) : n \in S => n + 1 \in S
    PROVE  \A n \in 0..N : n \in S
<1> DEFINE T == {n \in Nat : n <= N => n \in S}
<1>1. 0 \in T
  BY Zenon
<1>2. ASSUME NEW n \in Nat, n \in T PROVE n + 1 \in T
  <2>1. CASE n < N
    BY <1>2, <2>1
  <2>2. CASE ~(n < N)
    BY <2>2
  <2> QED
    BY <2>1, <2>2, Zenon
<1>3. \A n \in Nat : n \in T
  <2> HIDE DEF T
  <2> QED
    BY <1>1, <1>2, SetInduction, Zenon
<1> QED
  BY <1>3

-----------------------------------------------------------------------------
(* Recursion: the step is given as a function. *)
Starts(f, n, z, step) ==
    f \in [0..n -> Nat] /\ f[0] = z /\ \A i \in 0..(n - 1) : f[i + 1] = step[i][f[i]]

(* Two starts of the same recursion agree as far as both go. *)
LEMMA StartsAgree ==
    ASSUME NEW z, NEW step, NEW n \in Nat, NEW f, NEW g, Starts(f, n, z, step), Starts(g, n + 1, z, step)
    PROVE  f[n] = g[n]
<1> DEFINE S == {i \in Nat : f[i] = g[i]}
<1>1. 0 \in S
  BY DEF Starts
<1>2. ASSUME NEW i \in 0..(n - 1), i \in S PROVE i + 1 \in S
  <2>1. i \in Nat /\ i + 1 \in Nat /\ i \in 0..((n + 1) - 1)
    OBVIOUS
  <2>2. f[i + 1] = step[i][f[i]] /\ g[i + 1] = step[i][g[i]]
    BY <2>1, Zenon DEF Starts
  <2> QED
    BY <1>2, <2>1, <2>2, Zenon
<1> HIDE DEF S
<1>3. \A i \in 0..n : i \in S
  BY <1>1, <1>2, BoundedInduction, Zenon
<1>4. n \in 0..n
  OBVIOUS
<1> QED
  BY <1>3, <1>4, Zenon DEF S

(* The recursion can be started up to any number. *)
LEMMA StartsExist ==
    ASSUME NEW z \in Nat, NEW step \in [Nat -> [Nat -> Nat]]
    PROVE  \A n \in Nat : \E f : Starts(f, n, z, step)
<1> DEFINE S == {n \in Nat : \E f : Starts(f, n, z, step)}
<1>1. 0 \in S
  <2>1. Starts([i \in 0..0 |-> z], 0, z, step)
    BY DEF Starts
  <2> QED
    BY <2>1
<1>2. ASSUME NEW n \in Nat, n \in S PROVE n + 1 \in S
  <2>1. PICK f : Starts(f, n, z, step)
    BY <1>2, Zenon
  <2> DEFINE g == [i \in 0..(n + 1) |-> IF i <= n THEN f[i] ELSE step[n][f[n]]]
  <2>2. f \in [0..n -> Nat] /\ f[0] = z /\ \A i \in 0..(n - 1) : f[i + 1] = step[i][f[i]]
    BY <2>1, Zenon DEF Starts
  <2>3. step[n][f[n]] \in Nat
    <3>1. n \in 0..n
      OBVIOUS
    <3>2. f[n] \in Nat /\ step[n] \in [Nat -> Nat]
      BY <2>2, <3>1, Zenon
    <3> QED
      BY <3>2, Zenon
  <2>4. g \in [0..(n + 1) -> Nat]
    <3>1. ASSUME NEW i \in 0..(n + 1) PROVE (IF i <= n THEN f[i] ELSE step[n][f[n]]) \in Nat
      <4>1. i <= n => i \in 0..n
        OBVIOUS
      <4> QED
        BY <2>2, <2>3, <4>1, Zenon
    <3> QED
      BY <3>1, Zenon
  <2>5. g[0] = z
    BY <2>2
  <2>6. ASSUME NEW i \in 0..((n + 1) - 1) PROVE g[i + 1] = step[i][g[i]]
    <3>1. i \in Nat /\ i <= n /\ i \in 0..(n + 1) /\ i + 1 \in 0..(n + 1) /\ g[i] = f[i]
      OBVIOUS
    <3>2. CASE i < n
      <4>1. i \in 0..(n - 1) /\ i + 1 <= n
        BY <3>1, <3>2
      <4>2. g[i + 1] = f[i + 1]
        BY <3>1, <4>1, Zenon
      <4> QED
        BY <2>2, <3>1, <4>1, <4>2, Zenon
    <3>3. CASE i = n
      <4>1. ~(i + 1 <= n)
        BY <3>3
      <4> QED
        BY <3>1, <3>3, <4>1, Zenon
    <3> QED
      BY <3>1, <3>2, <3>3
  <2>7. Starts(g, n + 1, z, step)
    BY <2>4, <2>5, <2>6, Zenon DEF Starts
  <2> QED
    BY <2>7
<1> HIDE DEF S
<1>3. \A n \in Nat : n \in S
  BY <1>1, <1>2, SetInduction, Zenon
<1> QED
  BY <1>3, Zenon DEF S

(* So there is one function that is all of its starts. *)
LEMMA Recursion ==
    ASSUME NEW z \in Nat, NEW step \in [Nat -> [Nat -> Nat]]
    PROVE  \E f \in [Nat -> Nat] : f[0] = z /\ \A i \in Nat : f[i + 1] = step[i][f[i]]
<1> DEFINE A(n) == CHOOSE f : Starts(f, n, z, step)
           F == [n \in Nat |-> A(n)[n]]
<1>1. ASSUME NEW n \in Nat PROVE Starts(A(n), n, z, step)
  BY StartsExist, Zenon
<1> HIDE DEF A
<1>2. ASSUME NEW n \in Nat PROVE A(n) \in [0..n -> Nat] /\ A(n)[0] = z /\ \A i \in 0..(n - 1) : A(n)[i + 1] = step[i][A(n)[i]]
  BY <1>1, Zenon DEF Starts
<1>3. F \in [Nat -> Nat]
  <2>1. ASSUME NEW n \in Nat PROVE A(n)[n] \in Nat
    <3>1. n \in 0..n
      OBVIOUS
    <3> QED
      BY <1>2, <3>1, Zenon
  <2> QED
    BY <2>1, Zenon
<1>4. F[0] = z
  BY <1>2
<1>5. ASSUME NEW i \in Nat PROVE F[i + 1] = step[i][F[i]]
  <2>0. F[i] = A(i)[i]
    BY Zenon
  <2>1. i + 1 \in Nat /\ i \in 0..((i + 1) - 1)
    OBVIOUS
  <2>2. A(i + 1)[i + 1] = step[i][A(i + 1)[i]]
    BY <1>2, <2>1, Zenon
  <2>3. A(i)[i] = A(i + 1)[i]
    <3>1. Starts(A(i), i, z, step) /\ Starts(A(i + 1), i + 1, z, step)
      BY <1>1, <2>1, Zenon
    <3> QED
      BY <3>1, StartsAgree
  <2> QED
    BY <2>0, <2>1, <2>2, <2>3, Zenon
<1> HIDE DEF F
<1> QED
  BY <1>3, <1>4, <1>5, Zenon

-----------------------------------------------------------------------------
(* The same up to a number. *)
LEMMA RecursionTo ==
    ASSUME NEW N \in Nat, NEW step \in [Nat -> [Nat -> Nat]]
    PROVE  \E f \in [0..N -> Nat] : f[0] = 0 /\ \A i \in 1..N : f[i] = step[i][f[i - 1]]
<1>0. PICK next \in [Nat -> [Nat -> Nat]] : \A i \in Nat : next[i] = step[i + 1]
  <2>1. \A i \in Nat : step[i + 1] \in [Nat -> Nat]
    <3>1. \A i \in Nat : i + 1 \in Nat
      OBVIOUS
    <3> QED
      BY <3>1, Zenon
  <2>2. [i \in Nat |-> step[i + 1]] \in [Nat -> [Nat -> Nat]]
    BY <2>1, Zenon
  <2> QED
    BY <2>2, Zenon
<1>1. PICK f \in [Nat -> Nat] : f[0] = 0 /\ \A i \in Nat : f[i + 1] = next[i][f[i]]
  <2>1. 0 \in Nat
    OBVIOUS
  <2> QED
    BY <2>1, Recursion, Zenon
<1> DEFINE g == [i \in 0..N |-> f[i]]
<1>2. g \in [0..N -> Nat] /\ 0 \in 0..N
  <2>1. 0 \in 0..N /\ \A i \in 0..N : i \in Nat
    OBVIOUS
  <2>2. \A i \in 0..N : f[i] \in Nat
    BY <1>1, <2>1, Zenon
  <2> QED
    BY <2>1, <2>2, Zenon
<1>3. ASSUME NEW i \in 1..N PROVE g[i] = step[i][g[i - 1]]
  <2>1. i \in 0..N /\ i - 1 \in 0..N /\ i - 1 \in Nat /\ (i - 1) + 1 = i
    OBVIOUS
  <2>2. f[(i - 1) + 1] = next[i - 1][f[i - 1]] /\ next[i - 1] = step[(i - 1) + 1]
    BY <1>0, <1>1, <2>1, Zenon
  <2>3. g[i] = f[i] /\ g[i - 1] = f[i - 1]
    BY <2>1, Zenon
  <2> QED
    BY <2>1, <2>2, <2>3, Zenon
<1>4. g[0] = 0
  BY <1>1, <1>2, Zenon
<1> HIDE DEF g
<1> QED
  BY <1>2, <1>3, <1>4, Zenon

-----------------------------------------------------------------------------
(* Sequences *)

Joins(u, S, s, t) ==
    /\ u \in Seq(S) /\ Len(u) = Len(s) + Len(t) /\ Len(s) \in Nat /\ Len(t) \in Nat
    /\ \A i \in 1..Len(s) : u[i] = s[i]
    /\ \A i \in 1..Len(t) : u[Len(s) + i] = t[i]

(* The places of two sequences in their concatenation. *)
LEMMA Cat ==
    ASSUME NEW S, NEW s \in Seq(S), NEW t \in Seq(S)
    PROVE  Joins(s \o t, S, s, t)
BY DEF Joins

(* A sequence with one element more. *)
LEMMA Longer ==
    ASSUME NEW S, NEW s \in Seq(S), NEW x \in S
    PROVE  /\ Append(s, x) \in Seq(S) /\ Len(Append(s, x)) = Len(s) + 1
           /\ \A i \in 1..Len(s) : Append(s, x)[i] = s[i]
           /\ Append(s, x)[Len(s) + 1] = x
OBVIOUS

(* A function on 1..n is a sequence. *)
LEMMA SeqFun ==
    ASSUME NEW n \in Nat, NEW S, NEW f \in [1..n -> S]
    PROVE  f \in Seq(S) /\ Len(f) = n
OBVIOUS

(* A byte repeated. *)
LEMMA RepeatIs ==
    ASSUME NEW b \in Nat, NEW n \in Nat
    PROVE  /\ Repeat(b, n) \in Seq(Nat) /\ Len(Repeat(b, n)) = n
           /\ \A i \in 1..n : Repeat(b, n)[i] = b
BY DEF Repeat

(* Sequences are equal when their elements are. *)
LEMMA Same ==
    ASSUME NEW S, NEW s \in Seq(S), NEW t \in Seq(S), Len(s) = Len(t), \A i \in 1..Len(s) : s[i] = t[i]
    PROVE  s = t
OBVIOUS

IsPart(u, S, s, a, b) ==
    /\ u \in Seq(S) /\ Len(u) = b - a + 1
    /\ \A i \in 1..(b - a + 1) : u[i] = s[a - 1 + i]

(* The places of a subsequence. *)
LEMMA Part ==
    ASSUME NEW S, NEW s \in Seq(S), NEW a \in Nat, NEW b \in Nat, 1 <= a, b <= Len(s), a <= b + 1
    PROVE  IsPart(SubSeq(s, a, b), S, s, a, b)
BY DEF IsPart

-----------------------------------------------------------------------------
(* The merkle tree *)

(* The passes of the loop, one after the other. *)
LEMMA PassesAre ==
    ASSUME NEW txids, Len(txids) \in Nat
    PROVE  LET f == Passes(txids)
           IN  f[0] = [level |-> <<None>> \o txids, branch |-> <<>>] /\ \A k \in 1..Len(txids) : f[k] = Pass(f[k - 1])
<1> DEFINE F == Passes(txids)
           E(f, n) == [k \in 0..n |-> IF k = 0 THEN [level |-> <<None>> \o txids, branch |-> <<>>] ELSE Pass(f[k - 1])]
           S == {n \in Nat : n <= Len(txids) => \E f : f = E(f, n)}
<1>1. 0 \in S
  <2> DEFINE f == [k \in 0..0 |-> [level |-> <<None>> \o txids, branch |-> <<>>]]
  <2>1. f = E(f, 0)
    <3>1. \A k \in 0..0 : k = 0
      OBVIOUS
    <3> QED
      BY <3>1, Zenon
  <2> QED
    BY <2>1, Zenon
<1>2. ASSUME NEW n \in Nat, n \in S PROVE n + 1 \in S
  <2>0. n + 1 \in Nat
    OBVIOUS
  <2> SUFFICES ASSUME n + 1 <= Len(txids) PROVE \E f : f = E(f, n + 1)
    BY <2>0, Zenon
  <2>1. PICK g : g = E(g, n)
    <3>1. n <= Len(txids)
      OBVIOUS
    <3> QED
      BY <1>2, <3>1, Zenon
  <2> DEFINE f == [k \in 0..(n + 1) |-> IF k <= n THEN g[k] ELSE Pass(g[n])]
  <2>2. ASSUME NEW k \in 0..(n + 1) PROVE f[k] = IF k = 0 THEN [level |-> <<None>> \o txids, branch |-> <<>>] ELSE Pass(f[k - 1])
    <3>1. CASE k = 0
      <4>1. 0 \in 0..n /\ 0 <= n
        OBVIOUS
      <4> QED
        BY <2>1, <3>1, <4>1, Zenon
    <3>2. CASE k # 0 /\ k <= n
      <4>1. k \in 0..n /\ k - 1 \in 0..(n + 1) /\ k - 1 <= n
        BY <3>2
      <4>2. f[k] = g[k] /\ f[k - 1] = g[k - 1]
        BY <3>2, <4>1, Zenon
      <4>3. g[k] = Pass(g[k - 1])
        BY <2>1, <3>2, <4>1, Zenon
      <4> HIDE DEF f
      <4> QED
        BY <3>2, <4>2, <4>3, Zenon
    <3>3. CASE k = n + 1
      <4>1. k # 0 /\ ~(k <= n) /\ k - 1 = n /\ n \in 0..(n + 1) /\ n <= n
        BY <3>3
      <4>2. f[k] = Pass(g[n]) /\ f[n] = g[n]
        BY <3>3, <4>1, Zenon
      <4> HIDE DEF f
      <4> QED
        BY <3>3, <4>1, <4>2, Zenon
    <3> QED
      BY <3>1, <3>2, <3>3
  <2>3. f = E(f, n + 1)
    BY <2>2, Zenon
  <2> QED
    BY <2>3, Zenon
<1>3. \E f : f = E(f, Len(txids))
  <2>1. \A n \in Nat : n \in S
    <3> HIDE DEF S
    <3> QED
      BY <1>1, <1>2, SetInduction, Zenon
  <2>2. Len(txids) <= Len(txids)
    OBVIOUS
  <2> QED
    BY <2>1, <2>2, Zenon
<1>4. F = E(F, Len(txids))
  BY <1>3, Zenon DEF Passes
<1> HIDE DEF F
<1>5. F[0] = [level |-> <<None>> \o txids, branch |-> <<>>]
  <2>1. 0 \in 0..Len(txids)
    OBVIOUS
  <2> QED
    BY <1>4, <2>1, Zenon
<1>6. ASSUME NEW k \in 1..Len(txids) PROVE F[k] = Pass(F[k - 1])
  <2>1. k \in 0..Len(txids) /\ k # 0
    OBVIOUS
  <2> QED
    BY <1>4, <2>1, Zenon
<1> QED
  BY <1>5, <1>6, Zenon DEF F

(* The rows of the tree, from the leaves. *)
LEMMA RowsAre ==
    ASSUME NEW leaves, Len(leaves) \in Nat
    PROVE  LET f == Rows(leaves)
           IN  f[0] = leaves /\ \A k \in 1..Len(leaves) : f[k] = RowAbove(f[k - 1])
<1> DEFINE F == Rows(leaves)
           E(f, n) == [k \in 0..n |-> IF k = 0 THEN leaves ELSE RowAbove(f[k - 1])]
           S == {n \in Nat : n <= Len(leaves) => \E f : f = E(f, n)}
<1>1. 0 \in S
  <2> DEFINE f == [k \in 0..0 |-> leaves]
  <2>1. f = E(f, 0)
    <3>1. \A k \in 0..0 : k = 0
      OBVIOUS
    <3> QED
      BY <3>1, Zenon
  <2> QED
    BY <2>1, Zenon
<1>2. ASSUME NEW n \in Nat, n \in S PROVE n + 1 \in S
  <2>0. n + 1 \in Nat
    OBVIOUS
  <2> SUFFICES ASSUME n + 1 <= Len(leaves) PROVE \E f : f = E(f, n + 1)
    BY <2>0, Zenon
  <2>1. PICK g : g = E(g, n)
    <3>1. n <= Len(leaves)
      OBVIOUS
    <3> QED
      BY <1>2, <3>1, Zenon
  <2> DEFINE f == [k \in 0..(n + 1) |-> IF k <= n THEN g[k] ELSE RowAbove(g[n])]
  <2>2. ASSUME NEW k \in 0..(n + 1) PROVE f[k] = IF k = 0 THEN leaves ELSE RowAbove(f[k - 1])
    <3>1. CASE k = 0
      <4>1. 0 \in 0..n /\ 0 <= n
        OBVIOUS
      <4> QED
        BY <2>1, <3>1, <4>1, Zenon
    <3>2. CASE k # 0 /\ k <= n
      <4>1. k \in 0..n /\ k - 1 \in 0..(n + 1) /\ k - 1 <= n
        BY <3>2
      <4>2. f[k] = g[k] /\ f[k - 1] = g[k - 1]
        BY <3>2, <4>1, Zenon
      <4>3. g[k] = RowAbove(g[k - 1])
        BY <2>1, <3>2, <4>1, Zenon
      <4> HIDE DEF f
      <4> QED
        BY <3>2, <4>2, <4>3, Zenon
    <3>3. CASE k = n + 1
      <4>1. k # 0 /\ ~(k <= n) /\ k - 1 = n /\ n \in 0..(n + 1) /\ n <= n
        BY <3>3
      <4>2. f[k] = RowAbove(g[n]) /\ f[n] = g[n]
        BY <3>3, <4>1, Zenon
      <4> HIDE DEF f
      <4> QED
        BY <3>3, <4>1, <4>2, Zenon
    <3> QED
      BY <3>1, <3>2, <3>3
  <2>3. f = E(f, n + 1)
    BY <2>2, Zenon
  <2> QED
    BY <2>3, Zenon
<1>3. \E f : f = E(f, Len(leaves))
  <2>1. \A n \in Nat : n \in S
    <3> HIDE DEF S
    <3> QED
      BY <1>1, <1>2, SetInduction, Zenon
  <2>2. Len(leaves) <= Len(leaves)
    OBVIOUS
  <2> QED
    BY <2>1, <2>2, Zenon
<1>4. F = E(F, Len(leaves))
  BY <1>3, Zenon DEF Rows
<1> HIDE DEF F
<1>5. F[0] = leaves
  <2>1. 0 \in 0..Len(leaves)
    OBVIOUS
  <2> QED
    BY <1>4, <2>1, Zenon
<1>6. ASSUME NEW k \in 1..Len(leaves) PROVE F[k] = RowAbove(F[k - 1])
  <2>1. k \in 0..Len(leaves) /\ k # 0
    OBVIOUS
  <2> QED
    BY <1>4, <2>1, Zenon
<1> QED
  BY <1>5, <1>6, Zenon DEF F

(* The hashes up the branch, from the coinbase's. *)
LEMMA ClimbIs ==
    ASSUME NEW branch, NEW coinbase, Len(branch) \in Nat
    PROVE  LET f == Climb(branch, coinbase)
           IN  f[0] = double_sha256(coinbase) /\ \A k \in 1..Len(branch) : f[k] = double_sha256(f[k - 1] \o branch[k])
<1> DEFINE F == Climb(branch, coinbase)
           E(f, n) == [k \in 0..n |-> IF k = 0 THEN double_sha256(coinbase) ELSE double_sha256(f[k - 1] \o branch[k])]
           S == {n \in Nat : n <= Len(branch) => \E f : f = E(f, n)}
<1>1. 0 \in S
  <2> DEFINE f == [k \in 0..0 |-> double_sha256(coinbase)]
  <2>1. f = E(f, 0)
    <3>1. \A k \in 0..0 : k = 0
      OBVIOUS
    <3> QED
      BY <3>1, Zenon
  <2> QED
    BY <2>1, Zenon
<1>2. ASSUME NEW n \in Nat, n \in S PROVE n + 1 \in S
  <2>0. n + 1 \in Nat
    OBVIOUS
  <2> SUFFICES ASSUME n + 1 <= Len(branch) PROVE \E f : f = E(f, n + 1)
    BY <2>0, Zenon
  <2>1. PICK g : g = E(g, n)
    <3>1. n <= Len(branch)
      OBVIOUS
    <3> QED
      BY <1>2, <3>1, Zenon
  <2> DEFINE f == [k \in 0..(n + 1) |-> IF k <= n THEN g[k] ELSE double_sha256(g[n] \o branch[k])]
  <2>2. ASSUME NEW k \in 0..(n + 1) PROVE f[k] = IF k = 0 THEN double_sha256(coinbase) ELSE double_sha256(f[k - 1] \o branch[k])
    <3>1. CASE k = 0
      <4>1. 0 \in 0..n /\ 0 <= n
        OBVIOUS
      <4> QED
        BY <2>1, <3>1, <4>1, Zenon
    <3>2. CASE k # 0 /\ k <= n
      <4>1. k \in 0..n /\ k - 1 \in 0..(n + 1) /\ k - 1 <= n
        BY <3>2
      <4>2. f[k] = g[k] /\ f[k - 1] = g[k - 1]
        BY <3>2, <4>1, Zenon
      <4>3. g[k] = double_sha256(g[k - 1] \o branch[k])
        BY <2>1, <3>2, <4>1, Zenon
      <4> HIDE DEF f
      <4> QED
        BY <3>2, <4>2, <4>3, Zenon
    <3>3. CASE k = n + 1
      <4>1. k # 0 /\ ~(k <= n) /\ k - 1 = n /\ n \in 0..(n + 1) /\ n <= n
        BY <3>3
      <4>2. f[k] = double_sha256(g[n] \o branch[k]) /\ f[n] = g[n]
        BY <3>3, <4>1, Zenon
      <4> HIDE DEF f
      <4> QED
        BY <3>3, <4>1, <4>2, Zenon
    <3> QED
      BY <3>1, <3>2, <3>3
  <2>3. f = E(f, n + 1)
    BY <2>2, Zenon
  <2> QED
    BY <2>3, Zenon
<1>3. \E f : f = E(f, Len(branch))
  <2>1. \A n \in Nat : n \in S
    <3> HIDE DEF S
    <3> QED
      BY <1>1, <1>2, SetInduction, Zenon
  <2>2. Len(branch) <= Len(branch)
    OBVIOUS
  <2> QED
    BY <2>1, <2>2, Zenon
<1>4. F = E(F, Len(branch))
  BY <1>3, Zenon DEF Climb
<1> HIDE DEF F
<1>5. F[0] = double_sha256(coinbase)
  <2>1. 0 \in 0..Len(branch)
    OBVIOUS
  <2> QED
    BY <1>4, <2>1, Zenon
<1>6. ASSUME NEW k \in 1..Len(branch) PROVE F[k] = double_sha256(F[k - 1] \o branch[k])
  <2>1. k \in 0..Len(branch) /\ k # 0
    OBVIOUS
  <2> QED
    BY <1>4, <2>1, Zenon
<1> QED
  BY <1>5, <1>6, Zenon DEF F

(* A hash more on the branch is a step further up. *)
LEMMA ClimbOn ==
    ASSUME NEW S, NEW b \in Seq(S), NEW x \in S, NEW coinbase
    PROVE  merkle_root(Append(b, x), coinbase) = double_sha256(merkle_root(b, coinbase) \o x)
<1> DEFINE n == Len(b)
           B == Append(b, x)
           f == Climb(b, coinbase)
           g == Climb(B, coinbase)
           T == {k \in Nat : f[k] = g[k]}
<1>1. n \in Nat /\ Len(B) = n + 1 /\ B[n + 1] = x /\ \A i \in 1..n : B[i] = b[i]
  OBVIOUS
<1>2. f[0] = double_sha256(coinbase) /\ \A k \in 1..n : f[k] = double_sha256(f[k - 1] \o b[k])
  BY <1>1, ClimbIs, Zenon
<1>3. n + 1 \in Nat /\ (n + 1) - 1 = n /\ n \in 0..n /\ n + 1 \in 1..(n + 1)
  BY <1>1
<1>4. g[0] = double_sha256(coinbase) /\ \A k \in 1..(n + 1) : g[k] = double_sha256(g[k - 1] \o B[k])
  <2>1. Len(B) \in Nat
    BY <1>1, <1>3, Zenon
  <2> HIDE DEF B
  <2>2. g[0] = double_sha256(coinbase) /\ \A k \in 1..Len(B) : g[k] = double_sha256(g[k - 1] \o B[k])
    BY <2>1, ClimbIs, Zenon
  <2> QED
    BY <1>1, <2>2, Zenon
<1> HIDE DEF f, g, n, B
<1>5. 0 \in T
  BY <1>2, <1>4
<1>6. ASSUME NEW k \in 0..(n - 1), k \in T PROVE k + 1 \in T
  <2>1. k + 1 \in 1..n /\ k + 1 \in 1..(n + 1) /\ (k + 1) - 1 = k /\ k + 1 \in Nat
    BY <1>1
  <2>2. f[k + 1] = double_sha256(f[k] \o b[k + 1]) /\ g[k + 1] = double_sha256(g[k] \o B[k + 1])
    <3>1. f[k + 1] = double_sha256(f[(k + 1) - 1] \o b[k + 1]) /\ g[k + 1] = double_sha256(g[(k + 1) - 1] \o B[k + 1])
      BY <1>2, <1>4, <2>1, Zenon
    <3> QED
      BY <2>1, <3>1, Zenon
  <2> QED
    BY <1>1, <1>6, <2>1, <2>2, Zenon
<1>7. f[n] = g[n]
  <2> HIDE DEF T
  <2>1. \A k \in 0..n : k \in T
    BY <1>1, <1>5, <1>6, BoundedInduction, Zenon
  <2> QED
    BY <1>3, <2>1, Zenon DEF T
<1>8. g[n + 1] = double_sha256(g[n] \o x)
  <2>1. g[n + 1] = double_sha256(g[(n + 1) - 1] \o B[n + 1])
    BY <1>3, <1>4, Zenon
  <2> QED
    BY <1>1, <1>3, <2>1, Zenon
<1>9. merkle_root(B, coinbase) = g[n + 1] /\ merkle_root(b, coinbase) = f[n]
  BY <1>1, Zenon DEF merkle_root, f, g, n
<1> QED
  BY <1>7, <1>8, <1>9, Zenon DEF B

(* A function on the first numbers is a sequence. *)
LEMMA IsSequence ==
    ASSUME NEW n \in Nat, NEW f, f = [i \in 1..n |-> f[i]]
    PROVE  f \in Seq({f[i] : i \in 1..n}) /\ Len(f) = n
<1> DEFINE S == {f[i] : i \in 1..n}
<1>1. f \in [1..n -> S]
  BY Zenon
<1> HIDE DEF S
<1>2. f \in Seq(S) /\ Len(f) = n
  BY <1>1, SeqFun, Zenon
<1> QED
  BY <1>2, Zenon DEF S

(* The level made even: its last, doubled or not, is the partner of the last pair. *)
LEMMA EvenIs ==
    ASSUME NEW V, NEW level \in Seq(V), Len(level) >= 1
    PROVE  LET even == EvenLevel(level)
               half == (Len(level) + 1) \div 2
           IN  /\ half \in Nat /\ Len(even) \div 2 = half
               /\ \A i \in 1..half : /\ even[2 * i - 1] = level[2 * i - 1]
                                     /\ even[2 * i] = level[IF 2 * i <= Len(level) THEN 2 * i ELSE Len(level)]
<1> DEFINE n == Len(level)
           even == EvenLevel(level)
           half == (n + 1) \div 2
<1>0. n \in Nat /\ n >= 1
  OBVIOUS
<1>1. half \in Nat /\ half >= 1
  BY <1>0
<1>2. CASE n % 2 # 0
  <2>1. even = Append(level, level[n])
    BY <1>2, Zenon DEF EvenLevel, Last
  <2>2. Len(even) = n + 1 /\ even[n + 1] = level[n] /\ \A i \in 1..n : even[i] = level[i]
    BY <1>0, <2>1
  <2>3. 2 * half = n + 1
    BY <1>0, <1>2
  <2> HIDE DEF even, half, n
  <2>4. ASSUME NEW i \in 1..half PROVE even[2 * i - 1] = level[2 * i - 1] /\ even[2 * i] = level[IF 2 * i <= n THEN 2 * i ELSE n]
    <3>1. 2 * i - 1 \in 1..n /\ (2 * i <= n => 2 * i \in 1..n) /\ (~(2 * i <= n) => 2 * i = n + 1)
      BY <1>0, <1>1, <2>3
    <3> QED
      BY <2>2, <3>1, Zenon
  <2>5. Len(even) \div 2 = half
    BY <1>1, <2>2, <2>3
  <2> QED
    BY <1>1, <2>4, <2>5, Zenon DEF even, half, n
<1>3. CASE n % 2 = 0
  <2>1. even = level
    BY <1>3, Zenon DEF EvenLevel
  <2>3. 2 * half = n
    BY <1>0, <1>3
  <2> HIDE DEF even, half, n
  <2>4. ASSUME NEW i \in 1..half PROVE even[2 * i - 1] = level[2 * i - 1] /\ even[2 * i] = level[IF 2 * i <= n THEN 2 * i ELSE n]
    <3>1. 2 * i <= n
      BY <1>0, <1>1, <2>3
    <3> QED
      BY <2>1, <3>1, Zenon
  <2>5. Len(even) \div 2 = half
    <3>1. n \div 2 = half
      BY <1>0, <1>1, <2>3
    <3> QED
      BY <2>1, <3>1, Zenon DEF n
  <2> QED
    BY <1>1, <2>4, <2>5, Zenon DEF even, half, n
<1> QED
  BY <1>2, <1>3, Zenon

(* The pool's level against the node's row: the same but for the coinbase's  *)
(* path, which the siblings so far lead up.                                  *)
Abreast(level, branch, row, coinbase) ==
    /\ Len(level) \in Nat \ {0} /\ \E V : level \in Seq(V)
    /\ Len(row) = Len(level)
    /\ level[1] = None /\ \A i \in 2..Len(level) : level[i] = row[i] /\ level[i] # None
    /\ \E B : branch \in Seq(B)
    /\ row[1] = merkle_root(branch, coinbase)

(* A hash is never taken for the coinbase's place. *)
LEMMA HashIsSome == \A x : double_sha256(x) # None
BY DEF double_sha256, None

(* A pass of the loop is a row of the tree. *)
LEMMA PassIsRow ==
    ASSUME NEW level, NEW branch, NEW row, NEW coinbase, Abreast(level, branch, row, coinbase), Len(level) > 1
    PROVE  LET next == Pass([level |-> level, branch |-> branch])
           IN  /\ Abreast(next.level, next.branch, RowAbove(row), coinbase)
               /\ Len(next.level) < Len(level)
<1> DEFINE n == Len(level)
           half == (n + 1) \div 2
           even == EvenLevel(level)
           up == NextLevel(even)
           above == RowAbove(row)
           At(i) == IF 2 * i <= n THEN 2 * i ELSE n
<1>1. n \in Nat /\ n > 1
  BY Zenon DEF Abreast
<1>2. half \in Nat /\ 1 <= half /\ half < n
  BY <1>1
<1>3. PICK V : level \in Seq(V)
  BY Zenon DEF Abreast
<1>4. PICK B : branch \in Seq(B)
  BY Zenon DEF Abreast
<1>5. /\ Len(even) \div 2 = half
      /\ \A i \in 1..half : even[2 * i - 1] = level[2 * i - 1] /\ even[2 * i] = level[At(i)]
  <2>1. n >= 1
    BY <1>1
  <2> QED
    BY <1>3, <2>1, EvenIs, Zenon
<1>6. level[1] = None /\ (\A i \in 2..n : level[i] = row[i] /\ level[i] # None) /\ Len(row) = n /\ row[1] = merkle_root(branch, coinbase)
  BY Zenon DEF Abreast
<1>7. up = [i \in 1..half |-> IF even[2 * i - 1] = None \/ even[2 * i] = None THEN None
                              ELSE double_sha256(even[2 * i - 1] \o even[2 * i])]
  BY <1>5, Zenon DEF NextLevel
<1>8. above = [i \in 1..half |-> double_sha256(row[2 * i - 1] \o row[At(i)])]
  <2>1. n # 1
    <3> HIDE DEF n
    <3> QED
      BY <1>1
  <2> QED
    BY <1>6, <2>1, Zenon DEF RowAbove
<1> HIDE DEF n, half, even, up, above
<1>9. /\ up \in Seq({up[i] : i \in 1..half}) /\ Len(up) = half /\ Len(above) = half
  <2>1. up = [i \in 1..half |-> up[i]] /\ above = [i \in 1..half |-> above[i]]
    BY <1>7, <1>8, Zenon
  <2> QED
    BY <1>2, <2>1, IsSequence, Zenon
<1>10. up[1] = None
  <2>1. 1 \in 1..half /\ 2 * 1 - 1 = 1
    BY <1>2
  <2>2. even[2 * 1 - 1] = None
    BY <1>5, <1>6, <2>1, Zenon
  <2> QED
    BY <1>7, <2>1, <2>2, Zenon
<1>11. ASSUME NEW i \in 2..half PROVE up[i] = above[i] /\ up[i] # None
  <2>1. i \in 1..half /\ 2 * i - 1 \in 2..n /\ At(i) \in 2..n
    BY <1>1, <1>2 DEF half
  <2>2. even[2 * i - 1] = row[2 * i - 1] /\ even[2 * i - 1] # None /\ even[2 * i] = row[At(i)] /\ even[2 * i] # None
    BY <1>5, <1>6, <2>1, Zenon
  <2>3. up[i] = double_sha256(row[2 * i - 1] \o row[At(i)])
    BY <1>7, <2>1, <2>2, Zenon
  <2>4. above[i] = double_sha256(row[2 * i - 1] \o row[At(i)])
    BY <1>8, <2>1, Zenon
  <2>5. double_sha256(row[2 * i - 1] \o row[At(i)]) # None
    BY HashIsSome, Zenon
  <2> HIDE DEF At
  <2> QED
    BY <2>3, <2>4, <2>5, Zenon
<1>12. above[1] = double_sha256(merkle_root(branch, coinbase) \o row[2]) /\ even[2] = row[2] /\ even[2] # None
  <2>1. 1 \in 1..half /\ 2 * 1 - 1 = 1 /\ 2 * 1 = 2 /\ At(1) = 2 /\ 2 \in 2..n
    BY <1>1, <1>2
  <2>2. above[1] = double_sha256(row[2 * 1 - 1] \o row[At(1)]) /\ even[2 * 1] = level[At(1)]
    BY <1>5, <1>8, <2>1, Zenon
  <2> QED
    BY <1>6, <2>1, <2>2, Zenon
<1> DEFINE longer == Append(branch, row[2])
<1>13. merkle_root(longer, coinbase) = above[1] /\ longer \in Seq(B \cup {row[2]})
  <2>1. branch \in Seq(B \cup {row[2]}) /\ row[2] \in B \cup {row[2]}
    BY <1>4
  <2>2. longer \in Seq(B \cup {row[2]})
    BY <2>1
  <2> QED
    BY <1>12, <2>1, <2>2, ClimbOn, Zenon
<1>14. Abreast(up, longer, above, coinbase)
  <2>1. half \in Nat \ {0}
    BY <1>2
  <2> QED
    BY <1>9, <1>10, <1>11, <1>13, <2>1, Zenon DEF Abreast
<1>15. Pass([level |-> level, branch |-> branch]) = [level |-> up, branch |-> longer]
  <2>1. ~(n <= 1)
    BY <1>1
  <2>2. [level |-> level, branch |-> branch].level = level /\ [level |-> level, branch |-> branch].branch = branch
    OBVIOUS
  <2> HIDE DEF longer
  <2>3. Pass([level |-> level, branch |-> branch]) =
          [level |-> up, branch |-> IF even[2] = None THEN branch ELSE Append(branch, even[2])]
    BY <2>1, <2>2, Zenon DEF Pass, n, up, even
  <2> QED
    BY <1>12, <2>3, Zenon DEF longer
<1>16. [level |-> up, branch |-> longer].level = up /\ [level |-> up, branch |-> longer].branch = longer
  OBVIOUS
<1> HIDE DEF longer
<1> QED
  BY <1>2, <1>9, <1>14, <1>15, <1>16, Zenon DEF above, n

(* The siblings lead from the coinbase to the root of the tree. *)
LEMMA BranchLeadsToRoot ==
    ASSUME NEW H, None \notin H, NEW txids \in Seq(H), NEW coinbase
    PROVE  merkle_root(compute_merkle_branch_raw(txids), coinbase) = TreeRoot(<<double_sha256(coinbase)>> \o txids)
<1> DEFINE N == Len(txids)
           top == double_sha256(coinbase)
           leaves == <<top>> \o txids
           first == <<None>> \o txids
           P == Passes(txids)
           R == Rows(leaves)
           S == {k \in Nat : /\ Abreast(P[k].level, P[k].branch, R[k], coinbase)
                             /\ P[k] = [level |-> P[k].level, branch |-> P[k].branch]
                             /\ Len(P[k].level) = 1 \/ Len(P[k].level) <= N + 1 - k}
<1>1. N \in Nat /\ N + 1 \in Nat /\ N \in 0..N /\ N + 1 \in 1..(N + 1) /\ (N + 1) - 1 = N
  OBVIOUS
<1>2. Len(leaves) = N + 1 /\ leaves[1] = top /\ \A i \in 2..(N + 1) : leaves[i] = txids[i - 1]
  OBVIOUS
<1>3. /\ first \in Seq(H \cup {None}) /\ Len(first) = N + 1 /\ first[1] = None
      /\ \A i \in 2..(N + 1) : first[i] = txids[i - 1]
  OBVIOUS
<1>4. \A i \in 2..(N + 1) : txids[i - 1] # None
  <2>1. \A i \in 2..(N + 1) : txids[i - 1] \in H
    OBVIOUS
  <2> QED
    BY <2>1, Zenon
<1>5. P[0] = [level |-> first, branch |-> <<>>] /\ \A k \in 1..N : P[k] = Pass(P[k - 1])
  BY <1>1, PassesAre, Zenon
<1>6. R[0] = leaves /\ \A k \in 1..(N + 1) : R[k] = RowAbove(R[k - 1])
  <2> HIDE DEF leaves
  <2>1. R[0] = leaves /\ \A k \in 1..Len(leaves) : R[k] = RowAbove(R[k - 1])
    <3>1. Len(leaves) \in Nat
      BY <1>1, <1>2, Zenon
    <3> QED
      BY <3>1, RowsAre, Zenon
  <2> QED
    BY <1>2, <2>1, Zenon
<1>7. merkle_root(<<>>, coinbase) = top
  <2>1. Len(<<>>) = 0 /\ 0 \in Nat
    OBVIOUS
  <2>2. Climb(<<>>, coinbase)[0] = top
    BY <2>1, ClimbIs, Zenon
  <2> QED
    BY <2>1, <2>2, Zenon DEF merkle_root
<1> HIDE DEF N, leaves, first, P, R, top
<1>8. 0 \in S
  <2>1. P[0].level = first /\ P[0].branch = <<>>
    BY <1>5
  <2>2. Abreast(first, <<>>, leaves, coinbase)
    <3>1. N + 1 \in Nat \ {0}
      BY <1>1
    <3>2. <<>> \in Seq({})
      OBVIOUS
    <3> QED
      BY <1>2, <1>3, <1>4, <1>7, <3>1, <3>2, Zenon DEF Abreast
  <2>3. 0 \in Nat /\ N + 1 <= N + 1 - 0
    BY <1>1
  <2> QED
    BY <1>3, <1>5, <1>6, <2>1, <2>2, <2>3, Zenon
<1>9. ASSUME NEW k \in 0..(N - 1), k \in S PROVE k + 1 \in S
  <2> DEFINE level == P[k].level
             branch == P[k].branch
  <2>1. /\ Abreast(level, branch, R[k], coinbase) /\ P[k] = [level |-> level, branch |-> branch]
        /\ Len(level) = 1 \/ Len(level) <= N + 1 - k
    BY <1>9, Zenon
  <2>2. k \in Nat /\ k + 1 \in Nat /\ k + 1 \in 1..N /\ k + 1 \in 1..(N + 1) /\ (k + 1) - 1 = k
    BY <1>1
  <2>3. P[k + 1] = Pass(P[k]) /\ R[k + 1] = RowAbove(R[k])
    <3>1. P[k + 1] = Pass(P[(k + 1) - 1]) /\ R[k + 1] = RowAbove(R[(k + 1) - 1])
      BY <1>5, <1>6, <2>2, Zenon
    <3> QED
      BY <2>2, <3>1, Zenon
  <2>4. Len(level) \in Nat \ {0} /\ Len(R[k]) = Len(level)
    BY <2>1, Zenon DEF Abreast
  <2> HIDE DEF level, branch
  <2>5. CASE Len(level) = 1
    <3>1. Len(level) <= 1
      BY <2>5
    <3>2. R[k + 1] = R[k]
      BY <2>3, <2>4, <2>5, Zenon DEF RowAbove
    <3>3. P[k + 1] = P[k]
      <4>1. [level |-> level, branch |-> branch].level = level
        OBVIOUS
      <4> QED
        BY <2>1, <2>3, <3>1, <4>1, Zenon DEF Pass
    <3>4. P[k + 1].level = level /\ P[k + 1].branch = branch
      BY <3>3, Zenon DEF level, branch
    <3> QED
      BY <2>1, <2>2, <2>5, <3>2, <3>3, <3>4, Zenon
  <2>6. CASE Len(level) # 1
    <3> DEFINE next == Pass([level |-> level, branch |-> branch])
    <3>1. Len(level) > 1
      <4>1. \A n \in Nat \ {0} : n # 1 => n > 1
        OBVIOUS
      <4> QED
        BY <2>4, <2>6, <4>1, Zenon
    <3>2. Abreast(next.level, next.branch, RowAbove(R[k]), coinbase) /\ Len(next.level) < Len(level)
      BY <2>1, <3>1, PassIsRow, Zenon
    <3>3. next = [level |-> next.level, branch |-> next.branch]
      <4> DEFINE last == [level |-> level, branch |-> branch]
      <4>1. ~(Len(last.level) <= 1)
        BY <2>4, <3>1
      <4> HIDE DEF last
      <4>2. \E x, y : Pass(last) = [level |-> x, branch |-> y]
        BY <4>1, Zenon DEF Pass
      <4>3. PICK x, y : next = [level |-> x, branch |-> y]
        BY <4>2, Zenon DEF last
      <4> HIDE DEF next
      <4> QED
        BY <4>3
    <3>4. P[k + 1] = next
      BY <2>1, <2>3, Zenon
    <3> HIDE DEF next
    <3>5. Len(next.level) \in Nat
      BY <3>2, Zenon DEF Abreast
    <3>6. Len(next.level) <= N + 1 - (k + 1)
      BY <1>1, <2>1, <2>2, <2>4, <2>6, <3>2, <3>5
    <3> QED
      BY <2>2, <2>3, <3>2, <3>3, <3>4, <3>6, Zenon
  <2> QED
    BY <2>5, <2>6, Zenon
<1>10. N \in S
  <2> HIDE DEF S
  <2>1. \A k \in 0..N : k \in S
    BY <1>1, <1>8, <1>9, BoundedInduction, Zenon
  <2> QED
    BY <1>1, <2>1, Zenon
<1>11. Len(R[N]) = 1 /\ R[N][1] = merkle_root(P[N].branch, coinbase)
  <2>1. /\ Abreast(P[N].level, P[N].branch, R[N], coinbase)
        /\ Len(P[N].level) = 1 \/ Len(P[N].level) <= N + 1 - N
    BY <1>10, Zenon
  <2>2. Len(P[N].level) \in Nat \ {0} /\ Len(R[N]) = Len(P[N].level)
    BY <2>1, Zenon DEF Abreast
  <2>3. Len(P[N].level) = 1
    <3>1. \A n \in Nat \ {0} : n <= N + 1 - N => n = 1
      BY <1>1
    <3> QED
      BY <2>1, <2>2, <3>1, Zenon
  <2> QED
    BY <2>1, <2>2, <2>3, Zenon DEF Abreast
<1>12. R[N + 1] = R[N]
  <2>1. R[N + 1] = RowAbove(R[(N + 1) - 1])
    BY <1>1, <1>6, Zenon
  <2> QED
    BY <1>1, <1>11, <2>1, Zenon DEF RowAbove
<1>13. TreeRoot(leaves) = R[N + 1][1] /\ compute_merkle_branch_raw(txids) = P[N].branch
  BY <1>2, Zenon DEF TreeRoot, compute_merkle_branch_raw, R, P, N
<1> QED
  BY <1>11, <1>12, <1>13, Zenon DEF leaves, top

-----------------------------------------------------------------------------
(* The previous hash *)

(* The node's order, after the reversal and the two swaps. *)
LEMMA SwappedBack ==
    ASSUME NEW d \in Seq(STRING), Len(d) % 2 = 0
    PROVE  SwapWords(stratum_prev_hash(d)) = Reverse(d)
<1> DEFINE n == Len(d)
           r == Reverse(d)
           At(i) == IF i % 2 = 1 THEN i + 1 ELSE i - 1
           s == SwapWords(r)
<1>1. n \in Nat /\ n % 2 = 0
  OBVIOUS
<1>2. r = [i \in 1..n |-> r[i]] /\ DOMAIN r = 1..n
  BY Zenon DEF Reverse
<1> HIDE DEF n, r
<1>3. s = [i \in 1..n |-> r[At(i)]]
  BY <1>2, Zenon DEF SwapWords
<1> HIDE DEF s
<1>4. SwapWords(s) = [i \in 1..n |-> s[At(i)]]
  <2>1. DOMAIN s = 1..n
    BY <1>3, Zenon
  <2> QED
    BY <2>1, Zenon DEF SwapWords
<1>5. ASSUME NEW i \in 1..n PROVE s[At(i)] = r[i]
  <2>1. At(i) \in 1..n /\ At(At(i)) = i
    BY <1>1
  <2> QED
    BY <1>3, <2>1, Zenon
<1>6. SwapWords(s) = r
  BY <1>2, <1>4, <1>5, Zenon
<1> QED
  BY <1>6, Zenon DEF stratum_prev_hash, s, r

-----------------------------------------------------------------------------
(* The height's push *)

(* What is left of a number after each byte. *)
(* Bytes and what is above them. *)
Byte == 0..255

(* A number is its low byte and what a shift leaves of it. *)
LEMMA ByteFacts ==
    /\ \A n \in Nat : LowByte(n) \in Byte /\ Shift(n) \in Nat /\ n = Join(LowByte(n), Shift(n))
    /\ \A b \in Byte, n \in Nat : b \in Nat /\ Join(b, n) \in Nat
    /\ \A b, n \in Nat : Join(b, n) \in Nat
    /\ \A b \in Byte : LowByte(b) = b /\ Shift(b) = 0
BY DEF Byte, LowByte, Shift, Join

(* Shifted shifts once at a time. *)
LEMMA ShiftedIs ==
    ASSUME NEW n \in Nat
    PROVE  LET f == Shifted(n)
           IN  f[0] = n /\ (\A k \in 0..8 : f[k] \in Nat) /\ \A k \in 1..8 : f[k] = Shift(f[k - 1])
<1> DEFINE F == Shifted(n)
           E(f) == [k \in 0..8 |-> IF k = 0 THEN n ELSE Shift(f[k - 1])]
           step == [i \in Nat |-> [x \in Nat |-> Shift(x)]]
<1>0. step \in [Nat -> [Nat -> Nat]]
  <2>1. \A x \in Nat : Shift(x) \in Nat
    BY ByteFacts, Zenon
  <2> QED
    BY <2>1, Zenon
<1>1. \A i, x \in Nat : step[i][x] = Shift(x)
  BY Zenon
<1> HIDE DEF step
<1>2. PICK g \in [Nat -> Nat] : g[0] = n /\ \A i \in Nat : g[i + 1] = step[i][g[i]]
  BY <1>0, Recursion, Zenon
<1> DEFINE f == [k \in 0..8 |-> g[k]]
<1>3. \A k \in 0..8 : k \in Nat /\ (k # 0 => k - 1 \in Nat /\ k - 1 \in 0..8 /\ (k - 1) + 1 = k)
  OBVIOUS
<1>4. \A k \in 0..8 : f[k] \in Nat
  BY <1>3, Zenon
<1>5. ASSUME NEW k \in 0..8 PROVE f[k] = IF k = 0 THEN n ELSE Shift(f[k - 1])
  <2>1. CASE k = 0
    BY <1>2, <2>1, Zenon
  <2>2. CASE k # 0
    <3>1. g[(k - 1) + 1] = step[k - 1][g[k - 1]] /\ g[k - 1] \in Nat /\ f[k] = g[k] /\ f[k - 1] = g[k - 1]
      BY <1>2, <1>3, <2>2, Zenon
    <3>2. k - 1 \in Nat /\ (k - 1) + 1 = k
      BY <2>2
    <3>3. step[k - 1][g[k - 1]] = Shift(g[k - 1])
      BY <1>1, <3>1, <3>2, Zenon
    <3>4. g[k] = Shift(f[k - 1])
      <4> HIDE DEF f
      <4> QED
        BY <3>1, <3>2, <3>3, Zenon
    <3> QED
      BY <2>2, <3>1, <3>4, Zenon
  <2> QED
    BY <2>1, <2>2, Zenon
<1>6. f = E(f)
  BY <1>5, Zenon
<1>7. F = E(F)
  BY <1>6, Zenon DEF Shifted
<1> HIDE DEF F, f
<1>8. F[0] = n /\ \A k \in 1..8 : F[k] = Shift(F[k - 1])
  <2>1. 0 \in 0..8 /\ \A k \in 1..8 : k \in 0..8 /\ k # 0
    OBVIOUS
  <2>2. F[0] = n
    BY <1>7, <2>1, Zenon
  <2>3. ASSUME NEW k \in 1..8 PROVE F[k] = Shift(F[k - 1])
    BY <1>7, <2>1, Zenon
  <2> QED
    BY <2>2, <2>3, Zenon
<1>9. \A k \in 0..8 : F[k] \in Nat
  <2> DEFINE S == {k \in Nat : F[k] \in Nat}
  <2>1. 0 \in S
    BY <1>8
  <2>2. ASSUME NEW k \in 0..(8 - 1), k \in S PROVE k + 1 \in S
    <3>1. k + 1 \in 1..8 /\ (k + 1) - 1 = k /\ k + 1 \in Nat
      OBVIOUS
    <3>2. F[k + 1] = Shift(F[k]) /\ F[k] \in Nat
      BY <1>8, <2>2, <3>1
    <3>3. Shift(F[k]) \in Nat
      BY <3>2, ByteFacts, Zenon
    <3> QED
      BY <3>1, <3>2, <3>3, Zenon
  <2> HIDE DEF S
  <2>3. \A k \in 0..8 : k \in S
    <3>1. 8 \in Nat
      OBVIOUS
    <3> QED
      BY <2>1, <2>2, <3>1, BoundedInduction, Zenon
  <2> QED
    BY <2>3, Zenon DEF S
<1> QED
  BY <1>8, <1>9, Zenon DEF F

(* The number of bytes is the number of shifts until nothing is left. *)
LEMMA BytesAre ==
    ASSUME NEW n \in Nat, NEW len \in 0..8,
           Shifted(n)[len] = 0, \A j \in 0..(len - 1) : Shifted(n)[j] # 0
    PROVE  LittleEndian(n) = [k \in 1..len |-> LowByte(Shifted(n)[k - 1])]
<1> DEFINE R == Shifted(n)
           Ends(k) == R[k] = 0 /\ \A j \in 0..(k - 1) : R[j] # 0
           c == CHOOSE k \in 0..8 : Ends(k)
<1>1. \A k \in 0..8 : Ends(k) => k = len
  <2> SUFFICES ASSUME NEW k \in 0..8, Ends(k) PROVE k = len
    BY Zenon
  <2> HIDE DEF R
  <2>1. ~(k < len)
    <3> SUFFICES ASSUME k < len PROVE FALSE
      OBVIOUS
    <3>1. k \in 0..(len - 1)
      OBVIOUS
    <3> QED
      BY <3>1, Zenon DEF R
  <2>2. ~(len < k)
    <3> SUFFICES ASSUME len < k PROVE FALSE
      OBVIOUS
    <3>1. len \in 0..(k - 1)
      OBVIOUS
    <3> QED
      BY <3>1, Zenon DEF R
  <2> QED
    BY <2>1, <2>2
<1>2. Ends(len)
  BY Zenon
<1>3. c = len
  <2> HIDE DEF Ends
  <2> QED
    BY <1>1, <1>2, Zenon
<1> QED
  BY <1>3, Zenon DEF LittleEndian, LowBytes

(* The length of a count is the number of its bytes, and one more from 253. *)
LEMMA VarintIs ==
    ASSUME NEW n \in Nat
    PROVE  /\ encode_varint(n) \in Seq(Nat)
           /\ n < 253 => Len(encode_varint(n)) = 1
           /\ Shifted(n)[2] = 0 => Len(encode_varint(n)) \in 1..3
<1>1. ASSUME NEW len \in 0..8
      PROVE  LowBytes(n, len) \in Seq(Nat) /\ Len(LowBytes(n, len)) = len
  <2>1. len \in Nat /\ \A k \in 1..len : k - 1 \in 0..8
    OBVIOUS
  <2>2. \A k \in 1..len : LowByte(Shifted(n)[k - 1]) \in Nat
    BY <2>1, ShiftedIs, ByteFacts, Zenon
  <2>3. LowBytes(n, len) \in [1..len -> Nat]
    BY <2>2, Zenon DEF LowBytes
  <2> QED
    BY <2>1, <2>3, SeqFun, Zenon
<1>2. ASSUME NEW b \in Nat, NEW len \in 0..8
      PROVE  <<b>> \o LowBytes(n, len) \in Seq(Nat) /\ Len(<<b>> \o LowBytes(n, len)) = 1 + len
  <2>1. LowBytes(n, len) \in Seq(Nat) /\ Len(LowBytes(n, len)) = len
    BY <1>1, Zenon
  <2> QED
    BY <2>1
<1>3. CASE n < 253
  <2>1. encode_varint(n) = <<n>>
    BY <1>3, Zenon DEF encode_varint
  <2> QED
    BY <2>1
<1>4. CASE ~(n < 253) /\ Shifted(n)[2] = 0
  <2>1. encode_varint(n) = <<253>> \o LowBytes(n, 2)
    BY <1>4, Zenon DEF encode_varint
  <2>2. 253 \in Nat /\ 2 \in 0..8 /\ 1 + 2 \in 1..3
    OBVIOUS
  <2>3. encode_varint(n) \in Seq(Nat) /\ Len(encode_varint(n)) \in 1..3
    BY <1>2, <2>1, <2>2, Zenon
  <2> QED
    BY <1>4, <2>3, Zenon
<1>5. CASE ~(n < 253) /\ Shifted(n)[2] # 0
  <2>1. \/ encode_varint(n) = <<254>> \o LowBytes(n, 4)
        \/ encode_varint(n) = <<255>> \o LowBytes(n, 8)
    BY <1>5, Zenon DEF encode_varint
  <2>2. 254 \in Nat /\ 255 \in Nat /\ 4 \in 0..8 /\ 8 \in 0..8
    OBVIOUS
  <2>3. <<254>> \o LowBytes(n, 4) \in Seq(Nat)
    BY <1>2, <2>2, Zenon
  <2>4. <<255>> \o LowBytes(n, 8) \in Seq(Nat)
    BY <1>2, <2>2, Zenon
  <2> QED
    BY <1>5, <2>1, <2>3, <2>4, Zenon
<1> QED
  BY <1>3, <1>4, <1>5, Zenon

(* A height has at most four bytes, and the highest has no sign bit when it *)
(* is the fourth.                                                           *)
FourBytes(n, a, b, c, d) ==
    /\ n = Join(a, Join(b, Join(c, d))) /\ d < 128
    /\ LittleEndian(n) = IF d # 0 THEN <<a, b, c, d>> ELSE IF c # 0 THEN <<a, b, c>>
                         ELSE IF b # 0 THEN <<a, b>> ELSE <<a>>

(* LittleEndian of an int, by its four bytes. *)
LEMMA HeightBytes ==
    ASSUME NEW n \in Nat \ {0}, IsInt(n)
    PROVE  \E a, b, c, d \in Byte : FourBytes(n, a, b, c, d)
<1> DEFINE R == Shifted(n)
           q1 == Shift(n)
           q2 == Shift(q1)
           d == Shift(q2)
           a == LowByte(n)
           b == LowByte(q1)
           c == LowByte(q2)
<1>0. n \in Nat /\ n # 0 /\ d < 128
  BY Zenon DEF IsInt
<1>1. R[0] = n /\ \A k \in 1..8 : R[k] = Shift(R[k - 1])
  BY <1>0, ShiftedIs, Zenon
<1> HIDE DEF R
<1>2. R[1] = q1 /\ R[2] = q2 /\ R[3] = d /\ R[4] = Shift(d)
  <2>1. 1 \in 1..8 /\ 2 \in 1..8 /\ 3 \in 1..8 /\ 4 \in 1..8 /\ 1 - 1 = 0 /\ 2 - 1 = 1 /\ 3 - 1 = 2 /\ 4 - 1 = 3
    OBVIOUS
  <2>2. R[1] = Shift(R[0])
    BY <1>1, <2>1, Zenon
  <2>3. R[2] = Shift(R[1])
    BY <1>1, <2>1, Zenon
  <2>4. R[3] = Shift(R[2])
    BY <1>1, <2>1, Zenon
  <2>5. R[4] = Shift(R[3])
    BY <1>1, <2>1, Zenon
  <2> QED
    BY <1>1, <2>2, <2>3, <2>4, <2>5, SMT
<1>3. a \in Byte /\ q1 \in Nat /\ n = Join(a, q1)
  BY <1>0, ByteFacts, Zenon
<1>4. b \in Byte /\ q2 \in Nat /\ q1 = Join(b, q2)
  <2> HIDE DEF q1
  <2> QED
    BY <1>3, ByteFacts, Zenon
<1>5. c \in Byte /\ d \in Nat /\ q2 = Join(c, d)
  <2> HIDE DEF q2
  <2> QED
    BY <1>4, ByteFacts, Zenon
<1> HIDE DEF a, b, c, q1, q2, d
<1>6. d < 128 /\ d \in Byte
  BY <1>0, <1>5 DEF Byte
<1>7. n = Join(a, Join(b, Join(c, d)))
  BY <1>3, <1>4, <1>5, Zenon
<1>8. Shift(d) = 0
  BY <1>6, ByteFacts, Zenon
<1>9. a = LowByte(n) /\ b = LowByte(q1) /\ c = LowByte(q2) /\ (d = LowByte(d))
  <2>1. d = LowByte(d)
    BY <1>6, ByteFacts, Zenon
  <2> QED
    BY <2>1, Zenon DEF a, b, c
<1>10. ASSUME d # 0 PROVE FourBytes(n, a, b, c, d)
  <2>1. n # 0 /\ q1 # 0 /\ q2 # 0
    BY <1>3, <1>4, <1>5, <1>10 DEF Byte, Join
  <2>2. \A j \in 0..(4 - 1) : j = 0 \/ j = 1 \/ j = 2 \/ j = 3
    OBVIOUS
  <2>3. \A j \in 0..(4 - 1) : R[j] # 0
    BY <1>1, <1>2, <1>10, <2>1, <2>2, Zenon
  <2>4. 4 \in 0..8
    OBVIOUS
  <2>5. LittleEndian(n) = [k \in 1..4 |-> LowByte(R[k - 1])]
    BY <1>0, <1>2, <1>8, <2>3, <2>4, BytesAre, Zenon DEF R
  <2>6. LittleEndian(n) = <<a, b, c, d>>
    BY <1>1, <1>2, <1>9, <2>5
  <2> QED
    BY <1>6, <1>7, <1>10, <2>6, Zenon DEF FourBytes
<1>11. ASSUME d = 0 /\ c # 0 PROVE FourBytes(n, a, b, c, d)
  <2>1. n # 0 /\ q1 # 0 /\ q2 # 0 /\ q2 = c
    BY <1>3, <1>4, <1>5, <1>11 DEF Byte, Join
  <2>2. \A j \in 0..(3 - 1) : j = 0 \/ j = 1 \/ j = 2
    OBVIOUS
  <2>3. \A j \in 0..(3 - 1) : R[j] # 0
    BY <1>1, <1>2, <2>1, <2>2, Zenon
  <2>4. 3 \in 0..8
    OBVIOUS
  <2>5. LittleEndian(n) = [k \in 1..3 |-> LowByte(R[k - 1])]
    BY <1>0, <1>2, <1>11, <2>3, <2>4, BytesAre, Zenon DEF R
  <2>6. LittleEndian(n) = <<a, b, c>>
    BY <1>1, <1>2, <1>9, <2>5
  <2> QED
    BY <1>6, <1>7, <1>11, <2>6, Zenon DEF FourBytes
<1>12. ASSUME d = 0 /\ c = 0 /\ b # 0 PROVE FourBytes(n, a, b, c, d)
  <2>1. n # 0 /\ q1 # 0 /\ q2 = 0
    BY <1>3, <1>4, <1>5, <1>12 DEF Byte, Join
  <2>2. \A j \in 0..(2 - 1) : j = 0 \/ j = 1
    OBVIOUS
  <2>3. \A j \in 0..(2 - 1) : R[j] # 0
    BY <1>1, <1>2, <2>1, <2>2, Zenon
  <2>4. 2 \in 0..8
    OBVIOUS
  <2>5. LittleEndian(n) = [k \in 1..2 |-> LowByte(R[k - 1])]
    BY <1>0, <1>2, <2>1, <2>3, <2>4, BytesAre, Zenon DEF R
  <2>6. LittleEndian(n) = <<a, b>>
    BY <1>1, <1>2, <1>9, <2>5
  <2> QED
    BY <1>6, <1>7, <1>12, <2>6, Zenon DEF FourBytes
<1>13. ASSUME d = 0 /\ c = 0 /\ b = 0 PROVE FourBytes(n, a, b, c, d)
  <2>1. n # 0 /\ q1 = 0
    BY <1>3, <1>4, <1>5, <1>13 DEF Byte, Join
  <2>2. \A j \in 0..(1 - 1) : j = 0
    OBVIOUS
  <2>3. \A j \in 0..(1 - 1) : R[j] # 0
    BY <1>1, <2>1, <2>2, Zenon
  <2>4. 1 \in 0..8
    OBVIOUS
  <2>5. LittleEndian(n) = [k \in 1..1 |-> LowByte(R[k - 1])]
    BY <1>0, <1>2, <2>1, <2>3, <2>4, BytesAre, Zenon DEF R
  <2>6. LittleEndian(n) = <<a>>
    BY <1>1, <1>9, <2>5
  <2> QED
    BY <1>6, <1>7, <1>13, <2>6, Zenon DEF FourBytes
<1>14. FourBytes(n, a, b, c, d)
  BY <1>10, <1>11, <1>12, <1>13, Zenon
<1> QED
  BY <1>3, <1>4, <1>5, <1>6, <1>14, Zenon

(* What a script number stands for, from its highest byte. *)
LEMMA HighBytesAre ==
    ASSUME NEW bytes \in Seq(Nat)
    PROVE  LET f == HighBytes(bytes)
           IN  f[0] = 0 /\ \A k \in 1..Len(bytes) : f[k] = Join(bytes[Len(bytes) + 1 - k], f[k - 1])
<1> DEFINE n == Len(bytes)
           F == HighBytes(bytes)
           E(f) == [k \in 0..n |-> IF k = 0 THEN 0 ELSE Join(bytes[n + 1 - k], f[k - 1])]
           step == [i \in Nat |-> [x \in Nat |-> IF i \in 1..n THEN Join(bytes[n + 1 - i], x) ELSE 0]]
<1>1. n \in Nat /\ \A i \in 1..n : bytes[n + 1 - i] \in Nat
  OBVIOUS
<1> HIDE DEF n
<1>2. step \in [Nat -> [Nat -> Nat]]
  <2>1. \A i \in Nat, x \in Nat : (IF i \in 1..n THEN Join(bytes[n + 1 - i], x) ELSE 0) \in Nat
    BY <1>1, ByteFacts, Zenon
  <2> QED
    BY <2>1, Zenon
<1>3. \A i \in 1..n, x \in Nat : step[i][x] = Join(bytes[n + 1 - i], x)
  <2>1. \A i \in 1..n : i \in Nat
    BY <1>1
  <2> QED
    BY <2>1, Zenon
<1> HIDE DEF step
<1>4. PICK f \in [0..n -> Nat] : f[0] = 0 /\ \A i \in 1..n : f[i] = step[i][f[i - 1]]
  BY <1>1, <1>2, RecursionTo, Zenon
<1>5. f = E(f)
  <2>1. ASSUME NEW k \in 0..n PROVE f[k] = IF k = 0 THEN 0 ELSE Join(bytes[n + 1 - k], f[k - 1])
    <3>1. CASE k = 0
      BY <1>4, <3>1, Zenon
    <3>2. CASE k # 0
      <4>1. k \in 1..n /\ k - 1 \in 0..n
        BY <1>1, <3>2
      <4>2. f[k] = step[k][f[k - 1]] /\ f[k - 1] \in Nat
        BY <1>4, <4>1, Zenon
      <4>3. f[k] = Join(bytes[n + 1 - k], f[k - 1])
        BY <1>3, <4>1, <4>2, Zenon
      <4> QED
        BY <3>2, <4>3, Zenon
    <3> QED
      BY <3>1, <3>2, Zenon
  <2> QED
    BY <2>1, Zenon
<1>6. F = E(F)
  BY <1>5, Zenon DEF HighBytes, n
<1> HIDE DEF F
<1>7. 0 \in 0..n /\ \A k \in 1..n : k \in 0..n /\ k # 0
  BY <1>1
<1>8. F[0] = 0
  BY <1>6, <1>7, Zenon
<1>9. ASSUME NEW k \in 1..n PROVE F[k] = Join(bytes[n + 1 - k], F[k - 1])
  BY <1>6, <1>7, Zenon
<1> QED
  BY <1>8, <1>9, Zenon DEF F, n

(* What up to four bytes stand for. *)
LEMMA Magnitudes ==
    ASSUME NEW bytes \in Seq(Nat)
    PROVE  /\ Len(bytes) = 1 => Magnitude(bytes) = bytes[1]
           /\ Len(bytes) = 2 => Magnitude(bytes) = Join(bytes[1], bytes[2])
           /\ Len(bytes) = 3 => Magnitude(bytes) = Join(bytes[1], Join(bytes[2], bytes[3]))
           /\ Len(bytes) = 4 => Magnitude(bytes) = Join(bytes[1], Join(bytes[2], Join(bytes[3], bytes[4])))
<1> DEFINE F == HighBytes(bytes)
<1>1. F[0] = 0 /\ \A k \in 1..Len(bytes) : F[k] = Join(bytes[Len(bytes) + 1 - k], F[k - 1])
  BY HighBytesAre, Zenon
<1>2. Magnitude(bytes) = F[Len(bytes)]
  BY Zenon DEF Magnitude
<1> HIDE DEF F
<1>3. \A i \in 1..Len(bytes) : bytes[i] \in Nat
  OBVIOUS
<1>4. ASSUME Len(bytes) = 1 PROVE Magnitude(bytes) = bytes[1]
  BY <1>1, <1>2, <1>3, <1>4 DEF Join
<1>5. ASSUME Len(bytes) = 2 PROVE Magnitude(bytes) = Join(bytes[1], bytes[2])
  <2>1. F[1] = bytes[2]
    BY <1>1, <1>3, <1>5 DEF Join
  <2> QED
    BY <1>1, <1>2, <1>3, <1>5, <2>1
<1>6. ASSUME Len(bytes) = 3 PROVE Magnitude(bytes) = Join(bytes[1], Join(bytes[2], bytes[3]))
  <2>1. F[1] = bytes[3]
    BY <1>1, <1>3, <1>6 DEF Join
  <2>2. F[2] = Join(bytes[2], bytes[3])
    BY <1>1, <1>3, <1>6, <2>1
  <2> QED
    BY <1>1, <1>2, <1>3, <1>6, <2>2
<1>7. ASSUME Len(bytes) = 4 PROVE Magnitude(bytes) = Join(bytes[1], Join(bytes[2], Join(bytes[3], bytes[4])))
  <2>1. F[1] = bytes[4]
    BY <1>1, <1>3, <1>7 DEF Join
  <2>2. F[2] = Join(bytes[3], bytes[4])
    BY <1>1, <1>3, <1>7, <2>1
  <2>3. F[3] = Join(bytes[2], Join(bytes[3], bytes[4]))
    BY <1>1, <1>3, <1>7, <2>2
  <2> QED
    BY <1>1, <1>2, <1>3, <1>7, <2>3
<1> QED
  BY <1>4, <1>5, <1>6, <1>7, Zenon

(* What is pushed above 16 is the one minimal script number of the height. *)
ScriptNumber(s, n) ==
    /\ s \in Seq(Nat) /\ Len(s) \in 1..4 /\ Magnitude(s) = n
    /\ s[Len(s)] < 128 /\ (s[Len(s)] = 0 => Len(s) > 1 /\ s[Len(s) - 1] >= 128)

(* When up to four bytes are a minimal script number. *)
LEMMA ShortNumbers ==
    ASSUME NEW a \in Byte, NEW b \in Byte, NEW c \in Byte, NEW d \in Byte
    PROVE  /\ a \in 1..127 => ScriptNumber(<<a>>, a)
           /\ b < 128 /\ (b = 0 => a >= 128) => ScriptNumber(<<a, b>>, Join(a, b))
           /\ c < 128 /\ (c = 0 => b >= 128) => ScriptNumber(<<a, b, c>>, Join(a, Join(b, c)))
           /\ d < 128 /\ (d = 0 => c >= 128) => ScriptNumber(<<a, b, c, d>>, Join(a, Join(b, Join(c, d))))
<1>0. a \in Nat /\ b \in Nat /\ c \in Nat /\ d \in Nat
  BY DEF Byte
<1>1. ASSUME a \in 1..127 PROVE ScriptNumber(<<a>>, a)
  <2> DEFINE s == <<a>>
  <2>1. s \in Seq(Nat) /\ Len(s) = 1 /\ s[1] = a
    BY <1>0
  <2>2. Magnitude(s) = a
    BY <2>1, Magnitudes, Zenon
  <2> QED
    BY <1>1, <2>1, <2>2 DEF ScriptNumber
<1>2. ASSUME b < 128, b = 0 => a >= 128 PROVE ScriptNumber(<<a, b>>, Join(a, b))
  <2> DEFINE s == <<a, b>>
  <2>1. s \in Seq(Nat) /\ Len(s) = 2 /\ s[1] = a /\ s[2] = b
    BY <1>0
  <2> HIDE DEF s
  <2>2. Magnitude(s) = Join(a, b)
    BY <2>1, Magnitudes, Zenon
  <2>3. ScriptNumber(s, Join(a, b))
    BY <1>2, <2>1, <2>2 DEF ScriptNumber
  <2> QED
    BY <2>3, Zenon DEF s
<1>3. ASSUME c < 128, c = 0 => b >= 128 PROVE ScriptNumber(<<a, b, c>>, Join(a, Join(b, c)))
  <2> DEFINE s == <<a, b, c>>
  <2>1. s \in Seq(Nat) /\ Len(s) = 3 /\ s[1] = a /\ s[2] = b /\ s[3] = c
    BY <1>0
  <2> HIDE DEF s
  <2>2. Magnitude(s) = Join(a, Join(b, c))
    BY <2>1, Magnitudes, Zenon
  <2>3. ScriptNumber(s, Join(a, Join(b, c)))
    BY <1>3, <2>1, <2>2 DEF ScriptNumber
  <2> QED
    BY <2>3, Zenon DEF s
<1>4. ASSUME d < 128, d = 0 => c >= 128 PROVE ScriptNumber(<<a, b, c, d>>, Join(a, Join(b, Join(c, d))))
  <2> DEFINE s == <<a, b, c, d>>
  <2>1. s \in Seq(Nat) /\ Len(s) = 4 /\ s[1] = a /\ s[2] = b /\ s[3] = c /\ s[4] = d
    BY <1>0
  <2> HIDE DEF s
  <2>2. Magnitude(s) = Join(a, Join(b, Join(c, d)))
    BY <2>1, Magnitudes, Zenon
  <2>3. ScriptNumber(s, Join(a, Join(b, Join(c, d))))
    BY <1>4, <2>1, <2>2 DEF ScriptNumber
  <2> QED
    BY <2>3, Zenon DEF s
<1> QED
  BY <1>1, <1>2, <1>3, <1>4, Zenon

(* One byte, and a sign byte after it. *)
LEMMA OneMore ==
    ASSUME NEW a \in Nat, NEW x \in Nat
    PROVE  Append(<<a>>, x) = <<a, x>> /\ Last(<<a>>) = a
<1> DEFINE r == <<a>>
           s == Append(r, x)
           t == <<a, x>>
<1>1. r \in Seq(Nat) /\ Len(r) = 1 /\ r[1] = a
  OBVIOUS
<1> HIDE DEF r
<1>2. s \in Seq(Nat) /\ Len(s) = 2 /\ s[1] = a /\ s[2] = x
  <2>1. /\ s \in Seq(Nat) /\ Len(s) = Len(r) + 1
        /\ \A i \in 1..Len(r) : s[i] = r[i]
        /\ s[Len(r) + 1] = x
    BY <1>1, Longer, Zenon
  <2> HIDE DEF s
  <2> QED
    BY <1>1, <2>1
<1>3. t \in Seq(Nat) /\ Len(t) = 2 /\ t[1] = a /\ t[2] = x
  OBVIOUS
<1> HIDE DEF s, t
<1>4. \A i \in 1..2 : s[i] = t[i]
  BY <1>2, <1>3
<1>5. s = t
  BY <1>2, <1>3, <1>4, Same, Zenon
<1>6. Last(r) = a
  BY <1>1 DEF Last
<1> QED
  BY <1>5, <1>6, Zenon DEF s, t, r

(* The same for two bytes. *)
LEMMA TwoMore ==
    ASSUME NEW a \in Nat, NEW b \in Nat, NEW x \in Nat
    PROVE  Append(<<a, b>>, x) = <<a, b, x>> /\ Last(<<a, b>>) = b
<1> DEFINE r == <<a, b>>
           s == Append(r, x)
           t == <<a, b, x>>
<1>1. r \in Seq(Nat) /\ Len(r) = 2 /\ r[1] = a /\ r[2] = b
  OBVIOUS
<1> HIDE DEF r
<1>2. s \in Seq(Nat) /\ Len(s) = 3 /\ s[1] = a /\ s[2] = b /\ s[3] = x
  <2>1. /\ s \in Seq(Nat) /\ Len(s) = Len(r) + 1
        /\ \A i \in 1..Len(r) : s[i] = r[i]
        /\ s[Len(r) + 1] = x
    BY <1>1, Longer, Zenon
  <2> HIDE DEF s
  <2> QED
    BY <1>1, <2>1
<1>3. t \in Seq(Nat) /\ Len(t) = 3 /\ t[1] = a /\ t[2] = b /\ t[3] = x
  OBVIOUS
<1> HIDE DEF s, t
<1>4. \A i \in 1..3 : s[i] = t[i]
  BY <1>2, <1>3
<1>5. s = t
  BY <1>2, <1>3, <1>4, Same, Zenon
<1>6. Last(r) = b
  BY <1>1 DEF Last
<1> QED
  BY <1>5, <1>6, Zenon DEF s, t, r

(* The same for three bytes. *)
LEMMA ThreeMore ==
    ASSUME NEW a \in Nat, NEW b \in Nat, NEW c \in Nat, NEW x \in Nat
    PROVE  Append(<<a, b, c>>, x) = <<a, b, c, x>> /\ Last(<<a, b, c>>) = c
<1> DEFINE r == <<a, b, c>>
           s == Append(r, x)
           t == <<a, b, c, x>>
<1>1. r \in Seq(Nat) /\ Len(r) = 3 /\ r[1] = a /\ r[2] = b /\ r[3] = c
  OBVIOUS
<1> HIDE DEF r
<1>2. s \in Seq(Nat) /\ Len(s) = 4 /\ s[1] = a /\ s[2] = b /\ s[3] = c /\ s[4] = x
  <2>1. /\ s \in Seq(Nat) /\ Len(s) = Len(r) + 1
        /\ \A i \in 1..Len(r) : s[i] = r[i]
        /\ s[Len(r) + 1] = x
    BY <1>1, Longer, Zenon
  <2> HIDE DEF s
  <2> QED
    BY <1>1, <2>1
<1>3. t \in Seq(Nat) /\ Len(t) = 4 /\ t[1] = a /\ t[2] = b /\ t[3] = c /\ t[4] = x
  OBVIOUS
<1> HIDE DEF s, t
<1>4. \A i \in 1..4 : s[i] = t[i]
  BY <1>2, <1>3
<1>5. s = t
  BY <1>2, <1>3, <1>4, Same, Zenon
<1>6. Last(r) = c
  BY <1>1 DEF Last
<1> QED
  BY <1>5, <1>6, Zenon DEF s, t, r

Signed(bytes) == IF Last(bytes) >= 128 THEN Append(bytes, 0) ELSE bytes

(* With a sign byte where the top bit is set, a height is a minimal number. *)
LEMMA HeightNumber ==
    ASSUME NEW n \in Nat \ {0}, IsInt(n)
    PROVE  ScriptNumber(Signed(LittleEndian(n)), n)
<1>1. PICK a, b, c, d \in Byte : FourBytes(n, a, b, c, d)
  BY HeightBytes, Zenon
<1>2. n = Join(a, Join(b, Join(c, d))) /\ d < 128
  BY <1>1, Zenon DEF FourBytes
<1>3. Join(a, 0) = a /\ Join(b, 0) = b /\ Join(c, 0) = c /\ 0 \in Byte /\ 0 < 128
  BY DEF Join, Byte
<1>8. a \in Nat /\ b \in Nat /\ c \in Nat /\ 0 \in Nat
  BY DEF Byte
<1>9. /\ Append(<<a>>, 0) = <<a, 0>> /\ Last(<<a>>) = a
      /\ Append(<<a, b>>, 0) = <<a, b, 0>> /\ Last(<<a, b>>) = b
      /\ Append(<<a, b, c>>, 0) = <<a, b, c, 0>> /\ Last(<<a, b, c>>) = c
  <2>1. Append(<<a>>, 0) = <<a, 0>> /\ Last(<<a>>) = a
    BY <1>8, OneMore, Zenon
  <2>2. Append(<<a, b>>, 0) = <<a, b, 0>>
    BY <1>8, TwoMore
  <2>3. Last(<<a, b>>) = b
    BY <1>8, TwoMore
  <2>4. Append(<<a, b, c>>, 0) = <<a, b, c, 0>>
    BY <1>8, ThreeMore
  <2>5. Last(<<a, b, c>>) = c
    BY <1>8, ThreeMore
  <2> QED
    BY <2>1, <2>2, <2>3, <2>4, <2>5, Zenon
<1> DEFINE B == LittleEndian(n)
<1>4. CASE d # 0
  <2>1. B = <<a, b, c, d>>
    BY <1>1, <1>4, Zenon DEF FourBytes
  <2>2. Signed(B) = <<a, b, c, d>>
    BY <1>2, <2>1 DEF Signed, Last, Byte
  <2> QED
    BY <1>2, <1>4, <2>2, ShortNumbers, Zenon
<1>5. CASE d = 0 /\ c # 0
  <2>1. B = <<a, b, c>>
    BY <1>1, <1>5, Zenon DEF FourBytes
  <2>2. n = Join(a, Join(b, c))
    BY <1>2, <1>3, <1>5, Zenon
  <2>3. CASE c >= 128
    <3>0. Last(B) >= 128
      <4>1. Last(B) = c
        BY <1>9, <2>1, Zenon
      <4> QED
        BY <2>3, <4>1, Zenon
    <3>1. Signed(B) = <<a, b, c, 0>>
      <4>1. Signed(B) = Append(B, 0)
        BY <3>0, Zenon DEF Signed
      <4> QED
        BY <1>9, <2>1, <4>1, Zenon
    <3> QED
      BY <1>2, <1>5, <2>3, <3>1, ShortNumbers, Zenon
  <2>4. CASE ~(c >= 128)
    <3>1. Signed(B) = <<a, b, c>> /\ c < 128
      BY <2>1, <2>4 DEF Signed, Last, Byte
    <3> QED
      BY <1>5, <2>2, <3>1, ShortNumbers, Zenon
  <2> QED
    BY <2>3, <2>4, Zenon
<1>6. CASE d = 0 /\ c = 0 /\ b # 0
  <2>1. B = <<a, b>>
    BY <1>1, <1>6, Zenon DEF FourBytes
  <2>2. n = Join(a, b) /\ n = Join(a, Join(b, 0))
    BY <1>2, <1>3, <1>6, Zenon
  <2>3. CASE b >= 128
    <3>0. Last(B) >= 128
      <4>1. Last(B) = b
        BY <1>9, <2>1, Zenon
      <4> QED
        BY <2>3, <4>1, Zenon
    <3>1. Signed(B) = <<a, b, 0>>
      <4>1. Signed(B) = Append(B, 0)
        BY <3>0, Zenon DEF Signed
      <4> QED
        BY <1>9, <2>1, <4>1, Zenon
    <3> QED
      BY <1>3, <2>2, <2>3, <3>1, ShortNumbers, Zenon
  <2>4. CASE ~(b >= 128)
    <3>1. Signed(B) = <<a, b>> /\ b < 128
      BY <2>1, <2>4 DEF Signed, Last, Byte
    <3> QED
      BY <1>6, <2>2, <3>1, ShortNumbers, Zenon
  <2> QED
    BY <2>3, <2>4, Zenon
<1>7. CASE d = 0 /\ c = 0 /\ b = 0
  <2>1. B = <<a>>
    BY <1>1, <1>7, Zenon DEF FourBytes
  <2>2. n = a /\ n = Join(a, 0) /\ a # 0
    BY <1>2, <1>3, <1>7, Zenon
  <2>3. CASE a >= 128
    <3>0. Last(B) >= 128
      <4>1. Last(B) = a
        BY <1>9, <2>1, Zenon
      <4> QED
        BY <2>3, <4>1, Zenon
    <3>1. Signed(B) = <<a, 0>>
      <4>1. Signed(B) = Append(B, 0)
        BY <3>0, Zenon DEF Signed
      <4> QED
        BY <1>9, <2>1, <4>1, Zenon
    <3> QED
      BY <1>3, <2>2, <2>3, <3>1, ShortNumbers, Zenon
  <2>4. CASE ~(a >= 128)
    <3>1. Signed(B) = <<a>> /\ a \in 1..127
      BY <2>1, <2>2, <2>4 DEF Signed, Last, Byte
    <3> QED
      BY <2>2, <3>1, ShortNumbers, Zenon
  <2> QED
    BY <2>3, <2>4, Zenon
<1> QED
  BY <1>4, <1>5, <1>6, <1>7, Zenon

(* The push of a height: one opcode up to 16, then a length and a number. *)
Pushes(push, h) ==
    \/ h <= 16 /\ push = <<80 + h>>
    \/ h > 16 /\ \E s : push = <<Len(s)>> \o s /\ ScriptNumber(s, h)

(* encode_bip34_height pushes the height. *)
LEMMA HeightPush ==
    ASSUME NEW h \in Nat \ {0}, IsInt(h)
    PROVE  Pushes(encode_bip34_height(h), h)
<1>1. CASE h <= 16
  <2>1. encode_bip34_height(h) = <<80 + h>>
    BY <1>1, Zenon DEF encode_bip34_height
  <2> QED
    BY <1>1, <2>1, Zenon DEF Pushes
<1>2. CASE ~(h <= 16)
  <2> DEFINE s == Signed(LittleEndian(h))
  <2>1. encode_bip34_height(h) = <<Len(s)>> \o s
    BY <1>2, Zenon DEF encode_bip34_height, Signed
  <2>2. ScriptNumber(s, h)
    BY HeightNumber, Zenon
  <2>3. h > 16
    BY <1>2
  <2> HIDE DEF s
  <2> QED
    BY <2>1, <2>2, <2>3, Zenon DEF Pushes
<1> QED
  BY <1>1, <1>2, Zenon

(* The bytes of a push above 16. *)
Prefixed(push, s) ==
    /\ s \in Seq(Nat) /\ Len(s) \in 1..4
    /\ push \in Seq(Nat) /\ Len(push) = Len(s) + 1 /\ push[1] = Len(s)
    /\ \A i \in 1..Len(s) : push[i + 1] = s[i]

(* A push is the number's length, then the number. *)
LEMMA LongPush ==
    ASSUME NEW h, NEW s, ScriptNumber(s, h), NEW push, push = <<Len(s)>> \o s
    PROVE  Prefixed(push, s)
<1>1. s \in Seq(Nat) /\ Len(s) \in 1..4
  BY Zenon DEF ScriptNumber
<1> DEFINE t == <<Len(s)>>
<1>2. t \in Seq(Nat) /\ Len(t) = 1 /\ t[1] = Len(s)
  BY <1>1
<1> HIDE DEF t
<1>3. push = t \o s
  BY Zenon DEF t
<1>4. /\ push \in Seq(Nat) /\ Len(push) = Len(t) + Len(s)
      /\ \A i \in 1..Len(t) : push[i] = t[i]
      /\ \A i \in 1..Len(s) : push[Len(t) + i] = s[i]
  <2>1. Joins(push, Nat, t, s)
    BY <1>1, <1>2, <1>3, Cat, Zenon
  <2> QED
    BY <2>1, Zenon DEF Joins
<1>5. Len(push) = Len(s) + 1 /\ push[1] = Len(s)
  BY <1>1, <1>2, <1>4
<1>6. \A i \in 1..Len(s) : push[i + 1] = s[i]
  BY <1>1, <1>2, <1>4
<1> QED
  BY <1>1, <1>4, <1>5, <1>6, Zenon DEF Prefixed

(* No push of a height is longer than the five bytes that validate counts. *)
LEMMA PushLength ==
    ASSUME NEW h \in Nat \ {0}, NEW push, Pushes(push, h)
    PROVE  push \in Seq(Nat) /\ Len(push) \in 1..5
<1>1. CASE h <= 16 /\ push = <<80 + h>>
  BY <1>1
<1>2. CASE \E s : push = <<Len(s)>> \o s /\ ScriptNumber(s, h)
  <2>1. PICK s : push = <<Len(s)>> \o s /\ ScriptNumber(s, h)
    BY <1>2, Zenon
  <2>2. push \in Seq(Nat) /\ Len(push) = Len(s) + 1 /\ Len(s) \in 1..4
    BY <2>1, LongPush, Zenon DEF Prefixed
  <2>3. \A n \in 1..4 : n + 1 \in 1..5
    OBVIOUS
  <2> QED
    BY <2>2, <2>3, Zenon
<1> QED
  BY <1>1, <1>2, Zenon DEF Pushes

(* A script that begins with the push of a height is read as the height. *)
LEMMA ReadsBack ==
    ASSUME NEW h \in Nat \ {0}, NEW push, Pushes(push, h),
           NEW script \in Seq(Nat), Len(script) >= Len(push),
           \A i \in 1..Len(push) : script[i] = push[i]
    PROVE  BeginsWith(script, h)
<1>0. push \in Seq(Nat) /\ Len(push) \in 1..5
  BY PushLength, Zenon
<1>1. CASE h <= 16 /\ push = <<80 + h>>
  <2>1. h \in 1..16
    BY <1>1
  <2>2. Len(push) = 1 /\ push[1] = 80 + h
    BY <1>1
  <2>3. Head(script) = 80 + h
    BY <2>2
  <2> QED
    BY <2>1, <2>3, Zenon DEF BeginsWith
<1>2. CASE h > 16 /\ \E s : push = <<Len(s)>> \o s /\ ScriptNumber(s, h)
  <2>1. PICK s : push = <<Len(s)>> \o s /\ ScriptNumber(s, h)
    BY <1>2, Zenon
  <2>2. /\ s \in Seq(Nat) /\ Len(s) \in 1..4
        /\ push \in Seq(Nat) /\ Len(push) = Len(s) + 1 /\ push[1] = Len(s)
        /\ \A i \in 1..Len(s) : push[i + 1] = s[i]
    <3>1. Prefixed(push, s)
      BY <2>1, LongPush, Zenon
    <3> QED
      BY <3>1, Zenon DEF Prefixed
  <2>3. Head(script) = Len(s) /\ Len(s) \in 1..(Len(script) - 1)
    <3>1. Len(script) \in Nat /\ Head(script) = script[1]
      BY <1>0
    <3>2. script[1] = push[1]
      BY <1>0
    <3>3. \A n \in 1..4, m \in Nat : m >= n + 1 => n \in 1..(m - 1)
      OBVIOUS
    <3> QED
      BY <2>2, <3>1, <3>2, <3>3, Zenon
  <2> DEFINE bytes == SubSeq(script, 2, 1 + Len(s))
  <2>4. /\ bytes \in Seq(Nat) /\ Len(bytes) = Len(s)
        /\ \A i \in 1..Len(s) : bytes[i] = script[1 + i]
    <3>1. /\ 2 \in Nat /\ 1 + Len(s) \in Nat /\ 1 <= 2 /\ 1 + Len(s) <= Len(script)
          /\ 2 <= (1 + Len(s)) + 1 /\ (1 + Len(s)) - 2 + 1 = Len(s) /\ 2 - 1 = 1
      BY <2>2
    <3>2. /\ bytes \in Seq(Nat) /\ Len(bytes) = (1 + Len(s)) - 2 + 1
          /\ \A i \in 1..((1 + Len(s)) - 2 + 1) : bytes[i] = script[2 - 1 + i]
      <4>1. IsPart(bytes, Nat, script, 2, 1 + Len(s))
        BY <3>1, Part, Zenon
      <4> HIDE DEF bytes
      <4> QED
        BY <4>1, Zenon DEF IsPart
    <3> QED
      BY <3>1, <3>2, Zenon
  <2> HIDE DEF bytes
  <2>5. \A i \in 1..Len(s) : bytes[i] = s[i]
    <3>1. \A n \in 1..4 : \A i \in 1..n : 1 + i \in 1..(n + 1) /\ 1 + i = i + 1
      OBVIOUS
    <3>2. \A i \in 1..Len(s) : 1 + i \in 1..Len(push) /\ 1 + i = i + 1
      BY <2>2, <3>1, Zenon
    <3>3. ASSUME NEW i \in 1..Len(s) PROVE bytes[i] = s[i]
      <4>1. bytes[i] = script[1 + i] /\ script[1 + i] = push[1 + i] /\ push[i + 1] = s[i]
        BY <2>2, <2>4, <3>2, Zenon
      <4> QED
        BY <3>2, <4>1, Zenon
    <3> QED
      BY <3>3, Zenon
  <2>6. bytes = s
    BY <2>2, <2>4, <2>5, Same, Zenon
  <2>7. Magnitude(s) = h /\ Last(s) < 128 /\ (Last(s) = 0 => s[Len(s) - 1] >= 128)
    BY <2>1, Zenon DEF ScriptNumber, Last
  <2> QED
    BY <1>2, <2>3, <2>6, <2>7, Zenon DEF BeginsWith, bytes
<1> QED
  BY <1>1, <1>2, Zenon DEF Pushes

(* The scriptSig: the push, the tag, and room for the extranonces. *)
IsScript(script, head, push, tag, n) ==
    /\ head \in Seq(Nat) /\ Len(head) = Len(push) + tag
    /\ script \in Seq(Nat) /\ Len(script) = Len(push) + tag + n
    /\ \A i \in 1..Len(head) : script[i] = head[i]
    /\ \A i \in 1..Len(push) : script[i] = push[i]
    /\ tag > 0 => script[Len(push) + 1] = 47
    /\ tag = 0 /\ n > 0 => script[Len(push) + 1] = 0

(* The scriptSig of build_coinbase, part by part. *)
LEMMA ScriptIs ==
    ASSUME NEW push \in Seq(Nat), NEW tag \in Nat, NEW n \in Nat
    PROVE  IsScript(push \o Tag(tag) \o Repeat(0, n), push \o Tag(tag), push, tag, n)
<1> DEFINE T == Tag(tag)
           Z == Repeat(0, n)
           head == push \o T
           script == head \o Z
<1>1. T \in Seq(Nat) /\ Len(T) = tag /\ \A i \in 1..tag : T[i] = 47
  <2>1. 47 \in Nat
    OBVIOUS
  <2> QED
    BY <2>1, RepeatIs, Zenon DEF Tag
<1>2. Z \in Seq(Nat) /\ Len(Z) = n /\ \A i \in 1..n : Z[i] = 0
  <2>1. 0 \in Nat
    OBVIOUS
  <2> QED
    BY <2>1, RepeatIs, Zenon
<1> HIDE DEF T, Z
<1>3. Joins(head, Nat, push, T)
  BY <1>1, Cat, Zenon
<1>4. head \in Seq(Nat) /\ Len(head) = Len(push) + tag /\ Len(push) \in Nat
  BY <1>1, <1>3, Zenon DEF Joins
<1>5. \A i \in 1..Len(push) : head[i] = push[i]
  BY <1>3, Zenon DEF Joins
<1>6. \A i \in 1..tag : head[Len(push) + i] = 47
  <2>1. \A i \in 1..Len(T) : head[Len(push) + i] = T[i]
    BY <1>3, Zenon DEF Joins
  <2> QED
    BY <1>1, <2>1, Zenon
<1> HIDE DEF head
<1>7. Joins(script, Nat, head, Z)
  BY <1>2, <1>4, Cat, Zenon
<1>8. script \in Seq(Nat) /\ Len(script) = Len(head) + n
  BY <1>2, <1>7, Zenon DEF Joins
<1>9. \A i \in 1..Len(head) : script[i] = head[i]
  BY <1>7, Zenon DEF Joins
<1>10. \A i \in 1..n : script[Len(head) + i] = 0
  BY <1>2, <1>7, Zenon DEF Joins
<1> HIDE DEF script
<1>11. Len(script) = Len(push) + tag + n
  BY <1>4, <1>8
<1>12. ASSUME NEW i \in 1..Len(push) PROVE script[i] = push[i]
  <2>1. i \in 1..Len(head)
    BY <1>4
  <2> QED
    BY <1>5, <1>9, <2>1, Zenon
<1>13. ASSUME tag > 0 PROVE script[Len(push) + 1] = 47
  <2>1. 1 \in 1..tag /\ Len(push) + 1 \in 1..Len(head)
    BY <1>4, <1>13
  <2> QED
    BY <1>6, <1>9, <2>1, Zenon
<1>14. ASSUME tag = 0, n > 0 PROVE script[Len(push) + 1] = 0
  <2>1. 1 \in 1..n /\ Len(head) = Len(push)
    BY <1>4, <1>14
  <2>2. script[Len(head) + 1] = 0
    BY <1>10, <2>1, Zenon
  <2> QED
    BY <2>1, <2>2, Zenon
<1>15. IsScript(script, head, push, tag, n)
  BY <1>4, <1>8, <1>9, <1>11, <1>12, <1>13, <1>14, Zenon DEF IsScript
<1> QED
  BY <1>15, Zenon DEF head, script, T, Z

(* What lets find_bytes tell the scriptSig from the bytes before it: its first *)
(* byte, its second and its length.                                            *)
Telling(x, y, len) ==
    /\ len \in Nat /\ len >= 2 /\ x # 0 /\ x # 255
    /\ x = 1 => y # 0
    /\ x = len => y # x

Findable(script) == script \in Seq(Nat) /\ Telling(script[1], script[2], Len(script))

(* The first two bytes of the scriptSig occur nowhere before it. *)
LEMMA ScriptIsFindable ==
    ASSUME NEW h \in Nat \ {0}, NEW push, Pushes(push, h), NEW tag \in Nat, NEW n \in Nat \ {0}
    PROVE  Findable(push \o Tag(tag) \o Repeat(0, n))
<1> DEFINE script == push \o Tag(tag) \o Repeat(0, n)
<1>0. push \in Seq(Nat) /\ Len(push) \in 1..5
  BY PushLength, Zenon
<1>1. /\ script \in Seq(Nat) /\ Len(script) = Len(push) + tag + n
      /\ \A i \in 1..Len(push) : script[i] = push[i]
      /\ tag > 0 => script[Len(push) + 1] = 47
      /\ tag = 0 /\ n > 0 => script[Len(push) + 1] = 0
  <2>1. n \in Nat
    OBVIOUS
  <2>2. IsScript(script, push \o Tag(tag), push, tag, n)
    BY <1>0, <2>1, ScriptIs, Zenon
  <2> QED
    BY <2>2, Zenon DEF IsScript
<1> SUFFICES Findable(script)
  BY Zenon
<1> HIDE DEF script
<1>2. Len(script) \in Nat /\ Len(script) >= 2 /\ Len(script) > Len(push)
  BY <1>0, <1>1
<1>3. CASE h <= 16 /\ push = <<80 + h>>
  <2>1. Len(push) = 1 /\ push[1] = 80 + h
    BY <1>3
  <2>2. script[1] = 80 + h
    BY <1>1, <2>1
  <2>3. script[2] = 47 \/ script[2] = 0
    <3>1. n > 0 /\ (tag > 0 \/ tag = 0) /\ 1 + 1 = 2
      OBVIOUS
    <3> QED
      BY <1>1, <2>1, <3>1, Zenon
  <2>4. \A y, len : len \in Nat /\ len >= 2 /\ (y = 47 \/ y = 0) => Telling(80 + h, y, len)
    BY <1>3 DEF Telling
  <2>5. Telling(80 + h, script[2], Len(script))
    BY <1>2, <2>3, <2>4, Zenon
  <2> QED
    BY <1>1, <2>2, <2>5, Zenon DEF Findable
<1>4. CASE \E s : push = <<Len(s)>> \o s /\ ScriptNumber(s, h)
  <2>1. PICK s : push = <<Len(s)>> \o s /\ ScriptNumber(s, h)
    BY <1>4, Zenon
  <2>2. /\ Len(s) \in 1..4 /\ Len(push) = Len(s) + 1 /\ push[1] = Len(s)
        /\ \A i \in 1..Len(s) : push[i + 1] = s[i]
    <3>1. Prefixed(push, s)
      BY <2>1, LongPush, Zenon
    <3> QED
      BY <3>1, Zenon DEF Prefixed
  <2>3. script[1] = Len(s) /\ script[2] = s[1]
    <3>1. 1 \in 1..Len(push) /\ 2 \in 1..Len(push) /\ 1 \in 1..Len(s) /\ 1 + 1 = 2
      BY <2>2
    <3>2. script[1] = push[1] /\ script[2] = push[2] /\ push[1 + 1] = s[1]
      BY <1>1, <2>2, <3>1, Zenon
    <3> QED
      BY <2>2, <3>1, <3>2, Zenon
  <2>4. Len(s) = 1 => s[1] # 0
    <3>1. s[Len(s)] = 0 => Len(s) > 1
      BY <2>1, Zenon DEF ScriptNumber
    <3>2. ~(1 > 1)
      OBVIOUS
    <3> QED
      BY <3>1, <3>2, Zenon
  <2>5. \A m \in 1..4, len \in Nat : \A y : len > m + 1 /\ (m = 1 => y # 0) => Telling(m, y, len)
    BY DEF Telling
  <2>6. Telling(Len(s), s[1], Len(script))
    BY <1>2, <2>2, <2>4, <2>5, Zenon
  <2> QED
    BY <1>1, <2>3, <2>6, Zenon DEF Findable
<1> QED
  BY <1>3, <1>4, Zenon DEF Pushes

(* A sequence that begins with another still does when it gets longer. *)
Opens(u, s) ==
    /\ u \in Seq(Nat) /\ s \in Seq(Nat) /\ Len(u) \in Nat /\ Len(s) \in Nat /\ Len(s) <= Len(u)
    /\ \A i \in 1..Len(s) : u[i] = s[i]

(* A concatenation opens with its first part. *)
LEMMA OpensWith ==
    ASSUME NEW s \in Seq(Nat), NEW t \in Seq(Nat)
    PROVE  Opens(s \o t, s) /\ Len(s \o t) = Len(s) + Len(t)
<1> DEFINE v == s \o t
<1>1. Joins(v, Nat, s, t)
  BY Cat, Zenon
<1> HIDE DEF v
<1>2. v \in Seq(Nat) /\ Len(v) = Len(s) + Len(t) /\ Len(s) \in Nat /\ Len(t) \in Nat
  BY <1>1, Zenon DEF Joins
<1>3. \A i \in 1..Len(s) : v[i] = s[i]
  BY <1>1, Zenon DEF Joins
<1>4. \A m, n \in Nat : m + n \in Nat /\ m <= m + n
  OBVIOUS
<1>5. Len(v) \in Nat /\ Len(s) <= Len(v)
  BY <1>2, <1>4, Zenon
<1> QED
  BY <1>2, <1>3, <1>5, Zenon DEF Opens, v

(* And still does with more after it. *)
LEMMA StillOpens ==
    ASSUME NEW u, NEW s, NEW t \in Seq(Nat), Opens(u, s)
    PROVE  Opens(u \o t, s) /\ Len(u \o t) = Len(u) + Len(t)
<1> DEFINE v == u \o t
<1>0. /\ u \in Seq(Nat) /\ s \in Seq(Nat) /\ Len(u) \in Nat /\ Len(s) \in Nat /\ Len(s) <= Len(u)
      /\ \A i \in 1..Len(s) : u[i] = s[i]
  BY Zenon DEF Opens
<1>1. Opens(v, u) /\ Len(v) = Len(u) + Len(t)
  BY <1>0, OpensWith, Zenon
<1> HIDE DEF v
<1>2. v \in Seq(Nat) /\ Len(v) \in Nat /\ Len(u) <= Len(v) /\ \A i \in 1..Len(u) : v[i] = u[i]
  BY <1>1, Zenon DEF Opens
<1>3. \A a, b, c \in Nat : a <= b /\ b <= c => a <= c /\ \A i \in 1..a : i \in 1..b
  OBVIOUS
<1>4. Len(s) <= Len(v) /\ \A i \in 1..Len(s) : i \in 1..Len(u)
  BY <1>0, <1>2, <1>3, Zenon
<1>5. \A i \in 1..Len(s) : v[i] = s[i]
  BY <1>0, <1>2, <1>4, Zenon
<1> QED
  BY <1>0, <1>1, <1>2, <1>4, <1>5, Zenon DEF Opens, v

(* The bytes of a coinbase before its scriptSig and the length of that: the *)
(* version, the number of inputs and the null outpoint.  A one is followed  *)
(* by a zero.                                                               *)
Preamble == <<1, 0, 0, 0, 1>> \o Repeat(0, 32) \o Repeat(255, 4)

FF == 255
Filler(q, i) == q[i] = 0 \/ q[i] = FF \/ (q[i] = 1 /\ i <= 40 /\ q[i + 1] = 0)

(* What serialize puts before the scriptSig: zeros, ones before zeros, FF. *)
LEMMA PreambleIs ==
    Preamble \in Seq(Nat) /\ Len(Preamble) = 41 /\ \A i \in 1..41 : Filler(Preamble, i)
<1> DEFINE a == <<1, 0, 0, 0, 1>>
           z == Repeat(0, 32)
           f == Repeat(FF, 4)
           p == a \o z
           q == p \o f
<1>1. /\ a \in Seq(Nat) /\ Len(a) = 5
      /\ a[1] = 1 /\ a[2] = 0 /\ a[3] = 0 /\ a[4] = 0 /\ a[5] = 1
  OBVIOUS
<1>2. z \in Seq(Nat) /\ Len(z) = 32 /\ \A i \in 1..32 : z[i] = 0
  <2>1. 0 \in Nat /\ 32 \in Nat
    OBVIOUS
  <2> QED
    BY <2>1, RepeatIs, Zenon
<1>3. f \in Seq(Nat) /\ Len(f) = 4 /\ \A i \in 1..4 : f[i] = FF
  <2>1. FF \in Nat /\ 4 \in Nat
    BY DEF FF
  <2> QED
    BY <2>1, RepeatIs, Zenon
<1> HIDE DEF a, z, f
<1>4. Joins(p, Nat, a, z)
  BY <1>1, <1>2, Cat, Zenon
<1>5. p \in Seq(Nat)
  BY <1>4, Zenon DEF Joins
<1>6. /\ Len(p) = 37 /\ p[1] = 1 /\ p[2] = 0 /\ p[3] = 0 /\ p[4] = 0 /\ p[5] = 1
      /\ \A i \in 6..37 : p[i] = 0
  <2> HIDE DEF p
  <2>1. Len(p) = 37
    BY <1>1, <1>2, <1>4 DEF Joins
  <2>2. p[1] = 1 /\ p[2] = 0 /\ p[3] = 0 /\ p[4] = 0 /\ p[5] = 1
    BY <1>1, <1>4 DEF Joins
  <2>3. ASSUME NEW i \in 6..37 PROVE p[i] = 0
    <3>1. i - 5 \in 1..32 /\ 5 + (i - 5) = i
      OBVIOUS
    <3>2. p[5 + (i - 5)] = z[i - 5]
      BY <1>1, <1>2, <1>4, <3>1, Zenon DEF Joins
    <3> QED
      BY <1>2, <3>1, <3>2, Zenon
  <2> QED
    BY <2>1, <2>2, <2>3, Zenon
<1> HIDE DEF p
<1>7. Joins(q, Nat, p, f)
  BY <1>3, <1>5, Cat, Zenon
<1>8. q \in Seq(Nat)
  BY <1>7, Zenon DEF Joins
<1> HIDE DEF q
<1>9. Len(q) = 41 /\ \A i \in 1..37 : q[i] = p[i]
  BY <1>3, <1>6, <1>7 DEF Joins
<1>10. ASSUME NEW i \in 38..41 PROVE q[i] = FF
  <2>1. i - 37 \in 1..4 /\ 37 + (i - 37) = i
    OBVIOUS
  <2>2. \A k \in 1..Len(f) : q[Len(p) + k] = f[k]
    BY <1>7, Zenon DEF Joins
  <2>3. q[37 + (i - 37)] = f[i - 37]
    BY <1>3, <1>6, <2>1, <2>2, Zenon
  <2> QED
    BY <1>3, <2>1, <2>3, Zenon
<1>11. ASSUME NEW i \in 1..41 PROVE Filler(q, i)
  <2>1. CASE i \in 38..41
    BY <1>10, <2>1, Zenon DEF Filler
  <2>2. CASE i \in 6..37
    <3>1. i \in 1..37
      BY <2>2
    <3>2. q[i] = 0
      BY <1>6, <1>9, <2>2, <3>1
    <3> QED
      BY <3>2, Zenon DEF Filler
  <2>3. CASE i \in 1..5
    <3>1. i = 1 \/ i = 2 \/ i = 3 \/ i = 4 \/ i = 5
      BY <2>3
    <3>2. q[1] = 1 /\ q[2] = 0 /\ q[3] = 0 /\ q[4] = 0 /\ q[5] = 1 /\ q[6] = 0
      BY <1>6, <1>9
    <3> QED
      BY <3>1, <3>2 DEF Filler
  <2> QED
    BY <2>1, <2>2, <2>3
<1> QED
  BY <1>8, <1>9, <1>11, Zenon DEF Preamble, q, p, a, z, f, FF

(* The serialized coinbase, as far as it matters where its scriptSig lies. *)
IsCoinbase(bytes, script, len) ==
    /\ bytes \in Seq(Nat) /\ Len(bytes) = 51 + Len(script) + len
    /\ \A i \in 1..41 : Filler(bytes, i)
    /\ bytes[42] = Len(script)
    /\ \A i \in 1..Len(script) : bytes[42 + i] = script[i]

(* serialize puts a short scriptSig after 42 bytes. *)
LEMMA SerializedIs ==
    ASSUME NEW script \in Seq(Nat), Len(script) < 253, NEW count \in Nat, NEW outputs \in Seq(Nat)
    PROVE  IsCoinbase(serialize(script, count, outputs), script, Len(outputs))
<1> DEFINE l == encode_varint(Len(script))
           z == Repeat(0, 4)
           f == Repeat(255, 4)
           c == <<count>>
           p3 == Preamble \o l
           p4 == p3 \o script
           p5 == p4 \o f
           p6 == p5 \o c
           p7 == p6 \o outputs
           p8 == p7 \o z
<1>0. Len(script) \in Nat /\ Len(outputs) \in Nat
  OBVIOUS
<1>1. l \in Seq(Nat) /\ Len(l) = 1 /\ l[1] = Len(script)
  <2>1. l = <<Len(script)>>
    BY Zenon DEF encode_varint
  <2> QED
    BY <1>0, <2>1
<1>2. z \in Seq(Nat) /\ Len(z) = 4 /\ c \in Seq(Nat) /\ Len(c) = 1
  <2>1. 0 \in Nat /\ 4 \in Nat
    OBVIOUS
  <2>2. z \in Seq(Nat) /\ Len(z) = 4
    BY <2>1, RepeatIs, Zenon
  <2>3. c \in Seq(Nat) /\ Len(c) = 1
    OBVIOUS
  <2> QED
    BY <2>2, <2>3, Zenon
<1>3. f \in Seq(Nat) /\ Len(f) = 4
  <2>1. FF \in Nat /\ 4 \in Nat
    BY DEF FF
  <2>2. Repeat(FF, 4) \in Seq(Nat) /\ Len(Repeat(FF, 4)) = 4
    BY <2>1, RepeatIs, Zenon
  <2> QED
    BY <2>2, Zenon DEF FF
<1>4. serialize(script, count, outputs) = p8
  BY Zenon DEF serialize, Preamble
<1> HIDE DEF l, z, f, c
<1>5. Preamble \in Seq(Nat) /\ Len(Preamble) = 41 /\ \A i \in 1..41 : Filler(Preamble, i)
  BY PreambleIs, Zenon
<1>6. Joins(p3, Nat, Preamble, l) /\ Opens(p3, Preamble)
  BY <1>1, <1>5, Cat, OpensWith, Zenon
<1>7. p3 \in Seq(Nat) /\ Len(p3) = 42 /\ p3[42] = Len(script) /\ \A i \in 1..41 : p3[i] = Preamble[i]
  <2> HIDE DEF p3
  <2>1. p3 \in Seq(Nat) /\ Len(p3) = Len(Preamble) + Len(l) /\ p3[Len(Preamble) + 1] = l[1]
    BY <1>1, <1>6 DEF Joins
  <2>2. \A i \in 1..Len(Preamble) : p3[i] = Preamble[i]
    BY <1>6, Zenon DEF Joins
  <2>3. 41 + 1 = 42
    OBVIOUS
  <2> QED
    BY <1>1, <1>5, <2>1, <2>2, <2>3, Zenon
<1> HIDE DEF p3
<1>8. Joins(p4, Nat, p3, script)
  BY <1>7, Cat, Zenon
<1>9. /\ p4 \in Seq(Nat) /\ Len(p4) = 42 + Len(script)
      /\ \A i \in 1..42 : p4[i] = p3[i]
      /\ \A i \in 1..Len(script) : p4[42 + i] = script[i]
  <2> HIDE DEF p4
  <2>1. /\ p4 \in Seq(Nat) /\ Len(p4) = Len(p3) + Len(script)
        /\ \A i \in 1..Len(p3) : p4[i] = p3[i]
        /\ \A i \in 1..Len(script) : p4[Len(p3) + i] = script[i]
    BY <1>8, Zenon DEF Joins
  <2>2. Len(p3) = 42
    BY <1>7, Zenon
  <2> QED
    BY <2>1, <2>2, Zenon
<1> HIDE DEF p4
<1>10. Opens(p5, p4) /\ Len(p5) = Len(p4) + 4
  BY <1>3, <1>9, OpensWith, Zenon
<1> HIDE DEF p5
<1>11. Opens(p6, p4) /\ Len(p6) = Len(p5) + 1
  BY <1>2, <1>10, StillOpens, Zenon
<1> HIDE DEF p6
<1>12. Opens(p7, p4) /\ Len(p7) = Len(p6) + Len(outputs)
  BY <1>11, StillOpens, Zenon
<1> HIDE DEF p7
<1>13. Opens(p8, p4) /\ Len(p8) = Len(p7) + 4
  BY <1>2, <1>12, StillOpens, Zenon
<1> HIDE DEF p8
<1>14. p8 \in Seq(Nat) /\ \A i \in 1..Len(p4) : p8[i] = p4[i]
  BY <1>13, Zenon DEF Opens
<1>15. Len(p8) = 51 + Len(script) + Len(outputs)
  <2>1. \A m, n \in Nat : ((((42 + m) + 4) + 1) + n) + 4 = 51 + m + n
    OBVIOUS
  <2>2. Len(p8) = ((((42 + Len(script)) + 4) + 1) + Len(outputs)) + 4
    BY ONLY <1>9, <1>10, <1>11, <1>12, <1>13, SMT
  <2> QED
    BY ONLY <1>0, <2>1, <2>2, Zenon
<1>16. \A i \in 1..42 : p8[i] = p3[i]
  <2>1. \A n \in Nat : \A i \in 1..42 : i \in 1..(42 + n)
    OBVIOUS
  <2>2. \A i \in 1..42 : i \in 1..Len(p4)
    BY <1>0, <1>9, <2>1, Zenon
  <2> QED
    BY <1>9, <1>14, <2>2, Zenon
<1>17. \A i \in 1..Len(script) : p8[42 + i] = script[i]
  <2>1. \A n \in Nat : \A i \in 1..n : 42 + i \in 1..(42 + n)
    OBVIOUS
  <2>2. \A i \in 1..Len(script) : 42 + i \in 1..Len(p4)
    BY <1>0, <1>9, <2>1, Zenon
  <2> QED
    BY <1>9, <1>14, <2>2, Zenon
<1>18. p8[42] = Len(script)
  <2>1. 42 \in 1..42
    OBVIOUS
  <2> QED
    BY <1>7, <1>16, <2>1, Zenon
<1>19. ASSUME NEW i \in 1..41 PROVE Filler(p8, i)
  <2>1. i \in 1..42 /\ (i <= 40 => i + 1 \in 1..41 /\ i + 1 \in 1..42)
    OBVIOUS
  <2>2. p8[i] = Preamble[i] /\ (i <= 40 => p8[i + 1] = Preamble[i + 1])
    BY <1>7, <1>16, <2>1, Zenon
  <2>3. Filler(Preamble, i)
    BY <1>5, Zenon
  <2> QED
    BY <2>2, <2>3, Zenon DEF Filler
<1> QED
  BY <1>4, <1>14, <1>15, <1>17, <1>18, <1>19, Zenon DEF IsCoinbase

(* The scriptSig is nowhere before its place. *)
LEMMA NotBefore ==
    ASSUME NEW bytes, NEW script, NEW len, IsCoinbase(bytes, script, len), Findable(script),
           NEW p \in 0..41, bytes[p + 1] = script[1], bytes[p + 2] = script[2]
    PROVE  FALSE
<1>1. /\ \A i \in 1..41 : Filler(bytes, i)
      /\ bytes[42] = Len(script)
      /\ \A i \in 1..Len(script) : bytes[42 + i] = script[i]
  BY Zenon DEF IsCoinbase
<1>2. /\ Len(script) \in Nat /\ Len(script) >= 2 /\ script[1] # 0 /\ script[1] # FF
      /\ script[1] = 1 => script[2] # 0
      /\ script[1] = Len(script) => script[2] # script[1]
  BY DEF Findable, Telling, FF
<1>3. CASE p \in 0..40
  <2>1. p + 1 \in 1..41 /\ (p + 1) + 1 = p + 2
    BY <1>3
  <2>2. Filler(bytes, p + 1)
    BY <1>1, <2>1, Zenon
  <2>3. bytes[p + 1] = 0 \/ bytes[p + 1] = FF \/ (bytes[p + 1] = 1 /\ bytes[p + 2] = 0)
    BY <2>1, <2>2, Zenon DEF Filler
  <2> QED
    BY <1>2, <2>3, Zenon
<1>4. CASE p = 41
  <2>1. 1 \in 1..Len(script) /\ 41 + 1 = 42 /\ 41 + 2 = 42 + 1
    BY <1>2
  <2>2. bytes[42 + 1] = script[1]
    BY <1>1, <2>1, Zenon
  <2>3. script[1] = Len(script) /\ script[2] = script[1]
    BY <1>1, <1>4, <2>1, <2>2, Zenon
  <2> QED
    BY <1>2, <2>3, Zenon
<1> QED
  BY <1>3, <1>4

(* find_bytes finds the scriptSig where serialize put it. *)
LEMMA FoundInPlace ==
    ASSUME NEW bytes, NEW script, NEW len \in Nat, IsCoinbase(bytes, script, len), Findable(script)
    PROVE  find_bytes(bytes, script) = 42
<1> DEFINE at == {p \in 0..(Len(bytes) - Len(script)) :
                    \A k \in DOMAIN script : bytes[p + k] = script[k]}
<1>1. script \in Seq(Nat) /\ Len(script) \in Nat /\ Len(script) >= 2
  BY Zenon DEF Findable, Telling
<1>2. DOMAIN script = 1..Len(script) /\ 1 \in DOMAIN script /\ 2 \in DOMAIN script
  BY <1>1
<1>3. Len(bytes) = 51 + Len(script) + len /\ \A i \in 1..Len(script) : bytes[42 + i] = script[i]
  BY Zenon DEF IsCoinbase
<1>4. Len(bytes) - Len(script) \in Nat /\ 42 \in 0..(Len(bytes) - Len(script))
  <2>1. \A m, n \in Nat : (51 + m + n) - m \in Nat /\ 42 \in 0..((51 + m + n) - m)
    OBVIOUS
  <2> QED
    BY <1>1, <1>3, <2>1, Zenon
<1>5. 42 \in at
  BY <1>2, <1>3, <1>4, Zenon
<1>6. ASSUME NEW q \in at PROVE q \in Nat /\ 42 <= q
  <2>1. q \in 0..(Len(bytes) - Len(script)) /\ bytes[q + 1] = script[1] /\ bytes[q + 2] = script[2]
    BY <1>2, Zenon
  <2>2. q \in Nat
    BY <1>4, <2>1
  <2>3. q \notin 0..41
    BY <2>1, NotBefore, Zenon
  <2>4. \A n \in Nat : n \notin 0..41 => 42 <= n
    OBVIOUS
  <2> QED
    BY <2>2, <2>3, <2>4, Zenon
<1> HIDE DEF at
<1>7. \A p \in at : (\A q \in at : p <= q) => p = 42
  <2>1. \A n \in Nat : 42 <= n /\ n <= 42 => n = 42
    OBVIOUS
  <2> QED
    BY <1>5, <1>6, <2>1, Zenon
<1>8. (CHOOSE p \in at : \A q \in at : p <= q) = 42
  BY <1>5, <1>6, <1>7, Zenon
<1>9. at # {}
  BY <1>5, Zenon
<1> QED
  BY <1>8, <1>9, Zenon DEF find_bytes, at

(* The lengths of the outputs. *)
LEMMA OutputIs ==
    ASSUME NEW script \in Seq(Nat)
    PROVE  /\ TxOut(script) \in Seq(Nat)
           /\ Len(script) < 253 => Len(TxOut(script)) = 9 + Len(script)
<1> DEFINE v == Repeat(80, 8)
           l == encode_varint(Len(script))
<1>1. v \in Seq(Nat) /\ Len(v) = 8
  <2>1. 80 \in Nat /\ 8 \in Nat
    OBVIOUS
  <2> QED
    BY <2>1, RepeatIs, Zenon
<1>2. Len(script) \in Nat
  OBVIOUS
<1>3. l \in Seq(Nat) /\ (Len(script) < 253 => Len(l) = 1)
  BY <1>2, VarintIs, Zenon
<1>4. TxOut(script) = v \o l \o script
  BY Zenon DEF TxOut
<1> HIDE DEF v, l
<1>5. v \o l \in Seq(Nat) /\ Len(v \o l) = 8 + Len(l)
  <2>1. Joins(v \o l, Nat, v, l)
    BY <1>1, <1>3, Cat, Zenon
  <2> QED
    BY <1>1, <2>1, Zenon DEF Joins
<1>6. TxOut(script) \in Seq(Nat) /\ Len(TxOut(script)) = 8 + Len(l) + Len(script)
  <2>1. Joins(TxOut(script), Nat, v \o l, script)
    BY <1>4, <1>5, Cat, Zenon
  <2> QED
    BY <1>5, <2>1, Zenon DEF Joins
<1>7. 8 + 1 = 9
  OBVIOUS
<1> QED
  BY <1>3, <1>6, <1>7, Zenon

(* The length of the witness commitment's script. *)
LEMMA CommitmentIs == CommitmentScript \in Seq(Nat) /\ Len(CommitmentScript) = 38
<1> DEFINE byte == 170
           r == Repeat(byte, 36)
           s == <<106, 36>>
<1>1. r \in Seq(Nat) /\ Len(r) = 36
  <2>1. byte \in Nat /\ 36 \in Nat
    OBVIOUS
  <2> HIDE DEF byte
  <2> QED
    BY <2>1, RepeatIs, Zenon
<1>2. s \in Seq(Nat) /\ Len(s) = 2
  OBVIOUS
<1>3. CommitmentScript = s \o r
  BY Zenon DEF CommitmentScript
<1> HIDE DEF r, s
<1>4. Joins(CommitmentScript, Nat, s, r)
  BY <1>1, <1>2, <1>3, Cat, Zenon
<1>5. 2 + 36 = 38
  OBVIOUS
<1> QED
  BY <1>1, <1>2, <1>4, <1>5, Zenon DEF Joins

(* What build_coinbase makes of a validated configuration. *)
Fits(len) == ~(4 * len + 36 > COINBASE_WEIGHT_RESERVE)

IsBuilt(coinbase, head, script) ==
    /\ \E len \in Nat : IsCoinbase(coinbase.bytes, script, len)
    /\ coinbase.offset = 42 + Len(head) /\ Fits(Len(coinbase.bytes))

(* The outputs of a standard payout have at most 90 bytes. *)
LEMMA OutputsAre ==
    ASSUME NEW payout \in Nat, NEW commitment \in BOOLEAN
    PROVE  LET out == TxOut(PayoutScript(payout))
               outputs == IF commitment THEN out \o TxOut(CommitmentScript) ELSE out
           IN  /\ outputs \in Seq(Nat) /\ Len(outputs) \in Nat
               /\ payout <= 34 => Len(outputs) <= 90
<1> DEFINE p == PayoutScript(payout)
           out == TxOut(p)
           com == TxOut(CommitmentScript)
           outputs == IF commitment THEN out \o com ELSE out
<1>1. p \in Seq(Nat) /\ Len(p) = payout
  <2>1. 118 \in Nat
    OBVIOUS
  <2> QED
    BY <2>1, RepeatIs, Zenon DEF PayoutScript
<1> HIDE DEF p
<1>2. out \in Seq(Nat) /\ (payout < 253 => Len(out) = 9 + payout)
  BY <1>1, OutputIs, Zenon
<1>3. com \in Seq(Nat) /\ Len(com) = 47
  <2>1. CommitmentScript \in Seq(Nat) /\ Len(CommitmentScript) = 38
    BY CommitmentIs, Zenon
  <2>2. 38 < 253 /\ 9 + 38 = 47
    OBVIOUS
  <2>3. com \in Seq(Nat) /\ (Len(CommitmentScript) < 253 => Len(com) = 9 + Len(CommitmentScript))
    BY <2>1, OutputIs, Zenon
  <2> HIDE DEF com
  <2> QED
    BY <2>1, <2>2, <2>3
<1> HIDE DEF out, com
<1>4. Len(out) \in Nat /\ (payout <= 34 => Len(out) <= 43)
  BY <1>2
<1>5. out \o com \in Seq(Nat) /\ Len(out \o com) = Len(out) + 47
  <2>1. Joins(out \o com, Nat, out, com)
    BY <1>2, <1>3, Cat, Zenon
  <2>2. out \o com \in Seq(Nat) /\ Len(out \o com) = Len(out) + Len(com)
    BY <2>1, Zenon DEF Joins
  <2> QED
    BY <1>3, <2>2
<1>6. CASE commitment
  <2>1. \A n \in Nat : n + 47 \in Nat /\ (n <= 43 => n + 47 <= 90)
    OBVIOUS
  <2>2. Len(out \o com) \in Nat /\ (payout <= 34 => Len(out \o com) <= 90)
    BY <1>4, <1>5, <2>1, SMT
  <2> QED
    BY <1>5, <1>6, <2>2, Zenon DEF out, com, p
<1>7. CASE ~commitment
  <2>1. payout <= 34 => Len(out) <= 90
    BY <1>4
  <2> QED
    BY <1>2, <1>4, <1>7, <2>1, Zenon DEF out, com, p
<1> QED
  BY <1>6, <1>7, Zenon

Builds(coinbase, payout, head, script) ==
    /\ Len(script) \in 2..100
    /\ payout <= 34 => coinbase.ok
    /\ coinbase.ok => IsBuilt(coinbase, head, script)

(* build_coinbase succeeds for a standard payout, and what it then builds. *)
LEMMA CoinbaseIs ==
    ASSUME NEW h \in Nat \ {0}, IsInt(h), NEW payout \in Nat, NEW tag \in Nat,
           NEW en1 \in Nat, NEW en2 \in Nat, NEW commitment \in BOOLEAN, validate(tag, en1, en2)
    PROVE  LET push == encode_bip34_height(h)
               head == push \o Tag(tag)
               script == push \o Tag(tag) \o Repeat(0, en1 + en2)
               coinbase == build_coinbase(h, payout, tag, en1, en2, commitment)
           IN  Builds(coinbase, payout, head, script)
<1> DEFINE push == encode_bip34_height(h)
           head == push \o Tag(tag)
           n == en1 + en2
           script == push \o Tag(tag) \o Repeat(0, n)
           out == TxOut(PayoutScript(payout))
           both == out \o TxOut(CommitmentScript)
           outputs == IF commitment THEN both ELSE out
           count == IF commitment THEN 2 ELSE 1
           bytes == serialize(script, count, outputs)
           coinbase == build_coinbase(h, payout, tag, en1, en2, commitment)
           good == [ok |-> TRUE, bytes |-> bytes, offset |-> 42 + Len(push) + tag]
<1>1. n \in Nat /\ n \in Nat \ {0} /\ en1 + en2 # 0 /\ 5 + tag + n <= 100
  <2>1. en1 + en2 # 0 /\ 5 + tag + en1 + en2 \in 2..100
    BY Zenon DEF validate, check_coinbase_script_sig_len
  <2> QED
    BY <2>1
<1>2. Pushes(push, h)
  BY HeightPush, Zenon
<1>3. push \in Seq(Nat) /\ Len(push) \in 1..5
  BY <1>2, PushLength, Zenon
<1>4. bytes = IF commitment THEN serialize(script, 2, both) ELSE serialize(script, 1, out)
  BY Zenon
<1>5. coinbase = IF \/ n = 0 \/ ~check_coinbase_script_sig_len(Len(script))
                    \/ find_bytes(bytes, script) # 42 \/ ~Fits(Len(bytes))
                 THEN Failed ELSE good
  BY <1>4, Zenon DEF build_coinbase, Fits
<1>6. outputs \in Seq(Nat) /\ Len(outputs) \in Nat /\ (payout <= 34 => Len(outputs) <= 90)
  BY OutputsAre, Zenon
<1> HIDE DEF push, n, outputs, coinbase
<1>7. IsScript(script, head, push, tag, n)
  BY <1>1, <1>3, ScriptIs, Zenon
<1>8. script \in Seq(Nat) /\ Len(script) = Len(push) + tag + n /\ Len(head) = Len(push) + tag
  BY <1>7, Zenon DEF IsScript
<1>9. Findable(script)
  BY <1>1, <1>2, ScriptIsFindable, Zenon
<1> HIDE DEF script, head
<1>10. Len(script) \in 2..100 /\ Len(script) < 253 /\ Len(script) \in Nat
  <2> DEFINE Short(l) == l \in 2..100 /\ l < 253 /\ l \in Nat
             Room(l) == 5 + l <= 100
  <2>1. \A l \in 1..5, t \in Nat, m \in Nat \ {0} : Room(t + m) => Short(l + t + m)
    OBVIOUS
  <2>2. Room(tag + n)
    BY <1>1
  <2> HIDE DEF Short, Room
  <2>3. Short(Len(script))
    BY <1>1, <1>3, <1>8, <2>1, <2>2, Zenon
  <2> QED
    BY <2>3, Zenon DEF Short
<1>11. IsCoinbase(bytes, script, Len(outputs))
  <2>1. count \in Nat
    OBVIOUS
  <2> HIDE DEF count
  <2> QED
    BY <1>6, <1>8, <1>10, <2>1, SerializedIs, Zenon
<1> HIDE DEF bytes
<1>12. find_bytes(bytes, script) = 42
  BY <1>6, <1>9, <1>11, FoundInPlace, Zenon
<1>13. check_coinbase_script_sig_len(Len(script))
  BY <1>10, Zenon DEF check_coinbase_script_sig_len
<1>14. coinbase = IF ~Fits(Len(bytes)) THEN Failed ELSE good
  BY <1>1, <1>5, <1>12, <1>13, Zenon DEF n
<1>15. ASSUME payout <= 34 PROVE Fits(Len(bytes))
  <2>1. Len(bytes) = 51 + Len(script) + Len(outputs)
    BY <1>11, Zenon DEF IsCoinbase
  <2>2. \A a \in 2..100, b \in Nat : b <= 90 => Fits(51 + a + b)
    BY DEF Fits, COINBASE_WEIGHT_RESERVE
  <2> QED
    BY <1>6, <1>10, <1>15, <2>1, <2>2, Zenon
<1>16. Failed.ok = FALSE /\ good.ok = TRUE /\ good.bytes = bytes /\ good.offset = 42 + Len(push) + tag
  BY DEF Failed
<1>17. ASSUME payout <= 34 PROVE coinbase.ok
  BY <1>14, <1>15, <1>16, <1>17, Zenon
<1>18. ASSUME coinbase.ok PROVE IsBuilt(coinbase, head, script)
  <2>1. coinbase = good /\ Fits(Len(bytes))
    BY <1>14, <1>16, <1>18, Zenon
  <2>2. 42 + Len(push) + tag = 42 + Len(head)
    BY <1>3, <1>8
  <2>3. coinbase.bytes = bytes /\ coinbase.offset = 42 + Len(head)
    BY <1>16, <2>1, <2>2, Zenon
  <2> QED
    BY <1>6, <1>11, <2>1, <2>3, Zenon DEF IsBuilt
<1> QED
  BY <1>10, <1>17, <1>18, Zenon DEF Builds, script, head, push, n, coinbase

-----------------------------------------------------------------------------
(* The job *)

Internal(t) == [i \in DOMAIN t.txids |-> Reverse(t.txids[i])]

(* What build_job_template takes over from the node. *)
LEMMA TemplateIs ==
    ASSUME NEW t, build_job_template(t).ok
    PROVE  LET template == build_job_template(t)
           IN  /\ template.prev_hash = stratum_prev_hash(t.prev_hash)
               /\ template.merkle_branch = compute_merkle_branch_raw(Internal(t))
               /\ template.version = t.version /\ template.cur_time = t.cur_time
               /\ template.height = t.height /\ template.transactions = t.txids
               /\ template.commitment = t.commitment /\ check_block_weight(t)
<1> DEFINE template == build_job_template(t)
           good == [ok |-> TRUE, prev_hash |-> stratum_prev_hash(t.prev_hash),
                    merkle_branch |-> compute_merkle_branch_raw(Internal(t)),
                    version |-> t.version, cur_time |-> t.cur_time,
                    height |-> t.height, transactions |-> t.txids,
                    commitment |-> t.commitment]
<1>1. template = IF (announces_segwit(t) /\ ~t.commitment) \/ ~check_block_weight(t) THEN Failed ELSE good
  BY Zenon DEF build_job_template, Internal
<1>2. Failed.ok = FALSE
  BY DEF Failed
<1> HIDE DEF good
<1>3. template = good /\ check_block_weight(t)
  BY <1>1, <1>2, Zenon
<1> HIDE DEF template
<1>4. /\ good.prev_hash = stratum_prev_hash(t.prev_hash)
      /\ good.merkle_branch = compute_merkle_branch_raw(Internal(t))
      /\ good.version = t.version /\ good.cur_time = t.cur_time
      /\ good.height = t.height /\ good.transactions = t.txids /\ good.commitment = t.commitment
  BY Zenon DEF good
<1> QED
  BY <1>3, <1>4, Zenon DEF template

Carries(job, template, coinbase, en1, en2) ==
    /\ coinbase.ok => job.ok
    /\ job.ok =>
        /\ coinbase.ok /\ job.template = template
        /\ job.coinbase1 = SubSeq(coinbase.bytes, 1, coinbase.offset)
        /\ job.coinbase2 = SubSeq(coinbase.bytes, coinbase.offset + en1 + en2 + 1, Len(coinbase.bytes))
        /\ job.coinbase_template = coinbase.bytes /\ job.offset = coinbase.offset
        /\ job.extranonce1_len = en1 /\ job.extranonce2_len = en2

(* What build_job_for_payout takes over from the coinbase. *)
LEMMA JobIs ==
    ASSUME NEW template, NEW payout, NEW tag, NEW en1, NEW en2
    PROVE  LET coinbase == build_coinbase(template.height, payout, tag, en1, en2, template.commitment)
               job == build_job_for_payout(template, payout, tag, en1, en2)
           IN  Carries(job, template, coinbase, en1, en2)
<1> DEFINE coinbase == build_coinbase(template.height, payout, tag, en1, en2, template.commitment)
           job == build_job_for_payout(template, payout, tag, en1, en2)
           c1 == SubSeq(coinbase.bytes, 1, coinbase.offset)
           c2 == SubSeq(coinbase.bytes, coinbase.offset + en1 + en2 + 1, Len(coinbase.bytes))
           good == [ok |-> TRUE, template |-> template, coinbase1 |-> c1, coinbase2 |-> c2,
                    coinbase_template |-> coinbase.bytes, offset |-> coinbase.offset,
                    extranonce1_len |-> en1, extranonce2_len |-> en2]
<1>1. job = IF ~coinbase.ok THEN Failed ELSE good
  BY Zenon DEF build_job_for_payout
<1> HIDE DEF coinbase
<1>2. Failed.ok = FALSE
  BY DEF Failed
<1>3. /\ good.ok = TRUE /\ good.template = template /\ good.coinbase1 = c1 /\ good.coinbase2 = c2
      /\ good.coinbase_template = coinbase.bytes /\ good.offset = coinbase.offset
      /\ good.extranonce1_len = en1 /\ good.extranonce2_len = en2
  <2> HIDE DEF c1, c2
  <2> QED
    BY Zenon
<1> HIDE DEF good, c1, c2, job
<1>4. ASSUME coinbase.ok PROVE job.ok
  BY <1>1, <1>3, <1>4, Zenon
<1>5. ASSUME job.ok PROVE coinbase.ok /\ job = good
  BY <1>1, <1>2, <1>5, Zenon
<1>6. Carries(job, template, coinbase, en1, en2)
  BY <1>3, <1>4, <1>5, Zenon DEF Carries, c1, c2
<1> QED
  BY <1>6, Zenon DEF job, coinbase

(* The first part of the coinbase on the wire ends where the extranonces go, *)
(* right after the push and the tag.                                         *)
IsFirst(first, script, head) ==
    /\ first \in Seq(Nat) /\ Len(first) = 42 + Len(head)
    /\ first[42] = Len(script)
    /\ SubSeq(first, 43, 42 + Len(head)) = head

(* The first half of the coinbase ends where the extranonces begin. *)
LEMMA FirstPartIs ==
    ASSUME NEW bytes, NEW script, NEW head \in Seq(Nat), NEW len \in Nat,
           IsCoinbase(bytes, script, len), Opens(script, head)
    PROVE  IsFirst(SubSeq(bytes, 1, 42 + Len(head)), script, head)
<1> DEFINE first == SubSeq(bytes, 1, 42 + Len(head))
           part == SubSeq(first, 43, 42 + Len(head))
<1>1. /\ Len(script) \in Nat /\ Len(head) \in Nat /\ Len(head) <= Len(script)
      /\ \A i \in 1..Len(head) : script[i] = head[i]
  BY Zenon DEF Opens
<1>2. bytes \in Seq(Nat) /\ Len(bytes) = 51 + Len(script) + len /\ bytes[42] = Len(script)
  BY Zenon DEF IsCoinbase
<1>3. \A i \in 1..Len(script) : bytes[42 + i] = script[i]
  BY Zenon DEF IsCoinbase
<1>4. /\ 1 \in Nat /\ 42 + Len(head) \in Nat /\ 1 <= 1 /\ 42 + Len(head) <= Len(bytes) /\ 1 <= 42 + Len(head) + 1
      /\ (42 + Len(head)) - 1 + 1 = 42 + Len(head)
  <2> DEFINE W(h, b) == /\ 1 \in Nat /\ 42 + h \in Nat /\ 1 <= 1 /\ 42 + h <= b /\ 1 <= 42 + h + 1
                        /\ (42 + h) - 1 + 1 = 42 + h
  <2>1. \A h, s, l \in Nat : h <= s => W(h, 51 + s + l)
    OBVIOUS
  <2> HIDE DEF W
  <2>2. W(Len(head), Len(bytes))
    BY <1>1, <1>2, <2>1, Zenon
  <2> QED
    BY <2>2, Zenon DEF W
<1>5. /\ first \in Seq(Nat) /\ Len(first) = 42 + Len(head)
      /\ \A i \in 1..(42 + Len(head)) : first[i] = bytes[i]
  <2>1. /\ first \in Seq(Nat) /\ Len(first) = (42 + Len(head)) - 1 + 1
        /\ \A i \in 1..((42 + Len(head)) - 1 + 1) : first[i] = bytes[1 - 1 + i]
    <3>1. IsPart(first, Nat, bytes, 1, 42 + Len(head))
      BY <1>2, <1>4, Part, Zenon
    <3> HIDE DEF first
    <3> QED
      BY <3>1, Zenon DEF IsPart
  <2>2. \A i \in 1..(42 + Len(head)) : 1 - 1 + i = i
    BY <1>4
  <2> QED
    BY <1>4, <2>1, <2>2, Zenon
<1> HIDE DEF first
<1>6. 42 \in 1..(42 + Len(head)) /\ \A i \in 1..Len(head) : 42 + i \in 1..(42 + Len(head)) /\ i \in 1..Len(script)
  <2>1. \A h, s \in Nat : h <= s =>
            42 \in 1..(42 + h) /\ \A i \in 1..h : 42 + i \in 1..(42 + h) /\ i \in 1..s
    OBVIOUS
  <2> QED
    BY <1>1, <2>1, Zenon
<1>7. first[42] = Len(script)
  BY <1>2, <1>5, <1>6, Zenon
<1>8. /\ part \in Seq(Nat) /\ Len(part) = Len(head)
      /\ \A i \in 1..Len(head) : part[i] = first[42 + i]
  <2>1. /\ 43 \in Nat /\ 42 + Len(head) \in Nat /\ 1 <= 43 /\ 42 + Len(head) <= Len(first)
        /\ 43 <= 42 + Len(head) + 1 /\ (42 + Len(head)) - 43 + 1 = Len(head) /\ 43 - 1 = 42
    BY <1>1, <1>5
  <2>2. /\ part \in Seq(Nat) /\ Len(part) = (42 + Len(head)) - 43 + 1
        /\ \A i \in 1..((42 + Len(head)) - 43 + 1) : part[i] = first[43 - 1 + i]
    <3>1. IsPart(part, Nat, first, 43, 42 + Len(head))
      BY <1>5, <2>1, Part, Zenon
    <3> HIDE DEF part
    <3> QED
      BY <3>1, Zenon DEF IsPart
  <2> QED
    BY <2>1, <2>2, Zenon
<1> HIDE DEF part
<1>9. \A i \in 1..Len(head) : part[i] = head[i]
  BY <1>1, <1>3, <1>5, <1>6, <1>8, Zenon
<1>10. part = head
  BY <1>8, <1>9, Same, Zenon
<1>11. IsFirst(first, script, head)
  BY <1>5, <1>7, <1>10, Zenon DEF IsFirst, part
<1> QED
  BY <1>11, Zenon DEF first

(* The coinbase with the extranonces in their place: nothing else moves. *)
IsAssembled(new, bytes, script, head) ==
    /\ new \in Seq(Nat) /\ Len(new) = Len(bytes) /\ new[42] = Len(script)
    /\ \A i \in 1..Len(head) : new[42 + i] = head[i]

(* Overwriting the placeholder changes nothing else. *)
LEMMA AssembledIs ==
    ASSUME NEW bytes, NEW script, NEW head \in Seq(Nat), NEW len \in Nat,
           IsCoinbase(bytes, script, len), Opens(script, head),
           NEW a \in Seq(Nat), NEW b \in Seq(Nat), Len(script) = Len(head) + (Len(a) + Len(b))
    PROVE  IsAssembled(SubSeq(bytes, 1, 42 + Len(head)) \o a \o b
                           \o SubSeq(bytes, (42 + Len(head)) + (Len(a) + Len(b)) + 1, Len(bytes)),
                       bytes, script, head)
<1> DEFINE first == SubSeq(bytes, 1, 42 + Len(head))
           from == (42 + Len(head)) + (Len(a) + Len(b)) + 1
           rest == SubSeq(bytes, from, Len(bytes))
           u == first \o a
           v == u \o b
           new == v \o rest
<1>1. Len(script) \in Nat /\ Len(head) \in Nat /\ Len(a) \in Nat /\ Len(b) \in Nat
  <2>1. Len(a) \in Nat /\ Len(b) \in Nat
    OBVIOUS
  <2> QED
    BY <2>1, Zenon DEF Opens
<1>2. bytes \in Seq(Nat) /\ Len(bytes) = 51 + Len(script) + len
  BY Zenon DEF IsCoinbase
<1>3. /\ first \in Seq(Nat) /\ Len(first) = 42 + Len(head) /\ first[42] = Len(script)
      /\ SubSeq(first, 43, 42 + Len(head)) = head
  <2>1. IsFirst(first, script, head)
    BY FirstPartIs, Zenon
  <2> HIDE DEF first
  <2> QED
    BY <2>1, Zenon DEF IsFirst
<1>4. rest \in Seq(Nat) /\ Len(rest) = 9 + len
  <2> DEFINE W(f, l) == /\ f \in Nat /\ l \in Nat /\ 1 <= f /\ l <= l /\ f <= l + 1 /\ l - f + 1 = 9 + len
  <2>1. \A h, m, n \in Nat : W((42 + h) + (m + n) + 1, 51 + (h + (m + n)) + len)
    OBVIOUS
  <2> HIDE DEF W
  <2>2. W(from, Len(bytes))
    <3>1. W(from, 51 + (Len(head) + (Len(a) + Len(b))) + len)
      BY <1>1, <2>1, Zenon
    <3> QED
      BY <1>2, <3>1, Zenon
  <2>3. from \in Nat /\ Len(bytes) \in Nat /\ 1 <= from /\ Len(bytes) <= Len(bytes) /\ from <= Len(bytes) + 1 /\ Len(bytes) - from + 1 = 9 + len
    BY <2>2, Zenon DEF W
  <2> HIDE DEF from
  <2>4. rest \in Seq(Nat) /\ Len(rest) = Len(bytes) - from + 1
    <3>1. IsPart(rest, Nat, bytes, from, Len(bytes))
      BY <1>2, <2>3, Part, Zenon
    <3> HIDE DEF rest
    <3> QED
      BY <3>1, Zenon DEF IsPart
  <2> QED
    BY <2>3, <2>4, Zenon
<1> HIDE DEF first, from, rest
<1>5. Opens(u, first) /\ Len(u) = Len(first) + Len(a)
  BY <1>3, OpensWith, Zenon
<1> HIDE DEF u
<1>6. Opens(v, first) /\ Len(v) = Len(u) + Len(b)
  BY <1>5, StillOpens, Zenon
<1> HIDE DEF v
<1>7. Opens(new, first) /\ Len(new) = Len(v) + Len(rest)
  BY <1>4, <1>6, StillOpens, Zenon
<1> HIDE DEF new
<1>8. new \in Seq(Nat) /\ \A i \in 1..(42 + Len(head)) : new[i] = first[i]
  BY <1>3, <1>7, Zenon DEF Opens
<1>9. Len(new) = Len(bytes)
  <2> DEFINE A(h, m, n, l) == (((42 + h) + m) + n) + (9 + l)
             B(h, m, n, l) == 51 + (h + (m + n)) + l
  <2>1. \A h, m, n, l \in Nat : A(h, m, n, l) = B(h, m, n, l)
    OBVIOUS
  <2>2. Len(new) = (((42 + Len(head)) + Len(a)) + Len(b)) + (9 + len)
    BY ONLY <1>3, <1>4, <1>5, <1>6, <1>7, SMT
  <2>3. Len(bytes) = 51 + (Len(head) + (Len(a) + Len(b))) + len
    BY <1>2, Zenon
  <2>4. Len(new) = A(Len(head), Len(a), Len(b), len) /\ Len(bytes) = B(Len(head), Len(a), Len(b), len)
    BY <2>2, <2>3, Zenon
  <2> HIDE DEF A, B
  <2>5. A(Len(head), Len(a), Len(b), len) = B(Len(head), Len(a), Len(b), len)
    BY <1>1, <2>1, SMT
  <2> QED
    BY <2>4, <2>5, Zenon
<1>10. new[42] = Len(script)
  <2>1. 42 \in 1..(42 + Len(head))
    BY <1>1
  <2> QED
    BY <1>3, <1>8, <2>1, Zenon
<1>11. ASSUME NEW i \in 1..Len(head) PROVE new[42 + i] = head[i]
  <2>1. 42 + i \in 1..(42 + Len(head))
    BY <1>1
  <2>2. first[42 + i] = head[i]
    <3> DEFINE part == SubSeq(first, 43, 42 + Len(head))
    <3>1. /\ 43 \in Nat /\ 42 + Len(head) \in Nat /\ 1 <= 43 /\ 42 + Len(head) <= Len(first)
          /\ 43 <= 42 + Len(head) + 1 /\ (42 + Len(head)) - 43 + 1 = Len(head) /\ 43 - 1 = 42
      BY <1>1, <1>3
    <3>2. \A k \in 1..((42 + Len(head)) - 43 + 1) : part[k] = first[43 - 1 + k]
      <4>1. IsPart(part, Nat, first, 43, 42 + Len(head))
        BY <1>3, <3>1, Part, Zenon
      <4> HIDE DEF part
      <4> QED
        BY <4>1, Zenon DEF IsPart
    <3>3. part[i] = first[42 + i]
      BY <3>1, <3>2, Zenon
    <3> QED
      BY <1>3, <3>3, Zenon
  <2> QED
    BY <1>8, <2>1, <2>2, Zenon
<1>12. IsAssembled(new, bytes, script, head)
  BY <1>8, <1>9, <1>10, <1>11, Zenon DEF IsAssembled
<1> QED
  BY <1>12, Zenon DEF new, v, u, rest, from, first

(* A node reads the height back from it. *)
LEMMA HeightIsRead ==
    ASSUME NEW h \in Nat \ {0}, NEW push, Pushes(push, h), NEW head, Opens(head, push),
           NEW bytes, NEW script, NEW len \in Nat, IsCoinbase(bytes, script, len), Opens(script, head),
           NEW new, IsAssembled(new, bytes, script, head)
    PROVE  BeginsWith(SubSeq(new, 43, 42 + new[42]), h)
<1> DEFINE part == SubSeq(new, 43, 42 + Len(script))
<1>1. /\ new \in Seq(Nat) /\ Len(new) = Len(bytes) /\ new[42] = Len(script)
      /\ \A i \in 1..Len(head) : new[42 + i] = head[i]
  BY Zenon DEF IsAssembled
<1>2. /\ Len(script) \in Nat /\ Len(head) \in Nat /\ Len(head) <= Len(script)
      /\ Len(push) \in Nat /\ Len(push) <= Len(head) /\ \A i \in 1..Len(push) : head[i] = push[i]
  BY Zenon DEF Opens
<1>3. Len(bytes) = 51 + Len(script) + len
  BY Zenon DEF IsCoinbase
<1>4. /\ 43 \in Nat /\ 42 + Len(script) \in Nat /\ 1 <= 43 /\ 42 + Len(script) <= Len(new)
      /\ 43 <= 42 + Len(script) + 1 /\ (42 + Len(script)) - 43 + 1 = Len(script) /\ 43 - 1 = 42
  <2> DEFINE W(s, b) == /\ 43 \in Nat /\ 42 + s \in Nat /\ 1 <= 43 /\ 42 + s <= b
                        /\ 43 <= 42 + s + 1 /\ (42 + s) - 43 + 1 = s /\ 43 - 1 = 42
  <2>1. \A s, l \in Nat : W(s, 51 + s + l)
    OBVIOUS
  <2> HIDE DEF W
  <2>2. W(Len(script), 51 + Len(script) + len)
    BY <1>2, <2>1, Zenon
  <2>3. W(Len(script), Len(new))
    BY <1>1, <1>3, <2>2, Zenon
  <2> QED
    BY <2>3, Zenon DEF W
<1>5. /\ part \in Seq(Nat) /\ Len(part) = Len(script)
      /\ \A i \in 1..Len(script) : part[i] = new[42 + i]
  <2>1. /\ part \in Seq(Nat) /\ Len(part) = (42 + Len(script)) - 43 + 1
        /\ \A i \in 1..((42 + Len(script)) - 43 + 1) : part[i] = new[43 - 1 + i]
    <3>1. IsPart(part, Nat, new, 43, 42 + Len(script))
      BY <1>1, <1>4, Part, Zenon
    <3> HIDE DEF part
    <3> QED
      BY <3>1, Zenon DEF IsPart
  <2> QED
    BY <1>4, <2>1, Zenon
<1> HIDE DEF part
<1>6. Len(part) >= Len(push) /\ \A i \in 1..Len(push) : i \in 1..Len(head) /\ i \in 1..Len(script)
  <2>1. \A p, q, s \in Nat : p <= q /\ q <= s => s >= p /\ \A i \in 1..p : i \in 1..q /\ i \in 1..s
    OBVIOUS
  <2> QED
    BY <1>2, <1>5, <2>1, Zenon
<1>7. \A i \in 1..Len(push) : part[i] = push[i]
  BY <1>1, <1>2, <1>5, <1>6, Zenon
<1>8. BeginsWith(part, h)
  BY <1>5, <1>6, <1>7, ReadsBack, Zenon
<1> QED
  BY <1>1, <1>8, Zenon DEF part

-----------------------------------------------------------------------------
(* The way of a block *)

(* What has been chosen so far is valid, and what was found to be all right  *)
(* still is: each choice is made from what the ones before it left possible. *)
BlockInv ==
    /\ config \in Configs /\ validate(config.tag, config.en1, config.en2)
    /\ stage \notin {"boot", "refused"} =>
        /\ gbt \in Templates /\ build_job_template(gbt).ok
        /\ config.strict => unsupported_gbt_rules(gbt) = {}
    /\ stage \in {"issued", "unbuilt", "accepted", "rejected"} =>
        /\ order.payout \in PayoutLengths /\ order.en1 \in Nat /\ order.en2 \in Nat
        /\ order.en1 + order.en2 = config.en1 + config.en2
    /\ stage \in {"issued", "accepted", "rejected"} => JobOf(order).ok
    /\ stage = "accepted" =>
        /\ share.extranonce2 = Theirs
        /\ share.mask \subseteq VERSION_ROLLING_MASK
        /\ share.ntime \in Int /\ share.now \in Nat
        /\ validate_share(JobOf(order), Ours, share, share.now).ok

HeightScript == encode_bip34_height(gbt.height)
HeadScript == HeightScript \o Tag(config.tag)
WholeScript == HeightScript \o Tag(config.tag) \o Repeat(0, order.en1 + order.en2)

IsJob(job) ==
    /\ \E len \in Nat : IsCoinbase(job.coinbase_template, WholeScript, len)
    /\ job.offset = 42 + Len(HeadScript) /\ Fits(Len(job.coinbase_template))
    /\ job.template = build_job_template(gbt)
    /\ job.coinbase1 = SubSeq(job.coinbase_template, 1, job.offset)
    /\ job.coinbase2 = SubSeq(job.coinbase_template, job.offset + order.en1 + order.en2 + 1,
                              Len(job.coinbase_template))
    /\ job.extranonce1_len = order.en1 /\ job.extranonce2_len = order.en2

(* The scriptSig of the block on its way. *)
LEMMA ScriptsAre ==
    ASSUME BlockInv, stage \in {"issued", "unbuilt", "accepted", "rejected"}
    PROVE  /\ gbt.height \in Nat \ {0} /\ Pushes(HeightScript, gbt.height)
           /\ Opens(HeadScript, HeightScript) /\ Opens(WholeScript, HeadScript)
           /\ Len(WholeScript) = Len(HeadScript) + (order.en1 + order.en2)
<1> DEFINE n == order.en1 + order.en2
<1>1. /\ gbt \in Templates /\ config \in Configs /\ order.en1 \in Nat /\ order.en2 \in Nat
  <2>1. stage \notin {"boot", "refused"}
    OBVIOUS
  <2> QED
    BY <2>1, Zenon DEF BlockInv
<1>2. gbt.height \in Nat \ {0} /\ IsInt(gbt.height) /\ config.tag \in Nat
  BY <1>1, BlockAssumption, Zenon
<1>3. n \in Nat
  BY <1>1
<1> HIDE DEF n
<1>4. Pushes(HeightScript, gbt.height)
  BY <1>2, HeightPush, Zenon DEF HeightScript
<1>5. HeightScript \in Seq(Nat)
  BY <1>2, <1>4, PushLength, Zenon
<1>6. Tag(config.tag) \in Seq(Nat) /\ Repeat(0, n) \in Seq(Nat) /\ Len(Repeat(0, n)) = n
  <2>1. 47 \in Nat /\ 0 \in Nat
    OBVIOUS
  <2> QED
    BY <1>2, <1>3, <2>1, RepeatIs, Zenon DEF Tag
<1>7. Opens(HeadScript, HeightScript)
  BY <1>5, <1>6, OpensWith, Zenon DEF HeadScript
<1>8. HeadScript \in Seq(Nat)
  BY <1>7, Zenon DEF Opens
<1>9. WholeScript = HeadScript \o Repeat(0, n)
  BY Zenon DEF WholeScript, HeadScript, n
<1>10. Opens(WholeScript, HeadScript) /\ Len(WholeScript) = Len(HeadScript) + n
  BY <1>6, <1>8, <1>9, OpensWith, Zenon
<1> QED
  BY <1>2, <1>4, <1>7, <1>10, Zenon DEF n

(* The job of the block on its way. *)
LEMMA JobShape ==
    ASSUME BlockInv, stage \in {"issued", "unbuilt", "accepted", "rejected"}
    PROVE  /\ Len(WholeScript) \in 2..100
           /\ order.payout <= 34 => JobOf(order).ok
           /\ JobOf(order).ok => IsJob(JobOf(order))
<1> DEFINE template == build_job_template(gbt)
           job == JobOf(order)
           coinbase == build_coinbase(template.height, order.payout, config.tag, order.en1, order.en2, template.commitment)
<1>1. /\ gbt \in Templates /\ config \in Configs /\ order.en1 \in Nat /\ order.en2 \in Nat
      /\ order.payout \in PayoutLengths /\ template.ok
      /\ validate(config.tag, config.en1, config.en2)
      /\ order.en1 + order.en2 = config.en1 + config.en2
  <2>1. stage \notin {"boot", "refused"}
    OBVIOUS
  <2> QED
    BY <2>1, Zenon DEF BlockInv
<1>2. /\ gbt.height \in Nat \ {0} /\ IsInt(gbt.height) /\ config.tag \in Nat
      /\ config.en1 \in Nat /\ config.en2 \in Nat
      /\ gbt.commitment \in BOOLEAN /\ order.payout \in Nat
  BY <1>1, BlockAssumption, Zenon
<1>3. template.height = gbt.height /\ template.commitment = gbt.commitment
  BY <1>1, TemplateIs, Zenon
<1>4. validate(config.tag, order.en1, order.en2)
  <2>1. \A t, a, b, c, d \in Nat : a + b = c + d => 5 + t + a + b = 5 + t + c + d
    OBVIOUS
  <2>2. 5 + config.tag + order.en1 + order.en2 = 5 + config.tag + config.en1 + config.en2
    BY <1>1, <1>2, <2>1, SMT
  <2> QED
    BY <1>1, <2>2, Zenon DEF validate
<1>5. /\ Len(WholeScript) \in 2..100
      /\ order.payout <= 34 => coinbase.ok
      /\ coinbase.ok => IsBuilt(coinbase, HeadScript, WholeScript)
  <2>1. Builds(coinbase, order.payout, HeadScript, WholeScript)
    BY <1>1, <1>2, <1>3, <1>4, CoinbaseIs, Zenon DEF WholeScript, HeadScript, HeightScript
  <2> QED
    BY <2>1, Zenon DEF Builds
<1>6. job = build_job_for_payout(template, order.payout, config.tag, order.en1, order.en2)
  BY Zenon DEF JobOf
<1> HIDE DEF template, job
<1>7. Carries(job, template, coinbase, order.en1, order.en2)
  BY <1>6, JobIs, Zenon
<1> HIDE DEF coinbase
<1>8. ASSUME job.ok PROVE IsJob(job)
  <2>1. coinbase.ok
    BY <1>7, <1>8, Zenon DEF Carries
  <2>2. /\ \E len \in Nat : IsCoinbase(coinbase.bytes, WholeScript, len)
        /\ coinbase.offset = 42 + Len(HeadScript) /\ Fits(Len(coinbase.bytes))
    BY <1>5, <2>1, Zenon DEF IsBuilt
  <2> QED
    BY <1>7, <1>8, <2>2, Zenon DEF IsJob, Carries, template
<1>9. coinbase.ok => job.ok
  BY <1>7, Zenon DEF Carries
<1> QED
  BY <1>5, <1>8, <1>9, Zenon DEF job

(* What a share that is taken has been found to be. *)
Judged(j, job, en1, s, now) ==
    /\ j.coinbase = assemble_coinbase_into(job, en1, s.extranonce2)
    /\ j.header = [version |-> (job.template.version \ s.mask) \cup s.bits,
                   prev |-> SwapWords(job.template.prev_hash),
                   root |-> merkle_root(job.template.merkle_branch, j.coinbase),
                   time |-> s.ntime]
    /\ ~(s.ntime < job.template.cur_time)
    /\ ~(s.ntime > ntime_ceiling(job.template.cur_time, now))

(* What validate_share makes of a share that it accepts. *)
LEMMA ShareIs ==
    ASSUME NEW job, NEW en1, NEW s, NEW now, validate_share(job, en1, s, now).ok
    PROVE  Judged(validate_share(job, en1, s, now), job, en1, s, now)
<1> DEFINE j == validate_share(job, en1, s, now)
           c == assemble_coinbase_into(job, en1, s.extranonce2)
           resolved == resolve_version(job.template.version, s.bits, s.mask)
           r == merkle_root(job.template.merkle_branch, c)
           h == build_header(resolved.version, job.template.prev_hash, r, s.ntime)
           good == [ok |-> TRUE, coinbase |-> c, header |-> h]
           late == s.ntime > ntime_ceiling(job.template.cur_time, now)
<1>1. j = IF s.ntime < job.template.cur_time \/ late \/ ~resolved.ok THEN Failed ELSE good
  BY Zenon DEF validate_share
<1>2. Failed.ok = FALSE
  BY DEF Failed
<1> HIDE DEF j, late, resolved, good
<1>3. ~(s.ntime < job.template.cur_time) /\ ~late /\ resolved.ok /\ j = good
  BY <1>1, <1>2, Zenon DEF j
<1>4. resolved.version = (job.template.version \ s.mask) \cup s.bits
  <2> DEFINE both == [ok |-> TRUE, version |-> (job.template.version \ s.mask) \cup s.bits]
  <2>1. resolved = IF s.bits \subseteq s.mask THEN both ELSE Failed
    BY Zenon DEF resolved, resolve_version
  <2> HIDE DEF both
  <2>2. resolved = both
    BY <1>2, <1>3, <2>1, Zenon
  <2>3. both.version = (job.template.version \ s.mask) \cup s.bits
    BY Zenon DEF both
  <2> QED
    BY <2>2, <2>3, Zenon
<1> HIDE DEF c, r
<1>5. j.coinbase = c /\ j.header = h
  <2> HIDE DEF h
  <2>1. good.coinbase = c /\ good.header = h
    BY Zenon DEF good
  <2> QED
    BY <1>3, <2>1, Zenon
<1>6. h = [version |-> resolved.version, prev |-> SwapWords(job.template.prev_hash), root |-> r, time |-> s.ntime]
  BY Zenon DEF build_header
<1> QED
  BY <1>3, <1>4, <1>5, <1>6, Zenon DEF Judged, j, c, r, late

(* The coinbase that the pool puts together is the one that a device does. *)
LEMMA OneCoinbase ==
    ASSUME BlockInv, stage = "accepted"
    PROVE  LET job == JobOf(order)
               cb == job.coinbase_template
               new == assemble_coinbase_into(job, Ours, share.extranonce2)
           IN  /\ new = job.coinbase1 \o Ours \o Theirs \o job.coinbase2
               /\ IsAssembled(new, cb, WholeScript, HeadScript)
<1> DEFINE job == JobOf(order)
           cb == job.coinbase_template
           new == assemble_coinbase_into(job, Ours, share.extranonce2)
           total == order.en1 + order.en2
<1>0. stage \in {"issued", "unbuilt", "accepted", "rejected"} /\ stage \in {"issued", "accepted", "rejected"}
  OBVIOUS
<1>1. job.ok /\ order.en1 \in Nat /\ order.en2 \in Nat /\ share.extranonce2 = Theirs
  BY <1>0, Zenon DEF BlockInv
<1>2. IsJob(job)
  BY <1>0, <1>1, JobShape, Zenon
<1>3. Opens(WholeScript, HeadScript) /\ Len(WholeScript) = Len(HeadScript) + total
  BY <1>0, ScriptsAre, Zenon
<1> HIDE DEF job
<1>4. /\ job.offset = 42 + Len(HeadScript)
      /\ job.coinbase1 = SubSeq(cb, 1, job.offset)
      /\ job.coinbase2 = SubSeq(cb, job.offset + order.en1 + order.en2 + 1, Len(cb))
      /\ job.extranonce1_len = order.en1 /\ job.extranonce2_len = order.en2
  BY <1>2, Zenon DEF IsJob
<1>5. PICK len \in Nat : IsCoinbase(cb, WholeScript, len)
  BY <1>2, Zenon DEF IsJob
<1>6. Ours \in Seq(Nat) /\ Len(Ours) = order.en1 /\ Theirs \in Seq(Nat) /\ Len(Theirs) = order.en2
  <2>1. 7 \in Nat
    OBVIOUS
  <2>2. 9 \in Nat
    OBVIOUS
  <2>3. order.en1 \in Nat
    BY <1>1, Zenon
  <2>4. order.en2 \in Nat
    BY <1>1, Zenon
  <2>5. Ours \in Seq(Nat) /\ Len(Ours) = order.en1
    BY ONLY <2>1, <2>3, RepeatIs, Zenon DEF Ours
  <2>6. Theirs \in Seq(Nat) /\ Len(Theirs) = order.en2
    BY ONLY <2>2, <2>4, RepeatIs, Zenon DEF Theirs
  <2> QED
    BY <2>5, <2>6, Zenon
<1>7. new = SubSeq(cb, 1, job.offset) \o Ours \o Theirs \o SubSeq(cb, job.offset + total + 1, Len(cb))
  BY <1>1, <1>4, <1>6, Zenon DEF assemble_coinbase_into
<1>8. HeadScript \in Seq(Nat) /\ Len(HeadScript) \in Nat
  BY <1>3, Zenon DEF Opens
<1> HIDE DEF new
<1>9. job.offset + order.en1 + order.en2 + 1 = job.offset + total + 1
  <2>1. job.offset \in Nat
    BY <1>4, <1>8
  <2> QED
    BY <1>1, <2>1
<1>10. new = job.coinbase1 \o Ours \o Theirs \o job.coinbase2
  BY <1>4, <1>7, <1>9, Zenon
<1>11. IsAssembled(new, cb, WholeScript, HeadScript)
  <2> DEFINE e1 == Ours
             e2 == Theirs
  <2>1. Len(e1) + Len(e2) = total
    BY <1>6, Zenon
  <2>2. new = SubSeq(cb, 1, 42 + Len(HeadScript)) \o e1 \o e2
                \o SubSeq(cb, (42 + Len(HeadScript)) + (Len(e1) + Len(e2)) + 1, Len(cb))
    <3> HIDE DEF total, e1, e2, cb
    <3> QED
      BY <1>4, <1>7, <2>1, Zenon DEF e1, e2
  <2>3. Len(WholeScript) = Len(HeadScript) + (Len(e1) + Len(e2))
    BY <1>3, <2>1, Zenon
  <2> HIDE DEF e1, e2, cb
  <2>4. e1 \in Seq(Nat) /\ e2 \in Seq(Nat)
    BY <1>6, Zenon DEF e1, e2
  <2> QED
    BY <1>3, <1>5, <1>8, <2>2, <2>3, <2>4, AssembledIs, Zenon DEF cb
<1> QED
  BY <1>10, <1>11, Zenon DEF new, job

(* HeadersAgree follows: both sides hash one coinbase, along one branch. *)
LEMMA HeadersAgreeNow ==
    ASSUME BlockInv PROVE HeadersAgree
<1> SUFFICES ASSUME stage = "accepted"
    PROVE  LET job == JobOf(order)
               header == validate_share(job, Ours, share, share.now).header
               Device(wire, prev) ==
                   DeviceHeader(wire, prev, Ours, Theirs, share.bits, share.mask, share.ntime)
           IN  /\ header = Device(notify(job), SwapWords(notify(job).prev))
               /\ header = Device(build_new_extended_job(job), build_set_new_prev_hash(job))
  BY Zenon DEF HeadersAgree
<1> DEFINE job == JobOf(order)
           judged == validate_share(job, Ours, share, share.now)
           t == job.template
           c == job.coinbase1 \o Ours \o Theirs \o job.coinbase2
           Version == (t.version \ share.mask) \cup share.bits
           header == [version |-> Version, prev |-> SwapWords(t.prev_hash),
                      root |-> merkle_root(t.merkle_branch, c), time |-> share.ntime]
<1>1. Judged(judged, job, Ours, share, share.now)
  <2>1. judged.ok
    BY Zenon DEF BlockInv
  <2> QED
    BY <2>1, ShareIs, Zenon
<1>2. judged.coinbase = c
  <2>1. assemble_coinbase_into(job, Ours, share.extranonce2) = c
    BY OneCoinbase, Zenon
  <2> QED
    BY <1>1, <2>1, Zenon DEF Judged
<1>3. judged.header = header
  <2> HIDE DEF judged, job
  <2> QED
    BY <1>1, <1>2, Zenon DEF Judged
<1> HIDE DEF job
<1>4. DeviceHeader(notify(job), SwapWords(notify(job).prev), Ours, Theirs, share.bits, share.mask, share.ntime) = header
  <2> DEFINE wire == notify(job)
  <2>1. /\ wire.prev = t.prev_hash /\ wire.prefix = job.coinbase1 /\ wire.suffix = job.coinbase2
        /\ wire.path = t.merkle_branch /\ wire.version = t.version
    BY Zenon DEF notify
  <2> HIDE DEF wire
  <2> QED
    BY <2>1, Zenon DEF DeviceHeader, wire
<1>5. DeviceHeader(build_new_extended_job(job), build_set_new_prev_hash(job), Ours, Theirs, share.bits, share.mask, share.ntime) = header
  <2> DEFINE wire == build_new_extended_job(job)
  <2>1. /\ wire.prefix = job.coinbase1 /\ wire.suffix = job.coinbase2
        /\ wire.path = t.merkle_branch /\ wire.version = t.version
    BY Zenon DEF build_new_extended_job
  <2>2. build_set_new_prev_hash(job) = SwapWords(t.prev_hash)
    BY Zenon DEF build_set_new_prev_hash, stratum_prevhash_to_internal
  <2> HIDE DEF wire
  <2> QED
    BY <2>1, <2>2, Zenon DEF DeviceHeader, wire
<1> QED
  BY <1>3, <1>4, <1>5, Zenon DEF job

(* ConfiguredCoinbaseBuilds follows from the shape of the job. *)
LEMMA CoinbaseBuildsNow ==
    ASSUME BlockInv PROVE ConfiguredCoinbaseBuilds
<1> DEFINE job == JobOf(order)
           head == encode_bip34_height(gbt.height) \o Tag(config.tag)
<1> SUFFICES ASSUME stage \in {"issued", "unbuilt"}, order.payout <= 34
    PROVE  /\ job.ok
           /\ SubSeq(job.coinbase1, 43, job.offset) = head
           /\ job.coinbase1[42] = Len(head) + order.en1 + order.en2
  BY Zenon DEF ConfiguredCoinbaseBuilds
<1>0. stage \in {"issued", "unbuilt", "accepted", "rejected"}
  OBVIOUS
<1>1. head = HeadScript
  BY Zenon DEF HeadScript, HeightScript
<1>2. job.ok /\ IsJob(job)
  BY <1>0, JobShape, Zenon
<1>3. Opens(WholeScript, HeadScript) /\ Len(WholeScript) = Len(HeadScript) + (order.en1 + order.en2)
  BY <1>0, ScriptsAre, Zenon
<1>4. HeadScript \in Seq(Nat) /\ Len(HeadScript) \in Nat
  BY <1>3, Zenon DEF Opens
<1>5. order.en1 \in Nat /\ order.en2 \in Nat
  BY <1>0, Zenon DEF BlockInv
<1> HIDE DEF job, head
<1>6. job.offset = 42 + Len(HeadScript) /\ job.coinbase1 = SubSeq(job.coinbase_template, 1, job.offset)
  BY <1>2, Zenon DEF IsJob
<1>7. PICK len \in Nat : IsCoinbase(job.coinbase_template, WholeScript, len)
  BY <1>2, Zenon DEF IsJob
<1>8. IsFirst(SubSeq(job.coinbase_template, 1, 42 + Len(HeadScript)), WholeScript, HeadScript)
  BY <1>3, <1>4, <1>7, FirstPartIs, Zenon
<1>9. SubSeq(job.coinbase1, 43, job.offset) = HeadScript /\ job.coinbase1[42] = Len(WholeScript)
  BY <1>6, <1>8, Zenon DEF IsFirst
<1>10. \A h, a, b \in Nat : h + (a + b) = h + a + b
  OBVIOUS
<1>11. Len(WholeScript) = Len(HeadScript) + order.en1 + order.en2
  BY <1>3, <1>4, <1>5, <1>10, SMT
<1> QED
  BY <1>1, <1>2, <1>9, <1>11, Zenon

(* The transactions of a template that is light enough can be counted in   *)
(* two bytes.                                                              *)
LEMMA FewTransactions ==
    ASSUME NEW t, t.txWeight \in Nat, check_block_weight(t),
           NEW n \in Nat, MIN_TRANSACTION_WEIGHT * n <= t.txWeight
    PROVE  Shift(Shift(1 + n)) = 0
<1>1. \A w \in Nat : (240 * n <= w /\ 332 + w + 4000 <= 4000000) => Shift(Shift(1 + n)) = 0
  <2> SUFFICES ASSUME NEW w \in Nat, 240 * n <= w, 332 + w + 4000 <= 4000000 PROVE Shift(Shift(1 + n)) = 0
    OBVIOUS
  <2>1. n <= 16648
    OBVIOUS
  <2> QED
    BY <2>1 DEF Shift
<1>2. 240 * n <= t.txWeight /\ 332 + t.txWeight + 4000 <= 4000000
  BY DEF MIN_TRANSACTION_WEIGHT, check_block_weight, COINBASE_WEIGHT_RESERVE, MAX_BLOCK_WEIGHT
<1> QED
  BY <1>1, <1>2

(* The weight of a block stays within the limit for which the template was *)
(* checked, which leaves three bytes for the number of its transactions.   *)
LEMMA WeightIs ==
    ASSUME NEW t, t.txWeight \in Nat, check_block_weight(t), NEW block,
           NEW n \in Nat, MIN_TRANSACTION_WEIGHT * n <= t.txWeight,
           block.count = encode_varint(1 + n), Len(block.coinbase) \in Nat, Fits(Len(block.coinbase))
    PROVE  BlockWeight(block, t.txWeight) <= MAX_BLOCK_WEIGHT
<1> DEFINE l == Len(block.coinbase)
           w == t.txWeight
           c == Len(block.count)
           reserve == COINBASE_WEIGHT_RESERVE
           max == MAX_BLOCK_WEIGHT
           proof == IF block.witness THEN 36 ELSE 0
<1>1. c \in 1..3
  <2>1. 1 + n \in Nat
    OBVIOUS
  <2>2. Shift(Shift(1 + n)) = 0
    BY FewTransactions, Zenon
  <2>3. Shifted(1 + n)[2] = 0
    <3>1. 1 \in 1..8 /\ 2 \in 1..8 /\ 1 - 1 = 0 /\ 2 - 1 = 1
      OBVIOUS
    <3> DEFINE f == Shifted(1 + n)
    <3>2. f[0] = 1 + n /\ \A k \in 1..8 : f[k] = Shift(f[k - 1])
      BY <2>1, ShiftedIs, Zenon
    <3> HIDE DEF f
    <3>3. f[1] = Shift(f[1 - 1]) /\ f[2] = Shift(f[2 - 1])
      BY <3>1, <3>2, Zenon
    <3>4. f[2] = 0
      BY <2>2, <3>1, <3>2, <3>3, Zenon
    <3> QED
      BY <3>4, Zenon DEF f
  <2> QED
    BY <2>1, <2>3, VarintIs, Zenon
<1>2. reserve \in Nat /\ max \in Nat
  BY DEF COINBASE_WEIGHT_RESERVE, MAX_BLOCK_WEIGHT
<1>3. 4 * (80 + 3) + w + reserve <= max
  BY Zenon DEF check_block_weight
<1>4. ~(4 * l + 36 > reserve) /\ l \in Nat /\ w \in Nat
  BY Zenon DEF Fits
<1>5. proof = 0 \/ proof = 36
  BY Zenon
<1>6. BlockWeight(block, t.txWeight) = 4 * (80 + c) + w + 4 * l + proof
  BY Zenon DEF BlockWeight
<1> HIDE DEF l, w, c, reserve, max, proof
<1>7. 4 * (80 + c) + w + 4 * l + proof <= max
  BY <1>1, <1>2, <1>3, <1>4, <1>5
<1> QED
  BY <1>6, <1>7, Zenon DEF max

(* The ids of a template in internal order are none of them empty. *)
LEMMA InternalIs ==
    ASSUME NEW t \in Templates
    PROVE  \E H : None \notin H /\ Internal(t) \in Seq(H)
<1> DEFINE H == {r \in Seq(STRING) : r # None}
           n == Len(t.txids)
<1>1. t.txids \in Seq(Seq(STRING) \ {<<>>})
  BY BlockAssumption, Zenon
<1>2. n \in Nat /\ DOMAIN t.txids = 1..n /\ \A i \in 1..n : t.txids[i] \in Seq(STRING) \ {<<>>}
  BY <1>1
<1> HIDE DEF n
<1>3. ASSUME NEW x \in Seq(STRING) \ {<<>>} PROVE Reverse(x) \in H
  <2>1. x \in Seq(STRING) /\ x # <<>> /\ Len(x) \in Nat
    OBVIOUS
  <2>2. Len(x) # 0
    BY <2>1
  <2> DEFINE m == Len(x)
  <2>3. m \in Nat /\ m # 0 /\ \A i \in 1..m : x[m + 1 - i] \in STRING
    BY <2>1, <2>2
  <2>4. Reverse(x) = [i \in 1..m |-> x[m + 1 - i]]
    BY Zenon DEF Reverse
  <2> HIDE DEF m
  <2>5. Reverse(x) \in [1..m -> STRING]
    BY <2>3, <2>4, Zenon
  <2>6. Reverse(x) \in Seq(STRING) /\ Len(Reverse(x)) = m
    BY <2>3, <2>5, SeqFun, Zenon
  <2>7. Len(None) = 0
    BY DEF None
  <2>8. Reverse(x) # None
    BY <2>3, <2>6, <2>7, Zenon
  <2> QED
    BY <2>6, <2>8, Zenon
<1> HIDE DEF H
<1>4. Internal(t) \in [1..n -> H]
  BY <1>2, <1>3, Zenon DEF Internal
<1>5. Internal(t) \in Seq(H)
  BY <1>2, <1>4, SeqFun, Zenon
<1>6. None \notin H
  BY Zenon DEF H
<1> QED
  BY <1>5, <1>6, Zenon

(* BlocksAreValid follows, one rule of the node at a time. *)
LEMMA BlocksValidNow ==
    ASSUME BlockInv PROVE BlocksAreValid
<1> DEFINE job == JobOf(order)
           judged == validate_share(job, Ours, share, share.now)
           block == assemble_block_hex(job, judged)
           new == assemble_coinbase_into(job, Ours, share.extranonce2)
           template == build_job_template(gbt)
<1> SUFFICES ASSUME stage = "accepted"
    PROVE  /\ NodeAccepts(block, gbt, gbt.median_time, share.now)
           /\ config.strict => gbt.vbrequired \subseteq judged.header.version
  BY Zenon DEF BlocksAreValid
<1>0. /\ stage \in {"issued", "unbuilt", "accepted", "rejected"} /\ stage \notin {"boot", "refused"}
      /\ stage \in {"issued", "accepted", "rejected"}
  OBVIOUS
<1>1. /\ gbt \in Templates /\ template.ok /\ job.ok /\ judged.ok
      /\ config.strict => unsupported_gbt_rules(gbt) = {}
  BY <1>0, Zenon DEF BlockInv
<1>2. share.mask \subseteq VERSION_ROLLING_MASK /\ share.ntime \in Int /\ share.now \in Nat
  BY Zenon DEF BlockInv
<1>3. Judged(judged, job, Ours, share, share.now)
  BY <1>1, ShareIs, Zenon
<1>4. IsJob(job) /\ Len(WholeScript) \in 2..100
  BY <1>0, <1>1, JobShape, Zenon
<1>5. /\ gbt.height \in Nat \ {0} /\ Pushes(HeightScript, gbt.height)
      /\ Opens(HeadScript, HeightScript) /\ Opens(WholeScript, HeadScript)
  BY <1>0, ScriptsAre, Zenon
<1>6. IsAssembled(new, job.coinbase_template, WholeScript, HeadScript)
  BY OneCoinbase, Zenon
<1> HIDE DEF job
<1>7. PICK len \in Nat : IsCoinbase(job.coinbase_template, WholeScript, len)
  BY <1>4, Zenon DEF IsJob
<1>8. job.template = template /\ Fits(Len(job.coinbase_template))
  BY <1>4, Zenon DEF IsJob
<1>9. /\ template.prev_hash = stratum_prev_hash(gbt.prev_hash)
      /\ template.merkle_branch = compute_merkle_branch_raw(Internal(gbt))
      /\ template.version = gbt.version /\ template.cur_time = gbt.cur_time
      /\ template.transactions = gbt.txids
      /\ template.commitment = gbt.commitment /\ check_block_weight(gbt)
  BY <1>1, TemplateIs, Zenon
<1> HIDE DEF template, judged, new
<1>10. /\ block.header = judged.header /\ block.count = encode_varint(1 + Len(gbt.txids))
       /\ block.coinbase = judged.coinbase /\ block.witness = gbt.commitment /\ block.transactions = gbt.txids
  BY <1>8, <1>9, Zenon DEF assemble_block_hex
<1> HIDE DEF block
<1>11. /\ judged.coinbase = new
       /\ judged.header = [version |-> (job.template.version \ share.mask) \cup share.bits,
                           prev |-> SwapWords(job.template.prev_hash),
                           root |-> merkle_root(job.template.merkle_branch, judged.coinbase),
                           time |-> share.ntime]
       /\ ~(share.ntime < gbt.cur_time) /\ ~(share.ntime > ntime_ceiling(gbt.cur_time, share.now))
  BY <1>3, <1>8, <1>9, Zenon DEF Judged, new
<1>12. /\ judged.header.version = (gbt.version \ share.mask) \cup share.bits
       /\ judged.header.prev = SwapWords(stratum_prev_hash(gbt.prev_hash))
       /\ judged.header.root = merkle_root(compute_merkle_branch_raw(Internal(gbt)), new)
       /\ judged.header.time = share.ntime
  <2> DEFINE v == (job.template.version \ share.mask) \cup share.bits
             p == SwapWords(job.template.prev_hash)
             m == merkle_root(job.template.merkle_branch, judged.coinbase)
             h == [version |-> v, prev |-> p, root |-> m, time |-> share.ntime]
  <2>1. v = (gbt.version \ share.mask) \cup share.bits
    BY <1>8, <1>9, Zenon
  <2>2. p = SwapWords(stratum_prev_hash(gbt.prev_hash))
    BY <1>8, <1>9, Zenon
  <2>3. m = merkle_root(compute_merkle_branch_raw(Internal(gbt)), new)
    BY <1>8, <1>9, <1>11, Zenon
  <2>4. judged.header = h
    BY <1>11, Zenon
  <2> HIDE DEF v, p, m
  <2>5. h.version = v /\ h.prev = p /\ h.root = m /\ h.time = share.ntime
    BY Zenon
  <2> HIDE DEF h
  <2> QED
    BY <2>1, <2>2, <2>3, <2>4, <2>5, Zenon
<1>13. block.header.prev = Reverse(gbt.prev_hash)
  <2>1. gbt.prev_hash \in Seq(STRING) /\ Len(gbt.prev_hash) % 2 = 0
    BY <1>1, BlockAssumption, Zenon
  <2>2. SwapWords(stratum_prev_hash(gbt.prev_hash)) = Reverse(gbt.prev_hash)
    BY <2>1, SwappedBack, Zenon
  <2> QED
    BY <1>10, <1>12, <2>2, Zenon
<1>14. block.header.root = TreeRoot(<<double_sha256(block.coinbase)>>
            \o [i \in DOMAIN block.transactions |-> Reverse(block.transactions[i])])
  <2>1. PICK H : None \notin H /\ Internal(gbt) \in Seq(H)
    BY <1>1, InternalIs, Zenon
  <2>2. merkle_root(compute_merkle_branch_raw(Internal(gbt)), new) = TreeRoot(<<double_sha256(new)>> \o Internal(gbt))
    BY <2>1, BranchLeadsToRoot, Zenon
  <2>3. Internal(gbt) = [i \in DOMAIN block.transactions |-> Reverse(block.transactions[i])]
    BY <1>10, Zenon DEF Internal
  <2> QED
    BY <1>10, <1>11, <1>12, <2>2, <2>3, Zenon
<1>15. /\ new \in Seq(Nat) /\ Len(new) = Len(job.coinbase_template) /\ new[42] = Len(WholeScript)
  BY <1>6, Zenon DEF IsAssembled
<1>16. block.coinbase[42] \in 2..100
  BY <1>4, <1>10, <1>11, <1>15, Zenon
<1>17. BeginsWith(SubSeq(block.coinbase, 43, 42 + block.coinbase[42]), gbt.height)
  <2>1. BeginsWith(SubSeq(new, 43, 42 + new[42]), gbt.height)
    BY <1>5, <1>6, <1>7, HeightIsRead, Zenon
  <2> QED
    BY <1>10, <1>11, <2>1, Zenon
<1>18. BlockWeight(block, gbt.txWeight) <= MAX_BLOCK_WEIGHT
  <2>1. /\ gbt.txWeight \in Nat /\ gbt.txids \in Seq(Seq(STRING) \ {<<>>})
        /\ MIN_TRANSACTION_WEIGHT * Len(gbt.txids) <= gbt.txWeight
    BY <1>1, BlockAssumption, Zenon
  <2>2. Len(gbt.txids) \in Nat
    BY <2>1
  <2>3. Len(new) \in Nat
    BY <1>15
  <2>4. Len(block.coinbase) \in Nat /\ Fits(Len(block.coinbase))
    BY <1>8, <1>10, <1>11, <1>15, <2>3, Zenon
  <2> QED
    BY <1>9, <1>10, <2>1, <2>2, <2>4, WeightIs, Zenon
<1>19. gbt.median_time < block.header.time /\ block.header.time <= share.now + MAX_NTIME_DRIFT_SECS
  <2>1. gbt.cur_time \in Nat /\ gbt.median_time \in Nat /\ gbt.median_time < gbt.cur_time
    BY <1>1, BlockAssumption, Zenon
  <2>2. \A s \in Int, n, c, m \in Nat : m < c /\ ~(s < c) /\ ~(s > ntime_ceiling(c, n)) =>
            m < s /\ s <= n + MAX_NTIME_DRIFT_SECS
    BY DEF ntime_ceiling, MAX_NTIME_DRIFT_SECS
  <2>3. gbt.median_time < share.ntime /\ share.ntime <= share.now + MAX_NTIME_DRIFT_SECS
    BY <1>2, <1>11, <2>1, <2>2, SMT
  <2> QED
    BY <1>10, <1>12, <2>3, Zenon
<1>20. NodeAccepts(block, gbt, gbt.median_time, share.now)
  BY <1>10, <1>13, <1>14, <1>16, <1>17, <1>18, <1>19, Zenon DEF NodeAccepts
<1>21. ASSUME config.strict PROVE gbt.vbrequired \subseteq judged.header.version
  <2>1. gbt.vbrequired \subseteq gbt.version
    BY <1>1, BlockAssumption, Zenon
  <2>2. \A b \in gbt.vbrequired : b \notin VERSION_ROLLING_MASK
    <3>1. unsupported_gbt_rules(gbt) = {}
      BY <1>1, <1>21, Zenon
    <3> SUFFICES ASSUME NEW b \in gbt.vbrequired, b \in VERSION_ROLLING_MASK PROVE FALSE
      BY Zenon
    <3>2. <<"vbrequired", b>> \in unsupported_gbt_rules(gbt)
      BY Zenon DEF unsupported_gbt_rules
    <3> QED
      BY <3>1, <3>2, Zenon
  <2> QED
    BY <1>2, <1>12, <2>1, <2>2, Zenon
<1> QED
  BY <1>20, <1>21, Zenon DEF block, judged, job

(* The pool boots with a validated configuration. *)
LEMMA BlockInvInit ==
    ASSUME BlockInit PROVE BlockInv
<1>1. stage = "boot" /\ config \in Configs /\ validate(config.tag, config.en1, config.en2)
  BY Zenon DEF BlockInit
<1>2. /\ ~(stage \notin {"boot", "refused"}) /\ stage \notin {"issued", "unbuilt", "accepted", "rejected"}
      /\ stage \notin {"issued", "accepted", "rejected"} /\ stage # "accepted"
  BY <1>1
<1> QED
  BY <1>1, <1>2, Zenon DEF BlockInv

(* A step of the block changes nothing that is looked at before it. *)
LEMMA SameBlock ==
    ASSUME BlockInv, UNCHANGED block_vars PROVE BlockInv'
<1>1. stage' = stage /\ config' = config /\ gbt' = gbt /\ order' = order /\ share' = share
  BY Zenon DEF block_vars
<1>2. JobOf(order)' = JobOf(order) /\ Ours' = Ours /\ Theirs' = Theirs
  BY <1>1, Zenon DEF JobOf, Ours, Theirs
<1> QED
  BY <1>1, <1>2, Zenon DEF BlockInv

(* Refresh takes one of the node's templates. *)
LEMMA RefreshStep ==
    ASSUME BlockInv, Refresh PROVE BlockInv'
<1>1. /\ gbt' \in Templates /\ config' = config
      /\ stage' = IF \/ config.strict /\ unsupported_gbt_rules(gbt') # {}
                     \/ ~build_job_template(gbt').ok
                  THEN "refused" ELSE "template"
  BY Zenon DEF Refresh
<1>2. stage' = "refused" \/ stage' = "template"
  BY <1>1, Zenon
<1>3. /\ stage' \notin {"issued", "unbuilt", "accepted", "rejected"}
      /\ stage' \notin {"issued", "accepted", "rejected"} /\ stage' # "accepted"
  BY <1>2
<1>4. stage' \notin {"boot", "refused"} =>
        build_job_template(gbt').ok /\ (config.strict => unsupported_gbt_rules(gbt') = {})
  BY <1>1, Zenon
<1>5. config' \in Configs /\ validate(config'.tag, config'.en1, config'.en2)
  BY <1>1, Zenon DEF BlockInv
<1> QED
  BY <1>1, <1>3, <1>4, <1>5, Zenon DEF BlockInv

(* A job has the configured extranonce length, however it is split. *)
LEMMA IssueStep ==
    ASSUME BlockInv, NEW choice, Issue(choice), choice.payout \in PayoutLengths,
           choice.en1 \in Nat, choice.en2 \in Nat, choice.en1 + choice.en2 = config.en1 + config.en2
    PROVE  BlockInv'
<1>1. /\ stage = "template" /\ order' = choice /\ config' = config /\ gbt' = gbt
      /\ stage' = IF JobOf(choice).ok THEN "issued" ELSE "unbuilt"
  BY Zenon DEF Issue
<1>2. stage \notin {"boot", "refused"}
  BY <1>1
<1>3. /\ config' \in Configs /\ validate(config'.tag, config'.en1, config'.en2)
      /\ gbt' \in Templates /\ build_job_template(gbt').ok
      /\ config'.strict => unsupported_gbt_rules(gbt') = {}
  BY <1>1, <1>2, Zenon DEF BlockInv
<1>4. /\ order'.payout \in PayoutLengths /\ order'.en1 \in Nat /\ order'.en2 \in Nat
      /\ order'.en1 + order'.en2 = config'.en1 + config'.en2
  BY <1>1, Zenon
<1>5. JobOf(order)' = JobOf(choice)
  BY <1>1, Zenon DEF JobOf
<1>6. stage' = "issued" \/ stage' = "unbuilt"
  BY <1>1, Zenon
<1>7. stage' # "accepted" /\ (stage' \in {"issued", "accepted", "rejected"} => stage' = "issued")
  BY <1>6
<1>8. stage' = "issued" => JobOf(order)'.ok
  BY <1>1, <1>5, Zenon
<1> QED
  BY <1>3, <1>4, <1>7, <1>8, Zenon DEF BlockInv

(* A device may send any bits and any time. *)
LEMMA SubmitStep ==
    ASSUME BlockInv, Submit PROVE BlockInv'
<1>1. /\ stage = "issued" /\ config' = config /\ gbt' = gbt /\ order' = order
      /\ stage' = IF validate_share(JobOf(order), Ours, share', share'.now).ok THEN "accepted" ELSE "rejected"
  BY Zenon DEF Submit
<1>2. /\ stage \notin {"boot", "refused"} /\ stage \in {"issued", "unbuilt", "accepted", "rejected"}
      /\ stage \in {"issued", "accepted", "rejected"}
  BY <1>1
<1>3. PICK mask \in SUBSET VERSION_ROLLING_MASK, delay \in Delays :
        \E bits \in SUBSET VERSION_ROLLING_MASK, ntime \in (gbt.cur_time - 1)..(gbt.cur_time + MAX_NTIME_DRIFT_SECS + 1) :
            share' = [extranonce2 |-> Theirs, bits |-> bits, mask |-> mask,
                      ntime |-> ntime, now |-> gbt.asked + delay]
  BY Zenon DEF Submit
<1>4. PICK bits \in SUBSET VERSION_ROLLING_MASK, ntime \in (gbt.cur_time - 1)..(gbt.cur_time + MAX_NTIME_DRIFT_SECS + 1) :
            share' = [extranonce2 |-> Theirs, bits |-> bits, mask |-> mask,
                      ntime |-> ntime, now |-> gbt.asked + delay]
  BY <1>3, Zenon
<1>5. share'.extranonce2 = Theirs /\ share'.mask = mask /\ share'.ntime = ntime /\ share'.now = gbt.asked + delay
  BY <1>4, Zenon
<1>6. gbt \in Templates /\ gbt.asked \in Nat /\ delay \in Nat
  <2>1. gbt \in Templates
    BY <1>2, Zenon DEF BlockInv
  <2> QED
    BY <2>1, BlockAssumption, Zenon
<1>7. share'.now \in Nat /\ share'.ntime \in Int
  <2>1. gbt.asked + delay \in Nat /\ ntime \in Int
    BY <1>6
  <2> QED
    BY <1>5, <2>1, Zenon
<1>8. JobOf(order)' = JobOf(order) /\ Ours' = Ours /\ Theirs' = Theirs
  BY <1>1, Zenon DEF JobOf, Ours, Theirs
<1>9. /\ config' \in Configs /\ validate(config'.tag, config'.en1, config'.en2)
      /\ gbt' \in Templates /\ build_job_template(gbt').ok
      /\ config'.strict => unsupported_gbt_rules(gbt') = {}
  BY <1>1, <1>2, Zenon DEF BlockInv
<1>10. /\ order'.payout \in PayoutLengths /\ order'.en1 \in Nat /\ order'.en2 \in Nat
       /\ order'.en1 + order'.en2 = config'.en1 + config'.en2
  BY <1>1, <1>2, Zenon DEF BlockInv
<1>11. JobOf(order)'.ok
  BY <1>2, <1>8, Zenon DEF BlockInv
<1>12. stage' = "accepted" => validate_share(JobOf(order)', Ours', share', share'.now).ok
  <2>1. "rejected" # "accepted"
    OBVIOUS
  <2> QED
    BY <1>1, <1>8, <2>1, Zenon
<1>13. share'.extranonce2 = Theirs' /\ share'.mask \subseteq VERSION_ROLLING_MASK
  BY <1>5, <1>8, Zenon
<1> QED
  BY <1>7, <1>9, <1>10, <1>11, <1>12, <1>13, Zenon DEF BlockInv

(* Every step keeps the choices valid. *)
LEMMA BlockInvStep ==
    ASSUME BlockInv, [BlockNext]_block_vars PROVE BlockInv'
<1>1. CASE UNCHANGED block_vars
  BY <1>1, SameBlock, Zenon
<1>2. CASE Refresh
  BY <1>2, RefreshStep, Zenon
<1>3. config.en1 \in Nat /\ config.en2 \in Nat /\ config.en1 + config.en2 # 0
  <2>1. config \in Configs /\ config.en1 + config.en2 # 0
    BY Zenon DEF BlockInv, validate
  <2> QED
    BY <2>1, BlockAssumption, Zenon
<1>4. CASE IssueSv1
  <2>1. PICK payout \in PayoutLengths : Issue([payout |-> payout, en1 |-> config.en1, en2 |-> config.en2])
    BY <1>4, Zenon DEF IssueSv1
  <2> DEFINE choice == [payout |-> payout, en1 |-> config.en1, en2 |-> config.en2]
  <2>2. choice.payout = payout /\ choice.en1 = config.en1 /\ choice.en2 = config.en2
    BY Zenon
  <2> HIDE DEF choice
  <2>3. Issue(choice)
    BY <2>1, Zenon DEF choice
  <2> QED
    BY <1>3, <2>2, <2>3, IssueStep, Zenon
<1>5. CASE IssueSv2
  <2>1. PICK payout \in PayoutLengths, requested \in 0..(config.en1 + config.en2) :
            Issue([payout |-> payout,
                   en1 |-> config.en1 + config.en2 - (IF requested = 0 THEN 1 ELSE requested),
                   en2 |-> IF requested = 0 THEN 1 ELSE requested])
    BY <1>5, Zenon DEF IssueSv2
  <2> DEFINE granted == IF requested = 0 THEN 1 ELSE requested
             choice == [payout |-> payout, en1 |-> config.en1 + config.en2 - granted, en2 |-> granted]
  <2>2. /\ config.en1 + config.en2 - granted \in Nat /\ granted \in Nat
        /\ (config.en1 + config.en2 - granted) + granted = config.en1 + config.en2
    BY <1>3
  <2>3. Issue(choice)
    BY <2>1, Zenon
  <2> HIDE DEF granted
  <2>4. choice.payout = payout /\ choice.en1 = config.en1 + config.en2 - granted /\ choice.en2 = granted
    BY Zenon
  <2> HIDE DEF choice
  <2> QED
    BY <2>2, <2>3, <2>4, IssueStep, Zenon
<1>6. CASE Submit
  BY <1>6, SubmitStep, Zenon
<1> QED
  BY <1>1, <1>2, <1>4, <1>5, <1>6, Zenon DEF BlockNext

(* The choices on a block's way stay valid. *)
THEOREM BlockInvHolds == BlockSpec => []BlockInv
<1>1. BlockInit => BlockInv
  BY BlockInvInit
<1>2. BlockInv /\ [BlockNext]_block_vars => BlockInv'
  BY BlockInvStep
<1> QED
  BY <1>1, <1>2, PTL DEF BlockSpec

(* What a device makes of a job and the pool of the device's share is one     *)
(* header, for every template, split of the extranonce, version and wire      *)
(* format.                                                                    *)
THEOREM HeadersStayAgreed == BlockSpec => []HeadersAgree
<1>1. BlockInv => HeadersAgree
  BY HeadersAgreeNow
<1> QED
  BY <1>1, BlockInvHolds, PTL

(* A share that validate_share takes makes a block that the node takes,       *)
(* whatever the number of its transactions, its height and its weight.        *)
THEOREM BlocksStayValid == BlockSpec => []BlocksAreValid
<1>1. BlockInv => BlocksAreValid
  BY BlocksValidNow
<1> QED
  BY <1>1, BlockInvHolds, PTL

(* Every configuration that Config::validate passes builds a coinbase at      *)
(* every height, with its placeholder where the extranonces go.               *)
THEOREM CoinbasesBuild == BlockSpec => []ConfiguredCoinbaseBuilds
<1>1. BlockInv => ConfiguredCoinbaseBuilds
  BY CoinbaseBuildsNow
<1> QED
  BY <1>1, BlockInvHolds, PTL

=============================================================================
