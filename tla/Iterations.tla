-------------------------- MODULE Iterations --------------------------------
(***************************************************************************)
(* What the proofs need of natural numbers: least and greatest members,    *)
(* counting up, and that a computation of so many rounds exists and is     *)
(* determined by its rounds.                                               *)
(***************************************************************************)
EXTENDS Integers, FiniteSetsExt, WellFoundedInduction, TLAPS

\* A nonempty set of naturals has a least element.
LEMMA Least ==
  ASSUME NEW S \in SUBSET Nat, S # {}
  PROVE  \E n \in S : \A k \in S : n <= k
<1> DEFINE R == OpToRel(<, Nat)
<1>1. IsWellFoundedOn(R, Nat)
  BY NatLessThanWellFounded
<1>2. \A k, n \in Nat : ~(<<k, n>> \in R) => n <= k
  BY DEF OpToRel
<1> HIDE DEF R
<1>3. \E n \in S : \A k \in S : ~(<<k, n>> \in R)
  BY <1>1, WFMin
<1> QED
  BY <1>2, <1>3

\* A nonempty set of naturals below a bound has a greatest element.
LEMMA Greatest ==
  ASSUME NEW N \in Nat, NEW S \in SUBSET (0..N), S # {}
  PROVE  \E n \in S : \A k \in S : k <= n
<1> DEFINE T == {k \in 0..N : N - k \in S}
<1>1. T \in SUBSET Nat /\ T # {}
  <2>1. PICK s \in S : TRUE
    OBVIOUS
  <2>2. N - s \in T
    BY <2>1
  <2>3. QED
    BY <2>2
<1>2. PICK n \in T : \A k \in T : n <= k
  BY <1>1, Least
<1>3. N - n \in S
  OBVIOUS
<1>4. ASSUME NEW k \in S PROVE k <= N - n
  <2>1. N - k \in T
    OBVIOUS
  <2>2. QED
    BY <1>2, <2>1
<1>5. QED
  BY <1>3, <1>4

\* The greatest of a nonempty set of naturals below a bound.
LEMMA MaxIs ==
  ASSUME NEW N \in Nat, NEW S \in SUBSET (0..N), S # {}
  PROVE  Max(S) \in S /\ \A k \in S : k <= Max(S)
<1> DEFINE T == {k \in 0..N : N - k \in S}
<1>1. T \in SUBSET Nat /\ T # {}
  <2>1. PICK s \in S : TRUE
    OBVIOUS
  <2>2. N - s \in T
    BY <2>1
  <2> QED
    BY <2>2
<1>2. PICK n \in T : \A k \in T : n <= k
  BY <1>1, Least
<1>3. ASSUME NEW k \in S PROVE N - n >= k
  <2>1. N - k \in T
    OBVIOUS
  <2> QED
    BY <1>2, <2>1
<1>4. \E x \in S : \A y \in S : x >= y
  BY <1>2, <1>3
<1>5. \A x, y \in S : x >= y => y <= x
  OBVIOUS
<1> QED
  BY <1>4, <1>5 DEF Max

\* A set that holds 0 and, with a number, the next one holds every number.
LEMMA CountingUp ==
  ASSUME NEW P, 0 \in P, \A n \in Nat : n \in P => n + 1 \in P
  PROVE  Nat \subseteq P
<1> DEFINE Missing == {n \in Nat : n \notin P}
<1>1. SUFFICES ASSUME Missing # {} PROVE FALSE
  OBVIOUS
<1>2. PICK m \in Missing : \A k \in Missing : m <= k
  BY <1>1, Least
<1>3. m \in Nat /\ m # 0
  OBVIOUS
<1>4. m - 1 \in Nat /\ m - 1 \in P
  BY <1>2, <1>3
<1>5. (m - 1) + 1 \in P
  BY <1>4
<1> QED
  BY <1>3, <1>5

-----------------------------------------------------------------------------
(* Computations                                                            *)

\* A computation of N rounds that stays in S.
Runs(f, N, S, start, next) ==
  /\ f \in [0..N -> S]
  /\ f[0] = start
  /\ \A k \in 1..N : f[k] = next[<<f[k - 1], k>>]

\* There is one, from every start in S.
LEMMA Iteration ==
  ASSUME NEW N \in Nat, NEW S, NEW start \in S, NEW next \in [S \X (1..N) -> S]
  PROVE  \E f : Runs(f, N, S, start, next)
<1> DEFINE Upto(f, n) == f[0] = start /\ \A k \in 1..N : k <= n => f[k] = next[<<f[k - 1], k>>]
           P == {n \in Nat : \E f \in [0..N -> S] : Upto(f, n)}
<1>1. 0 \in P
  <2> DEFINE f == [k \in 0..N |-> start]
  <2>1. f \in [0..N -> S] /\ Upto(f, 0)
    OBVIOUS
  <2> QED
    BY <2>1
<1>2. ASSUME NEW n \in Nat, n \in P PROVE n + 1 \in P
  <2>1. PICK f \in [0..N -> S] : Upto(f, n)
    BY <1>2
  <2>2. CASE n + 1 \notin 1..N
    <3>1. \A k \in 1..N : k <= n + 1 => k <= n
      BY <2>2
    <3>2. Upto(f, n + 1)
      BY <2>1, <3>1
    <3>3. n + 1 \in Nat
      OBVIOUS
    <3> QED
      BY <3>2, <3>3, Zenon
  <2>3. CASE n + 1 \in 1..N
    <3> DEFINE e == next[<<f[n], n + 1>>]
               g == [f EXCEPT ![n + 1] = e]
    <3>1. f[n] \in S /\ e \in S
      <4>1. n \in 0..N
        BY <2>3
      <4>2. f[n] \in S
        BY <4>1
      <4>3. <<f[n], n + 1>> \in S \X (1..N)
        BY <2>3, <4>2
      <4> QED
        BY <4>2, <4>3
    <3>2. g \in [0..N -> S] /\ g[n + 1] = e /\ \A k \in 0..N : k # n + 1 => g[k] = f[k]
      BY <2>3, <3>1
    <3> HIDE DEF g
    <3>3. g[0] = start
      BY <2>1, <3>2
    <3>4. ASSUME NEW k \in 1..N, k <= n + 1 PROVE g[k] = next[<<g[k - 1], k>>]
      <4>1. k - 1 \in 0..N /\ k - 1 # n + 1 /\ g[k - 1] = f[k - 1]
        BY <3>2, <3>4
      <4>2. CASE k = n + 1
        <5>1. k - 1 = n
          BY <4>2
        <5> QED
          BY <3>2, <4>1, <4>2, <5>1
      <4>3. CASE k # n + 1
        <5>1. g[k] = f[k] /\ k <= n
          BY <3>2, <3>4, <4>3
        <5> QED
          BY <2>1, <4>1, <5>1
      <4> QED
        BY <4>2, <4>3
    <3>5. g \in [0..N -> S] /\ Upto(g, n + 1)
      BY <3>2, <3>3, <3>4
    <3> HIDE DEF Upto
    <3> QED
      BY <3>5
  <2> QED
    BY <2>2, <2>3
<1>3. N \in P
  <2> HIDE DEF P
  <2> QED
    BY <1>1, <1>2, CountingUp
<1>4. PICK f \in [0..N -> S] : Upto(f, N)
  BY <1>3
<1>5. Runs(f, N, S, start, next)
  BY <1>4 DEF Runs
<1> QED
  BY <1>5

\* Two computations that begin alike and go on alike end alike.
Alike(f, g, N) == g[0] = f[0] /\ \A k \in 1..N : g[k - 1] = f[k - 1] => g[k] = f[k]

LEMMA SameIteration ==
  ASSUME NEW N \in Nat, NEW f, NEW g, Alike(f, g, N)
  PROVE  g[N] = f[N]
<1> DEFINE P == {n \in Nat : n \in 0..N => g[n] = f[n]}
<1>1. 0 \in P
  BY DEF Alike
<1>2. ASSUME NEW n \in Nat, n \in P PROVE n + 1 \in P
  <2>1. SUFFICES ASSUME n + 1 \in 0..N PROVE g[n + 1] = f[n + 1]
    OBVIOUS
  <2>2. n \in 0..N /\ n + 1 \in 1..N /\ (n + 1) - 1 = n
    BY <2>1
  <2>3. g[n] = f[n]
    BY <1>2, <2>2
  <2> QED
    BY <2>2, <2>3 DEF Alike
<1>3. N \in P
  <2> HIDE DEF P
  <2> QED
    BY <1>1, <1>2, CountingUp
<1> QED
  BY <1>3

\* A loop whose round k takes what is good before it to what is good after it
\* runs, whatever its rounds would make of the rest.
StaysGood(Good, N, round) == \A k \in 1..N : \A w \in Good[k - 1] : round[<<w, k>>] \in Good[k]
LEMMA GoodLoop ==
  ASSUME NEW N \in Nat, NEW S, NEW Good \in [0..N -> SUBSET S], NEW start \in Good[0],
         NEW round, StaysGood(Good, N, round)
  PROVE  \E f : Runs(f, N, S, start, round) /\ \A k \in 0..N : f[k] \in Good[k]
<1> DEFINE next == [p \in S \X (1..N) |-> IF p[1] \in Good[p[2] - 1] THEN round[p] ELSE p[1]]
<1>1. ASSUME NEW k \in 1..N PROVE k - 1 \in 0..N /\ Good[k] \subseteq S /\ Good[k - 1] \subseteq S
  <2>1. k - 1 \in 0..N /\ k \in 0..N
    OBVIOUS
  <2> QED
    BY <2>1
<1>2. next \in [S \X (1..N) -> S]
  <2>1. ASSUME NEW p \in S \X (1..N), p[1] \in Good[p[2] - 1] PROVE round[p] \in S
    <3>1. p[1] \in S /\ p[2] \in 1..N /\ p = <<p[1], p[2]>>
      OBVIOUS
    <3> QED
      BY <1>1, <2>1, <3>1 DEF StaysGood
  <2> QED
    BY <2>1
<1>3. ASSUME NEW k \in 1..N, NEW w \in Good[k - 1] PROVE next[<<w, k>>] = round[<<w, k>>]
  <2>1. w \in S
    BY <1>1
  <2> QED
    BY <2>1
<1> HIDE DEF next
<1>4. start \in S
  OBVIOUS
<1>5. PICK f : Runs(f, N, S, start, next)
  BY <1>2, <1>4, Iteration
<1>6. f \in [0..N -> S] /\ f[0] = start /\ \A k \in 1..N : f[k] = next[<<f[k - 1], k>>]
  BY <1>5 DEF Runs
<1> DEFINE P == {n \in Nat : n \in 0..N => f[n] \in Good[n]}
<1>7. 0 \in P
  BY <1>6
<1>8. ASSUME NEW n \in Nat, n \in P PROVE n + 1 \in P
  <2>1. SUFFICES ASSUME n + 1 \in 0..N PROVE f[n + 1] \in Good[n + 1]
    OBVIOUS
  <2>2. n \in 0..N /\ n + 1 \in 1..N /\ (n + 1) - 1 = n
    BY <2>1
  <2>3. f[n] \in Good[n]
    BY <1>8, <2>2
  <2>4. f[n + 1] = round[<<f[n], n + 1>>]
    BY <1>3, <1>6, <2>2, <2>3
  <2> QED
    BY <2>2, <2>3, <2>4 DEF StaysGood
<1>9. \A k \in 0..N : f[k] \in Good[k]
  <2>1. Nat \subseteq P
    <3> HIDE DEF P
    <3> QED
      BY <1>7, <1>8, CountingUp
  <2> QED
    BY <2>1
<1>10. \A k \in 1..N : f[k] = round[<<f[k - 1], k>>]
  BY <1>1, <1>3, <1>6, <1>9
<1> QED
  BY <1>6, <1>9, <1>10 DEF Runs
=============================================================================
