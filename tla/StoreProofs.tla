----------------------------- MODULE StoreProofs -----------------------------
(***************************************************************************)
(* Every reference to a clause is current, watches come in pairs, a given- *)
(* up probe leaves no trace and the store implements a table of clauses:   *)
(* for every set of clauses, every bound and every share a reduction       *)
(* removes, as long as no reduction comes due in the raw probe.  And a     *)
(* clause that is put away reads back as it was, whatever the widths.      *)
(***************************************************************************)
EXTENDS ClauseStore, ColdStore, SequenceTheorems, FiniteSetTheorems, FunctionTheorems, Iterations,
        TLAPS

-----------------------------------------------------------------------------
(* Sliding blocks together                                                 *)

SlidStep(size, to, r) ==
  IF Below(r, DOMAIN size) = {} THEN 0
  ELSE to[Max(Below(r, DOMAIN size))] + size[Max(Below(r, DOMAIN size))]

\* What comes last before an offset.
LEMMA LastBelow ==
  ASSUME NEW D \in SUBSET Nat, NEW r \in Nat, Below(r, D) # {}
  PROVE  /\ Max(Below(r, D)) \in D /\ Max(Below(r, D)) < r
         /\ \A q \in D : q < r => q <= Max(Below(r, D))
<1> DEFINE B == Below(r, D)
<1>1. B \in SUBSET (0..r) /\ B # {}
  <2>1. \A q \in B : q \in Nat /\ q < r
    BY DEF Below
  <2>2. \A q \in B : q \in 0..r
    BY <2>1
  <2> QED
    BY <2>2
<1>2. Max(B) \in B /\ \A k \in B : k <= Max(B)
  <2> HIDE DEF B
  <2> QED
    BY <1>1, MaxIs
<1>3. \A q \in D : q < r => q \in B
  BY DEF Below
<1>4. \A q \in B : q \in D /\ q < r
  BY DEF Below
<1> QED
  BY <1>2, <1>3, <1>4

\* The offsets are what their definition says.
LEMMA SlidUnfolds ==
  ASSUME NEW D \in SUBSET Nat, NEW N \in Nat, \A r \in D : r < N, NEW size \in [D -> Nat]
  PROVE  Slid(size) = [r \in D |-> SlidStep(size, Slid(size), r)]
<1> DEFINE Upto(f, n) == \A r \in D : r < n => f[r] = SlidStep(size, f, r)
           P == {n \in Nat : \E f \in [D -> Nat] : Upto(f, n)}
<1>1. 0 \in P
  <2>1. [r \in D |-> 0] \in [D -> Nat] /\ Upto([r \in D |-> 0], 0)
    OBVIOUS
  <2> QED
    BY <2>1
<1>2. ASSUME NEW n \in Nat, n \in P PROVE n + 1 \in P
  <2>1. PICK f \in [D -> Nat] : Upto(f, n)
    BY <1>2
  <2>2. CASE n \notin D
    <3>1. \A r \in D : r < n + 1 => r < n
      BY <2>2
    <3> QED
      BY <2>1, <3>1
  <2>3. CASE n \in D
    <3> DEFINE g == [f EXCEPT ![n] = SlidStep(size, f, n)]
    <3>1. ASSUME NEW r \in D, r < n + 1 PROVE SlidStep(size, g, r) = SlidStep(size, f, r)
      <4>1. CASE Below(r, D) = {}
        BY <4>1 DEF SlidStep
      <4>2. CASE Below(r, D) # {}
        <5>1. /\ Max(Below(r, D)) \in D /\ Max(Below(r, D)) < r
              /\ Max(Below(r, D)) \in Nat /\ r \in Nat
          BY <4>2, LastBelow
        <5>2. Max(Below(r, D)) # n
          BY <3>1, <5>1
        <5>3. g[Max(Below(r, D))] = f[Max(Below(r, D))]
          BY <5>1, <5>2
        <5> QED
          BY <5>3 DEF SlidStep
      <4> QED
        BY <4>1, <4>2
    <3>2. SlidStep(size, f, n) \in Nat
      <4>1. CASE Below(n, D) = {}
        BY <4>1 DEF SlidStep
      <4>2. CASE Below(n, D) # {}
        <5>1. Max(Below(n, D)) \in D
          BY <4>2, LastBelow
        <5>2. f[Max(Below(n, D))] \in Nat /\ size[Max(Below(n, D))] \in Nat
          BY <5>1
        <5>3. DOMAIN size = D
          OBVIOUS
        <5> QED
          BY <5>2, <5>3, <4>2 DEF SlidStep
      <4> QED
        BY <4>1, <4>2
    <3>3. g \in [D -> Nat]
      BY <3>2
    <3>4. ASSUME NEW r \in D, r < n + 1 PROVE g[r] = SlidStep(size, f, r)
      BY <2>1, <3>4
    <3> HIDE DEF g
    <3>5. Upto(g, n + 1)
      BY <3>1, <3>4
    <3> QED
      BY <3>3, <3>5
  <2> QED
    BY <2>2, <2>3
<1>3. N \in P
  <2> HIDE DEF P
  <2> QED
    BY <1>1, <1>2, CountingUp
<1>4. PICK f \in [D -> Nat] : \A r \in D : f[r] = SlidStep(size, f, r)
  BY <1>3
<1>5. f = [r \in D |-> SlidStep(size, f, r)]
  BY <1>4
<1>6. Slid(size) = CHOOSE to : to = [r \in D |-> SlidStep(size, to, r)]
  BY DEF Slid, SlidStep
<1> QED
  BY <1>5, <1>6

\* Blocks slide to offsets where each ends before the next begins.
LEMMA SlidApart ==
  ASSUME NEW D \in SUBSET Nat, NEW N \in Nat, \A r \in D : r < N, NEW size \in [D -> Nat \ {0}]
  PROVE  /\ Slid(size) \in [D -> Nat]
         /\ \A r, q \in D : r < q => Slid(size)[r] + size[r] <= Slid(size)[q]
<1> DEFINE to == Slid(size)
<1>1. /\ DOMAIN to = D
      /\ \A r \in D : to[r] = SlidStep(size, to, r)
  BY SlidUnfolds
<1> DEFINE P == {n \in Nat : \A q \in D : q < n =>
                    /\ to[q] \in Nat
                    /\ \A r \in D : r < q => to[r] + size[r] <= to[q]}
<1> HIDE DEF to
<1>2. 0 \in P
  OBVIOUS
<1>3. ASSUME NEW n \in Nat, n \in P PROVE n + 1 \in P
  <2>1. CASE n \notin D
    <3>1. \A r \in D : r < n + 1 => r < n
      BY <2>1
    <3> QED
      BY <1>3, <3>1
  <2>2. CASE n \in D /\ Below(n, D) = {}
    <3>1. to[n] = 0
      BY <1>1, <2>2 DEF SlidStep
    <3>2. \A r \in D : ~(r < n)
      BY <2>2 DEF Below
    <3>3. \A q \in D : q < n + 1 => q < n \/ q = n
      OBVIOUS
    <3> QED
      BY <1>3, <3>1, <3>2, <3>3
  <2>3. CASE n \in D /\ Below(n, D) # {}
    <3> DEFINE p == Max(Below(n, D))
    <3>1. p \in D /\ p < n /\ \A q \in D : q < n => q <= p
      BY <2>3, LastBelow
    <3>2. to[n] = to[p] + size[p]
      BY <1>1, <2>3 DEF SlidStep
    <3> HIDE DEF p
    <3>3. to[p] \in Nat /\ size[p] \in Nat /\ to[n] \in Nat
      BY <1>3, <3>1, <3>2
    <3>4. ASSUME NEW r \in D, r < n PROVE to[r] + size[r] <= to[n]
      <4>1. CASE r = p
        BY <3>2, <3>3, <4>1
      <4>2. CASE r < p
        <5>1. to[r] + size[r] <= to[p] /\ to[r] \in Nat /\ size[r] \in Nat
          BY <1>3, <3>1, <3>4, <4>2
        <5> QED
          BY <5>1, <3>2, <3>3
      <4> QED
        BY <3>1, <3>4, <4>1, <4>2
    <3>5. \A q \in D : q < n + 1 => q < n \/ q = n
      OBVIOUS
    <3> QED
      BY <1>3, <3>3, <3>4, <3>5
  <2> QED
    BY <2>1, <2>2, <2>3
<1>4. N \in P
  <2> HIDE DEF P
  <2> QED
    BY <1>2, <1>3, CountingUp
<1>5. \A q \in D : to[q] \in Nat /\ \A r \in D : r < q => to[r] + size[r] <= to[q]
  BY <1>4
<1>6. to \in [D -> Nat]
  <2>1. to = [r \in D |-> to[r]]
    BY SlidUnfolds DEF to
  <2> QED
    BY <1>5, <2>1
<1> QED
  BY <1>5, <1>6 DEF to

-----------------------------------------------------------------------------
(* Leaving elements of a sequence out                                      *)

OmitStep(s, gone, kept, n) ==
  IF n = 0 THEN <<>>
  ELSE IF s[n] \in gone THEN kept[n - 1] ELSE Append(kept[n - 1], s[n])

\* The prefixes kept are what their definition says.
LEMMA OmittingUnfolds ==
  ASSUME NEW S, NEW s \in Seq(S), NEW gone
  PROVE  \E kept \in [0..Len(s) -> Seq(S)] :
            /\ \A n \in 0..Len(s) : kept[n] = OmitStep(s, gone, kept, n)
            /\ Omitting(s, gone) = kept[Len(s)]
<1> DEFINE Upto(f, n) == \A k \in 0..Len(s) : k < n => f[k] = OmitStep(s, gone, f, k)
           P == {n \in Nat : \E f \in [0..Len(s) -> Seq(S)] : Upto(f, n)}
<1>0. Len(s) \in Nat /\ \A k \in 1..Len(s) : s[k] \in S
  OBVIOUS
<1>1. 0 \in P
  <2>1. <<>> \in Seq(S)
    OBVIOUS
  <2>2. [k \in 0..Len(s) |-> <<>>] \in [0..Len(s) -> Seq(S)]
    BY <2>1
  <2>3. Upto([k \in 0..Len(s) |-> <<>>], 0)
    OBVIOUS
  <2> QED
    BY <2>2, <2>3
<1>2. ASSUME NEW n \in Nat, n \in P PROVE n + 1 \in P
  <2>1. PICK f \in [0..Len(s) -> Seq(S)] : Upto(f, n)
    BY <1>2
  <2>2. CASE n \notin 0..Len(s)
    <3>1. \A k \in 0..Len(s) : k < n + 1 => k < n
      BY <1>0, <2>2
    <3> QED
      BY <2>1, <3>1
  <2>3. CASE n \in 0..Len(s)
    <3> DEFINE g == [f EXCEPT ![n] = OmitStep(s, gone, f, n)]
    <3>1. ASSUME NEW k \in 0..Len(s), k < n + 1
          PROVE  OmitStep(s, gone, g, k) = OmitStep(s, gone, f, k)
      <4>1. CASE k = 0
        BY <4>1 DEF OmitStep
      <4>2. CASE k # 0
        <5>1. k - 1 \in 0..Len(s) /\ k - 1 # n
          BY <1>0, <3>1, <4>2
        <5>2. g[k - 1] = f[k - 1]
          BY <5>1
        <5> QED
          BY <5>2 DEF OmitStep
      <4> QED
        BY <4>1, <4>2
    <3>2. OmitStep(s, gone, f, n) \in Seq(S)
      <4>1. CASE n = 0
        BY <4>1 DEF OmitStep
      <4>2. CASE n # 0
        <5>1. f[n - 1] \in Seq(S) /\ s[n] \in S
          <6>1. n - 1 \in 0..Len(s) /\ n \in 1..Len(s)
            BY <1>0, <2>3, <4>2
          <6> QED
            BY <1>0, <6>1
        <5>2. Append(f[n - 1], s[n]) \in Seq(S)
          BY <5>1
        <5> QED
          BY <4>2, <5>1, <5>2 DEF OmitStep
      <4> QED
        BY <4>1, <4>2
    <3>3. g \in [0..Len(s) -> Seq(S)]
      BY <3>2
    <3>4. ASSUME NEW k \in 0..Len(s), k < n + 1 PROVE g[k] = OmitStep(s, gone, f, k)
      <4>1. CASE k = n
        BY <4>1
      <4>2. CASE k # n
        <5>1. k < n
          BY <3>4, <4>2
        <5> QED
          BY <2>1, <4>2, <5>1
      <4> QED
        BY <4>1, <4>2
    <3> HIDE DEF g
    <3>5. Upto(g, n + 1)
      BY <3>1, <3>4
    <3> QED
      BY <3>3, <3>5
  <2> QED
    BY <2>2, <2>3
<1>3. Len(s) + 1 \in P
  <2> HIDE DEF P
  <2> QED
    BY <1>0, <1>1, <1>2, CountingUp
<1>4. PICK f \in [0..Len(s) -> Seq(S)] : \A k \in 0..Len(s) : f[k] = OmitStep(s, gone, f, k)
  BY <1>0, <1>3
<1> DEFINE kept == CHOOSE g : g = [n \in 0..Len(s) |-> OmitStep(s, gone, g, n)]
<1>5. f = [n \in 0..Len(s) |-> OmitStep(s, gone, f, n)]
  BY <1>4
<1>6. kept = [n \in 0..Len(s) |-> OmitStep(s, gone, kept, n)]
  BY <1>5
<1>7. Omitting(s, gone) = kept[Len(s)]
  BY DEF Omitting, OmitStep
<1> HIDE DEF kept
<1>8. /\ DOMAIN kept = 0..Len(s)
      /\ \A n \in 0..Len(s) : kept[n] = OmitStep(s, gone, kept, n)
  BY <1>6
<1> DEFINE Q == {n \in Nat : n \in 0..Len(s) => kept[n] \in Seq(S)}
<1>9. 0 \in Q
  <2>1. kept[0] = <<>> /\ <<>> \in Seq(S)
    BY <1>0, <1>8 DEF OmitStep
  <2> QED
    BY <2>1
<1>10. ASSUME NEW n \in Nat, n \in Q PROVE n + 1 \in Q
  <2>1. CASE n + 1 \in 0..Len(s)
    <3>1. kept[n] \in Seq(S) /\ s[n + 1] \in S
      BY <1>0, <1>10, <2>1
    <3>2. kept[n + 1] = IF s[n + 1] \in gone THEN kept[n] ELSE Append(kept[n], s[n + 1])
      <4>1. kept[n + 1] = OmitStep(s, gone, kept, n + 1) /\ n + 1 # 0 /\ (n + 1) - 1 = n
        BY <1>8, <2>1
      <4> QED
        BY <4>1 DEF OmitStep
    <3>3. kept[n + 1] \in Seq(S)
      BY <3>1, <3>2
    <3> QED
      BY <3>3
  <2> QED
    BY <2>1
<1>11. \A n \in 0..Len(s) : kept[n] \in Seq(S)
  <2>1. Nat \subseteq Q
    <3> HIDE DEF Q
    <3> QED
      BY <1>9, <1>10, CountingUp
  <2> QED
    BY <1>0, <2>1
<1>12. kept \in [0..Len(s) -> Seq(S)]
  BY <1>6, <1>8, <1>11
<1> QED
  BY <1>7, <1>8, <1>12

\* A sequence put behind elements that are not in it stays without repetition.
LEMMA AppendDistinct ==
  ASSUME NEW S, NEW s \in Seq(S), Distinct(s), NEW e \in S, e \notin Elements(s)
  PROVE  /\ Append(s, e) \in Seq(S) /\ Distinct(Append(s, e))
         /\ Elements(Append(s, e)) = Elements(s) \cup {e}
<1> DEFINE t == Append(s, e)
<1>1. /\ t \in Seq(S) /\ Len(t) = Len(s) + 1 /\ t[Len(s) + 1] = e
      /\ \A i \in 1..Len(s) : t[i] = s[i] 
      /\ Len(s) \in Nat
  OBVIOUS
<1>2. \A i \in 1..Len(s) : s[i] # e
  BY DEF Elements
<1> HIDE DEF t
<1>3. Distinct(t)
  BY <1>1, <1>2 DEF Distinct
<1>4. Elements(t) = Elements(s) \cup {e}
  <2>1. \A i \in 1..Len(t) : t[i] \in Elements(s) \cup {e}
    BY <1>1 DEF Elements
  <2>2. \A i \in 1..Len(s) : i \in 1..Len(t) /\ s[i] = t[i]
    BY <1>1
  <2>3. Len(s) + 1 \in 1..Len(t)
    BY <1>1
  <2>4. Elements(s) \cup {e} \subseteq Elements(t)
    BY <1>1, <2>2, <2>3 DEF Elements
  <2> QED
    BY <2>1, <2>4 DEF Elements
<1> QED
  BY <1>1, <1>3, <1>4 DEF t

\* What is left keeps its order apart: no repetition, the elements that are not
\* gone, and all of those.
LEMMA OmittingIs ==
  ASSUME NEW S, NEW s \in Seq(S), Distinct(s), NEW gone
  PROVE  /\ Omitting(s, gone) \in Seq(S) /\ Distinct(Omitting(s, gone))
         /\ Elements(Omitting(s, gone)) = Elements(s) \ gone
<1>0. Len(s) \in Nat /\ \A k \in 1..Len(s) : s[k] \in S
  OBVIOUS
<1>1. PICK kept \in [0..Len(s) -> Seq(S)] :
        /\ \A n \in 0..Len(s) : kept[n] = OmitStep(s, gone, kept, n)
        /\ Omitting(s, gone) = kept[Len(s)]
  BY OmittingUnfolds, ZenonT(30)
<1> DEFINE Front(n) == {s[i] : i \in 1..n}
           P == {n \in Nat : n <= Len(s) =>
                   /\ Distinct(kept[n]) /\ Elements(kept[n]) = Front(n) \ gone}
<1>2. 0 \in P
  <2>1. kept[0] = <<>>
    BY <1>0, <1>1 DEF OmitStep
  <2> QED
    BY <2>1 DEF Distinct, Elements
<1>3. ASSUME NEW n \in Nat, n \in P, n + 1 <= Len(s)
      PROVE  Distinct(kept[n + 1]) /\ Elements(kept[n + 1]) = Front(n + 1) \ gone
  <2>1. n \in 0..Len(s) /\ n + 1 \in 0..Len(s) /\ n + 1 \in 1..Len(s)
    BY <1>0, <1>3
  <2>2. kept[n] \in Seq(S) /\ Distinct(kept[n]) /\ Elements(kept[n]) = Front(n) \ gone
    BY <1>1, <1>3, <2>1
  <2>3. kept[n + 1] = IF s[n + 1] \in gone THEN kept[n] ELSE Append(kept[n], s[n + 1])
    <3>1. kept[n + 1] = OmitStep(s, gone, kept, n + 1) /\ n + 1 # 0 /\ (n + 1) - 1 = n
      BY <1>1, <2>1
    <3> QED
      BY <3>1 DEF OmitStep
  <2>4. Front(n + 1) = Front(n) \cup {s[n + 1]}
    <3>1. \A i \in 1..(n + 1) : i \in 1..n \/ i = n + 1
      OBVIOUS
    <3>2. 1..n \subseteq 1..(n + 1) /\ n + 1 \in 1..(n + 1)
      OBVIOUS
    <3> QED
      BY <3>1, <3>2
  <2>5. s[n + 1] \notin Front(n)
    <3>1. \A i \in 1..n : i \in 1..Len(s) /\ i # n + 1
      BY <1>0, <2>1
    <3> QED
      BY <2>1, <3>1 DEF Distinct
  <2> HIDE DEF Front
  <2>6. CASE s[n + 1] \in gone
    BY <2>2, <2>3, <2>4, <2>6
  <2>7. CASE s[n + 1] \notin gone
    <3>1. s[n + 1] \in S /\ s[n + 1] \notin Elements(kept[n])
      BY <1>0, <2>1, <2>2, <2>5
    <3>2. /\ Distinct(Append(kept[n], s[n + 1]))
          /\ Elements(Append(kept[n], s[n + 1])) = Elements(kept[n]) \cup {s[n + 1]}
      BY <2>2, <3>1, AppendDistinct
    <3> QED
      BY <2>2, <2>3, <2>4, <2>7, <3>2
  <2> QED
    BY <2>6, <2>7
<1>4. ASSUME NEW n \in Nat, n \in P PROVE n + 1 \in P
  <2>1. n + 1 <= Len(s) => Distinct(kept[n + 1]) /\ Elements(kept[n + 1]) = Front(n + 1) \ gone
    <3> HIDE DEF P, Front
    <3> QED
      BY <1>3, <1>4
  <2>2. n + 1 \in Nat
    OBVIOUS
  <2> HIDE DEF Front
  <2> QED
    BY <2>1, <2>2
<1>5. Len(s) \in P
  <2> HIDE DEF P
  <2> QED
    BY <1>0, <1>2, <1>4, CountingUp
<1>6. Front(Len(s)) = Elements(s)
  BY DEF Elements
<1> QED
  BY <1>0, <1>1, <1>5, <1>6

-----------------------------------------------------------------------------
(* Arenas and the lists that name what is in them                          *)

Named(stated, learned) == stated \cup Elements(learned)

\* Two references that share an offset, or a name, are one.
LEMMA HoldsApart ==
  ASSUME NEW ar, NEW tp, NEW stated, NEW learned, NEW names, Intact(ar, tp, stated, learned, names)
  PROVE  /\ Named(stated, learned) \subseteq Holds
         /\ \A g, h \in Named(stated, learned) : g.ref = h.ref \/ g.id = h.id => g = h
<1>1. \A i \in 1..Len(learned) : learned[i] \in Holds
  BY DEF Intact
<1>2. Named(stated, learned) \subseteq Holds
  BY <1>1 DEF Intact, Named, Elements
<1>3. \A h \in Named(stated, learned) : h.ref \in DOMAIN ar /\ ar[h.ref].id = h.id
  BY DEF Intact, Named
<1>4. \A r, q \in DOMAIN ar : ar[r].id = ar[q].id => r = q
  BY DEF Intact
<1>5. \A g, h \in Holds : g.ref = h.ref /\ g.id = h.id => g = h
  BY DEF Holds
<1> QED
  BY <1>2, <1>3, <1>4, <1>5

\* Blocks may change their literals, as long as none is lengthened, and their
\* use and glue.
LEMMA IntactAlike ==
  ASSUME NEW ar, NEW tp, NEW stated, NEW learned, NEW names, Intact(ar, tp, stated, learned, names),
         NEW br, DOMAIN br = DOMAIN ar, br \in [DOMAIN br -> Blocks],
         \A r \in DOMAIN ar : /\ br[r].id = ar[r].id /\ br[r].alive = ar[r].alive
                              /\ br[r].redundant = ar[r].redundant
                              /\ Len(br[r].lits) <= Len(ar[r].lits)
  PROVE  Intact(br, tp, stated, learned, names)
<1>1. \A r \in DOMAIN ar : /\ Size(br[r]) <= Size(ar[r]) /\ Size(br[r]) \in Nat
                           /\ Size(ar[r]) \in Nat
  <2>1. \A b \in Blocks : Len(b.lits) \in Nat
    BY DEF Blocks
  <2>2. \A r \in DOMAIN ar : Len(br[r].lits) \in Nat /\ Len(ar[r].lits) \in Nat
    BY <2>1 DEF Intact
  <2> QED
    BY <2>2 DEF Size
<1>2. \A r \in DOMAIN ar : r \in Nat /\ r + Size(ar[r]) <= tp /\ tp \in Nat
  BY DEF Intact
<1>3. \A r \in DOMAIN ar : r + Size(br[r]) <= tp
  BY <1>1, <1>2
<1>4. \A r, q \in DOMAIN ar : r < q => r + Size(br[r]) <= q
  <2>1. \A r, q \in DOMAIN ar : r < q => r + Size(ar[r]) <= q
    BY DEF Intact
  <2> QED
    BY <1>1, <1>2, <2>1
<1>5. /\ stated \subseteq Holds /\ learned \in Seq(Holds) /\ Distinct(learned)
      /\ stated \cap Elements(learned) = {}
      /\ \A r \in DOMAIN br : br[r].id <= names
      /\ \A r, q \in DOMAIN br : br[r].id = br[q].id => r = q
      /\ tp \in Nat /\ DOMAIN br \subseteq Nat
  BY DEF Intact
<1>6. /\ \A h \in stated \cup Elements(learned) :
           /\ h.ref \in DOMAIN br /\ br[h.ref].id = h.id /\ br[h.ref].alive
           /\ br[h.ref].redundant = (h \in Elements(learned))
      /\ \A r \in DOMAIN br : br[r].alive => r \in RefsOf(stated \cup Elements(learned))
  BY DEF Intact
<1> QED
  BY <1>3, <1>4, <1>5, <1>6 DEF Intact

WithNew(ar, tp, b) == [r \in DOMAIN ar \cup {tp} |-> IF r = tp THEN b ELSE ar[r]]

\* What its holder h adds to the two lists: a redundant block to the learned.
Joined(b, h, stated, learned, bstated, blearned) ==
  \/ ~b.redundant /\ bstated = stated \cup {h} /\ blearned = learned
  \/ b.redundant /\ bstated = stated /\ blearned = Append(learned, h)

\* A clause put at the end of the arena, under a new name, and into one of the
\* two lists.
LEMMA IntactWithNew ==
  ASSUME NEW ar, NEW tp, NEW stated, NEW learned, NEW names \in Nat,
         Intact(ar, tp, stated, learned, names),
         NEW b \in Blocks, b.id = names + 1, b.alive,
         NEW br, br = WithNew(ar, tp, b),
         NEW bstated, NEW blearned,
         Joined(b, Hold(tp, names + 1), stated, learned, bstated, blearned)
  PROVE  /\ Intact(br, tp + Size(b), bstated, blearned, names + 1)
         /\ Named(bstated, blearned) = Named(stated, learned) \cup {Hold(tp, names + 1)}
         /\ tp \notin DOMAIN ar
<1> DEFINE h == Hold(tp, names + 1)
<1>0. /\ tp \in Nat /\ DOMAIN ar \subseteq Nat /\ ar \in [DOMAIN ar -> Blocks]
      /\ Size(b) \in Nat \ {0} /\ h \in Holds /\ h.ref = tp /\ h.id = names + 1
  BY DEF Intact, Size, Blocks, Hold, Holds
<1>1. \A r \in DOMAIN ar : /\ Size(ar[r]) \in Nat \ {0} /\ r + Size(ar[r]) <= tp /\ r \in Nat
                           /\ ar[r].id <= names /\ ar[r].id \in Nat
  <2>1. \A c \in Blocks : Size(c) \in Nat \ {0} /\ c.id \in Nat
    BY DEF Size, Blocks
  <2> QED
    BY <1>0, <2>1 DEF Intact
<1>2. tp \notin DOMAIN ar
  BY <1>0, <1>1
<1>3. /\ DOMAIN br = DOMAIN ar \cup {tp} /\ br[tp] = b
      /\ \A r \in DOMAIN ar : br[r] = ar[r]
      /\ br = [r \in DOMAIN br |-> br[r]]
  BY <1>2 DEF WithNew
<1>4. h \notin Elements(learned) /\ h \notin stated
  BY <1>0, <1>2 DEF Intact
<1>5. /\ bstated \subseteq Holds /\ blearned \in Seq(Holds) /\ Distinct(blearned)
      /\ Elements(blearned) = IF b.redundant THEN Elements(learned) \cup {h} ELSE Elements(learned)
      /\ bstated \cap Elements(blearned) = {}
  <2>1. stated \cap Elements(learned) = {} /\ stated \subseteq Holds /\ learned \in Seq(Holds) /\ Distinct(learned)
    BY DEF Intact
  <2>2. /\ ~b.redundant => bstated = stated \cup {h} /\ blearned = learned
        /\ b.redundant => bstated = stated /\ blearned = Append(learned, h)
    BY DEF Joined
  <2>3. h \in Holds
    BY <1>0
  <2> HIDE DEF h
  <2>4. CASE ~b.redundant
    <3>1. bstated = stated \cup {h} /\ blearned = learned
      BY <2>2, <2>4
    <3>2. bstated \cap Elements(blearned) = {}
      BY <1>4, <2>1, <3>1
    <3> QED
      BY <2>1, <2>3, <2>4, <3>1, <3>2
  <2>5. CASE b.redundant
    <3>1. bstated = stated /\ blearned = Append(learned, h)
      BY <2>2, <2>5
    <3>2. /\ Append(learned, h) \in Seq(Holds) /\ Distinct(Append(learned, h))
          /\ Elements(Append(learned, h)) = Elements(learned) \cup {h}
      BY <1>4, <2>1, <2>3, AppendDistinct
    <3>3. bstated \cap Elements(blearned) = {}
      BY <1>4, <2>1, <3>1, <3>2
    <3> QED
      BY <2>1, <2>5, <3>1, <3>2, <3>3
  <2> QED
    BY <2>4, <2>5
<1>6. Named(bstated, blearned) = Named(stated, learned) \cup {h}
  BY <1>5 DEF Named, Joined
<1>7. br \in [DOMAIN br -> Blocks] /\ tp + Size(b) \in Nat /\ DOMAIN br \subseteq Nat
  BY <1>0, <1>3
<1>8. \A r \in DOMAIN br : br[r].id <= names + 1 /\ r + Size(br[r]) <= tp + Size(b)
  <2>1. \A r \in DOMAIN ar : br[r].id <= names + 1 /\ r + Size(br[r]) <= tp + Size(b)
    BY <1>0, <1>1, <1>3
  <2>2. br[tp].id <= names + 1 /\ tp + Size(br[tp]) <= tp + Size(b)
    BY <1>0, <1>3
  <2> QED
    BY <1>3, <2>1, <2>2
<1>9. ASSUME NEW r \in DOMAIN br, NEW q \in DOMAIN br
      PROVE  (r < q => r + Size(br[r]) <= q) /\ (br[r].id = br[q].id => r = q)
  <2>1. CASE r \in DOMAIN ar /\ q \in DOMAIN ar
    BY <1>3, <2>1 DEF Intact
  <2>2. CASE r \in DOMAIN ar /\ q = tp
    BY <1>0, <1>1, <1>3, <2>2
  <2>3. CASE r = tp /\ q \in DOMAIN ar
    BY <1>0, <1>1, <1>3, <2>3
  <2>4. CASE r = tp /\ q = tp
    BY <1>0, <2>4
  <2> QED
    BY <1>3, <2>1, <2>2, <2>3, <2>4
<1>10. ASSUME NEW g \in Named(bstated, blearned)
       PROVE  /\ g.ref \in DOMAIN br /\ br[g.ref].id = g.id /\ br[g.ref].alive
              /\ br[g.ref].redundant = (g \in Elements(blearned))
  <2>1. CASE g = h
    <3>1. b.redundant = (h \in Elements(blearned))
      BY <1>4, <1>5 DEF Blocks
    <3> HIDE DEF h
    <3> QED
      BY <1>0, <1>3, <2>1, <3>1
  <2>2. CASE g \in Named(stated, learned) /\ g # h
    <3>1. /\ g.ref \in DOMAIN ar /\ ar[g.ref].id = g.id /\ ar[g.ref].alive
          /\ ar[g.ref].redundant = (g \in Elements(learned))
      BY <2>2 DEF Intact, Named
    <3>2. (g \in Elements(blearned)) = (g \in Elements(learned))
      BY <1>5, <2>2
    <3> QED
      BY <1>3, <3>1, <3>2
  <2> QED
    BY <1>6, <2>1, <2>2
<1>11. ASSUME NEW r \in DOMAIN br, br[r].alive PROVE r \in RefsOf(Named(bstated, blearned))
  <2>1. CASE r = tp
    <3> HIDE DEF h
    <3> QED
      BY <1>0, <1>6, <2>1 DEF RefsOf
  <2>2. CASE r \in DOMAIN ar
    <3>1. r \in RefsOf(Named(stated, learned))
      BY <1>3, <1>11, <2>2 DEF Intact, Named
    <3> QED
      BY <1>6, <3>1 DEF RefsOf
  <2> QED
    BY <1>3, <2>1, <2>2
<1>12. Intact(br, tp + Size(b), bstated, blearned, names + 1)
  <2>1. \A r, q \in DOMAIN br : r < q => r + Size(br[r]) <= q
    BY <1>9
  <2>2. \A r, q \in DOMAIN br : br[r].id = br[q].id => r = q
    BY <1>9
  <2> QED
    BY <1>5, <1>7, <1>8, <1>10, <1>11, <2>1, <2>2 DEF Intact, Named
<1> QED
  BY <1>2, <1>6, <1>12

MarkedDead(ar, gone) ==
  [o \in DOMAIN ar |-> IF o \in RefsOf(gone) THEN [ar[o] EXCEPT !.alive = FALSE] ELSE ar[o]]

\* Clauses taken off the lists and marked dead.
LEMMA IntactRemoved ==
  ASSUME NEW ar, NEW tp, NEW stated, NEW learned, NEW names, Intact(ar, tp, stated, learned, names),
         NEW gone \in SUBSET Named(stated, learned),
         NEW br, br = MarkedDead(ar, gone)
  PROVE  /\ Intact(br, tp, stated \ gone, Omitting(learned, gone), names)
         /\ Named(stated \ gone, Omitting(learned, gone)) = Named(stated, learned) \ gone
<1> DEFINE kept == Omitting(learned, gone)
<1>1. kept \in Seq(Holds) /\ Distinct(kept) /\ Elements(kept) = Elements(learned) \ gone
  BY OmittingIs DEF Intact
<1> HIDE DEF kept
<1>2. Named(stated \ gone, kept) = Named(stated, learned) \ gone
  BY <1>1 DEF Named
<1>3. \A b \in Blocks : /\ [b EXCEPT !.alive = FALSE] \in Blocks
                        /\ [b EXCEPT !.alive = FALSE].id = b.id
                        /\ [b EXCEPT !.alive = FALSE].lits = b.lits
                        /\ [b EXCEPT !.alive = FALSE].redundant = b.redundant
                        /\ ~[b EXCEPT !.alive = FALSE].alive
  BY DEF Blocks
<1>4. ASSUME NEW r \in DOMAIN ar
      PROVE  /\ br[r] \in Blocks /\ br[r].id = ar[r].id /\ br[r].lits = ar[r].lits
             /\ br[r].redundant = ar[r].redundant
             /\ r \in RefsOf(gone) => ~br[r].alive
             /\ r \notin RefsOf(gone) => br[r].alive = ar[r].alive
  <2>1. ar[r] \in Blocks
    BY DEF Intact
  <2> QED
    BY <1>3, <2>1 DEF MarkedDead
<1>5. DOMAIN br = DOMAIN ar /\ br \in [DOMAIN br -> Blocks]
  <2>1. DOMAIN br = DOMAIN ar /\ br = [o \in DOMAIN br |-> br[o]]
    BY DEF MarkedDead
  <2>2. \A o \in DOMAIN br : br[o] \in Blocks
    BY <1>4, <2>1
  <2> QED
    BY <2>1, <2>2
<1>6. \A h \in Named(stated, learned) \ gone : h.ref \notin RefsOf(gone)
  BY HoldsApart DEF RefsOf
<1>7. ASSUME NEW h \in Named(stated \ gone, kept)
      PROVE  /\ h.ref \in DOMAIN br /\ br[h.ref].id = h.id /\ br[h.ref].alive
             /\ br[h.ref].redundant = (h \in Elements(kept))
  <2>1. /\ h.ref \in DOMAIN ar /\ ar[h.ref].id = h.id /\ ar[h.ref].alive
        /\ ar[h.ref].redundant = (h \in Elements(learned))
    BY <1>2 DEF Intact, Named
  <2>2. h \notin gone /\ h.ref \notin RefsOf(gone)
    BY <1>2, <1>6
  <2> QED
    BY <1>1, <1>4, <1>5, <2>1, <2>2
<1>8. ASSUME NEW r \in DOMAIN br, br[r].alive PROVE r \in RefsOf(Named(stated \ gone, kept))
  <2>1. r \in DOMAIN ar /\ r \notin RefsOf(gone) /\ ar[r].alive
    BY <1>4, <1>5, <1>8
  <2>2. PICK h \in Named(stated, learned) : h.ref = r
    BY <2>1 DEF Intact, Named, RefsOf
  <2>3. h \notin gone
    BY <2>1, <2>2 DEF RefsOf
  <2> QED
    BY <1>2, <2>2, <2>3 DEF RefsOf
<1>9. /\ \A r \in DOMAIN br : br[r].id <= names /\ r + Size(br[r]) <= tp
      /\ \A r, q \in DOMAIN br : r < q => r + Size(br[r]) <= q
      /\ \A r, q \in DOMAIN br : br[r].id = br[q].id => r = q
  <2>1. \A r \in DOMAIN br : br[r].id = ar[r].id /\ Size(br[r]) = Size(ar[r])
    BY <1>4, <1>5 DEF Size
  <2>2. /\ \A r \in DOMAIN ar : ar[r].id <= names /\ r + Size(ar[r]) <= tp
        /\ \A r, q \in DOMAIN ar : r < q => r + Size(ar[r]) <= q
        /\ \A r, q \in DOMAIN ar : ar[r].id = ar[q].id => r = q
    BY DEF Intact
  <2> QED
    BY <1>5, <2>1, <2>2
<1>10. /\ tp \in Nat /\ DOMAIN br \subseteq Nat /\ stated \ gone \subseteq Holds
       /\ (stated \ gone) \cap Elements(kept) = {}
  BY <1>1, <1>5 DEF Intact
<1>11. Intact(br, tp, stated \ gone, kept, names)
  BY <1>1, <1>5, <1>7, <1>8, <1>9, <1>10 DEF Intact, Named
<1> QED
  BY <1>2, <1>11 DEF kept

Promoted(ar, r) ==
  [o \in DOMAIN ar |-> IF o = r THEN [ar[o] EXCEPT !.redundant = FALSE] ELSE ar[o]]

\* A learned clause that takes a stated one's place.
LEMMA IntactPromoted ==
  ASSUME NEW ar, NEW tp, NEW stated, NEW learned, NEW names, Intact(ar, tp, stated, learned, names),
         NEW h \in Elements(learned),
         NEW br, br = Promoted(ar, h.ref)
  PROVE  /\ Intact(br, tp, stated \cup {h}, Omitting(learned, {h}), names)
         /\ Named(stated \cup {h}, Omitting(learned, {h})) = Named(stated, learned)
<1> DEFINE kept == Omitting(learned, {h})
<1>1. kept \in Seq(Holds) /\ Distinct(kept) /\ Elements(kept) = Elements(learned) \ {h}
  BY OmittingIs DEF Intact
<1> HIDE DEF kept
<1>2. Named(stated \cup {h}, kept) = Named(stated, learned)
  BY <1>1 DEF Named
<1>3. \A b \in Blocks : /\ [b EXCEPT !.redundant = FALSE] \in Blocks
                        /\ [b EXCEPT !.redundant = FALSE].id = b.id
                        /\ [b EXCEPT !.redundant = FALSE].lits = b.lits
                        /\ [b EXCEPT !.redundant = FALSE].alive = b.alive
                        /\ [b EXCEPT !.redundant = FALSE].redundant = FALSE
  BY DEF Blocks
<1>4. h \in Named(stated, learned) /\ h \in Holds /\ h.ref \in DOMAIN ar
  <2>1. h \in Named(stated, learned)
    BY DEF Named
  <2>2. h \in Holds
    BY <2>1, HoldsApart
  <2>3. h.ref \in DOMAIN ar
    BY <2>1 DEF Intact, Named
  <2> QED
    BY <2>1, <2>2, <2>3
<1>5. ar \in [DOMAIN ar -> Blocks]
  BY DEF Intact
<1>6. ASSUME NEW r \in DOMAIN ar
      PROVE  /\ br[r] \in Blocks /\ br[r].id = ar[r].id /\ br[r].lits = ar[r].lits
             /\ br[r].alive = ar[r].alive
             /\ r = h.ref => br[r].redundant = FALSE
             /\ r # h.ref => br[r].redundant = ar[r].redundant
  <2>1. ar[r] \in Blocks
    BY <1>5
  <2> QED
    BY <1>3, <2>1 DEF Promoted
<1>7. DOMAIN br = DOMAIN ar /\ br \in [DOMAIN br -> Blocks]
  <2>1. DOMAIN br = DOMAIN ar
    BY DEF Promoted
  <2>2. br = [o \in DOMAIN br |-> br[o]]
    BY DEF Promoted
  <2>3. \A o \in DOMAIN br : br[o] \in Blocks
    BY <1>6, <2>1
  <2> QED
    BY <2>1, <2>2, <2>3
<1>8. ASSUME NEW g \in Named(stated \cup {h}, kept)
      PROVE  /\ g.ref \in DOMAIN br /\ br[g.ref].id = g.id /\ br[g.ref].alive
             /\ br[g.ref].redundant = (g \in Elements(kept))
  <2>1. /\ g.ref \in DOMAIN ar /\ ar[g.ref].id = g.id /\ ar[g.ref].alive
        /\ ar[g.ref].redundant = (g \in Elements(learned))
    BY <1>2 DEF Intact, Named
  <2>2. g.ref = h.ref => g = h
    BY <1>2, <1>4, HoldsApart
  <2>3. g.ref \in DOMAIN br /\ br[g.ref].id = g.id /\ br[g.ref].alive
    BY <1>6, <1>7, <2>1
  <2>4. CASE g = h
    <3>1. br[g.ref].redundant = FALSE
      BY <1>6, <2>1, <2>4
    <3>2. (g \in Elements(kept)) = FALSE
      BY <1>1, <2>4
    <3> QED
      BY <2>3, <3>1, <3>2
  <2>5. CASE g # h
    <3>1. br[g.ref].redundant = ar[g.ref].redundant
      BY <1>6, <2>1, <2>2, <2>5
    <3>2. (g \in Elements(kept)) = (g \in Elements(learned))
      BY <1>1, <2>5
    <3> QED
      BY <2>1, <2>3, <3>1, <3>2
  <2> QED
    BY <2>4, <2>5
<1>9. ASSUME NEW r \in DOMAIN br, br[r].alive
      PROVE  r \in RefsOf(Named(stated \cup {h}, kept))
  BY <1>2, <1>6, <1>7, <1>9 DEF Intact, Named
<1>10. /\ \A r \in DOMAIN br : br[r].id <= names /\ r + Size(br[r]) <= tp
       /\ \A r, q \in DOMAIN br : r < q => r + Size(br[r]) <= q
       /\ \A r, q \in DOMAIN br : br[r].id = br[q].id => r = q
  <2>1. \A r \in DOMAIN br : br[r].id = ar[r].id /\ Size(br[r]) = Size(ar[r])
    BY <1>6, <1>7 DEF Size
  <2>2. /\ \A r \in DOMAIN ar : ar[r].id <= names /\ r + Size(ar[r]) <= tp
        /\ \A r, q \in DOMAIN ar : r < q => r + Size(ar[r]) <= q
        /\ \A r, q \in DOMAIN ar : ar[r].id = ar[q].id => r = q
    BY DEF Intact
  <2> QED
    BY <1>7, <2>1, <2>2
<1>11. /\ tp \in Nat /\ DOMAIN br \subseteq Nat /\ stated \cup {h} \subseteq Holds
       /\ (stated \cup {h}) \cap Elements(kept) = {}
  BY <1>1, <1>4, <1>7 DEF Intact
<1>12. Intact(br, tp, stated \cup {h}, kept, names)
  BY <1>1, <1>7, <1>8, <1>9, <1>10, <1>11 DEF Intact, Named
<1> QED
  BY <1>2, <1>12 DEF kept

\* Where a compaction moves the blocks of live clauses to.
LEMMA TargetsApart ==
  ASSUME NEW stated, NEW learned, NEW names, Intact(arena, top, stated, learned, names),
         NEW live \in SUBSET DOMAIN arena
  PROVE  /\ TopAfter(live) \in Nat
         /\ \A r \in live : /\ Target(r, live) \in Nat
                            /\ Target(r, live) + Size(arena[r]) <= TopAfter(live)
         /\ \A r, q \in live : /\ r < q => Target(r, live) + Size(arena[r]) <= Target(q, live)
                               /\ Target(r, live) = Target(q, live) => r = q
<1> DEFINE size == [q \in live |-> Size(arena[q])]
<1>1. /\ live \subseteq Nat /\ top \in Nat
      /\ \A r \in live : Size(arena[r]) \in Nat \ {0} /\ r < top
  <2>1. \A b \in Blocks : Size(b) \in Nat \ {0}
    BY DEF Blocks, Size
  <2>2. \A r \in live : r \in Nat /\ arena[r] \in Blocks /\ r + Size(arena[r]) <= top /\ top \in Nat
    BY DEF Intact
  <2>3. top \in Nat
    BY DEF Intact
  <2> QED
    BY <2>1, <2>2, <2>3
<1>2. size \in [live -> Nat \ {0}] /\ \A r \in live : size[r] = Size(arena[r])
  BY <1>1
<1>3. \A r \in live : Target(r, live) = Slid(size)[r]
  BY DEF Target
<1> HIDE DEF size
<1>4. /\ Slid(size) \in [live -> Nat]
      /\ \A r, q \in live : r < q => Slid(size)[r] + size[r] <= Slid(size)[q]
  BY <1>1, <1>2, SlidApart
<1>5. /\ \A r \in live : Target(r, live) \in Nat
      /\ \A r, q \in live : r < q => Target(r, live) + Size(arena[r]) <= Target(q, live)
  BY <1>2, <1>3, <1>4
<1>6. ASSUME NEW r \in live, NEW q \in live, Target(r, live) = Target(q, live) PROVE r = q
  <2>1. CASE r < q
    <3>1. Target(r, live) + Size(arena[r]) <= Target(q, live)
      BY <1>5, <2>1
    <3> QED
      BY <1>1, <1>5, <1>6, <3>1
  <2>2. CASE q < r
    <3>1. Target(q, live) + Size(arena[q]) <= Target(r, live)
      BY <1>5, <2>2
    <3> QED
      BY <1>1, <1>5, <1>6, <3>1
  <2> QED
    BY <1>1, <2>1, <2>2
<1>7. CASE live = {}
  BY <1>5, <1>6, <1>7 DEF TopAfter
<1>8. CASE live # {}
  <2>1. live \in SUBSET (0..top)
    BY <1>1
  <2>2. Max(live) \in live /\ \A k \in live : k <= Max(live)
    BY <1>1, <1>8, <2>1, MaxIs
  <2>3. TopAfter(live) = Target(Max(live), live) + Size(arena[Max(live)])
    BY <1>8 DEF TopAfter
  <2>4. TopAfter(live) \in Nat
    BY <1>1, <1>5, <2>2, <2>3
  <2>5. ASSUME NEW r \in live PROVE Target(r, live) + Size(arena[r]) <= TopAfter(live)
    <3>1. CASE r = Max(live)
      BY <1>1, <1>5, <2>2, <2>3, <3>1
    <3>2. CASE r < Max(live)
      <4>1. Target(r, live) + Size(arena[r]) <= Target(Max(live), live)
        BY <1>5, <2>2, <3>2
      <4> QED
        BY <1>1, <1>5, <2>2, <2>3, <4>1
    <3>3. r \in Nat /\ Max(live) \in Nat /\ r <= Max(live)
      BY <1>1, <2>2
    <3> QED
      BY <3>1, <3>2, <3>3
  <2> QED
    BY <1>5, <1>6, <2>4, <2>5
<1> QED
  BY <1>7, <1>8

Moved(h, to) == Hold(to[h.ref], h.id)

\* Blocks are carried to other offsets, apart from each other, and the references
\* to them are changed alike; what is not named is left behind.
Carries(ar, kstated, klearned, live, to, bp, br, bstated, blearned) ==
  /\ klearned \in Seq(Holds) /\ Distinct(klearned)
  /\ \A h \in Named(kstated, klearned) : h.ref \in live
  /\ \A r \in live : \E h \in Named(kstated, klearned) : h.ref = r
  /\ to \in [live -> Nat] /\ bp \in Nat
  /\ \A r \in live : to[r] + Size(ar[r]) <= bp
  /\ \A r, q \in live : r < q => to[r] + Size(ar[r]) <= to[q]
  /\ br \in [DOMAIN br -> Blocks]
  /\ \A o : o \in DOMAIN br <=> \E r \in live : to[r] = o
  /\ \A r \in live : /\ br[to[r]].id = ar[r].id /\ br[to[r]].alive = ar[r].alive
                     /\ br[to[r]].redundant = ar[r].redundant
                     /\ br[to[r]].lits = ar[r].lits
  /\ \A g : g \in bstated <=> \E h \in kstated : g = Moved(h, to)
  /\ blearned \in Seq(Holds) /\ Len(blearned) = Len(klearned)
  /\ \A i \in 1..Len(klearned) : blearned[i] = Moved(klearned[i], to)

\* Some clauses go and the rest slide down, in the arena as in the lists: what
\* is kept stays intact (storage::compact, database::compact).
LEMMA IntactMoved ==
  ASSUME NEW ar, NEW tp, NEW stated, NEW learned, NEW names, Intact(ar, tp, stated, learned, names),
         NEW kstated \in SUBSET stated, NEW klearned, Elements(klearned) \subseteq Elements(learned),
         NEW live, NEW to, NEW bp, NEW br, NEW bstated, NEW blearned,
         Carries(ar, kstated, klearned, live, to, bp, br, bstated, blearned)
  PROVE  /\ Intact(br, bp, bstated, blearned, names)
         /\ \A g : g \in Named(bstated, blearned) <=>
                      \E h \in Named(kstated, klearned) : g = Moved(h, to)
<1> USE DEF Carries
<1> DEFINE K == Named(kstated, klearned)
<1>1. K \subseteq Named(stated, learned)
  BY DEF Named
<1>2. \A h \in K : /\ h \in Holds /\ h.ref \in live /\ Moved(h, to) \in Holds
                   /\ Moved(h, to).ref = to[h.ref] /\ Moved(h, to).id = h.id
  <2>1. \A h \in K : h \in Holds /\ h.ref \in live /\ to[h.ref] \in Nat
    BY <1>1, HoldsApart
  <2> HIDE DEF K
  <2> QED
    BY <2>1 DEF Moved, Hold, Holds
<1>3. \A g, h \in K : Moved(g, to) = Moved(h, to) => g = h
  BY <1>1, <1>2, HoldsApart
<1>4. /\ kstated \subseteq K /\ Elements(klearned) \subseteq K
      /\ \A i \in 1..Len(klearned) : klearned[i] \in Elements(klearned)
      /\ \A g \in K : g \in kstated \/ g \in Elements(klearned)
  BY DEF Named, Elements
<1> HIDE DEF K
<1>5. \A g : g \in Elements(blearned) <=> \E h \in Elements(klearned) : g = Moved(h, to)
  BY DEF Elements
<1>6. Distinct(blearned)
  <2>1. \A i, j \in 1..Len(klearned) : blearned[i] = blearned[j] => klearned[i] = klearned[j]
    BY <1>3, <1>4
  <2> QED
    BY <2>1 DEF Distinct
<1>7. \A g : g \in Named(bstated, blearned) <=> \E h \in K : g = Moved(h, to)
  BY <1>4, <1>5 DEF Named
<1>8. bstated \subseteq Holds
  BY <1>2, <1>4
<1>9. bstated \cap Elements(blearned) = {}
  <2>1. stated \cap Elements(learned) = {}
    BY DEF Intact
  <2>2. SUFFICES ASSUME NEW g \in bstated, g \in Elements(blearned) PROVE FALSE
    OBVIOUS
  <2>3. PICK h \in kstated : g = Moved(h, to)
    BY <2>2
  <2>4. PICK k \in Elements(klearned) : g = Moved(k, to)
    BY <1>5, <2>2
  <2>5. h = k
    BY <1>3, <1>4, <2>3, <2>4
  <2> QED
    BY <2>1, <2>5
<1>10. ASSUME NEW r \in live
       PROVE  /\ r \in DOMAIN ar /\ r \in Nat /\ to[r] \in DOMAIN br /\ to[r] \in Nat
              /\ Size(br[to[r]]) = Size(ar[r]) /\ Size(ar[r]) \in Nat \ {0}
              /\ ar[r].id <= names
  <2>1. PICK h \in K : h.ref = r
    BY DEF K
  <2>2. h.ref \in DOMAIN ar /\ DOMAIN ar \subseteq Nat
    BY <1>1, <2>1 DEF Intact, Named
  <2>3. r \in DOMAIN ar /\ r \in Nat
    BY <2>1, <2>2
  <2>4. ar[r] \in Blocks /\ ar[r].id <= names
    BY <2>3 DEF Intact
  <2>5. Size(br[to[r]]) = Size(ar[r]) /\ Size(ar[r]) \in Nat \ {0}
    <3>1. br[to[r]].lits = ar[r].lits
      OBVIOUS
    <3> HIDE DEF Carries
    <3> QED
      BY <2>4, <3>1 DEF Size, Blocks
  <2> QED
    BY <2>3, <2>4, <2>5
<1>11. ASSUME NEW r \in live, NEW q \in live
       PROVE  /\ to[r] < to[q] => to[r] + Size(ar[r]) <= to[q]
              /\ to[r] = to[q] => r = q
  <2>1. r \in Nat /\ q \in Nat /\ to[r] \in Nat /\ to[q] \in Nat
        /\ Size(ar[r]) \in Nat \ {0} /\ Size(ar[q]) \in Nat \ {0}
    BY <1>10
  <2>2. r < q => to[r] + Size(ar[r]) <= to[q]
    OBVIOUS
  <2>3. q < r => to[q] + Size(ar[q]) <= to[r]
    OBVIOUS
  <2> QED
    BY <2>1, <2>2, <2>3
<1>12. DOMAIN br \subseteq Nat
  BY <1>10
<1>13. /\ \A o \in DOMAIN br : br[o].id <= names /\ o + Size(br[o]) <= bp
       /\ \A o, p \in DOMAIN br : o < p => o + Size(br[o]) <= p
  <2>1. \A r \in live : br[to[r]].id <= names /\ to[r] + Size(br[to[r]]) <= bp
    BY <1>10
  <2>2. \A r, q \in live : to[r] < to[q] => to[r] + Size(br[to[r]]) <= to[q]
    BY <1>10, <1>11
  <2> QED
    BY <2>1, <2>2
<1>14. \A o, p \in DOMAIN br : br[o].id = br[p].id => o = p
  <2>1. \A r, q \in live : ar[r].id = ar[q].id => r = q
    BY <1>10 DEF Intact
  <2> QED
    BY <2>1
<1>15. ASSUME NEW g \in bstated \cup Elements(blearned)
       PROVE  /\ g.ref \in DOMAIN br /\ br[g.ref].id = g.id /\ br[g.ref].alive
              /\ br[g.ref].redundant = (g \in Elements(blearned))
  <2>1. PICK h \in K : g = Moved(h, to)
    BY <1>7 DEF Named
  <2>2. /\ ar[h.ref].id = h.id /\ ar[h.ref].alive
        /\ ar[h.ref].redundant = (h \in Elements(learned))
    BY <1>1 DEF Intact, Named
  <2>3. g.ref = to[h.ref] /\ g.id = h.id /\ h.ref \in live
    BY <1>2, <2>1
  <2>4. g.ref \in DOMAIN br /\ br[g.ref].id = g.id /\ br[g.ref].alive
        /\ br[g.ref].redundant = ar[h.ref].redundant
    BY <1>10, <2>2, <2>3
  <2>5. (h \in Elements(learned)) = (g \in Elements(blearned))
    <3>1. CASE h \in Elements(klearned)
      BY <1>5, <2>1, <3>1
    <3>2. CASE h \notin Elements(klearned)
      <4>1. h \in kstated /\ h \notin Elements(learned)
        BY <1>4, <3>2 DEF Intact
      <4>2. g \in bstated
        BY <2>1, <4>1
      <4> QED
        BY <1>9, <4>1, <4>2
    <3> QED
      BY <3>1, <3>2
  <2> QED
    BY <2>2, <2>4, <2>5
<1>16. ASSUME NEW o \in DOMAIN br PROVE o \in RefsOf(bstated \cup Elements(blearned))
  <2>1. PICK r \in live : to[r] = o
    OBVIOUS
  <2>2. PICK h \in K : h.ref = r
    BY DEF K
  <2>3. Moved(h, to) \in Named(bstated, blearned) /\ Moved(h, to).ref = o
    BY <1>2, <1>7, <2>1, <2>2
  <2> QED
    BY <2>3 DEF RefsOf, Named
<1>17. Intact(br, bp, bstated, blearned, names)
  BY <1>6, <1>8, <1>9, <1>12, <1>13, <1>14, <1>15, <1>16 DEF Intact
<1> QED
  BY <1>7, <1>17 DEF K

-----------------------------------------------------------------------------
(* A compaction                                                            *)

CompactedArena(live) ==
  [o \in {Target(r, live) : r \in live} |->
     Aged(arena[CHOOSE r \in live : Target(r, live) = o])]

Reduces(gone, kept, live, br) ==
  /\ gone \subseteq Elements(redundant)
  /\ kept = Omitting(redundant, gone)
  /\ live = RefsOf(irredundant \cup Elements(kept))
  /\ br = CompactedArena(live)

\* A reduction leaves the learned clauses in gone behind; the others and all
\* stated ones slide down, and their references follow.
LEMMA IntactReduced ==
  ASSUME Intact(arena, top, irredundant, redundant, created),
         NEW gone, NEW kept, NEW live, NEW br, Reduces(gone, kept, live, br)
  PROVE  /\ Intact(br, TopAfter(live), ForwardedSet(irredundant, live), ForwardedSeq(kept, live), created)
         /\ live \subseteq DOMAIN arena
         /\ \A r \in live : Target(r, live) \in Nat /\ br[Target(r, live)] = Aged(arena[r])
         /\ Elements(kept) = Elements(redundant) \ gone
         /\ \A h \in Listed \ gone : h.ref \in live
         /\ \A g : g \in ForwardedSet(irredundant, live) \cup Elements(ForwardedSeq(kept, live)) <=>
                      \E h \in Listed \ gone : g = Hold(Target(h.ref, live), h.id)
<1> USE DEF Reduces
<1>1. kept \in Seq(Holds) /\ Distinct(kept) /\ Elements(kept) = Elements(redundant) \ gone
  BY OmittingIs DEF Intact
<1>2. Listed = Named(irredundant, redundant) /\ Listed \subseteq Holds
  <2>1. Listed = Named(irredundant, redundant)
    BY DEF Listed, Named
  <2> QED
    BY <2>1, HoldsApart
<1>3. Named(irredundant, kept) = Listed \ gone /\ Listed \ gone = irredundant \cup Elements(kept)
  BY <1>1 DEF Named, Listed, Intact
<1>4. /\ live \subseteq DOMAIN arena
      /\ \A h \in Named(irredundant, kept) : h.ref \in live
      /\ \A r \in live : \E h \in Named(irredundant, kept) : h.ref = r
  <2>1. \A h \in Listed : h.ref \in DOMAIN arena
    BY DEF Intact, Listed
  <2> QED
    BY <1>3, <2>1 DEF RefsOf
<1> DEFINE to == [r \in live |-> Target(r, live)]
<1>5. /\ \A r \in live : to[r] = Target(r, live)
      /\ to \in [live -> Nat] /\ TopAfter(live) \in Nat
      /\ \A r \in live : to[r] + Size(arena[r]) <= TopAfter(live)
      /\ \A r, q \in live : r < q => to[r] + Size(arena[r]) <= to[q]
      /\ \A r, q \in live : to[r] = to[q] => r = q
  <2>1. live \in SUBSET DOMAIN arena
    BY <1>4
  <2>2. /\ TopAfter(live) \in Nat
        /\ \A r \in live : /\ Target(r, live) \in Nat
                           /\ Target(r, live) + Size(arena[r]) <= TopAfter(live)
        /\ \A r, q \in live : /\ r < q => Target(r, live) + Size(arena[r]) <= Target(q, live)
                              /\ Target(r, live) = Target(q, live) => r = q
    <3>1. Intact(arena, top, irredundant, redundant, created)
      OBVIOUS
    <3> QED
      BY <2>1, <3>1, TargetsApart
  <2>3. \A r \in live : to[r] = Target(r, live)
    OBVIOUS
  <2>4. to \in [live -> Nat]
    BY <2>2
  <2> HIDE DEF to
  <2>5. ASSUME NEW r \in live PROVE to[r] + Size(arena[r]) <= TopAfter(live)
    <3>1. to[r] = Target(r, live) /\ Target(r, live) + Size(arena[r]) <= TopAfter(live)
      BY <2>2, <2>3
    <3> QED
      BY <3>1
  <2>6. ASSUME NEW r \in live, NEW q \in live
        PROVE  (r < q => to[r] + Size(arena[r]) <= to[q]) /\ (to[r] = to[q] => r = q)
    <3>1. /\ to[r] = Target(r, live) /\ to[q] = Target(q, live)
          /\ r < q => Target(r, live) + Size(arena[r]) <= Target(q, live)
          /\ Target(r, live) = Target(q, live) => r = q
      BY <2>2, <2>3
    <3> QED
      BY <3>1
  <2> QED
    BY <2>2, <2>3, <2>4, <2>5, <2>6
<1> HIDE DEF to
<1>6. /\ \A o : o \in DOMAIN br <=> \E r \in live : to[r] = o
      /\ \A r \in live : br[to[r]] = Aged(arena[r])
  <2>1. \A r, q \in live : Target(r, live) = Target(q, live) => r = q
    <3>1. \A r \in live : to[r] = Target(r, live)
      BY <1>5
    <3>2. \A r, q \in live : to[r] = to[q] => r = q
      BY <1>5
    <3> QED
      BY <3>1, <3>2
  <2>2. \A r \in live : to[r] = Target(r, live)
    BY <1>5
  <2> DEFINE D == {Target(r, live) : r \in live}
             B(o) == Aged(arena[CHOOSE r \in live : Target(r, live) = o])
  <2>3. br = [o \in D |-> B(o)]
    BY DEF CompactedArena
  <2>4. ASSUME NEW r \in live PROVE to[r] \in D /\ B(to[r]) = Aged(arena[r])
    <3>1. (CHOOSE q \in live : Target(q, live) = Target(r, live)) = r
      BY <2>1
    <3> QED
      BY <2>2, <3>1
  <2>5. ASSUME NEW o \in D PROVE \E r \in live : to[r] = o
    BY <2>2
  <2> HIDE DEF D, B
  <2>6. DOMAIN br = D
    BY <2>3
  <2>7. ASSUME NEW r \in live PROVE br[to[r]] = Aged(arena[r])
    BY <2>3, <2>4
  <2> QED
    BY <2>4, <2>5, <2>6, <2>7
<1> HIDE DEF Reduces
<1>7. \A b \in Blocks : /\ Aged(b) \in Blocks /\ Aged(b).id = b.id /\ Aged(b).lits = b.lits
                        /\ Aged(b).redundant = b.redundant /\ Aged(b).alive = b.alive
  <2>1. \A b \in Blocks : Grace(b) \div 2 \in Nat
    BY DEF Grace
  <2> QED
    BY <2>1 DEF Aged, Blocks
<1>8. /\ \A r \in live : arena[r] \in Blocks /\ br[to[r]] \in Blocks
      /\ \A r \in live : /\ br[to[r]].id = arena[r].id /\ br[to[r]].alive = arena[r].alive
                         /\ br[to[r]].redundant = arena[r].redundant
                         /\ br[to[r]].lits = arena[r].lits
  <2>1. \A r \in live : arena[r] \in Blocks
    BY <1>4 DEF Intact
  <2>2. ASSUME NEW r \in live
        PROVE  /\ br[to[r]] \in Blocks
               /\ br[to[r]].id = arena[r].id /\ br[to[r]].alive = arena[r].alive
               /\ br[to[r]].redundant = arena[r].redundant
               /\ br[to[r]].lits = arena[r].lits
    <3>1. arena[r] \in Blocks /\ br[to[r]] = Aged(arena[r])
      BY <1>6, <2>1
    <3> QED
      BY <1>7, <3>1
  <2> QED
    BY <2>1, <2>2
<1>9. br \in [DOMAIN br -> Blocks]
  <2>2. br = [o \in DOMAIN br |-> br[o]]
    BY DEF CompactedArena, Reduces
  <2>3. \A o \in DOMAIN br : br[o] \in Blocks
    BY <1>6, <1>8
  <2> QED
    BY <2>2, <2>3
<1>10. ASSUME NEW h \in Named(irredundant, kept)
       PROVE  /\ Forwarded(h, live) = Moved(h, to) /\ Moved(h, to) \in Holds
              /\ Moved(h, to).ref # Invalid
              /\ Moved(h, to) = Hold(Target(h.ref, live), h.id)
  <2>1. h \in Holds /\ h.ref \in live /\ to[h.ref] \in Nat
    BY <1>2, <1>3, <1>4, <1>5
  <2>2. Forward(h.ref, live) = to[h.ref]
    BY <1>5, <2>1 DEF Forward
  <2>3. Moved(h, to) = Hold(Target(h.ref, live), h.id)
    BY <1>5, <2>1 DEF Moved
  <2>4. Forwarded(h, live) = Moved(h, to)
    BY <2>1, <2>2 DEF Forwarded, Moved, Hold, Holds
  <2>5. Moved(h, to) \in Holds /\ Moved(h, to).ref = to[h.ref]
    BY <2>1 DEF Moved, Hold, Holds
  <2> QED
    BY <2>1, <2>3, <2>4, <2>5 DEF Invalid
<1> DEFINE fkept == ForwardedSeq(kept, live)
           fstated == ForwardedSet(irredundant, live)
<1>11. \A i \in 1..Len(kept) : kept[i] \in Named(irredundant, kept)
  BY DEF Named, Elements
<1> HIDE DEF fkept, fstated
<1>12. irredundant \subseteq Named(irredundant, kept)
  BY DEF Named
<1>13. /\ fkept \in Seq(Holds) /\ Len(fkept) = Len(kept)
       /\ \A i \in 1..Len(kept) : fkept[i] = Moved(kept[i], to)
  <2> DEFINE F(i) == Forwarded(kept[i], live)
             n == Len(kept)
  <2>1. n \in Nat /\ fkept = [i \in 1..n |-> F(i)]
    BY <1>1 DEF ForwardedSeq, fkept
  <2>2. \A i \in 1..n : F(i) = Moved(kept[i], to) /\ F(i) \in Holds
    BY <1>10, <1>11
  <2> HIDE DEF F, n
  <2>3. fkept \in Seq(Holds) /\ Len(fkept) = n /\ \A i \in 1..n : fkept[i] = F(i)
    BY <2>1, <2>2
  <2> QED
    BY <2>2, <2>3 DEF n
<1>14. \A g : g \in fstated <=> \E h \in irredundant : g = Moved(h, to)
  <2>1. \A h \in irredundant : Forwarded(h, live) = Moved(h, to) /\ Moved(h, to).ref # Invalid
    BY <1>10, <1>12
  <2> QED
    BY <2>1 DEF ForwardedSet, fstated
<1>15. Elements(kept) \subseteq Elements(redundant)
  BY <1>1
<1>16. /\ Intact(br, TopAfter(live), fstated, fkept, created)
       /\ \A g : g \in Named(fstated, fkept) <=> \E h \in Named(irredundant, kept) : g = Moved(h, to)
  <2>1. /\ kept \in Seq(Holds) /\ Distinct(kept)
        /\ \A h \in Named(irredundant, kept) : h.ref \in live
        /\ \A r \in live : \E h \in Named(irredundant, kept) : h.ref = r
    BY <1>1, <1>4
  <2>2. /\ to \in [live -> Nat] /\ TopAfter(live) \in Nat
        /\ \A r \in live : to[r] + Size(arena[r]) <= TopAfter(live)
        /\ \A r, q \in live : r < q => to[r] + Size(arena[r]) <= to[q]
    BY <1>5
  <2>3. /\ \A o : o \in DOMAIN br <=> \E r \in live : to[r] = o
        /\ \A r \in live : /\ br[to[r]].id = arena[r].id /\ br[to[r]].alive = arena[r].alive
                           /\ br[to[r]].redundant = arena[r].redundant
                           /\ br[to[r]].lits = arena[r].lits
    BY <1>6, <1>8
  <2>4. Carries(arena, irredundant, kept, live, to, TopAfter(live), br, fstated, fkept)
    BY <2>1, <2>2, <2>3, <1>9, <1>13, <1>14 DEF Carries
  <2>5. irredundant \in SUBSET irredundant
    OBVIOUS
  <2>6. Intact(br, TopAfter(live), fstated, fkept, created)
    BY <2>4, <2>5, <1>15, IntactMoved
  <2>7. ASSUME NEW g
        PROVE  g \in Named(fstated, fkept) <=> \E h \in Named(irredundant, kept) : g = Moved(h, to)
    BY <2>4, <2>5, <1>15, IntactMoved
  <2> QED
    BY <2>6, <2>7
<1>17. \A g : g \in fstated \cup Elements(fkept) <=>
                \E h \in Listed \ gone : g = Hold(Target(h.ref, live), h.id)
  <2>1. fstated \cup Elements(fkept) = Named(fstated, fkept)
    BY DEF Named
  <2>2. \A h \in Listed \ gone : Moved(h, to) = Hold(Target(h.ref, live), h.id)
    BY <1>3, <1>10
  <2>3. \A g : g \in Named(fstated, fkept) <=> \E h \in Listed \ gone : g = Moved(h, to)
    BY <1>3, <1>16
  <2> QED
    BY <2>1, <2>2, <2>3
<1>18. \A r \in live : Target(r, live) \in Nat /\ br[Target(r, live)] = Aged(arena[r])
  BY <1>5, <1>6
<1> QED
  BY <1>1, <1>3, <1>4, <1>16, <1>17, <1>18 DEF fkept, fstated

-----------------------------------------------------------------------------
(* The invariant, action by action                                         *)

Attaches(ws, us, ar, hs) ==
  /\ ws = UNION {WatchesFor(h, ar[h.ref].lits) : h \in hs}
  /\ us = {h \in hs : Len(ar[h.ref].lits) < 2}

\* What the invariant says of a state and of the next one, taken apart.
LEMMA InvParts ==
  ASSUME StoreInv
  PROVE  /\ created \in Nat /\ Intact(arena, top, irredundant, redundant, created)
         /\ Searching => Attaches(watches, units, arena, Listed)
         /\ ~Searching => watches = {} /\ units = {}
         /\ reasons \subseteq Listed
         /\ phase = "probe" => ImageIntact
         /\ phase \in {"idle", "probe", "preprocess", "search", "inprocess", "closing"}
         /\ Listed = Named(irredundant, redundant)
  BY DEF StoreInv, Attached, Attaches, Listed, Named

\* The strengthening of the next state, part by part.
LEMMA InvNext ==
  ASSUME created' \in Nat,
         phase' \in {"idle", "probe", "preprocess", "search", "inprocess", "closing"},
         Intact(arena', top', irredundant', redundant', created'),
         phase' \in {"probe", "search"} =>
           Attaches(watches', units', arena', Named(irredundant', redundant')),
         phase' \notin {"probe", "search"} => watches' = {} /\ units' = {},
         reasons' \subseteq Named(irredundant', redundant'),
         phase' = "probe" => ImageIntact'
  PROVE  StoreInv'
  BY DEF StoreInv, Attached, Attaches, Listed, Named, Searching

\* The snapshot does not depend on what the search does to the arena.
LEMMA ImageStands ==
  ASSUME ImageIntact, image' = image, irredundant' = irredundant, redundant' = redundant,
         created' = created, top' = top
  PROVE  ImageIntact'
  BY DEF ImageIntact

\* The steps that change no clause and no list.
LEMMA QuietSteps ==
  ASSUME StoreInv,
         \/ StartPreprocess \/ AssignUnit \/ Backtrack \/ Answer \/ StartInprocess \/ EndPasses
         \/ UNCHANGED vars
  PROVE  StoreInv'
<1>1. /\ created \in Nat /\ Intact(arena, top, irredundant, redundant, created)
      /\ Searching => Attaches(watches, units, arena, Named(irredundant, redundant))
      /\ ~Searching => watches = {} /\ units = {}
      /\ reasons \subseteq Named(irredundant, redundant)
      /\ phase = "probe" => ImageIntact
      /\ phase \in {"idle", "probe", "preprocess", "search", "inprocess", "closing"}
      /\ Listed = Named(irredundant, redundant)
  BY InvParts
<1>2. CASE StartPreprocess
  BY <1>1, <1>2, InvNext DEF StartPreprocess, storeVars, holderVars, Searching
<1>3. CASE AssignUnit
  <2>1. units \subseteq Named(irredundant, redundant)
    BY <1>1, <1>3 DEF AssignUnit, Attaches
  <2>2. /\ reasons' \subseteq Named(irredundant, redundant)
        /\ UNCHANGED <<storeVars, watches, units, phase, image, created, budget>> /\ Searching
    BY <1>1, <1>3, <2>1 DEF AssignUnit
  <2> QED
    BY <1>1, <2>2, ImageStands, InvNext DEF storeVars, Searching
<1>4. CASE Backtrack
  <2>1. /\ reasons' \subseteq Named(irredundant, redundant)
        /\ UNCHANGED <<storeVars, watches, units, phase, image, created, budget>> /\ Searching
    BY <1>1, <1>4 DEF Backtrack
  <2> QED
    BY <1>1, <2>1, ImageStands, InvNext DEF storeVars, Searching
<1>5. CASE Answer
  BY <1>1, <1>5, InvNext DEF Answer, DropHolders, storeVars
<1>6. CASE StartInprocess
  <2>1. /\ phase' \in {"inprocess", "closing"} /\ reasons' \subseteq reasons
        /\ watches' = {} /\ units' = {} /\ UNCHANGED <<storeVars, created>>
    BY <1>6 DEF StartInprocess
  <2> QED
    BY <1>1, <2>1, InvNext DEF storeVars
<1>7. CASE EndPasses
  <2>1. CASE /\ phase' = "search" /\ Rebuild(arena, Listed) /\ UNCHANGED <<reasons, storeVars, created>>
    <3>1. Attaches(watches', units', arena, Named(irredundant, redundant))
      BY <1>1, <2>1 DEF Rebuild, Attaches
    <3> QED
      BY <1>1, <2>1, <3>1, InvNext DEF storeVars
  <2>2. CASE phase' = "idle" /\ DropHolders /\ UNCHANGED <<storeVars, created>>
    BY <1>1, <2>2, InvNext DEF storeVars, DropHolders
  <2> QED
    BY <1>7, <2>1, <2>2 DEF EndPasses
<1>8. CASE UNCHANGED vars
  BY <1>1, <1>8, ImageStands, InvNext DEF vars, storeVars, holderVars, Searching
<1> QED
  BY <1>2, <1>3, <1>4, <1>5, <1>6, <1>7, <1>8

\* The raw probe takes its snapshot of a store that is in order.
LEMMA StartProbeKeeps ==
  ASSUME StoreInv, StartProbe
  PROVE  StoreInv'
<1>1. /\ created \in Nat /\ Intact(arena, top, irredundant, redundant, created)
      /\ Listed = Named(irredundant, redundant)
  BY InvParts
<1>2. /\ phase' = "probe" /\ reasons' = {} /\ UNCHANGED <<arena, top, irredundant, redundant, created>>
      /\ Rebuild(arena, Listed)
      /\ image' = [arena |-> arena, top |-> top, learned |-> Len(redundant),
                   contents |-> Contents, taken |-> TRUE]
  BY DEF StartProbe, storeVars
<1>3. Attaches(watches', units', arena, Named(irredundant, redundant))
  BY <1>1, <1>2 DEF Rebuild, Attaches
<1>4. Len(redundant) \in Nat /\ SubSeq(redundant, 1, Len(redundant)) = redundant
  BY <1>1 DEF Intact
<1>5. /\ image'.taken /\ image'.learned = Len(redundant) /\ image'.top = top
      /\ image'.arena = arena /\ image'.contents = Contents /\ top \in Nat
  BY <1>1, <1>2 DEF Intact
<1>6. ImageIntact'
  <2>1. SubSeq(redundant', 1, image'.learned) = redundant
    BY <1>2, <1>4, <1>5
  <2>2. /\ image'.taken /\ image'.learned \in 0..Len(redundant') /\ image'.top <= top'
    BY <1>2, <1>4, <1>5
  <2>3. Intact(image'.arena, image'.top, irredundant', SubSeq(redundant', 1, image'.learned), created')
    BY <1>1, <1>2, <1>5, <2>1
  <2>4. image'.contents =
          {[id |-> h.id, lits |-> image'.arena[h.ref].lits,
            redundant |-> image'.arena[h.ref].redundant] :
             h \in irredundant' \cup Elements(SubSeq(redundant', 1, image'.learned))}
    BY <1>2, <1>5, <2>1 DEF Contents, Listed
  <2> QED
    BY <2>2, <2>3, <2>4 DEF ImageIntact
<1> QED
  BY <1>1, <1>2, <1>3, <1>6, InvNext

\* A use counted in the header of a reason.
LEMMA BumpKeeps ==
  ASSUME StoreInv, Bump
  PROVE  StoreInv'
<1>1. /\ created \in Nat /\ Intact(arena, top, irredundant, redundant, created)
      /\ Searching => Attaches(watches, units, arena, Named(irredundant, redundant))
      /\ reasons \subseteq Named(irredundant, redundant)
      /\ phase = "probe" => ImageIntact
      /\ phase \in {"idle", "probe", "preprocess", "search", "inprocess", "closing"}
  BY InvParts
<1>2. PICK h \in reasons :
        /\ arena' = [arena EXCEPT ![h.ref].used = Bumped(arena[h.ref].used)]
        /\ UNCHANGED <<top, irredundant, redundant, watches, units, reasons, phase, image, created>>
        /\ Searching
  BY DEF Bump, holderVars
<1>3. h.ref \in DOMAIN arena /\ arena \in [DOMAIN arena -> Blocks]
  BY <1>1 DEF Intact, Named
<1>4. \A b \in Blocks : LET c == [b EXCEPT !.used = Bumped(b.used)] IN
                        /\ c \in Blocks /\ c.id = b.id /\ c.lits = b.lits
                        /\ c.redundant = b.redundant /\ c.alive = b.alive
  <2>1. \A n \in Nat : Bumped(n) \in Nat
    BY UsedMaxAssumption DEF Bumped
  <2> QED
    BY <2>1 DEF Blocks
<1>5. /\ DOMAIN arena' = DOMAIN arena /\ arena' = [o \in DOMAIN arena' |-> arena'[o]]
      /\ \A r \in DOMAIN arena : r # h.ref => arena'[r] = arena[r]
      /\ arena'[h.ref] = [arena[h.ref] EXCEPT !.used = Bumped(arena[h.ref].used)]
  BY <1>2, <1>3
<1>6. ASSUME NEW r \in DOMAIN arena
      PROVE  /\ arena'[r] \in Blocks /\ arena'[r].id = arena[r].id /\ arena'[r].alive = arena[r].alive
             /\ arena'[r].redundant = arena[r].redundant /\ arena'[r].lits = arena[r].lits
             /\ Len(arena'[r].lits) <= Len(arena[r].lits)
  <2>1. arena[r] \in Blocks
    BY <1>3
  <2>2. Len(arena[r].lits) <= Len(arena[r].lits)
    BY <2>1 DEF Blocks
  <2>3. CASE r = h.ref
    <3> DEFINE b == arena[r]
               c == [b EXCEPT !.used = Bumped(b.used)]
    <3>1. /\ c \in Blocks /\ c.id = b.id /\ c.lits = b.lits
          /\ c.redundant = b.redundant /\ c.alive = b.alive
      BY <1>4, <2>1
    <3>2. arena'[r] = c
      BY <1>5, <2>3
    <3> HIDE DEF c
    <3> QED
      BY <2>2, <3>1, <3>2
  <2>4. CASE r # h.ref
    BY <1>5, <2>1, <2>2, <2>4
  <2> QED
    BY <2>3, <2>4
<1>7. arena' \in [DOMAIN arena' -> Blocks]
  BY <1>5, <1>6
<1>8. Intact(arena', top, irredundant, redundant, created)
  BY <1>1, <1>5, <1>6, <1>7, IntactAlike
<1>9. \A g \in Named(irredundant, redundant) : arena'[g.ref].lits = arena[g.ref].lits
  BY <1>1, <1>6 DEF Intact, Named
<1>10. Attaches(watches, units, arena', Named(irredundant, redundant))
  BY <1>1, <1>2, <1>9 DEF Attaches
<1> QED
  BY <1>1, <1>2, <1>8, <1>10, ImageStands, InvNext DEF Searching

\* What a watch entry says of the clause it names.
LEMMA WatchNames ==
  ASSUME StoreInv, Searching, NEW w \in watches
  PROVE  \E h \in Named(irredundant, redundant) :
           LET s == arena[h.ref].lits IN
           /\ w.ref = h.ref /\ w.id = h.id /\ h = Hold(w.ref, w.id) /\ h \in Holds
           /\ h.ref \in DOMAIN arena /\ arena[h.ref] \in Blocks
           /\ s \in Seq(Int) /\ Distinct(s) /\ Len(s) \in Nat /\ Len(s) >= 2
           /\ s[1] # s[2] /\ w \in WatchesFor(h, s)
           /\ w.lit \in {s[1], s[2]} /\ w.binary = (Len(s) = 2)
<1>1. /\ Intact(arena, top, irredundant, redundant, created)
      /\ Attaches(watches, units, arena, Named(irredundant, redundant))
  BY InvParts
<1>2. PICK h \in Named(irredundant, redundant) : w \in WatchesFor(h, arena[h.ref].lits)
  BY <1>1 DEF Attaches
<1> DEFINE s == arena[h.ref].lits
<1>3. h \in Holds /\ h.ref \in DOMAIN arena /\ arena[h.ref] \in Blocks
  <2>1. h \in Holds
    BY <1>1, HoldsApart
  <2>2. h.ref \in DOMAIN arena
    BY <1>1 DEF Intact, Named
  <2> QED
    BY <1>1, <2>1, <2>2 DEF Intact
<1>4. s \in Seq(Int) /\ Distinct(s) /\ Len(s) \in Nat
  BY <1>3 DEF Blocks
<1> HIDE DEF s
<1>5. w \in WatchesFor(h, s)
  BY <1>2 DEF s
<1>6. Len(s) >= 2 /\ w \in {Entry(s[1], h, Len(s) = 2), Entry(s[2], h, Len(s) = 2)}
  BY <1>4, <1>5 DEF WatchesFor
<1>7. w.ref = h.ref /\ w.id = h.id /\ w.lit \in {s[1], s[2]} /\ w.binary = (Len(s) = 2)
  BY <1>6 DEF Entry
<1>8. s[1] # s[2]
  BY <1>4, <1>6 DEF Distinct
<1>9. h = Hold(w.ref, w.id)
  BY <1>3, <1>7 DEF Hold, Holds
<1> QED
  BY <1>3, <1>4, <1>5, <1>6, <1>7, <1>8, <1>9 DEF s

\* The other of two literals.
LEMMA OtherIs ==
  ASSUME NEW s, s[1] # s[2], NEW lit \in {s[1], s[2]}
  PROVE  /\ OtherWatch(s, lit) # lit
         /\ {OtherWatch(s, lit), lit} = {s[1], s[2]}
<1>1. \E o \in {s[1], s[2]} : o # lit
  OBVIOUS
<1>2. OtherWatch(s, lit) \in {s[1], s[2]} /\ OtherWatch(s, lit) # lit
  BY <1>1 DEF OtherWatch
<1> QED
  BY <1>2

Relit(ar, q, t) == [ar EXCEPT ![q].lits = t]

\* One block gets other literals, distinct and no more of them.
LEMMA IntactRelit ==
  ASSUME NEW ar, NEW tp, NEW stated, NEW learned, NEW names, Intact(ar, tp, stated, learned, names),
         NEW q \in DOMAIN ar, NEW t \in Seq(Int), Distinct(t), Len(t) <= Len(ar[q].lits),
         NEW br, br = Relit(ar, q, t)
  PROVE  /\ Intact(br, tp, stated, learned, names)
         /\ br[q].lits = t
         /\ \A r \in DOMAIN ar : r # q => br[r] = ar[r]
<1>1. /\ DOMAIN br = DOMAIN ar /\ br[q] = [ar[q] EXCEPT !.lits = t]
      /\ \A r \in DOMAIN ar : r # q => br[r] = ar[r]
  BY DEF Relit
<1>2. br = [o \in DOMAIN br |-> br[o]]
  BY DEF Relit
<1>3. \A b \in Blocks : LET c == [b EXCEPT !.lits = t] IN
                        /\ c \in Blocks /\ c.id = b.id /\ c.lits = t
                        /\ c.redundant = b.redundant /\ c.alive = b.alive
  BY DEF Blocks
<1>4. ASSUME NEW r \in DOMAIN ar
      PROVE  /\ br[r] \in Blocks /\ br[r].id = ar[r].id /\ br[r].alive = ar[r].alive
             /\ br[r].redundant = ar[r].redundant
             /\ Len(br[r].lits) <= Len(ar[r].lits)
  <2>1. ar[r] \in Blocks
    BY DEF Intact
  <2>2. Len(ar[r].lits) <= Len(ar[r].lits)
    BY <2>1 DEF Blocks
  <2>3. CASE r = q
    BY <1>1, <1>3, <2>1, <2>3
  <2>4. CASE r # q
    BY <1>1, <2>1, <2>2, <2>4
  <2> QED
    BY <2>3, <2>4
<1>5. br \in [DOMAIN br -> Blocks]
  <2>1. \A o \in DOMAIN br : br[o] \in Blocks
    BY <1>1, <1>4
  <2> QED
    BY <1>2, <2>1
<1>6. Intact(br, tp, stated, learned, names)
  BY <1>1, <1>4, <1>5, IntactAlike
<1>7. br[q].lits = t
  BY <1>1, <1>3 DEF Intact
<1> QED
  BY <1>1, <1>6, <1>7

\* The two watched literals change places, or stay.
LEMMA FrontedIs ==
  ASSUME NEW s \in Seq(Int), Distinct(s), Len(s) >= 2, NEW w, w.lit \in {s[1], s[2]}
  PROVE  /\ Fronted(s, w) \in Seq(Int) /\ Distinct(Fronted(s, w)) /\ Len(Fronted(s, w)) = Len(s)
         /\ \/ Fronted(s, w)[1] = s[1] /\ Fronted(s, w)[2] = s[2]
            \/ Fronted(s, w)[1] = s[2] /\ Fronted(s, w)[2] = s[1]
<1> DEFINE o == OtherWatch(s, w.lit)
           l == w.lit
           t == Fronted(s, w)
<1>1. s[1] # s[2] /\ Len(s) \in Nat
  BY DEF Distinct
<1>2. o # l /\ {o, l} = {s[1], s[2]} /\ o \in Int /\ l \in Int
  BY <1>1, OtherIs
<1> HIDE DEF o, l
<1>3. t = [s EXCEPT ![1] = o, ![2] = l]
  BY DEF Fronted, o, l
<1> HIDE DEF t
<1>4. /\ t \in Seq(Int) /\ Len(t) = Len(s) /\ t[1] = o /\ t[2] = l
      /\ \A i \in 3..Len(s) : t[i] = s[i]
  BY <1>1, <1>2, <1>3
<1>5. ASSUME NEW i \in 3..Len(s) PROVE s[i] # s[1] /\ s[i] # s[2]
  <2>1. i \in 1..Len(s) /\ 1 \in 1..Len(s) /\ 2 \in 1..Len(s) /\ i # 1 /\ i # 2
    BY <1>1
  <2> QED
    BY <2>1 DEF Distinct
<1>6. \A i \in 3..Len(s) : s[i] # o /\ s[i] # l
  BY <1>2, <1>5
<1>7. Distinct(t)
  <2>1. ASSUME NEW i \in 1..Len(t), NEW j \in 1..Len(t), t[i] = t[j] PROVE i = j
    <3>1. i = 1 \/ i = 2 \/ i \in 3..Len(s)
      BY <1>1, <1>4
    <3>2. j = 1 \/ j = 2 \/ j \in 3..Len(s)
      BY <1>1, <1>4
    <3>3. CASE i \in 3..Len(s) /\ j \in 3..Len(s)
      <4>1. s[i] = s[j] /\ i \in 1..Len(s) /\ j \in 1..Len(s)
        BY <1>4, <2>1, <3>3
      <4> QED
        BY <4>1 DEF Distinct
    <3>4. CASE i \in 3..Len(s) /\ j \in {1, 2}
      <4>1. t[i] # o /\ t[i] # l /\ t[j] \in {o, l}
        BY <1>4, <1>6, <3>4
      <4> QED
        BY <2>1, <4>1
    <3>5. CASE i \in {1, 2} /\ j \in 3..Len(s)
      <4>1. t[j] # o /\ t[j] # l /\ t[i] \in {o, l}
        BY <1>4, <1>6, <3>5
      <4> QED
        BY <2>1, <4>1
    <3>6. CASE i \in {1, 2} /\ j \in {1, 2}
      BY <1>2, <1>4, <2>1, <3>6
    <3> QED
      BY <3>1, <3>2, <3>3, <3>4, <3>5, <3>6
  <2> QED
    BY <2>1 DEF Distinct
<1>8. \/ t[1] = s[1] /\ t[2] = s[2]
      \/ t[1] = s[2] /\ t[2] = s[1]
  BY <1>2, <1>4
<1> QED
  BY <1>4, <1>7, <1>8 DEF t

\* Another literal comes to the front, and the one it takes the watch from goes
\* where it was.
LEMMA SwappedIs ==
  ASSUME NEW s \in Seq(Int), Distinct(s), NEW k \in 3..Len(s), NEW w, w.lit \in {s[1], s[2]}
  PROVE  /\ Swapped(s, k, w) \in Seq(Int) /\ Distinct(Swapped(s, k, w))
         /\ Len(Swapped(s, k, w)) = Len(s)
         /\ Swapped(s, k, w)[1] = OtherWatch(s, w.lit) /\ Swapped(s, k, w)[2] = s[k]
         /\ s[k] # w.lit /\ s[k] # OtherWatch(s, w.lit)
<1> DEFINE o == OtherWatch(s, w.lit)
           l == w.lit
           m == s[k]
           t == Swapped(s, k, w)
<1>1. s[1] # s[2] /\ Len(s) \in Nat /\ k \in Nat /\ k >= 3 /\ k <= Len(s)
  BY DEF Distinct
<1>2. o # l /\ {o, l} = {s[1], s[2]} /\ o \in Int /\ l \in Int /\ m \in Int
  <2>1. o # l /\ {o, l} = {s[1], s[2]}
    BY <1>1, OtherIs
  <2>2. m \in Int /\ s[1] \in Int /\ s[2] \in Int
    BY <1>1
  <2> HIDE DEF o, l, m
  <2> QED
    BY <2>1, <2>2
<1>3. t = [s EXCEPT ![1] = o, ![2] = m, ![k] = l]
  BY DEF Swapped, o, l, m, t
<1>4. ASSUME NEW i \in 3..Len(s) PROVE s[i] # s[1] /\ s[i] # s[2]
  <2>1. i \in 1..Len(s) /\ 1 \in 1..Len(s) /\ 2 \in 1..Len(s) /\ i # 1 /\ i # 2
    BY <1>1
  <2> QED
    BY <2>1 DEF Distinct
<1>5. \A i \in 3..Len(s) : s[i] # o /\ s[i] # l
  <2> HIDE DEF o, l
  <2> QED
    BY <1>2, <1>4
<1>6. m # o /\ m # l
  BY <1>1, <1>5
<1>7. ASSUME NEW i \in 3..Len(s), s[i] = m PROVE i = k
  <2>1. i \in 1..Len(s) /\ k \in 1..Len(s)
    BY <1>1
  <2> QED
    BY <1>7, <2>1 DEF Distinct, m
<1> HIDE DEF o, l, m, t
<1>8. /\ t \in Seq(Int) /\ Len(t) = Len(s) /\ t[1] = o /\ t[2] = m /\ t[k] = l
      /\ \A i \in 3..Len(s) : i # k => t[i] = s[i]
  <2>1. t \in Seq(Int) /\ Len(t) = Len(s)
    BY <1>1, <1>2, <1>3
  <2>2. t[1] = o /\ t[2] = m /\ t[k] = l
    BY <1>1, <1>3
  <2>3. \A i \in 3..Len(s) : i # k => t[i] = s[i]
    BY <1>1, <1>3
  <2> QED
    BY <2>1, <2>2, <2>3
<1>9. Distinct(t)
  <2>1. \A i \in 1..Len(t) : i = 1 \/ i = 2 \/ i = k \/ (i \in 3..Len(s) /\ i # k)
    BY <1>1, <1>8
  <2>2. \A i \in 3..Len(s) : i # k => t[i] # o /\ t[i] # m /\ t[i] # l
    BY <1>5, <1>7, <1>8
  <2>3. ASSUME NEW i \in 3..Len(s), NEW j \in 3..Len(s), i # k, j # k, t[i] = t[j] PROVE i = j
    <3>1. i \in 1..Len(s) /\ j \in 1..Len(s) /\ s[i] = s[j]
      BY <1>1, <1>8, <2>3
    <3> QED
      BY <3>1 DEF Distinct
  <2>4. ASSUME NEW i \in 1..Len(t), NEW j \in 1..Len(t), t[i] = t[j] PROVE i = j
    <3>1. CASE i \in {1, 2, k} /\ j \in {1, 2, k}
      <4>1. m # o /\ m # l /\ o # l /\ t[1] = o /\ t[2] = m /\ t[k] = l
        BY <1>2, <1>6, <1>8
      <4> QED
        BY <2>4, <3>1, <4>1
    <3>2. CASE i \in 3..Len(s) /\ i # k /\ j \in {1, 2, k}
      <4>1. t[j] \in {o, m, l}
        BY <1>8, <3>2
      <4> QED
        BY <2>2, <2>4, <3>2, <4>1
    <3>3. CASE i \in {1, 2, k} /\ j \in 3..Len(s) /\ j # k
      <4>1. t[i] \in {o, m, l}
        BY <1>8, <3>3
      <4> QED
        BY <2>2, <2>4, <3>3, <4>1
    <3>4. CASE i \in 3..Len(s) /\ i # k /\ j \in 3..Len(s) /\ j # k
      BY <2>3, <2>4, <3>4
    <3> QED
      BY <2>1, <3>1, <3>2, <3>3, <3>4
  <2> QED
    BY <2>4 DEF Distinct
<1> QED
  BY <1>6, <1>8, <1>9 DEF o, l, m, t

\* A clause found unit becomes a reason; its two watches only change places.
LEMMA VisitUnitKeeps ==
  ASSUME StoreInv, VisitUnit
  PROVE  StoreInv'
<1>1. /\ created \in Nat /\ Intact(arena, top, irredundant, redundant, created)
      /\ Attaches(watches, units, arena, Named(irredundant, redundant))
      /\ reasons \subseteq Named(irredundant, redundant)
      /\ phase = "probe" => ImageIntact
      /\ phase \in {"idle", "probe", "preprocess", "search", "inprocess", "closing"}
      /\ Searching
  BY InvParts DEF VisitUnit
<1>2. PICK w \in watches :
        /\ reasons' = reasons \cup {Hold(w.ref, w.id)}
        /\ arena' = IF w.binary THEN arena
                    ELSE [arena EXCEPT ![w.ref].lits = Fronted(arena[w.ref].lits, w)]
        /\ UNCHANGED <<top, irredundant, redundant, watches, units, phase, image, created>>
  BY DEF VisitUnit
<1>3. PICK h \in Named(irredundant, redundant) :
           LET s == arena[h.ref].lits IN
           /\ w.ref = h.ref /\ w.id = h.id /\ h = Hold(w.ref, w.id) /\ h \in Holds
           /\ h.ref \in DOMAIN arena /\ arena[h.ref] \in Blocks
           /\ s \in Seq(Int) /\ Distinct(s) /\ Len(s) \in Nat /\ Len(s) >= 2
           /\ s[1] # s[2] /\ w \in WatchesFor(h, s)
           /\ w.lit \in {s[1], s[2]} /\ w.binary = (Len(s) = 2)
  BY <1>1, WatchNames
<1>4. reasons' \subseteq Named(irredundant, redundant)
  BY <1>1, <1>2, <1>3
<1>5. CASE w.binary
  BY <1>1, <1>2, <1>4, <1>5, ImageStands, InvNext DEF Searching
<1>6. CASE ~w.binary
  <2> DEFINE s == arena[h.ref].lits
             t == Fronted(s, w)
  <2>1. /\ t \in Seq(Int) /\ Distinct(t) /\ Len(t) = Len(s)
        /\ (t[1] = s[1] /\ t[2] = s[2]) \/ (t[1] = s[2] /\ t[2] = s[1])
        /\ Len(s) \in Nat /\ Len(s) >= 2
    <3>1. s \in Seq(Int) /\ Distinct(s) /\ Len(s) \in Nat /\ Len(s) >= 2 /\ w.lit \in {s[1], s[2]}
      BY <1>3
    <3> HIDE DEF s
    <3>2. t \in Seq(Int) /\ Distinct(t) /\ Len(t) = Len(s)
      BY <3>1, FrontedIs
    <3>3. (t[1] = s[1] /\ t[2] = s[2]) \/ (t[1] = s[2] /\ t[2] = s[1])
      BY <3>1, FrontedIs
    <3> QED
      BY <3>1, <3>2, <3>3
  <2>2. arena' = Relit(arena, h.ref, t)
    BY <1>2, <1>3, <1>6 DEF Relit
  <2> HIDE DEF t
  <2>3. /\ Intact(arena', top, irredundant, redundant, created)
        /\ arena'[h.ref].lits = t
        /\ \A r \in DOMAIN arena : r # h.ref => arena'[r] = arena[r]
    <3>1. Len(t) <= Len(s) /\ t \in Seq(Int) /\ Distinct(t)
      BY <2>1
    <3>2. h.ref \in DOMAIN arena
      BY <1>3
    <3> QED
      BY <1>1, <2>2, <3>1, <3>2, IntactRelit
  <2>4. ASSUME NEW g \in Named(irredundant, redundant)
        PROVE  /\ WatchesFor(g, arena'[g.ref].lits) = WatchesFor(g, arena[g.ref].lits)
               /\ Len(arena'[g.ref].lits) = Len(arena[g.ref].lits)
    <3>1. CASE g = h
      <4>1. WatchesFor(h, t) = WatchesFor(h, s)
        <5> HIDE DEF s
        <5> QED
          BY <2>1 DEF WatchesFor
      <4> QED
        BY <2>1, <2>3, <3>1, <4>1
    <3>2. CASE g # h
      <4>1. g.ref # h.ref
        BY <1>1, <3>2, HoldsApart
      <4>2. g.ref \in DOMAIN arena
        BY <1>1 DEF Intact, Named
      <4> QED
        BY <2>3, <4>1, <4>2
    <3> QED
      BY <3>1, <3>2
  <2>5. Attaches(watches, units, arena', Named(irredundant, redundant))
    BY <1>1, <2>4 DEF Attaches
  <2> QED
    BY <1>1, <1>2, <1>4, <2>3, <2>5, ImageStands, InvNext DEF Searching
<1> QED
  BY <1>5, <1>6

\* A watch entry names the clause it is for.
LEMMA WatchesName ==
  ASSUME NEW h, NEW s, NEW x \in WatchesFor(h, s)
  PROVE  x.ref = h.ref /\ x.id = h.id
<1>1. x \in {Entry(s[1], h, Len(s) = 2), Entry(s[2], h, Len(s) = 2)}
  BY DEF WatchesFor
<1> QED
  BY <1>1 DEF Entry

\* A watch moves to another literal, which comes to the front with it.
LEMMA VisitMovedKeeps ==
  ASSUME StoreInv, VisitMoved
  PROVE  StoreInv'
<1> DEFINE N == Named(irredundant, redundant)
<1>1. /\ created \in Nat /\ Intact(arena, top, irredundant, redundant, created)
      /\ Attaches(watches, units, arena, N)
      /\ reasons \subseteq N
      /\ phase = "probe" => ImageIntact
      /\ phase \in {"idle", "probe", "preprocess", "search", "inprocess", "closing"}
      /\ Searching
  BY InvParts DEF VisitMoved
<1>2. PICK w \in watches : \E k \in 3..Len(arena[w.ref].lits) :
        /\ ~w.binary
        /\ arena' = [arena EXCEPT ![w.ref].lits = Swapped(arena[w.ref].lits, k, w)]
        /\ watches' = (watches \ {w}) \cup {Entry(arena[w.ref].lits[k], w, FALSE)}
        /\ UNCHANGED <<top, irredundant, redundant, units, reasons, phase, image, created>>
  BY DEF VisitMoved
<1>2a. PICK k \in 3..Len(arena[w.ref].lits) :
        /\ ~w.binary
        /\ arena' = [arena EXCEPT ![w.ref].lits = Swapped(arena[w.ref].lits, k, w)]
        /\ watches' = (watches \ {w}) \cup {Entry(arena[w.ref].lits[k], w, FALSE)}
        /\ UNCHANGED <<top, irredundant, redundant, units, reasons, phase, image, created>>
  BY <1>2
<1>3. PICK h \in N :
           LET s == arena[h.ref].lits IN
           /\ w.ref = h.ref /\ w.id = h.id /\ h = Hold(w.ref, w.id) /\ h \in Holds
           /\ h.ref \in DOMAIN arena /\ arena[h.ref] \in Blocks
           /\ s \in Seq(Int) /\ Distinct(s) /\ Len(s) \in Nat /\ Len(s) >= 2
           /\ s[1] # s[2] /\ w \in WatchesFor(h, s)
           /\ w.lit \in {s[1], s[2]} /\ w.binary = (Len(s) = 2)
  BY <1>1, WatchNames
<1> DEFINE s == arena[h.ref].lits
           t == Swapped(s, k, w)
           o == OtherWatch(s, w.lit)
           e == Entry(s[k], h, FALSE)
<1>4. /\ s \in Seq(Int) /\ Distinct(s) /\ Len(s) \in Nat /\ Len(s) >= 2 /\ s[1] # s[2]
      /\ w.lit \in {s[1], s[2]} /\ w \in WatchesFor(h, s) /\ k \in 3..Len(s) /\ h.ref \in DOMAIN arena
  BY <1>2a, <1>3
<1>5. arena' = Relit(arena, h.ref, t) /\ watches' = (watches \ {w}) \cup {e}
  <2>1. Entry(s[k], w, FALSE) = e
    BY <1>3 DEF Entry
  <2> QED
    BY <1>2a, <1>3, <2>1 DEF Relit
<1> HIDE DEF N, s, e
<1>6. /\ t \in Seq(Int) /\ Distinct(t) /\ Len(t) = Len(s) /\ t[1] = o /\ t[2] = s[k]
      /\ s[k] # w.lit /\ s[k] # o
  BY <1>4, SwappedIs
<1>7. o # w.lit /\ {o, w.lit} = {s[1], s[2]}
  BY <1>4, OtherIs
<1> HIDE DEF t, o
<1>8. /\ Intact(arena', top, irredundant, redundant, created)
      /\ arena'[h.ref].lits = t
      /\ \A r \in DOMAIN arena : r # h.ref => arena'[r] = arena[r]
  <2>1. Len(t) <= Len(arena[h.ref].lits)
    BY <1>4, <1>6 DEF s
  <2>2. Intact(arena, top, irredundant, redundant, created)
    BY <1>1
  <2>3. h.ref \in DOMAIN arena /\ t \in Seq(Int) /\ Distinct(t) /\ arena' = Relit(arena, h.ref, t)
    BY <1>4, <1>5, <1>6
  <2> QED
    BY <2>1, <2>2, <2>3, IntactRelit
<1>9. WatchesFor(h, s) = {Entry(o, h, FALSE), w} /\ w = Entry(w.lit, h, FALSE)
  <2>1. (Len(s) = 2) = FALSE /\ ~(Len(s) < 2)
    <3>1. Len(s) \in Nat /\ k \in Nat /\ 3 <= k /\ k <= Len(s)
      BY <1>4
    <3> DEFINE n == Len(s)
    <3>2. n # 2 /\ ~(n < 2)
      <4>1. n \in Nat /\ k \in Nat /\ 3 <= k /\ k <= n
        BY <3>1
      <4> HIDE DEF n
      <4> QED
        BY <4>1
    <3> QED
      BY <3>2, Zenon
  <2>2. WatchesFor(h, s) = {Entry(s[1], h, FALSE), Entry(s[2], h, FALSE)}
    BY <2>1 DEF WatchesFor
  <2>3. w = Entry(w.lit, h, FALSE)
    <3>1. w = Entry(s[1], h, FALSE) \/ w = Entry(s[2], h, FALSE)
      BY <1>4, <2>2
    <3> QED
      BY <3>1 DEF Entry
  <2>4. (o = s[1] /\ w.lit = s[2]) \/ (o = s[2] /\ w.lit = s[1])
    BY <1>4, <1>7
  <2> QED
    BY <2>2, <2>3, <2>4
<1>10. WatchesFor(h, t) = {Entry(o, h, FALSE), e}
  <2>1. (Len(t) = 2) = FALSE /\ ~(Len(t) < 2)
    <3>1. Len(t) = Len(s) /\ Len(s) \in Nat /\ k \in Nat /\ 3 <= k /\ k <= Len(s)
      BY <1>4, <1>6
    <3>2. Len(t) # 2 /\ ~(Len(t) < 2)
      BY <3>1
    <3> QED
      BY <3>2, Zenon
  <2> QED
    BY <1>6, <2>1 DEF WatchesFor, e
<1>11. Entry(o, h, FALSE) # w
  BY <1>7 DEF Entry
<1>12. ASSUME NEW g \in N, g # h
       PROVE  arena'[g.ref].lits = arena[g.ref].lits /\ g.ref # h.ref
  <2>1. g.ref # h.ref
    BY <1>1, <1>12, HoldsApart DEF N
  <2>2. g.ref \in DOMAIN arena
    BY <1>1 DEF Intact, Named, N
  <2> QED
    BY <1>8, <2>1, <2>2
<1>13. \A x : x \in watches <=> \E g \in N : x \in WatchesFor(g, arena[g.ref].lits)
  BY <1>1 DEF Attaches
<1>14. ASSUME NEW x
       PROVE  x \in watches' <=> \E g \in N : x \in WatchesFor(g, arena'[g.ref].lits)
  <2>1. ASSUME x \in watches, x # w
        PROVE  \E g \in N : x \in WatchesFor(g, arena'[g.ref].lits)
    <3>1. PICK g \in N : x \in WatchesFor(g, arena[g.ref].lits)
      BY <1>13, <2>1
    <3>2. CASE g # h
      BY <1>12, <3>1, <3>2
    <3>3. CASE g = h
      <4>1. x = Entry(o, h, FALSE)
        BY <1>9, <2>1, <3>1, <3>3 DEF s
      <4> QED
        BY <1>8, <1>10, <4>1
    <3> QED
      BY <3>2, <3>3
  <2>2. e \in WatchesFor(h, arena'[h.ref].lits)
    BY <1>8, <1>10
  <2>3. ASSUME NEW g \in N, x \in WatchesFor(g, arena'[g.ref].lits)
        PROVE  x \in watches'
    <3>1. CASE g # h
      <4>1. x \in WatchesFor(g, arena[g.ref].lits)
        BY <1>12, <2>3, <3>1
      <4>2. x.ref = g.ref /\ w.ref = h.ref
        BY <1>3, <4>1, WatchesName
      <4>3. x # w
        BY <1>12, <3>1, <4>2
      <4> QED
        BY <1>5, <1>13, <4>1, <4>3
    <3>2. CASE g = h
      <4>1. x = Entry(o, h, FALSE) \/ x = e
        BY <1>8, <1>10, <2>3, <3>2
      <4>2. Entry(o, h, FALSE) \in watches
        <5>1. Entry(o, h, FALSE) \in WatchesFor(h, arena[h.ref].lits)
          BY <1>9 DEF s
        <5> QED
          BY <1>13, <5>1
      <4> QED
        BY <1>5, <1>11, <4>1, <4>2
    <3> QED
      BY <3>1, <3>2
  <2>4. x \in watches' <=> (x \in watches /\ x # w) \/ x = e
    BY <1>5
  <2> QED
    BY <2>1, <2>2, <2>3, <2>4
<1>15. watches' = UNION {WatchesFor(g, arena'[g.ref].lits) : g \in N}
  BY <1>14
<1>16. units = {g \in N : Len(arena'[g.ref].lits) < 2}
  <2>1. ASSUME NEW g \in N PROVE Len(arena'[g.ref].lits) = Len(arena[g.ref].lits)
    <3>1. CASE g = h
      BY <1>6, <1>8, <3>1 DEF s
    <3>2. CASE g # h
      BY <1>12, <3>2
    <3> QED
      BY <3>1, <3>2
  <2>2. units = {g \in N : Len(arena[g.ref].lits) < 2}
    BY <1>1 DEF Attaches
  <2> QED
    BY <2>1, <2>2
<1>17. Attaches(watches', units, arena', N)
  BY <1>15, <1>16 DEF Attaches
<1>18. phase = "probe" => ImageIntact'
  BY <1>1, <1>2a, ImageStands
<1> QED
  BY <1>1, <1>2a, <1>8, <1>17, <1>18, InvNext DEF Searching, N

\* What a new clause does to the arena and the lists.
LEMMA CreatedKeeps ==
  ASSUME Intact(arena, top, irredundant, redundant, created), created \in Nat,
         NEW s \in Stated \cup Learnt, NEW learned \in BOOLEAN, NEW glue \in Nat,
         Created(s, learned, glue),
         \/ /\ ~learned /\ irredundant' = irredundant \cup {NewHold} /\ redundant' = redundant
         \/ /\ learned /\ irredundant' = irredundant /\ redundant' = Append(redundant, NewHold)
  PROVE  /\ Intact(arena', top', irredundant', redundant', created')
         /\ Named(irredundant', redundant') = Named(irredundant, redundant) \cup {NewHold}
         /\ arena'[NewHold.ref] = Block(s, learned, glue)
         /\ arena'[NewHold.ref].lits = s
         /\ \A r \in DOMAIN arena : arena'[r] = arena[r]
         /\ \A g \in Named(irredundant, redundant) :
              g # NewHold /\ g.ref \in DOMAIN arena /\ arena'[g.ref] = arena[g.ref]
         /\ created' = created + 1 /\ created' \in Nat /\ top \in Nat /\ top <= top'
<1> DEFINE b == Block(s, learned, glue)
           h == NewHold
<1>1. s \in Seq(Int) /\ Distinct(s) /\ Len(s) \in Nat
  BY ClausesAssumption
<1>2. /\ b \in Blocks /\ b.id = created + 1 /\ b.alive /\ b.redundant = learned /\ b.lits = s
      /\ Size(b) = 1 + Len(s)
  BY <1>1 DEF Block, Blocks, Size
<1>3. /\ created' = created + 1 /\ arena' = WithNew(arena, top, b) /\ top' = top + 1 + Len(s)
  BY DEF Created, WithNew
<1>4. h = Hold(top, created + 1) /\ h.ref = top /\ h.id = created + 1
  BY DEF NewHold, Hold
<1>5. top \in Nat /\ top' = top + Size(b) /\ top <= top'
  <2>1. top \in Nat
    BY DEF Intact
  <2> QED
    BY <1>1, <1>2, <1>3, <2>1
<1> HIDE DEF b, h
<1>6. Joined(b, Hold(top, created + 1), irredundant, redundant, irredundant', redundant')
  BY <1>2, <1>4 DEF h, Joined
<1>7. /\ Intact(arena', top + Size(b), irredundant', redundant', created + 1)
      /\ Named(irredundant', redundant') = Named(irredundant, redundant) \cup {Hold(top, created + 1)}
      /\ top \notin DOMAIN arena
  <2>1. Intact(arena, top, irredundant, redundant, created) /\ created \in Nat
    OBVIOUS
  <2>2. b \in Blocks /\ b.id = created + 1 /\ b.alive
    BY <1>2
  <2>3. arena' = WithNew(arena, top, b)
    BY <1>3
  <2> QED
    BY <1>6, <2>1, <2>2, <2>3, IntactWithNew
<1>8. arena'[top] = b /\ \A r \in DOMAIN arena : arena'[r] = arena[r]
  BY <1>3, <1>7 DEF WithNew
<1>9. ASSUME NEW g \in Named(irredundant, redundant)
      PROVE  g # h /\ g.ref \in DOMAIN arena /\ arena'[g.ref] = arena[g.ref]
  <2>1. g.ref \in DOMAIN arena
    BY DEF Intact, Named
  <2> QED
    BY <1>4, <1>7, <1>8, <2>1
<1> QED
  BY <1>2, <1>3, <1>4, <1>5, <1>7, <1>8, <1>9 DEF b, h

\* The caller adds a clause between episodes.
LEMMA AddClauseKeeps ==
  ASSUME StoreInv, AddClause
  PROVE  StoreInv'
<1>1. /\ created \in Nat /\ Intact(arena, top, irredundant, redundant, created)
      /\ ~Searching => watches = {} /\ units = {}
      /\ reasons \subseteq Named(irredundant, redundant)
  BY InvParts
<1>2. PICK s \in Stated : Created(s, FALSE, Len(s))
  BY DEF AddClause
<1>3. /\ irredundant' = irredundant \cup {NewHold} /\ redundant' = redundant
      /\ phase = "idle" /\ phase' = "idle" /\ UNCHANGED <<watches, units, reasons>>
  BY DEF AddClause, holderVars
<1>4. Len(s) \in Nat
  BY ClausesAssumption
<1>5. /\ Intact(arena', top', irredundant', redundant', created')
      /\ Named(irredundant', redundant') = Named(irredundant, redundant) \cup {NewHold}
      /\ created' \in Nat
  BY <1>1, <1>2, <1>3, <1>4, CreatedKeeps
<1> QED
  BY <1>1, <1>3, <1>5, InvNext DEF Searching

\* A pass states or learns a clause.
LEMMA PassAddsKeeps ==
  ASSUME StoreInv, PassAdds
  PROVE  StoreInv'
<1>1. /\ created \in Nat /\ Intact(arena, top, irredundant, redundant, created)
      /\ ~Searching => watches = {} /\ units = {}
      /\ reasons \subseteq Named(irredundant, redundant)
      /\ phase \in {"idle", "probe", "preprocess", "search", "inprocess", "closing"}
  BY InvParts
<1>2. /\ phase \in {"preprocess", "inprocess", "closing"} /\ phase' = phase
      /\ UNCHANGED <<watches, units, reasons>>
  BY DEF PassAdds, PassCounted, InPasses, holderVars
<1>3. PICK s \in Stated \cup Learnt, learned \in BOOLEAN, glue \in Nat :
        /\ Created(s, learned, glue)
        /\ \/ /\ ~learned /\ irredundant' = irredundant \cup {NewHold} /\ redundant' = redundant
           \/ /\ learned /\ irredundant' = irredundant /\ redundant' = Append(redundant, NewHold)
  <2>1. CASE /\ \E s \in Stated : Created(s, FALSE, Len(s))
             /\ irredundant' = irredundant \cup {NewHold} /\ redundant' = redundant
    <3>1. PICK s \in Stated : Created(s, FALSE, Len(s))
      BY <2>1
    <3>2. Len(s) \in Nat
      BY ClausesAssumption
    <3> QED
      BY <2>1, <3>1, <3>2
  <2>2. CASE /\ \E s \in Learnt : Created(s, TRUE, 1)
             /\ redundant' = Append(redundant, NewHold) /\ irredundant' = irredundant
    <3>1. PICK s \in Learnt : Created(s, TRUE, 1)
      BY <2>2
    <3> QED
      BY <2>2, <3>1
  <2> QED
    BY <2>1, <2>2 DEF PassAdds
<1>4. /\ Intact(arena', top', irredundant', redundant', created')
      /\ Named(irredundant', redundant') = Named(irredundant, redundant) \cup {NewHold}
      /\ created' \in Nat
  BY <1>1, <1>3, CreatedKeeps
<1> QED
  BY <1>1, <1>2, <1>4, InvNext DEF Searching

\* A new clause is attached to the others.
LEMMA AttachesMore ==
  ASSUME NEW ws, NEW us, NEW ar, NEW br, NEW hs, Attaches(ws, us, ar, hs), NEW h, NEW s,
         \A g \in hs : br[g.ref] = ar[g.ref], br[h.ref].lits = s, h \notin hs
  PROVE  Attaches(ws \cup WatchesFor(h, s), IF Len(s) < 2 THEN us \cup {h} ELSE us, br, hs \cup {h})
<1>1. ws = UNION {WatchesFor(g, br[g.ref].lits) : g \in hs}
  BY DEF Attaches
<1>2. us = {g \in hs : Len(br[g.ref].lits) < 2}
  BY DEF Attaches
<1>3. ws \cup WatchesFor(h, s) = UNION {WatchesFor(g, br[g.ref].lits) : g \in hs \cup {h}}
  BY <1>1
<1>4. (IF Len(s) < 2 THEN us \cup {h} ELSE us) = {g \in hs \cup {h} : Len(br[g.ref].lits) < 2}
  BY <1>2
<1> QED
  BY <1>3, <1>4 DEF Attaches

\* The snapshot does not depend on what the search learns.
LEMMA ImageOutlivesLearning ==
  ASSUME ImageIntact, image' = image, irredundant' = irredundant,
         redundant \in Seq(Holds), NEW h \in Holds, redundant' = Append(redundant, h),
         created \in Nat, created' = created + 1, top \in Nat, top' \in Nat, top <= top'
  PROVE  ImageIntact'
<1>1. /\ image.taken /\ image.learned \in 0..Len(redundant) /\ image.top <= top /\ Len(redundant) \in Nat
      /\ Intact(image.arena, image.top, irredundant, SubSeq(redundant, 1, image.learned), created)
  BY DEF ImageIntact
<1>2. SubSeq(redundant', 1, image.learned) = SubSeq(redundant, 1, image.learned)
  <2> DEFINE n == image.learned
  <2>1. n \in Nat /\ n <= Len(redundant)
    BY <1>1
  <2> HIDE DEF n
  <2>2. /\ Len(redundant') = Len(redundant) + 1
        /\ \A i \in 1..Len(redundant) : redundant'[i] = redundant[i]
    OBVIOUS
  <2>3. \A i \in 1..n : redundant'[i] = redundant[i]
    BY <1>1, <2>1, <2>2
  <2> QED
    BY <2>1, <2>3 DEF n
<1>3. Len(redundant') = Len(redundant) + 1
  OBVIOUS
<1>4. image.learned \in 0..Len(redundant') /\ image.top <= top'
  <2>1. image.top \in Nat
    BY <1>1 DEF Intact
  <2> QED
    BY <1>1, <1>3, <2>1
<1>5. Intact(image.arena, image.top, irredundant, SubSeq(redundant, 1, image.learned), created + 1)
  <2> DEFINE ar == image.arena
             q == SubSeq(redundant, 1, image.learned)
  <2>1. \A r \in DOMAIN ar : ar[r].id <= created /\ ar[r] \in Blocks
    BY <1>1 DEF Intact
  <2>2. \A r \in DOMAIN ar : ar[r].id <= created + 1
    BY <2>1 DEF Blocks
  <2> HIDE DEF ar, q
  <2>3. Intact(ar, image.top, irredundant, q, created)
    BY <1>1 DEF ar, q
  <2>4. Intact(ar, image.top, irredundant, q, created + 1)
    BY <2>2, <2>3 DEF Intact
  <2> QED
    BY <2>4 DEF ar, q
<1> QED
  BY <1>1, <1>2, <1>4, <1>5 DEF ImageIntact

\* The search learns a clause, attaches it and asserts it.
LEMMA LearnKeeps ==
  ASSUME StoreInv, Learn
  PROVE  StoreInv'
<1> DEFINE N == Named(irredundant, redundant)
<1>1. /\ created \in Nat /\ Intact(arena, top, irredundant, redundant, created)
      /\ Attaches(watches, units, arena, N)
      /\ reasons \subseteq N
      /\ phase = "probe" => ImageIntact
      /\ phase \in {"idle", "probe", "preprocess", "search", "inprocess", "closing"}
      /\ Searching
  BY InvParts DEF Learn
<1>2. PICK s \in Learnt, kept \in SUBSET reasons : \E glue \in 1..Len(s) :
        /\ Created(s, TRUE, glue)
        /\ redundant' = Append(redundant, NewHold)
        /\ watches' = watches \cup WatchesFor(NewHold, s)
        /\ units' = IF Len(s) < 2 THEN units \cup {NewHold} ELSE units
        /\ reasons' = kept \cup {NewHold}
  BY DEF Learn
<1>3. PICK glue \in 1..Len(s) : Created(s, TRUE, glue)
  BY <1>2
<1>4. irredundant' = irredundant /\ phase' = phase /\ image' = image
  BY DEF Learn
<1>5. glue \in Nat /\ s \in Stated \cup Learnt
  OBVIOUS
<1>6. /\ Intact(arena', top', irredundant', redundant', created')
      /\ Named(irredundant', redundant') = N \cup {NewHold}
      /\ arena'[NewHold.ref].lits = s
      /\ \A g \in N : g # NewHold /\ arena'[g.ref] = arena[g.ref]
      /\ created' = created + 1 /\ created' \in Nat /\ top \in Nat /\ top <= top'
  BY <1>1, <1>2, <1>3, <1>4, <1>5, CreatedKeeps
<1> HIDE DEF N
<1>7. Attaches(watches', units', arena', N \cup {NewHold})
  <2>1. NewHold \notin N
    BY <1>6
  <2>2. Attaches(watches \cup WatchesFor(NewHold, s),
                 IF Len(s) < 2 THEN units \cup {NewHold} ELSE units, arena', N \cup {NewHold})
    BY <1>1, <1>6, <2>1, AttachesMore
  <2> QED
    BY <1>2, <2>2
<1>8. reasons' \subseteq N \cup {NewHold}
  BY <1>1, <1>2
<1>9. ASSUME phase = "probe" PROVE ImageIntact'
  <2>1. redundant \in Seq(Holds) /\ top' \in Nat
    BY <1>1, <1>6 DEF Intact
  <2>2. NewHold \in Holds
    BY <1>1, <1>6 DEF NewHold, Hold, Holds
  <2> QED
    BY <1>1, <1>2, <1>4, <1>6, <1>9, <2>1, <2>2, ImageOutlivesLearning
<1> QED
  BY <1>1, <1>4, <1>6, <1>7, <1>8, <1>9, InvNext DEF Searching

\* The raw probe is given up: the snapshot's arena comes back, and the lists
\* name what is in it.
LEMMA RollbackKeeps ==
  ASSUME StoreInv, Rollback
  PROVE  StoreInv' /\ Contents' = image.contents
<1> DEFINE q == SubSeq(redundant, 1, image.learned)
<1>1. /\ created \in Nat /\ Intact(arena, top, irredundant, redundant, created)
      /\ ImageIntact
  BY InvParts DEF Rollback
<1>2. /\ image.taken /\ image.learned \in 0..Len(redundant) /\ image.top <= top
      /\ Intact(image.arena, image.top, irredundant, q, created)
      /\ image.contents =
           {[id |-> h.id, lits |-> image.arena[h.ref].lits,
             redundant |-> image.arena[h.ref].redundant] : h \in irredundant \cup Elements(q)}
  BY <1>1 DEF ImageIntact
<1>3. image.top \in Nat /\ top \in Nat /\ Len(redundant) \in Nat /\ image.learned \in Nat
      /\ image.learned <= Len(redundant)
  BY <1>1, <1>2 DEF Intact
<1>4. \A a, b \in Nat : b <= a => Min({a, b}) = b
  <2>1. SUFFICES ASSUME NEW a \in Nat, NEW b \in Nat, b <= a PROVE Min({a, b}) = b
    OBVIOUS
  <2>2. \A x \in {a, b} : (\A y \in {a, b} : x <= y) => x = b
    BY <2>1
  <2>3. b \in {a, b} /\ \A y \in {a, b} : b <= y
    BY <2>1
  <2> QED
    BY <2>2, <2>3 DEF Min
<1>5. RestoredTop = image.top /\ KeptLearned = q
  <2>1. Min({top, image.top}) = image.top
    BY <1>2, <1>3, <1>4
  <2>2. Min({Len(redundant), image.learned}) = image.learned
    BY <1>3, <1>4
  <2> QED
    BY <2>1, <2>2 DEF RestoredTop, KeptLearned
<1>6. RestoredArena = image.arena
  <2>1. \A o \in DOMAIN image.arena : o < image.top
    <3>1. \A o \in DOMAIN image.arena :
             /\ o \in Nat /\ image.arena[o] \in Blocks
             /\ o + Size(image.arena[o]) <= image.top
      BY <1>2 DEF Intact
    <3>2. \A b \in Blocks : Size(b) \in Nat \ {0}
      BY DEF Blocks, Size
    <3> QED
      BY <1>3, <3>1, <3>2
  <2>2. {o \in DOMAIN image.arena : o < RestoredTop} = DOMAIN image.arena
    BY <1>5, <2>1
  <2>3. image.arena = [o \in DOMAIN image.arena |-> image.arena[o]]
    BY <1>2 DEF Intact
  <2> QED
    BY <2>2, <2>3 DEF RestoredArena
<1>7. /\ phase' = "preprocess" /\ arena' = image.arena /\ top' = image.top /\ redundant' = q
      /\ irredundant' = irredundant /\ created' = created
      /\ watches' = {} /\ units' = {} /\ reasons' = {}
  BY <1>5, <1>6 DEF Rollback, DropHolders
<1>8. StoreInv'
  BY <1>1, <1>2, <1>7, InvNext
<1>9. Contents' = image.contents
  BY <1>2, <1>7 DEF Contents, Listed
<1> QED
  BY <1>8, <1>9

\* A pass flushes a clause it marked, unless it is a reason.
LEMMA PassRemovesKeeps ==
  ASSUME StoreInv, PassRemoves
  PROVE  StoreInv'
<1> DEFINE N == Named(irredundant, redundant)
<1>1. /\ created \in Nat /\ Intact(arena, top, irredundant, redundant, created)
      /\ ~Searching => watches = {} /\ units = {}
      /\ reasons \subseteq N /\ Listed = N
      /\ phase \in {"idle", "probe", "preprocess", "search", "inprocess", "closing"}
  BY InvParts
<1>2. /\ phase \in {"preprocess", "inprocess", "closing"} /\ phase' = phase
      /\ UNCHANGED <<top, watches, units, reasons, created>>
  BY DEF PassRemoves, PassCounted, InPasses, holderVars
<1>3. PICK h \in Listed :
        /\ arena' = MarkedDead(arena, Flushed({h}))
        /\ irredundant' = irredundant \ Flushed({h})
        /\ redundant' = Omitting(redundant, Flushed({h}))
  BY DEF PassRemoves, MarkedDead
<1> DEFINE gone == Flushed({h})
<1>4. gone \in SUBSET N /\ \A g \in gone : g.ref \notin Protected
  BY <1>1 DEF Flushed
<1> HIDE DEF gone, N
<1>5. /\ Intact(arena', top, irredundant', redundant', created)
      /\ Named(irredundant', redundant') = N \ gone
  <2>1. /\ gone \in SUBSET Named(irredundant, redundant)
        /\ arena' = MarkedDead(arena, gone)
        /\ irredundant' = irredundant \ gone /\ redundant' = Omitting(redundant, gone)
    BY <1>3, <1>4 DEF gone, N
  <2>2. /\ Intact(arena', top, irredundant \ gone, Omitting(redundant, gone), created)
        /\ Named(irredundant \ gone, Omitting(redundant, gone)) = Named(irredundant, redundant) \ gone
    BY <1>1, <2>1, IntactRemoved
  <2> QED
    BY <2>1, <2>2 DEF N
<1>6. reasons \subseteq N \ gone
  BY <1>1, <1>4 DEF Protected, RefsOf
<1> QED
  BY <1>1, <1>2, <1>5, <1>6, InvNext DEF Searching, N

\* A pass makes a learned clause permanent.
LEMMA PassPromotesKeeps ==
  ASSUME StoreInv, PassPromotes
  PROVE  StoreInv'
<1> DEFINE N == Named(irredundant, redundant)
<1>1. /\ created \in Nat /\ Intact(arena, top, irredundant, redundant, created)
      /\ ~Searching => watches = {} /\ units = {}
      /\ reasons \subseteq N
      /\ phase \in {"idle", "probe", "preprocess", "search", "inprocess", "closing"}
  BY InvParts
<1>2. /\ phase \in {"preprocess", "inprocess", "closing"} /\ phase' = phase
      /\ UNCHANGED <<top, watches, units, reasons, created>>
  BY DEF PassPromotes, PassCounted, InPasses, holderVars
<1>3. PICK h \in Elements(redundant) :
        /\ redundant' = Omitting(redundant, {h})
        /\ irredundant' = irredundant \cup {h}
        /\ arena' = [arena EXCEPT ![h.ref].redundant = FALSE]
  BY DEF PassPromotes
<1>4. arena' = Promoted(arena, h.ref)
  <2>1. arena = [o \in DOMAIN arena |-> arena[o]]
    BY <1>1 DEF Intact
  <2> QED
    BY <1>3, <2>1 DEF Promoted
<1>5. /\ Intact(arena', top, irredundant', redundant', created)
      /\ Named(irredundant', redundant') = N
  <2>1. /\ Intact(arena', top, irredundant \cup {h}, Omitting(redundant, {h}), created)
        /\ Named(irredundant \cup {h}, Omitting(redundant, {h})) = Named(irredundant, redundant)
    BY <1>1, <1>4, IntactPromoted
  <2> QED
    BY <1>3, <2>1
<1> QED
  BY <1>1, <1>2, <1>5, InvNext DEF Searching

\* A sequence without one of its elements.
LEMMA WithoutIs ==
  ASSUME NEW s \in Seq(Int), Distinct(s), NEW k \in 1..Len(s)
  PROVE  /\ Without(s, k) \in Seq(Int) /\ Distinct(Without(s, k))
         /\ Len(Without(s, k)) = Len(s) - 1 /\ Len(Without(s, k)) <= Len(s)
<1> DEFINE n == Len(s) - 1
           F(i) == IF i < k THEN s[i] ELSE s[i + 1]
           t == Without(s, k)
<1>1. n \in Nat /\ Len(s) = n + 1 /\ k \in Nat /\ Len(s) \in Nat
  OBVIOUS
<1>2. t = [i \in 1..n |-> F(i)]
  BY DEF Without
<1>3. \A i \in 1..n : /\ i < k => F(i) = s[i] /\ i \in 1..Len(s)
                      /\ ~(i < k) => F(i) = s[i + 1] /\ i + 1 \in 1..Len(s)
  BY <1>1
<1>4. \A i \in 1..n : F(i) \in Int
  BY <1>3
<1> HIDE DEF F, n, t
<1>5. t \in Seq(Int) /\ Len(t) = n /\ \A i \in 1..n : t[i] = F(i)
  BY <1>1, <1>2, <1>4
<1>6. ASSUME NEW i \in 1..n, NEW j \in 1..n, F(i) = F(j) PROVE i = j
  <2>1. i \in Nat /\ j \in Nat
    BY <1>1
  <2>2. CASE i < k /\ j < k
    BY <1>3, <1>6, <2>2 DEF Distinct
  <2>3. CASE i < k /\ ~(j < k)
    <3>1. s[i] = s[j + 1] /\ i \in 1..Len(s) /\ j + 1 \in 1..Len(s)
      BY <1>3, <1>6, <2>3
    <3>2. i = j + 1
      BY <3>1 DEF Distinct
    <3> QED
      BY <1>1, <2>1, <2>3, <3>2
  <2>4. CASE ~(i < k) /\ j < k
    <3>1. s[i + 1] = s[j] /\ i + 1 \in 1..Len(s) /\ j \in 1..Len(s)
      BY <1>3, <1>6, <2>4
    <3>2. i + 1 = j
      BY <3>1 DEF Distinct
    <3> QED
      BY <1>1, <2>1, <2>4, <3>2
  <2>5. CASE ~(i < k) /\ ~(j < k)
    <3>1. s[i + 1] = s[j + 1] /\ i + 1 \in 1..Len(s) /\ j + 1 \in 1..Len(s)
      BY <1>3, <1>6, <2>5
    <3>2. i + 1 = j + 1
      BY <3>1 DEF Distinct
    <3> QED
      BY <2>1, <3>2
  <2> QED
    BY <2>2, <2>3, <2>4, <2>5
<1>7. Distinct(t)
  BY <1>5, <1>6 DEF Distinct
<1> QED
  BY <1>1, <1>5, <1>7 DEF t, n

\* A pass removes a literal from a clause.
LEMMA PassShortensKeeps ==
  ASSUME StoreInv, PassShortens
  PROVE  StoreInv'
<1> DEFINE N == Named(irredundant, redundant)
<1>1. /\ created \in Nat /\ Intact(arena, top, irredundant, redundant, created)
      /\ ~Searching => watches = {} /\ units = {}
      /\ reasons \subseteq N /\ Listed = N
      /\ phase \in {"idle", "probe", "preprocess", "search", "inprocess", "closing"}
  BY InvParts
<1>2. /\ phase \in {"preprocess", "inprocess", "closing"} /\ phase' = phase
      /\ UNCHANGED <<top, irredundant, redundant, watches, units, reasons, created>>
  BY DEF PassShortens, PassCounted, InPasses, holderVars
<1>3. PICK h \in Listed : \E k \in 1..Len(arena[h.ref].lits) :
        arena' = [arena EXCEPT ![h.ref].lits = Without(arena[h.ref].lits, k)]
  BY DEF PassShortens
<1>4. PICK k \in 1..Len(arena[h.ref].lits) :
        arena' = [arena EXCEPT ![h.ref].lits = Without(arena[h.ref].lits, k)]
  BY <1>3
<1> DEFINE s == arena[h.ref].lits
           t == Without(s, k)
<1>5. h.ref \in DOMAIN arena /\ s \in Seq(Int) /\ Distinct(s) /\ k \in 1..Len(s)
  <2>1. h.ref \in DOMAIN arena
    BY <1>1 DEF Intact, Named
  <2>2. arena[h.ref] \in Blocks
    BY <1>1, <2>1 DEF Intact
  <2> QED
    BY <2>1, <2>2 DEF Blocks
<1>6. arena' = Relit(arena, h.ref, t)
  BY <1>4 DEF Relit
<1>7. t \in Seq(Int) /\ Distinct(t) /\ Len(t) <= Len(s)
  <2> HIDE DEF s
  <2> QED
    BY <1>5, WithoutIs
<1> HIDE DEF t
<1>8. Intact(arena', top, irredundant, redundant, created)
  BY <1>1, <1>5, <1>6, <1>7, IntactRelit
<1> QED
  BY <1>1, <1>2, <1>8, InvNext DEF Searching

\* A reduction: the entries of the clauses that go are dropped, the others and
\* the reasons follow their clauses.
LEMMA ReduceKeeps ==
  ASSUME StoreInv, Reduce, ~ReduceInProbe
  PROVE  StoreInv'
<1> DEFINE N == Named(irredundant, redundant)
<1>1. /\ created \in Nat /\ Intact(arena, top, irredundant, redundant, created)
      /\ Attaches(watches, units, arena, N)
      /\ reasons \subseteq N /\ Listed = N
      /\ phase = "search" /\ phase' = "search" /\ created' = created
  BY InvParts DEF Reduce, Searching
<1>2. PICK gone \in Selected :
        LET kept == Omitting(redundant, gone)
            live == RefsOf(irredundant \cup Elements(kept))
        IN /\ arena' = CompactedArena(live)
           /\ top' = TopAfter(live)
           /\ irredundant' = ForwardedSet(irredundant, live)
           /\ redundant' = ForwardedSeq(kept, live)
           /\ watches' = ForwardedSet(watches, live)
           /\ units' = ForwardedSet(units, live)
           /\ reasons' = {Forwarded(h, live) : h \in reasons}
  BY DEF Reduce, CompactedArena
<1>3. gone \in SUBSET Elements(redundant) /\ \A g \in gone : g.ref \notin Protected
  BY DEF Selected, Candidates
<1> DEFINE kept == Omitting(redundant, gone)
           live == RefsOf(irredundant \cup Elements(kept))
           K == N \ gone
           T(h) == Hold(Target(h.ref, live), h.id)
<1>4. /\ arena' = CompactedArena(live) /\ top' = TopAfter(live)
      /\ irredundant' = ForwardedSet(irredundant, live)
      /\ redundant' = ForwardedSeq(kept, live)
      /\ watches' = ForwardedSet(watches, live)
      /\ units' = ForwardedSet(units, live)
      /\ reasons' = {Forwarded(h, live) : h \in reasons}
  BY <1>2
<1> HIDE DEF kept
<1>5. /\ Intact(arena', TopAfter(live), ForwardedSet(irredundant, live), ForwardedSeq(kept, live), created)
      /\ live \subseteq DOMAIN arena
      /\ \A r \in live : Target(r, live) \in Nat /\ arena'[Target(r, live)] = Aged(arena[r])
      /\ Elements(kept) = Elements(redundant) \ gone
      /\ \A h \in Listed \ gone : h.ref \in live
      /\ \A g : g \in ForwardedSet(irredundant, live) \cup Elements(ForwardedSeq(kept, live)) <=>
                   \E h \in Listed \ gone : g = Hold(Target(h.ref, live), h.id)
  <2>1. kept = Omitting(redundant, gone)
    BY DEF kept
  <2> DEFINE lv == live
             br == arena'
  <2>2. lv = RefsOf(irredundant \cup Elements(kept)) /\ br = CompactedArena(lv)
    BY <1>4
  <2>3. Intact(arena, top, irredundant, redundant, created)
    BY <1>1
  <2> HIDE DEF lv, br
  <2>4. /\ Intact(br, TopAfter(lv), ForwardedSet(irredundant, lv), ForwardedSeq(kept, lv), created)
        /\ lv \subseteq DOMAIN arena
        /\ \A r \in lv : Target(r, lv) \in Nat /\ br[Target(r, lv)] = Aged(arena[r])
        /\ Elements(kept) = Elements(redundant) \ gone
        /\ \A h \in Listed \ gone : h.ref \in lv
        /\ \A g : g \in ForwardedSet(irredundant, lv) \cup Elements(ForwardedSeq(kept, lv)) <=>
                     \E h \in Listed \ gone : g = Hold(Target(h.ref, lv), h.id)
    <3>1. Reduces(gone, kept, lv, br)
      BY <1>3, <2>1, <2>2 DEF Reduces
    <3> QED
      BY <2>3, <3>1, IntactReduced
  <2> QED
    BY <2>4 DEF lv, br
<1>6. irredundant \cup Elements(kept) = K
  <2>1. irredundant \cap gone = {}
    BY <1>1, <1>3 DEF Intact
  <2> HIDE DEF live
  <2>2. Elements(kept) = Elements(redundant) \ gone
    BY <1>5
  <2> QED
    BY <2>1, <2>2 DEF Named
<1>7. live = RefsOf(K)
  BY <1>6
<1> HIDE DEF live, N
<1>8. ASSUME NEW h \in N
      PROVE  /\ h \in Holds /\ h.ref \in DOMAIN arena /\ arena[h.ref] \in Blocks
             /\ h.ref \in live <=> h \in K
  <2>0. h \in Holds
    BY <1>1, HoldsApart DEF N
  <2>1. h \in Holds /\ h.ref \in DOMAIN arena
    BY <1>1, <2>0 DEF N, Intact, Named
  <2>2. arena[h.ref] \in Blocks
    BY <1>1, <2>1 DEF Intact
  <2>3. h.ref \in live => h \in K
    <3>1. SUFFICES ASSUME h.ref \in live PROVE h \in K
      OBVIOUS
    <3>2. PICK g \in K : g.ref = h.ref
      BY <1>7, <3>1 DEF RefsOf
    <3>3. g = h
      BY <1>1, <3>2, HoldsApart DEF N
    <3> QED
      BY <3>2, <3>3
  <2>4. h \in K => h.ref \in live
    BY <1>7 DEF RefsOf
  <2> QED
    BY <2>1, <2>2, <2>3, <2>4
<1>9. \A g : g \in Named(irredundant', redundant') <=> \E h \in K : g = T(h)
  BY <1>1, <1>4, <1>5 DEF Named
<1>10. ASSUME NEW h \in K
       PROVE  /\ T(h).ref = Target(h.ref, live) /\ T(h).id = h.id /\ T(h).ref # Invalid
              /\ arena'[T(h).ref].lits = arena[h.ref].lits
              /\ Forwarded(h, live) = T(h)
              /\ Forward(h.ref, live) = Target(h.ref, live)
  <2>1. h \in Holds /\ h.ref \in live /\ arena[h.ref] \in Blocks
    BY <1>8
  <2>2. Target(h.ref, live) \in Nat /\ arena'[Target(h.ref, live)] = Aged(arena[h.ref])
    BY <1>5, <2>1
  <2>3. T(h).ref = Target(h.ref, live) /\ T(h).id = h.id
    BY DEF Hold
  <2>4. Aged(arena[h.ref]).lits = arena[h.ref].lits
    BY <2>1 DEF Aged, Blocks
  <2>5. Forward(h.ref, live) = Target(h.ref, live)
    BY <2>1 DEF Forward
  <2>6. Forwarded(h, live) = T(h)
    BY <2>1, <2>5 DEF Forwarded, Hold, Holds
  <2>7. T(h).ref # Invalid
    BY <2>2, <2>3 DEF Invalid
  <2> QED
    BY <2>2, <2>3, <2>4, <2>5, <2>6, <2>7
<1>11. ASSUME NEW h \in N, NEW lit, NEW bin
       PROVE  /\ h \in K => Forwarded(Entry(lit, h, bin), live) = Entry(lit, T(h), bin)
              /\ Forwarded(Entry(lit, h, bin), live).ref # Invalid <=> h \in K
  <2>1. Forwarded(Entry(lit, h, bin), live)
          = [lit |-> lit, ref |-> Forward(h.ref, live), id |-> h.id, binary |-> bin]
    BY DEF Forwarded, Entry
  <2>2. h \in K => Forward(h.ref, live) = Target(h.ref, live) /\ Target(h.ref, live) # Invalid
    BY <1>10
  <2>3. h \notin K => Forward(h.ref, live) = Invalid
    BY <1>8 DEF Forward
  <2>4. h \in K => T(h).ref = Target(h.ref, live) /\ T(h).id = h.id
    BY <1>10
  <2> HIDE DEF T
  <2> QED
    BY <2>1, <2>2, <2>3, <2>4 DEF Entry
<1> HIDE DEF K, T
<1>12. K \subseteq N
  BY DEF K
<1>13. \A w : w \in watches' <=> \E v \in watches : w = Forwarded(v, live) /\ w.ref # Invalid
  BY <1>4 DEF ForwardedSet
<1>14. \A w : w \in watches <=> \E h \in N : w \in WatchesFor(h, arena[h.ref].lits)
  BY <1>1 DEF Attaches
<1>15. ASSUME NEW h \in N, NEW s
       PROVE  /\ \A v \in WatchesFor(h, s) :
                   /\ Forwarded(v, live).ref # Invalid => h \in K
                   /\ h \in K => Forwarded(v, live) \in WatchesFor(T(h), s)
              /\ h \in K => \A w \in WatchesFor(T(h), s) :
                   \E v \in WatchesFor(h, s) : w = Forwarded(v, live) /\ w.ref # Invalid
  <2>1. CASE Len(s) < 2
    BY <2>1 DEF WatchesFor
  <2>2. CASE ~(Len(s) < 2)
    <3> DEFINE bin == Len(s) = 2
    <3>1. /\ WatchesFor(h, s) = {Entry(s[1], h, bin), Entry(s[2], h, bin)}
          /\ WatchesFor(T(h), s) = {Entry(s[1], T(h), bin), Entry(s[2], T(h), bin)}
      BY <2>2 DEF WatchesFor
    <3> HIDE DEF bin
    <3> QED
      BY <1>11, <3>1
  <2> QED
    BY <2>1, <2>2
<1>16. ASSUME NEW w
       PROVE  w \in watches' <=>
                \E g \in Named(irredundant', redundant') : w \in WatchesFor(g, arena'[g.ref].lits)
  <2>1. ASSUME w \in watches'
        PROVE  \E g \in Named(irredundant', redundant') : w \in WatchesFor(g, arena'[g.ref].lits)
    <3>1. PICK v \in watches : w = Forwarded(v, live) /\ w.ref # Invalid
      BY <1>13, <2>1
    <3>2. PICK h \in N : v \in WatchesFor(h, arena[h.ref].lits)
      BY <1>14
    <3>3. h \in K /\ w \in WatchesFor(T(h), arena[h.ref].lits)
      BY <1>15, <3>1, <3>2
    <3>4. T(h) \in Named(irredundant', redundant') /\ arena'[T(h).ref].lits = arena[h.ref].lits
      BY <1>9, <1>10, <3>3
    <3> QED
      BY <3>3, <3>4
  <2>2. ASSUME NEW g \in Named(irredundant', redundant'), w \in WatchesFor(g, arena'[g.ref].lits)
        PROVE  w \in watches'
    <3>1. PICK h \in K : g = T(h)
      BY <1>9
    <3>2. w \in WatchesFor(T(h), arena[h.ref].lits) /\ h \in N
      BY <1>10, <1>12, <2>2, <3>1
    <3>3. PICK v \in WatchesFor(h, arena[h.ref].lits) : w = Forwarded(v, live) /\ w.ref # Invalid
      BY <1>15, <3>2
    <3>4. v \in watches
      BY <1>14, <3>2, <3>3
    <3> QED
      BY <1>13, <3>3, <3>4
  <2> QED
    BY <2>1, <2>2
<1>17. watches' = UNION {WatchesFor(g, arena'[g.ref].lits) : g \in Named(irredundant', redundant')}
  BY <1>16
<1>18. ASSUME NEW u
       PROVE  u \in units' <=> u \in Named(irredundant', redundant') /\ Len(arena'[u.ref].lits) < 2
  <2>1. u \in units' <=> \E h \in units : u = Forwarded(h, live) /\ u.ref # Invalid
    BY <1>4 DEF ForwardedSet
  <2>2. \A h : h \in units <=> h \in N /\ Len(arena[h.ref].lits) < 2
    BY <1>1 DEF Attaches
  <2>3. ASSUME u \in units'
        PROVE  u \in Named(irredundant', redundant') /\ Len(arena'[u.ref].lits) < 2
    <3>1. PICK h \in units : u = Forwarded(h, live) /\ u.ref # Invalid
      BY <2>1, <2>3
    <3>2. h \in N /\ Len(arena[h.ref].lits) < 2 /\ h \in Holds
      BY <1>8, <2>2
    <3>3. h \in K
      <4>1. Forwarded(h, live).ref = Forward(h.ref, live)
        BY <3>2 DEF Forwarded, Holds
      <4>2. h.ref \in live
        BY <3>1, <4>1 DEF Forward
      <4> QED
        BY <1>8, <3>2, <4>2
    <3>4. u = T(h) /\ arena'[T(h).ref].lits = arena[h.ref].lits
      BY <1>10, <3>1, <3>3
    <3> QED
      BY <1>9, <3>2, <3>3, <3>4
  <2>4. ASSUME u \in Named(irredundant', redundant'), Len(arena'[u.ref].lits) < 2
        PROVE  u \in units'
    <3>1. PICK h \in K : u = T(h)
      BY <1>9, <2>4
    <3>2. u = Forwarded(h, live) /\ u.ref # Invalid /\ Len(arena[h.ref].lits) < 2
      BY <1>10, <2>4, <3>1
    <3> QED
      BY <1>12, <2>1, <2>2, <3>2
  <2> QED
    BY <2>3, <2>4
<1>19. Attaches(watches', units', arena', Named(irredundant', redundant'))
  <2>1. units' = {h \in Named(irredundant', redundant') : Len(arena'[h.ref].lits) < 2}
    BY <1>18
  <2> QED
    BY <1>17, <2>1 DEF Attaches
<1>20. reasons' \subseteq Named(irredundant', redundant')
  <2>1. ASSUME NEW h \in reasons PROVE h \in K
    BY <1>1, <1>3 DEF K, Protected, RefsOf
  <2>2. ASSUME NEW h \in reasons PROVE Forwarded(h, live) \in Named(irredundant', redundant')
    BY <1>9, <1>10, <2>1
  <2> QED
    BY <1>4, <2>2
<1>21. Intact(arena', top', irredundant', redundant', created')
  BY <1>1, <1>4, <1>5
<1> QED
  BY <1>1, <1>19, <1>20, <1>21, InvNext

-----------------------------------------------------------------------------
(* The theorems                                                            *)

\* Every step keeps the strengthening.
LEMMA StoreInvStep ==
  ASSUME StoreInv, [Next]_vars, ~ReduceInProbe
  PROVE  StoreInv'
<1>1. CASE AddClause
  BY <1>1, AddClauseKeeps
<1>2. CASE StartProbe
  BY <1>2, StartProbeKeeps
<1>3. CASE VisitMoved
  BY <1>3, VisitMovedKeeps
<1>4. CASE VisitUnit
  BY <1>4, VisitUnitKeeps
<1>5. CASE Bump
  BY <1>5, BumpKeeps
<1>6. CASE Learn
  BY <1>6, LearnKeeps
<1>7. CASE Reduce
  BY <1>7, ReduceKeeps
<1>8. CASE Rollback
  BY <1>8, RollbackKeeps
<1>9. CASE PassAdds
  BY <1>9, PassAddsKeeps
<1>10. CASE PassRemoves
  BY <1>10, PassRemovesKeeps
<1>11. CASE PassPromotes
  BY <1>11, PassPromotesKeeps
<1>12. CASE PassShortens
  BY <1>12, PassShortensKeeps
<1>13. CASE \/ StartPreprocess \/ AssignUnit \/ Backtrack \/ Answer \/ StartInprocess \/ EndPasses
            \/ UNCHANGED vars
  BY <1>13, QuietSteps
<1> QED
  BY <1>1, <1>2, <1>3, <1>4, <1>5, <1>6, <1>7, <1>8, <1>9, <1>10, <1>11, <1>12, <1>13 DEF Next

\* An empty store has it.
LEMMA StoreInvInit ==
  ASSUME Init
  PROVE  StoreInv
<1>1. Named({}, <<>>) = {} /\ Elements(<<>>) = {} /\ Listed = {}
  BY DEF Named, Elements, Init, Listed
<1>2. Intact(<<>>, 0, {}, <<>>, 0)
  <2>1. DOMAIN <<>> = {} /\ <<>> \in [DOMAIN <<>> -> Blocks] /\ <<>> \in Seq(Holds)
    OBVIOUS
  <2>2. Distinct(<<>>)
    BY DEF Distinct
  <2> QED
    BY <1>1, <2>1, <2>2 DEF Intact
<1> QED
  BY <1>1, <1>2 DEF Init, StoreInv, Searching

\* The arena, the two lists and the watch lists always fit each other, and in a
\* raw probe so do the snapshot and the part of the lists it is for
\* (clause::database, clause::storage, solver_core::rebuild_propagation_state),
\* whatever is learned, reduced, simplified, compacted or given up - as long as
\* no reduction comes due in the raw probe, which at the default interval of a
\* thousand conflicts none does.
THEOREM StoreInductive ==
  ASSUME ~ReduceInProbe
  PROVE  Spec => []StoreInv
<1>1. Init => StoreInv
  BY StoreInvInit
<1>2. StoreInv /\ [Next]_vars => StoreInv'
  BY StoreInvStep
<1> QED
  BY <1>1, <1>2, PTL DEF Spec

\* A sequence without repetition is as long as the set of its elements is large.
LEMMA DistinctCounts ==
  ASSUME NEW S, NEW s \in Seq(S), Distinct(s)
  PROVE  Cardinality(Elements(s)) = Len(s)
<1> DEFINE n == Len(s)
<1>1. n \in Nat
  OBVIOUS
<1> DEFINE F == [i \in 1..n |-> s[i]]
<1>2. F \in [1..n -> Elements(s)]
  BY DEF Elements
<1>3. \A i, j \in 1..n : F[i] = F[j] => i = j
  BY DEF Distinct
<1>4. \A t \in Elements(s) : \E i \in 1..n : F[i] = t
  BY DEF Elements
<1> HIDE DEF F, n
<1>5. F \in Bijection(1..n, Elements(s))
  BY <1>2, <1>3, <1>4, Fun_IsBij
<1>6. ExistsBijection(1..n, Elements(s))
  BY <1>5 DEF ExistsBijection
<1>7. IsFiniteSet(1..n) /\ Cardinality(1..n) = n
  <2>1. /\ IsFiniteSet(1..n)
        /\ Cardinality(1..n) = IF 1 > n THEN 0 ELSE n - 1 + 1
    BY <1>1, FS_Interval
  <2> QED
    BY <1>1, <2>1
<1>8. Cardinality(Elements(s)) = Cardinality(1..n)
  BY <1>6, <1>7, FS_Bijection
<1> QED
  BY <1>7, <1>8 DEF n

\* Every reference in use names, by its current offset, the live clause it was
\* taken for (clause::database, storage::collect_garbage, the watch lists, the
\* reasons on the trail).
THEOREM ReferencesStand ==
  ASSUME ~ReduceInProbe
  PROVE  Spec => []ReferencesCurrent
<1>1. StoreInv => ReferencesCurrent
  <2> SUFFICES ASSUME StoreInv PROVE ReferencesCurrent
    OBVIOUS
  <2>1. /\ Intact(arena, top, irredundant, redundant, created)
        /\ Searching => Attaches(watches, units, arena, Listed)
        /\ ~Searching => watches = {} /\ units = {}
        /\ reasons \subseteq Listed
        /\ Listed = Named(irredundant, redundant)
    BY InvParts
  <2>2. \A h \in Listed : Current(h) /\ arena[h.ref].redundant = (h \in Elements(redundant))
    BY <2>1 DEF Intact, Named, Current
  <2>3. Cardinality(Elements(redundant)) = Len(redundant)
    BY <2>1, DistinctCounts DEF Intact
  <2>4. /\ \A r \in DOMAIN arena : arena[r].alive => r \in RefsOf(Listed)
        /\ \A r \in DOMAIN arena : r + Size(arena[r]) <= top
        /\ \A r, q \in DOMAIN arena : r < q => r + Size(arena[r]) <= q
    BY <2>1 DEF Intact, Named
  <2>5. ListsExact
    BY <2>2, <2>3, <2>4 DEF ListsExact
  <2>6. \A w \in watches : Hold(w.ref, w.id) \in Listed
    <3>1. CASE Searching
      BY <2>1, <3>1, WatchNames
    <3>2. CASE ~Searching
      BY <2>1, <3>2
    <3> QED
      BY <3>1, <3>2
  <2>7. units \subseteq Listed
    BY <2>1 DEF Attaches
  <2> QED
    BY <2>1, <2>5, <2>6, <2>7 DEF ReferencesCurrent, HoldersCurrent
<1>2. Spec => []StoreInv
  BY StoreInductive
<1> QED
  BY <1>1, <1>2, PTL

\* While propagation runs, the watch entries of a clause are two, on its first
\* two literals, tagged by its length: what the XOR in propagate recovers the
\* other watch from.
THEOREM WatchesPaired ==
  ASSUME ~ReduceInProbe
  PROVE  Spec => []WatchedPairs
<1>1. StoreInv => WatchedPairs
  <2> SUFFICES ASSUME StoreInv, Searching, NEW h \in Listed
               PROVE  LET s == arena[h.ref].lits
                          mine == {w \in watches : w.id = h.id}
                      IN IF Len(s) < 2 THEN mine = {} /\ h \in units
                         ELSE /\ {w.lit : w \in mine} = {s[1], s[2]}
                              /\ Cardinality(mine) = 2
                              /\ h \notin units
                              /\ \A w \in mine : w.binary = (Len(s) = 2)
    BY DEF WatchedPairs
  <2> DEFINE s == arena[h.ref].lits
             mine == {w \in watches : w.id = h.id}
             bin == Len(s) = 2
             e1 == Entry(s[1], h, bin)
             e2 == Entry(s[2], h, bin)
  <2>1. /\ Intact(arena, top, irredundant, redundant, created)
        /\ Attaches(watches, units, arena, Listed)
        /\ Listed = Named(irredundant, redundant)
    BY InvParts
  <2>2. /\ \A w : w \in watches <=> \E g \in Listed : w \in WatchesFor(g, arena[g.ref].lits)
        /\ h \in units <=> Len(s) < 2
    BY <2>1 DEF Attaches
  <2>3. mine = WatchesFor(h, s)
    <3>1. ASSUME NEW w \in mine PROVE w \in WatchesFor(h, s)
      <4>1. PICK g \in Listed : w \in WatchesFor(g, arena[g.ref].lits)
        BY <2>2
      <4>2. w.id = g.id /\ w.id = h.id
        BY <4>1, WatchesName
      <4>3. g = h
        BY <2>1, <4>2, HoldsApart
      <4> QED
        BY <4>1, <4>3
    <3>2. ASSUME NEW w \in WatchesFor(h, s) PROVE w \in mine
      BY <2>2, <3>2, WatchesName
    <3> QED
      BY <3>1, <3>2
  <2>4. h.ref \in DOMAIN arena /\ s \in Seq(Int) /\ Distinct(s)
    <3>1. h.ref \in DOMAIN arena
      BY <2>1 DEF Intact, Named
    <3>2. arena[h.ref] \in Blocks
      BY <2>1, <3>1 DEF Intact
    <3> QED
      BY <3>1, <3>2 DEF Blocks
  <2>5. CASE Len(s) < 2
    BY <2>2, <2>3, <2>5 DEF WatchesFor
  <2>6. CASE ~(Len(s) < 2)
    <3>1. mine = {e1, e2}
      BY <2>3, <2>6 DEF WatchesFor
    <3>2. s[1] # s[2]
      <4> HIDE DEF s
      <4>1. 1 \in 1..Len(s) /\ 2 \in 1..Len(s)
        BY <2>4, <2>6
      <4> QED
        BY <2>4, <4>1 DEF Distinct
    <3> HIDE DEF s, mine, bin
    <3>3. /\ e1.lit = s[1] /\ e2.lit = s[2] /\ e1.binary = bin /\ e2.binary = bin
      BY DEF Entry
    <3> HIDE DEF e1, e2
    <3>4. e1 # e2
      BY <3>2, <3>3
    <3>5. Cardinality(mine) = 2
      <4>1. IsFiniteSet({e1}) /\ Cardinality({e1}) = 1
        BY FS_Singleton
      <4>2. Cardinality({e1} \cup {e2}) = Cardinality({e1}) + 1
        BY <3>4, <4>1, FS_AddElement
      <4>3. mine = {e1} \cup {e2}
        BY <3>1
      <4> QED
        BY <4>1, <4>2, <4>3
    <3>6. {w.lit : w \in mine} = {s[1], s[2]}
      BY <3>1, <3>3
    <3>7. \A w \in mine : w.binary = bin
      BY <3>1, <3>3
    <3> QED
      BY <2>2, <2>6, <3>5, <3>6, <3>7 DEF s, mine, bin
  <2> QED
    BY <2>5, <2>6
<1>2. Spec => []StoreInv
  BY StoreInductive
<1> QED
  BY <1>1, <1>2, PTL

\* Only a rollback leads from the probe to preprocessing.
LEMMA ProbeEnds ==
  ASSUME [Next]_vars, phase = "probe", phase' = "preprocess"
  PROVE  Rollback
<1>1. ~(\/ AddClause \/ StartProbe \/ StartPreprocess \/ PassAdds \/ PassRemoves
        \/ PassPromotes \/ PassShortens \/ EndPasses)
  BY DEF AddClause, StartProbe, StartPreprocess, PassAdds, PassRemoves, PassPromotes,
         PassShortens, EndPasses, PassCounted, InPasses
<1>2. ~(\/ VisitMoved \/ VisitUnit \/ AssignUnit \/ Bump \/ Backtrack \/ Learn \/ Reduce)
  BY DEF VisitMoved, VisitUnit, AssignUnit, Bump, Backtrack, Learn, Reduce
<1>3. ~(Answer \/ StartInprocess \/ UNCHANGED vars)
  BY DEF Answer, StartInprocess, vars
<1> QED
  BY <1>1, <1>2, <1>3 DEF Next

\* Giving up the raw probe leaves exactly the clauses of before it, each with its
\* literals in the order they were in (solver_core::solve, storage's snapshot,
\* discard_redundant_since).
THEOREM ProbeLeavesNoTrace ==
  ASSUME ~ReduceInProbe
  PROVE  Spec => RollbackRestores
<1>1. StoreInv /\ [Next]_vars =>
        [phase = "probe" /\ phase' = "preprocess" => Contents' = image.contents]_vars
  BY ProbeEnds, RollbackKeeps
<1>2. Spec => []StoreInv
  BY StoreInductive
<1> QED
  BY <1>1, <1>2, PTL DEF Spec, RollbackRestores

-----------------------------------------------------------------------------
(* The table                                                               *)

Row(ar, h) == [id |-> h.id, lits |-> Elements(ar[h.ref].lits), redundant |-> ar[h.ref].redundant]
Rows       == Meaning(Contents)
Kept       == IF image.taken THEN {Meaning(image.contents)} ELSE {}

\* The table's rows, one for each listed clause, under its name.
LEMMA RowsAre ==
  /\ \A x : x \in Rows <=> \E h \in Listed : x = Row(arena, h)
  /\ \A x : x \in Rows' <=> \E h \in Named(irredundant', redundant') : x = Row(arena', h)
<1> DEFINE Clause(ar, h) == [id |-> h.id, lits |-> ar[h.ref].lits, redundant |-> ar[h.ref].redundant]
           Means(c) == [id |-> c.id, lits |-> Elements(c.lits), redundant |-> c.redundant]
<1>1. Contents = {Clause(arena, h) : h \in Listed}
  BY DEF Contents
<1>2. Contents' = {Clause(arena', h) : h \in Named(irredundant', redundant')}
  BY DEF Contents, Listed, Named
<1>3. \A ar, h : Means(Clause(ar, h)) = Row(ar, h)
  BY DEF Row
<1>4. \A cs : Meaning(cs) = {Means(c) : c \in cs}
  BY DEF Meaning
<1> HIDE DEF Clause, Means
<1>5. \A x : x \in Rows <=> \E h \in Listed : x = Row(arena, h)
  <2>1. \A x : x \in Rows <=> \E c \in Contents : x = Means(c)
    BY <1>4 DEF Rows
  <2>2. \A c : c \in Contents <=> \E h \in Listed : c = Clause(arena, h)
    BY <1>1
  <2> QED
    BY <1>3, <2>1, <2>2
<1>6. \A x : x \in Rows' <=> \E h \in Named(irredundant', redundant') : x = Row(arena', h)
  <2>1. \A x : x \in Rows' <=> \E c \in Contents' : x = Means(c)
    BY <1>4 DEF Rows
  <2>2. \A c : c \in Contents' <=> \E h \in Named(irredundant', redundant') : c = Clause(arena', h)
    BY <1>2
  <2> QED
    BY <1>3, <2>1, <2>2
<1> QED
  BY <1>5, <1>6

\* Rows of different clauses have different names, and none is beyond the count.
LEMMA RowsApart ==
  ASSUME StoreInv, NEW g \in Listed, NEW h \in Listed
  PROVE  /\ Row(arena, g) = Row(arena, h) => g = h
         /\ Row(arena, h).id = h.id /\ h.id \in Nat /\ h.id <= created /\ created \in Nat
         /\ Row(arena, h).lits = Elements(arena[h.ref].lits)
         /\ Row(arena, h).redundant = arena[h.ref].redundant
         /\ arena[h.ref].redundant = (h \in Elements(redundant))
         /\ h.ref \in DOMAIN arena /\ arena[h.ref] \in Blocks
<1>1. /\ Intact(arena, top, irredundant, redundant, created) /\ created \in Nat
      /\ Listed = Named(irredundant, redundant)
  BY InvParts
<1>2. Row(arena, h).id = h.id /\ Row(arena, g).id = g.id
  BY DEF Row
<1>3. Row(arena, g) = Row(arena, h) => g = h
  BY <1>1, <1>2, HoldsApart
<1>4. /\ h.ref \in DOMAIN arena /\ arena[h.ref].id = h.id
      /\ arena[h.ref].redundant = (h \in Elements(redundant))
  BY <1>1 DEF Intact, Named
<1>5. h.id <= created /\ h.id \in Nat /\ arena[h.ref] \in Blocks
  <2>1. arena[h.ref] \in Blocks /\ arena[h.ref].id <= created
    BY <1>1, <1>4 DEF Intact
  <2> QED
    BY <1>4, <2>1 DEF Blocks
<1> QED
  BY <1>1, <1>2, <1>3, <1>4, <1>5 DEF Row

\* The steps the table does not see.
Unseen == Rows' = Rows /\ Kept' = Kept /\ InPasses' = InPasses

\* Reordering a clause's literals does not change the row.
LEMMA RowsSame ==
  ASSUME StoreInv, irredundant' = irredundant, redundant' = redundant,
         \A h \in Listed : Row(arena', h) = Row(arena, h)
  PROVE  Rows' = Rows
<1>1. Named(irredundant', redundant') = Listed
  BY DEF Named, Listed
<1>2. \A x : x \in Rows' <=> x \in Rows
  BY <1>1, RowsAre
<1> QED
  BY <1>2

\* A propagation or an analysis changes no row.
LEMMA SearchUnseen ==
  ASSUME StoreInv, VisitMoved \/ VisitUnit \/ Bump \/ AssignUnit \/ Backtrack
  PROVE  Unseen
<1>1. /\ Intact(arena, top, irredundant, redundant, created)
      /\ reasons \subseteq Listed /\ Listed = Named(irredundant, redundant)
  BY InvParts
<1>2. /\ UNCHANGED <<irredundant, redundant, phase, image>> /\ Searching
  BY DEF VisitMoved, VisitUnit, Bump, AssignUnit, Backtrack, storeVars
<1>3. Kept' = Kept /\ InPasses' = InPasses
  BY <1>2 DEF Kept, InPasses
<1>4. \A h \in Listed : h.ref \in DOMAIN arena /\ arena[h.ref] \in Blocks
  BY RowsApart
<1>5. ASSUME AssignUnit \/ Backtrack PROVE \A h \in Listed : Row(arena', h) = Row(arena, h)
  BY <1>5 DEF AssignUnit, Backtrack, storeVars
<1>6. ASSUME Bump PROVE \A h \in Listed : Row(arena', h) = Row(arena, h)
  <2>1. PICK g \in reasons : arena' = [arena EXCEPT ![g.ref].used = Bumped(arena[g.ref].used)]
    BY <1>6 DEF Bump
  <2>2. ASSUME NEW h \in Listed
        PROVE  arena'[h.ref].lits = arena[h.ref].lits /\ arena'[h.ref].redundant = arena[h.ref].redundant
    <3>1. h.ref \in DOMAIN arena /\ arena[h.ref] \in Blocks
      BY <1>4
    <3> QED
      BY <2>1, <3>1 DEF Blocks
  <2> QED
    BY <2>2 DEF Row
<1>7. ASSUME NEW q \in DOMAIN arena, NEW t, arena' = Relit(arena, q, t),
             Elements(t) = Elements(arena[q].lits)
      PROVE  \A h \in Listed : Row(arena', h) = Row(arena, h)
  <2>1. ASSUME NEW h \in Listed
        PROVE  /\ Elements(arena'[h.ref].lits) = Elements(arena[h.ref].lits)
               /\ arena'[h.ref].redundant = arena[h.ref].redundant
    <3>1. h.ref \in DOMAIN arena /\ arena[h.ref] \in Blocks
      BY <1>4
    <3>2. CASE h.ref = q
      <4>1. arena'[q] = [arena[q] EXCEPT !.lits = t]
        BY <1>7 DEF Relit
      <4>2. arena'[q].lits = t /\ arena'[q].redundant = arena[q].redundant
        BY <3>1, <3>2, <4>1 DEF Blocks
      <4> QED
        BY <1>7, <3>2, <4>2
    <3>3. CASE h.ref # q
      BY <1>7, <3>1, <3>3 DEF Relit
    <3> QED
      BY <3>2, <3>3
  <2> QED
    BY <2>1 DEF Row
<1>8. ASSUME VisitUnit PROVE \A h \in Listed : Row(arena', h) = Row(arena, h)
  <2>1. PICK w \in watches :
          arena' = IF w.binary THEN arena
                   ELSE [arena EXCEPT ![w.ref].lits = Fronted(arena[w.ref].lits, w)]
    BY <1>8 DEF VisitUnit
  <2>2. PICK h \in Named(irredundant, redundant) :
           LET s == arena[h.ref].lits IN
           /\ w.ref = h.ref /\ h.ref \in DOMAIN arena
           /\ s \in Seq(Int) /\ Distinct(s) /\ Len(s) \in Nat /\ Len(s) >= 2
           /\ s[1] # s[2] /\ w.lit \in {s[1], s[2]}
    BY <1>2, WatchNames
  <2> DEFINE s == arena[w.ref].lits
  <2>3. s \in Seq(Int) /\ Distinct(s) /\ Len(s) >= 2 /\ w.lit \in {s[1], s[2]} /\ w.ref \in DOMAIN arena
    BY <2>2
  <2>4. Elements(Fronted(s, w)) = Elements(s)
    <3> DEFINE t == Fronted(s, w)
    <3> HIDE DEF s
    <3>1. Len(t) = Len(s) /\ Len(s) \in Nat
      BY <2>3, FrontedIs
    <3>2. (t[1] = s[1] /\ t[2] = s[2]) \/ (t[1] = s[2] /\ t[2] = s[1])
      BY <2>3, FrontedIs
    <3>3. \A i \in 3..Len(s) : t[i] = s[i]
      BY <2>3, <3>1 DEF Fronted
    <3> HIDE DEF t
    <3>4. \A i \in 1..Len(s) : i = 1 \/ i = 2 \/ i \in 3..Len(s)
      BY <3>1
    <3>5. 1 \in 1..Len(s) /\ 2 \in 1..Len(s)
      BY <2>3, <3>1
    <3>6. \A i \in 1..Len(s) : t[i] \in Elements(s) /\ s[i] \in Elements(t)
      <4>1. \A i \in 1..Len(s) : s[i] \in Elements(s) /\ t[i] \in Elements(t)
        BY <3>1 DEF Elements
      <4> QED
        BY <3>2, <3>3, <3>4, <3>5, <4>1
    <3> QED
      BY <3>1, <3>6 DEF Elements, t
  <2>5. CASE w.binary
    BY <2>1, <2>5
  <2>6. CASE ~w.binary
    BY <1>7, <2>1, <2>3, <2>4, <2>6 DEF Relit
  <2> QED
    BY <2>5, <2>6
<1>9. ASSUME VisitMoved PROVE \A h \in Listed : Row(arena', h) = Row(arena, h)
  <2>1. PICK w \in watches : \E k \in 3..Len(arena[w.ref].lits) :
          arena' = [arena EXCEPT ![w.ref].lits = Swapped(arena[w.ref].lits, k, w)]
    BY <1>9 DEF VisitMoved
  <2>2. PICK k \in 3..Len(arena[w.ref].lits) :
          arena' = [arena EXCEPT ![w.ref].lits = Swapped(arena[w.ref].lits, k, w)]
    BY <2>1
  <2>3. PICK h \in Named(irredundant, redundant) :
           LET s == arena[h.ref].lits IN
           /\ w.ref = h.ref /\ h.ref \in DOMAIN arena
           /\ s \in Seq(Int) /\ Distinct(s) /\ Len(s) \in Nat
           /\ s[1] # s[2] /\ w.lit \in {s[1], s[2]}
    BY <1>2, WatchNames
  <2> DEFINE s == arena[w.ref].lits
             o == OtherWatch(s, w.lit)
  <2>4. /\ s \in Seq(Int) /\ Distinct(s) /\ w.lit \in {s[1], s[2]} /\ w.ref \in DOMAIN arena
        /\ k \in 3..Len(s) /\ Len(s) \in Nat /\ s[1] # s[2]
    BY <2>2, <2>3
  <2>5. Elements(Swapped(s, k, w)) = Elements(s)
    <3> DEFINE t == Swapped(s, k, w)
               l == w.lit
    <3> HIDE DEF s
    <3>1. Len(t) = Len(s) /\ t[1] = o /\ t[2] = s[k]
      BY <2>4, SwappedIs
    <3>2. (o = s[1] /\ l = s[2]) \/ (o = s[2] /\ l = s[1])
      BY <2>4, OtherIs
    <3> HIDE DEF o
    <3>3. t = [s EXCEPT ![1] = o, ![2] = s[k], ![k] = l]
      BY DEF Swapped, o
    <3> HIDE DEF t, l
    <3>4. t[k] = l /\ \A i \in 3..Len(s) : i # k => t[i] = s[i]
      BY <2>4, <3>3
    <3>5. \A i \in 1..Len(s) : i = 1 \/ i = 2 \/ i = k \/ (i \in 3..Len(s) /\ i # k)
      BY <2>4
    <3>6. 1 \in 1..Len(s) /\ 2 \in 1..Len(s) /\ k \in 1..Len(s)
      BY <2>4
    <3>7. \A i \in 1..Len(s) : t[i] \in Elements(s) /\ s[i] \in Elements(t)
      <4>1. \A i \in 1..Len(s) : s[i] \in Elements(s) /\ t[i] \in Elements(t)
        BY <3>1 DEF Elements
      <4> QED
        BY <3>1, <3>2, <3>4, <3>5, <3>6, <4>1
    <3> QED
      BY <3>1, <3>7 DEF Elements, t
  <2> QED
    BY <1>7, <2>2, <2>4, <2>5 DEF Relit
<1>10. \A h \in Listed : Row(arena', h) = Row(arena, h)
  BY <1>5, <1>6, <1>8, <1>9
<1> QED
  BY <1>2, <1>3, <1>10, RowsSame DEF Unseen

\* The steps of the table, in the terms of the store.
LEMMA TableSteps ==
  /\ (/\ \E c \in Rows' \ Rows : (\A d \in Rows : d.id < c.id) /\ Rows' = Rows \cup {c}
      /\ Kept' = Kept /\ InPasses' = InPasses) => Table!Record
  /\ (/\ ~InPasses /\ Rows' \subseteq Rows /\ \A c \in Rows \ Rows' : c.redundant
      /\ Kept' = Kept /\ InPasses' = InPasses) => Table!Forget
  /\ (/\ InPasses /\ \E d \in Rows : Rows' = Rows \ {d}
      /\ Kept' = Kept /\ InPasses' = InPasses) => Table!Simplify
  /\ (/\ InPasses
      /\ \E d \in Rows : \E c \in Rows' : /\ c.id = d.id /\ c.lits \subseteq d.lits
                                          /\ c.redundant => d.redundant
                                          /\ Rows' = (Rows \ {d}) \cup {c}
      /\ Kept' = Kept /\ InPasses' = InPasses) => Table!Simplify
  /\ Rows' = Rows /\ Kept' = Kept => Table!Turn
  /\ Kept' = {Rows} /\ Rows' = Rows /\ InPasses' = InPasses => Table!Save
  /\ Kept' = {} /\ Rows' = Rows => Table!Keep
  /\ Kept = {Rows'} /\ Kept' = {} => Table!GoBack
  /\ Unseen => UNCHANGED Table!vars
<1>1. InPasses' \in BOOLEAN
  BY DEF InPasses
<1>2. (/\ \E c \in Rows' \ Rows : (\A d \in Rows : d.id < c.id) /\ Rows' = Rows \cup {c}
       /\ Kept' = Kept /\ InPasses' = InPasses) => Table!Record
  BY DEF Table!Record, Table!Fresh, Table!Names, Rows, Kept
<1>3. (/\ ~InPasses /\ Rows' \subseteq Rows /\ \A c \in Rows \ Rows' : c.redundant
       /\ Kept' = Kept /\ InPasses' = InPasses) => Table!Forget
  BY DEF Table!Forget, Rows, Kept
<1>4. (/\ InPasses /\ \E d \in Rows : Rows' = Rows \ {d}
       /\ Kept' = Kept /\ InPasses' = InPasses) => Table!Simplify
  BY DEF Table!Simplify, Rows, Kept
<1>5. (/\ InPasses
       /\ \E d \in Rows : \E c \in Rows' : /\ c.id = d.id /\ c.lits \subseteq d.lits
                                           /\ c.redundant => d.redundant
                                           /\ Rows' = (Rows \ {d}) \cup {c}
       /\ Kept' = Kept /\ InPasses' = InPasses) => Table!Simplify
  BY DEF Table!Simplify, Table!Weaker, Rows, Kept
<1>6. Rows' = Rows /\ Kept' = Kept => Table!Turn
  BY <1>1 DEF Table!Turn, Rows, Kept
<1>7. Kept' = {Rows} /\ Rows' = Rows /\ InPasses' = InPasses => Table!Save
  BY DEF Table!Save, Rows, Kept
<1>8. Kept' = {} /\ Rows' = Rows => Table!Keep
  BY <1>1 DEF Table!Keep, Rows, Kept
<1>9. Kept = {Rows'} /\ Kept' = {} => Table!GoBack
  BY <1>1 DEF Table!GoBack, Rows, Kept
<1>10. Unseen => UNCHANGED Table!vars
  BY DEF Unseen, Table!vars, Rows, Kept
<1> QED
  BY <1>2, <1>3, <1>4, <1>5, <1>6, <1>7, <1>8, <1>9, <1>10

\* A clause stated or learned is a row recorded under a new name.
LEMMA CreationRecords ==
  ASSUME StoreInv, NEW s \in Stated \cup Learnt, NEW learned \in BOOLEAN, NEW glue \in Nat,
         Created(s, learned, glue),
         \/ /\ ~learned /\ irredundant' = irredundant \cup {NewHold} /\ redundant' = redundant
         \/ /\ learned /\ irredundant' = irredundant /\ redundant' = Append(redundant, NewHold),
         phase' = phase, image' = image
  PROVE  Table!Record
<1>1. /\ Intact(arena, top, irredundant, redundant, created) /\ created \in Nat
      /\ Listed = Named(irredundant, redundant)
  BY InvParts
<1>2. /\ Named(irredundant', redundant') = Listed \cup {NewHold}
      /\ \A g \in Listed : arena'[g.ref] = arena[g.ref]
  BY <1>1, CreatedKeeps
<1> DEFINE c == Row(arena', NewHold)
<1>3. c.id = created + 1
  BY DEF Row, NewHold, Hold
<1>4. \A g \in Listed : Row(arena', g) = Row(arena, g)
  BY <1>2 DEF Row
<1> HIDE DEF c
<1>5. Rows' = Rows \cup {c}
  <2>1. \A x : x \in Rows' <=> x \in Rows \/ x = c
    BY <1>2, <1>4, RowsAre DEF c
  <2> QED
    BY <2>1
<1>6. \A d \in Rows : d.id < c.id
  <2>1. ASSUME NEW d \in Rows PROVE d.id < c.id
    <3>1. PICK h \in Listed : d = Row(arena, h)
      BY RowsAre
    <3>2. d.id \in Nat /\ d.id <= created
      BY <3>1, RowsApart
    <3> QED
      BY <1>1, <1>3, <3>2
  <2> QED
    BY <2>1
<1>7. c \notin Rows
  BY <1>1, <1>3, <1>6
<1>8. Kept' = Kept /\ InPasses' = InPasses
  BY DEF Kept, InPasses
<1> QED
  BY <1>5, <1>6, <1>7, <1>8, TableSteps

\* Stating, learning and adding by a pass record a clause under a fresh name.
LEMMA AddsRecord ==
  ASSUME StoreInv, AddClause \/ Learn \/ PassAdds
  PROVE  Table!Record
<1>1. phase' = phase /\ image' = image
  BY DEF AddClause, Learn, PassAdds
<1>2. PICK s \in Stated \cup Learnt, learned \in BOOLEAN, glue \in Nat :
        /\ Created(s, learned, glue)
        /\ \/ /\ ~learned /\ irredundant' = irredundant \cup {NewHold} /\ redundant' = redundant
           \/ /\ learned /\ irredundant' = irredundant /\ redundant' = Append(redundant, NewHold)
  <2>1. CASE /\ \E s \in Stated : Created(s, FALSE, Len(s))
             /\ irredundant' = irredundant \cup {NewHold} /\ redundant' = redundant
    <3>1. PICK s \in Stated : Created(s, FALSE, Len(s))
      BY <2>1
    <3>2. Len(s) \in Nat
      BY ClausesAssumption
    <3> QED
      BY <2>1, <3>1, <3>2
  <2>2. CASE /\ \E s \in Learnt : \E glue \in 1..Len(s) \cup {1} : Created(s, TRUE, glue)
             /\ redundant' = Append(redundant, NewHold) /\ irredundant' = irredundant
    <3>1. PICK s \in Learnt : \E glue \in 1..Len(s) \cup {1} : Created(s, TRUE, glue)
      BY <2>2
    <3>2. PICK glue \in 1..Len(s) \cup {1} : Created(s, TRUE, glue)
      BY <3>1
    <3>3. glue \in Nat
      OBVIOUS
    <3> QED
      BY <2>2, <3>2, <3>3
  <2>3. CASE AddClause
    BY <2>1, <2>3 DEF AddClause
  <2>4. CASE Learn
    BY <2>2, <2>4 DEF Learn
  <2>5. CASE PassAdds
    BY <2>1, <2>2, <2>5 DEF PassAdds
  <2> QED
    BY <2>3, <2>4, <2>5
<1> QED
  BY <1>1, <1>2, CreationRecords

\* A reduction forgets rows of learned clauses.
LEMMA ReduceForgets ==
  ASSUME StoreInv, Reduce, ~ReduceInProbe
  PROVE  Table!Forget
<1>1. /\ Intact(arena, top, irredundant, redundant, created)
      /\ Listed = Named(irredundant, redundant)
      /\ phase = "search" /\ phase' = phase /\ image' = image
  BY InvParts DEF Reduce
<1>2. PICK gone \in Selected :
        LET kept == Omitting(redundant, gone)
            live == RefsOf(irredundant \cup Elements(kept))
        IN /\ arena' = CompactedArena(live)
           /\ irredundant' = ForwardedSet(irredundant, live)
           /\ redundant' = ForwardedSeq(kept, live)
  BY DEF Reduce, CompactedArena
<1>3. PICK kept, live :
        /\ kept = Omitting(redundant, gone)
        /\ live = RefsOf(irredundant \cup Elements(kept))
        /\ arena' = CompactedArena(live)
        /\ irredundant' = ForwardedSet(irredundant, live)
        /\ redundant' = ForwardedSeq(kept, live)
  BY <1>2
<1>4. gone \subseteq Elements(redundant)
  BY DEF Selected, Candidates
<1>5. Reduces(gone, kept, live, arena')
  BY <1>3, <1>4 DEF Reduces
<1>6. /\ \A r \in live : Target(r, live) \in Nat /\ arena'[Target(r, live)] = Aged(arena[r])
      /\ \A h \in Listed \ gone : h.ref \in live
      /\ \A g : g \in ForwardedSet(irredundant, live) \cup Elements(ForwardedSeq(kept, live)) <=>
                   \E h \in Listed \ gone : g = Hold(Target(h.ref, live), h.id)
  BY <1>1, <1>5, IntactReduced
<1>7. ASSUME NEW h \in Listed \ gone
      PROVE  Row(arena', Hold(Target(h.ref, live), h.id)) = Row(arena, h)
  <2> DEFINE g == Hold(Target(h.ref, live), h.id)
  <2>1. g.ref = Target(h.ref, live) /\ g.id = h.id
    BY DEF Hold
  <2>2. arena'[g.ref] = Aged(arena[h.ref])
    BY <1>6, <2>1
  <2>3. arena[h.ref] \in Blocks
    BY RowsApart
  <2>4. Aged(arena[h.ref]).lits = arena[h.ref].lits /\ Aged(arena[h.ref]).redundant = arena[h.ref].redundant
    BY <2>3 DEF Aged, Blocks
  <2> HIDE DEF g
  <2>5. Row(arena', g) = Row(arena, h)
    BY <2>1, <2>2, <2>4 DEF Row
  <2> QED
    BY <2>5 DEF g
<1>8. \A g : g \in Named(irredundant', redundant') <=>
               \E h \in Listed \ gone : g = Hold(Target(h.ref, live), h.id)
  BY <1>3, <1>6 DEF Named
<1>9. \A x : x \in Rows' <=> \E h \in Listed \ gone : x = Row(arena, h)
  BY <1>7, <1>8, RowsAre
<1>10. Rows' \subseteq Rows
  BY <1>9, RowsAre
<1>11. \A c \in Rows \ Rows' : c.redundant
  <2>1. ASSUME NEW c \in Rows, c \notin Rows' PROVE c.redundant
    <3>1. PICK h \in Listed : c = Row(arena, h)
      BY RowsAre
    <3>2. h \in gone
      BY <1>9, <2>1, <3>1
    <3>3. c.redundant = arena[h.ref].redundant /\ arena[h.ref].redundant = (h \in Elements(redundant))
      BY <3>1, RowsApart
    <3> QED
      BY <1>4, <3>2, <3>3
  <2> QED
    BY <2>1
<1>12. ~InPasses /\ InPasses' = InPasses /\ Kept' = Kept
  BY <1>1 DEF InPasses, Kept
<1> QED
  BY <1>10, <1>11, <1>12, TableSteps

\* A pass that touches one clause, and leaves it weaker, simplifies the table.
LEMMA ReplacedSimplifies ==
  ASSUME StoreInv, InPasses, phase' = phase, image' = image, NEW h \in Listed,
         Named(irredundant', redundant') = Listed,
         \A g \in Listed : g # h => arena'[g.ref] = arena[g.ref],
         Elements(arena'[h.ref].lits) \subseteq Elements(arena[h.ref].lits),
         arena'[h.ref].redundant => arena[h.ref].redundant
  PROVE  Table!Simplify
<1> DEFINE c == Row(arena', h)
           d == Row(arena, h)
<1>1. c.id = d.id /\ c.lits \subseteq d.lits /\ (c.redundant => d.redundant)
  BY DEF Row
<1>2. \A g \in Listed : g # h => Row(arena', g) = Row(arena, g)
  BY DEF Row
<1>3. \A g \in Listed : Row(arena, g) = d => g = h
  BY RowsApart
<1> HIDE DEF c, d
<1>4. d \in Rows /\ c \in Rows'
  BY RowsAre DEF c, d
<1>5. Rows' = (Rows \ {d}) \cup {c}
  <2>1. \A x : x \in Rows' <=> x \in (Rows \ {d}) \cup {c}
    <3>1. \A x : x \in Rows' <=> \E g \in Listed : x = Row(arena', g)
      BY RowsAre
    <3>2. \A x : x \in Rows <=> \E g \in Listed : x = Row(arena, g)
      BY RowsAre
    <3>3. ASSUME NEW x \in Rows' PROVE x \in (Rows \ {d}) \cup {c}
      <4>1. PICK g \in Listed : x = Row(arena', g)
        BY <3>1
      <4>2. CASE g = h
        BY <4>1, <4>2 DEF c
      <4>3. CASE g # h
        BY <1>2, <1>3, <3>2, <4>1, <4>3
      <4> QED
        BY <4>2, <4>3
    <3>4. ASSUME NEW x \in Rows, x # d PROVE x \in Rows'
      <4>1. PICK g \in Listed : x = Row(arena, g)
        BY <3>2
      <4>2. g # h
        BY <3>4, <4>1 DEF d
      <4> QED
        BY <1>2, <3>1, <4>1, <4>2
    <3> QED
      BY <1>4, <3>3, <3>4
  <2> QED
    BY <2>1
<1>6. Kept' = Kept /\ InPasses' = InPasses
  BY DEF Kept, InPasses
<1> QED
  BY <1>1, <1>4, <1>5, <1>6, TableSteps

\* A flushed clause's row is removed; a marked reason's stays.
LEMMA RemovalSimplifies ==
  ASSUME StoreInv, PassRemoves
  PROVE  Table!Simplify \/ Unseen
<1>1. /\ Intact(arena, top, irredundant, redundant, created)
      /\ Listed = Named(irredundant, redundant)
  BY InvParts
<1>2. InPasses /\ phase' = phase /\ image' = image
  BY DEF PassRemoves, PassCounted
<1>3. PICK h \in Listed :
        /\ arena' = MarkedDead(arena, Flushed({h}))
        /\ irredundant' = irredundant \ Flushed({h})
        /\ redundant' = Omitting(redundant, Flushed({h}))
  BY DEF PassRemoves, MarkedDead
<1> DEFINE gone == Flushed({h})
<1>4. gone = {} \/ gone = {h}
  BY DEF Flushed
<1>5. arena' = MarkedDead(arena, gone) /\ irredundant' = irredundant \ gone
      /\ redundant' = Omitting(redundant, gone)
  BY <1>3
<1> HIDE DEF gone
<1>6. Named(irredundant', redundant') = Listed \ gone
  <2>1. gone \in SUBSET Named(irredundant, redundant)
    BY <1>1, <1>4
  <2>2. arena' = MarkedDead(arena, gone)
    BY <1>5
  <2>3. /\ Intact(arena', top, irredundant \ gone, Omitting(redundant, gone), created)
        /\ Named(irredundant \ gone, Omitting(redundant, gone)) = Named(irredundant, redundant) \ gone
    BY <1>1, <2>1, <2>2, IntactRemoved
  <2> QED
    BY <1>1, <1>5, <2>3
<1>7. ASSUME NEW g \in Listed \ gone PROVE Row(arena', g) = Row(arena, g)
  <2>1. g.ref \notin RefsOf(gone)
    BY <1>1, <1>4, HoldsApart DEF RefsOf
  <2>2. g.ref \in DOMAIN arena
    BY RowsApart
  <2>3. arena'[g.ref] = arena[g.ref]
    BY <1>5, <2>1, <2>2 DEF MarkedDead
  <2> QED
    BY <2>3 DEF Row
<1>8. \A x : x \in Rows' <=> \E g \in Listed \ gone : x = Row(arena, g)
  BY <1>6, <1>7, RowsAre
<1>9. \A x : x \in Rows <=> \E g \in Listed : x = Row(arena, g)
  BY RowsAre
<1>10. Kept' = Kept /\ InPasses' = InPasses
  BY <1>2 DEF Kept, InPasses
<1>11. CASE gone = {}
  <2>1. Rows' = Rows
    BY <1>8, <1>9, <1>11
  <2> QED
    BY <1>10, <2>1 DEF Unseen
<1>12. CASE gone = {h}
  <2> DEFINE d == Row(arena, h)
  <2>1. d \in Rows
    BY <1>9
  <2>2. \A g \in Listed : Row(arena, g) = d => g = h
    BY RowsApart
  <2> HIDE DEF d
  <2>3. \A g \in Listed : g # h => Row(arena, g) # d
    BY <2>2
  <2>4. \A x : x \in Rows' <=> x \in Rows /\ x # d
    BY <1>8, <1>9, <1>12, <2>3 DEF d
  <2>5. Rows' = Rows \ {d}
    BY <2>4
  <2> QED
    BY <1>2, <1>10, <2>1, <2>5, TableSteps
<1> QED
  BY <1>4, <1>11, <1>12

\* A clause made permanent, a clause that lost a literal: the row is weaker.
LEMMA PromotionSimplifies ==
  ASSUME StoreInv, PassPromotes
  PROVE  Table!Simplify
<1>1. /\ Intact(arena, top, irredundant, redundant, created)
      /\ Listed = Named(irredundant, redundant)
  BY InvParts
<1>2. InPasses /\ phase' = phase /\ image' = image
  BY DEF PassPromotes, PassCounted
<1>3. PICK h \in Elements(redundant) :
        /\ redundant' = Omitting(redundant, {h})
        /\ irredundant' = irredundant \cup {h}
        /\ arena' = [arena EXCEPT ![h.ref].redundant = FALSE]
  BY DEF PassPromotes
<1>4. arena' = Promoted(arena, h.ref)
  <2>1. arena = [o \in DOMAIN arena |-> arena[o]]
    BY <1>1 DEF Intact
  <2> QED
    BY <1>3, <2>1 DEF Promoted
<1>5. Named(irredundant', redundant') = Listed
  <2>1. Named(irredundant \cup {h}, Omitting(redundant, {h})) = Named(irredundant, redundant)
    BY <1>1, <1>4, IntactPromoted
  <2> QED
    BY <1>1, <1>3, <2>1
<1>6. h \in Listed
  BY DEF Listed
<1>7. \A g \in Listed : g # h => arena'[g.ref] = arena[g.ref]
  <2>1. ASSUME NEW g \in Listed, g # h PROVE arena'[g.ref] = arena[g.ref]
    <3>1. g.ref # h.ref
      BY <1>1, <1>6, <2>1, HoldsApart
    <3>2. g.ref \in DOMAIN arena
      BY RowsApart
    <3> QED
      BY <1>4, <3>1, <3>2 DEF Promoted
  <2> QED
    BY <2>1
<1>8. /\ Elements(arena'[h.ref].lits) = Elements(arena[h.ref].lits)
      /\ arena'[h.ref].redundant = FALSE
  <2>1. h.ref \in DOMAIN arena /\ arena[h.ref] \in Blocks
    BY <1>6, RowsApart
  <2>2. arena'[h.ref] = [arena[h.ref] EXCEPT !.redundant = FALSE]
    BY <1>4, <2>1 DEF Promoted
  <2>3. \A b \in Blocks : [b EXCEPT !.redundant = FALSE].lits = b.lits
                          /\ [b EXCEPT !.redundant = FALSE].redundant = FALSE
    BY DEF Blocks
  <2> QED
    BY <2>1, <2>2, <2>3
<1> QED
  BY <1>2, <1>5, <1>6, <1>7, <1>8, ReplacedSimplifies

\* Removing a literal in place leaves a row with fewer literals.
LEMMA ShorteningSimplifies ==
  ASSUME StoreInv, PassShortens
  PROVE  Table!Simplify
<1>1. /\ Intact(arena, top, irredundant, redundant, created)
      /\ Listed = Named(irredundant, redundant)
  BY InvParts
<1>2. /\ InPasses /\ phase' = phase /\ image' = image
      /\ irredundant' = irredundant /\ redundant' = redundant
  BY DEF PassShortens, PassCounted
<1>3. PICK h \in Listed : \E k \in 1..Len(arena[h.ref].lits) :
        arena' = [arena EXCEPT ![h.ref].lits = Without(arena[h.ref].lits, k)]
  BY DEF PassShortens
<1>4. PICK k \in 1..Len(arena[h.ref].lits) :
        arena' = [arena EXCEPT ![h.ref].lits = Without(arena[h.ref].lits, k)]
  BY <1>3
<1> DEFINE s == arena[h.ref].lits
           t == Without(s, k)
<1>5. h.ref \in DOMAIN arena /\ arena[h.ref] \in Blocks
  BY RowsApart
<1>6. s \in Seq(Int) /\ k \in 1..Len(s)
  BY <1>5 DEF Blocks
<1>7. Elements(t) \subseteq Elements(s)
  <2> DEFINE n == Len(s) - 1
             F(i) == IF i < k THEN s[i] ELSE s[i + 1]
  <2>1. n \in Nat /\ Len(s) = n + 1 /\ k \in Nat
    BY <1>6
  <2>2. t = [i \in 1..n |-> F(i)]
    BY DEF Without
  <2>3. \A i \in 1..n : F(i) \in Elements(s)
    <3> HIDE DEF s
    <3>1. \A i \in 1..n : i \in 1..Len(s) /\ i + 1 \in 1..Len(s)
      BY <2>1
    <3> QED
      BY <3>1 DEF Elements
  <2> HIDE DEF F, n, s, t
  <2>4. t \in [1..n -> Elements(s)]
    BY <2>2, <2>3
  <2>5. Len(t) = n /\ \A i \in 1..n : t[i] = F(i)
    BY <2>1, <2>2
  <2>6. \A x : x \in Elements(t) => \E i \in 1..n : x = F(i)
    BY <2>5 DEF Elements
  <2> QED
    BY <2>3, <2>6
<1>8. arena' = Relit(arena, h.ref, t)
  BY <1>4 DEF Relit
<1> HIDE DEF t
<1>9. arena'[h.ref].lits = t /\ arena'[h.ref].redundant = arena[h.ref].redundant
  <2>1. arena'[h.ref] = [arena[h.ref] EXCEPT !.lits = t]
    BY <1>5, <1>8 DEF Relit
  <2> QED
    BY <1>5, <2>1 DEF Blocks
<1>10. \A g \in Listed : g # h => arena'[g.ref] = arena[g.ref]
  <2>1. ASSUME NEW g \in Listed, g # h PROVE arena'[g.ref] = arena[g.ref]
    <3>1. g.ref # h.ref
      BY <1>1, <2>1, HoldsApart
    <3>2. g.ref \in DOMAIN arena
      BY RowsApart
    <3> QED
      BY <1>8, <3>1, <3>2 DEF Relit
  <2> QED
    BY <2>1
<1>11. Named(irredundant', redundant') = Listed
  BY <1>1, <1>2
<1> QED
  BY <1>2, <1>7, <1>9, <1>10, <1>11, ReplacedSimplifies

\* The turns of an episode change no row: a probe keeps the table, a rollback
\* goes back to it, the others give the kept one up or only change the phase.
LEMMA TurnsOfAnEpisode ==
  ASSUME StoreInv
  PROVE  /\ StartProbe => Table!Save
         /\ Rollback => Table!GoBack
         /\ StartPreprocess \/ EndPasses => Table!Turn
         /\ StartInprocess \/ Answer => Table!Keep
         /\ UNCHANGED vars => Unseen
<1>1. UNCHANGED storeVars => Rows' = Rows
  BY RowsSame DEF storeVars, Row
<1>2. ASSUME StartProbe PROVE Table!Save
  <2>1. /\ UNCHANGED storeVars /\ phase = "idle" /\ phase' = "probe"
        /\ image' = [arena |-> arena, top |-> top, learned |-> Len(redundant),
                     contents |-> Contents, taken |-> TRUE]
    BY <1>2 DEF StartProbe
  <2>2. image'.taken /\ image'.contents = Contents
    BY <2>1
  <2>3. Kept' = {Rows}
    BY <2>2 DEF Kept, Rows, Meaning
  <2>4. InPasses' = InPasses
    BY <2>1 DEF InPasses
  <2> QED
    BY <1>1, <2>1, <2>3, <2>4, TableSteps
<1>3. NoImage.taken = FALSE
  BY DEF NoImage
<1>4. ASSUME Rollback PROVE Table!GoBack
  <2>1. phase = "probe" /\ image' = NoImage
    BY <1>4 DEF Rollback
  <2>2. image.taken
    BY <2>1, InvParts DEF ImageIntact
  <2>3. Contents' = image.contents
    BY <1>4, RollbackKeeps
  <2>4. Kept = {Rows'}
    BY <2>2, <2>3 DEF Kept, Rows, Meaning
  <2>5. Kept' = {}
    BY <1>3, <2>1 DEF Kept
  <2> QED
    BY <2>4, <2>5, TableSteps
<1>5. ASSUME StartPreprocess \/ EndPasses PROVE Table!Turn
  <2>1. UNCHANGED storeVars /\ image' = image
    BY <1>5 DEF StartPreprocess, EndPasses
  <2>2. Kept' = Kept
    BY <2>1 DEF Kept
  <2> QED
    BY <1>1, <2>1, <2>2, TableSteps
<1>6. ASSUME StartInprocess \/ Answer PROVE Table!Keep
  <2>1. UNCHANGED storeVars /\ image' = NoImage
    BY <1>6 DEF StartInprocess, Answer
  <2>2. Kept' = {}
    BY <1>3, <2>1 DEF Kept
  <2> QED
    BY <1>1, <2>1, <2>2, TableSteps
<1>7. ASSUME UNCHANGED vars PROVE Unseen
  BY <1>1, <1>7 DEF vars, Unseen, Kept, InPasses
<1> QED
  BY <1>2, <1>4, <1>5, <1>6, <1>7

\* The clause store implements the table its users see: clauses are stated and
\* learned under fresh names, only learned ones are forgotten, and only outside
\* simplification, which weakens one clause at a time; a probe given up leaves
\* the table of before it.  Moves in the arena and reordered literals are not
\* seen (clause::database, clause::arena, solver_core::solve, reduce).
THEOREM StoreImplementsTable ==
  ASSUME ~ReduceInProbe
  PROVE  Spec => ImplementsTable
<1>1. Init => Table!Init
  <2>1. ASSUME Init PROVE Contents = {} /\ ~image.taken /\ ~InPasses
    <3>1. Listed = {}
      BY <2>1 DEF Init, Listed, Elements
    <3> QED
      BY <2>1, <3>1 DEF Init, Contents, NoImage, InPasses
  <2>2. Contents = {} => Meaning(Contents) = {}
    BY DEF Meaning
  <2> QED
    BY <2>1, <2>2 DEF Table!Init
<1>2. StoreInv /\ [Next]_vars => [Table!Next]_(Table!vars)
  <2> SUFFICES ASSUME StoreInv, [Next]_vars
               PROVE  Table!Next \/ UNCHANGED Table!vars
    OBVIOUS
  <2>1. CASE AddClause \/ Learn \/ PassAdds
    BY <2>1, AddsRecord DEF Table!Next
  <2>2. CASE VisitMoved \/ VisitUnit \/ AssignUnit \/ Bump \/ Backtrack
    BY <2>2, SearchUnseen, TableSteps
  <2>3. CASE Reduce
    BY <2>3, ReduceForgets DEF Table!Next
  <2>4. CASE PassRemoves
    BY <2>4, RemovalSimplifies, TableSteps DEF Table!Next
  <2>5. CASE PassPromotes
    BY <2>5, PromotionSimplifies DEF Table!Next
  <2>6. CASE PassShortens
    BY <2>6, ShorteningSimplifies DEF Table!Next
  <2>7. CASE \/ StartProbe \/ Rollback \/ StartPreprocess \/ EndPasses
             \/ StartInprocess \/ Answer \/ UNCHANGED vars
    BY <2>7, TurnsOfAnEpisode, TableSteps DEF Table!Next
  <2> QED
    BY <2>1, <2>2, <2>3, <2>4, <2>5, <2>6, <2>7 DEF Next
<1>3. Spec => []StoreInv
  BY StoreInductive
<1> QED
  BY <1>1, <1>2, <1>3, PTL DEF Spec, ImplementsTable, Table!Spec

-----------------------------------------------------------------------------
(* The cold store                                                          *)

\* The bytes of a payload, and a reader of them.
PayloadBytes == [low : 0..GroupSize - 1, more : BOOLEAN]
Readers == [code : Nat, group : Nat, previous : Int, literals : Seq(RawLiterals), bad : BOOLEAN]
Reader == {d \in Readers : d.bad \/ d.group <= LastGroup}

\* What a code is cut into: the rests after each group, down to one below a
\* group's size.
Rests(rest, code) ==
    /\ rest \in [0..LastGroup -> Nat]
    /\ rest[0] = code
    /\ \A k \in 1..LastGroup : rest[k] = rest[k - 1] \div GroupSize
Cuts(rest) ==
    LET last == Min({k \in 0..LastGroup : rest[k] < GroupSize})
    IN [k \in 1..last + 1 |-> [low |-> rest[k - 1] % GroupSize, more |-> k <= last]]

\* What division does.
LEMMA Division ==
  ASSUME NEW a \in Nat, NEW b \in Nat \ {0}
  PROVE  /\ a \div b \in Nat /\ a % b \in 0..b - 1
         /\ a = b * (a \div b) + (a % b)
<1>1. a \div b \in Nat
  OBVIOUS
<1>2. a % b \in 0..b - 1
  OBVIOUS
<1>3. a = b * (a \div b) + (a % b)
  OBVIOUS
<1> QED
  BY <1>1, <1>2, <1>3

\* Computations of the same rounds agree in every round.
LEMMA SameThroughout ==
  ASSUME NEW N \in Nat, NEW f, NEW g, Alike(f, g, N)
  PROVE  \A k \in 0..N : g[k] = f[k]
<1>1. ASSUME NEW k \in 0..N PROVE g[k] = f[k]
  <2>1. k \in Nat /\ Alike(f, g, k)
    BY DEF Alike
  <2> QED
    BY <2>1, SameIteration
<1> QED
  BY <1>1

\* The least of a set of naturals.
LEMMA LeastIsMin ==
  ASSUME NEW K \in SUBSET Nat, NEW least \in K, \A k \in K : least <= k
  PROVE  Min(K) = least
<1>1. \A n \in K : (\A k \in K : n <= k) => n = least
  OBVIOUS
<1> QED
  BY <1>1, Zenon DEF Min

\* A group is worth as many ones as the one before it times a group's size.
LEMMA ScaleIs ==
  /\ Scale[0] = 1
  /\ \A k \in 0..LastGroup : Scale[k] \in Nat \ {0}
  /\ \A k \in 1..LastGroup : Scale[k] = GroupSize * Scale[k - 1]
<1> DEFINE S == Nat \ {0}
           Good == [n \in 0..LastGroup |-> S]
<1>0. GroupSize \in S /\ LastGroup \in Nat
  BY ColdAssumption DEF ColdAssumption
<1>a. Good \in [0..LastGroup -> SUBSET S] /\ \A k \in 0..LastGroup : Good[k] = S
  OBVIOUS
<1>b. \A k \in 1..LastGroup : \A x \in Good[k - 1] : GroupSize * x \in Good[k]
  <2>1. ASSUME NEW k \in 1..LastGroup, NEW x \in Good[k - 1] PROVE GroupSize * x \in Good[k]
    <3>1. k - 1 \in 0..LastGroup /\ k \in 0..LastGroup
      BY <1>0
    <3>2. x \in S
      BY <1>a, <3>1
    <3>3. GroupSize * x \in S
      BY <1>0, <3>2
    <3> QED
      BY <1>a, <3>1, <3>3
  <2> QED
    BY <2>1
<1>c. 1 \in Good[0]
  BY <1>0
<1> HIDE DEF Good, S
<1> DEFINE N == LastGroup
           start == 1
           Round(x, k) == GroupSize * x
           round == [p \in S \X (1..N) |-> Round(p[1], p[2])]
           IsLoop(f) == f = [n \in 0..N |-> IF n = 0 THEN start ELSE Round(f[n - 1], n)]
<1>1. ASSUME NEW k \in 1..N, NEW x \in Good[k - 1]
      PROVE  x \in S /\ round[<<x, k>>] = Round(x, k) /\ round[<<x, k>>] \in Good[k]
  <2>1. k - 1 \in 0..N
    BY <1>0
  <2>2. Good[k - 1] \subseteq S
    BY <1>a, <2>1
  <2> QED
    BY <1>b, <2>2
<1>2. N \in Nat /\ Good \in [0..N -> SUBSET S] /\ start \in Good[0]
  BY <1>0, <1>a, <1>c
<1> HIDE DEF round, Round, N, start
<1>3. StaysGood(Good, N, round)
  BY <1>1 DEF StaysGood
<1>4. \E f : Runs(f, N, S, start, round) /\ \A k \in 0..N : f[k] \in Good[k]
  BY ONLY <1>2, <1>3, GoodLoop
<1>5. PICK f \in [0..N -> S] :
            /\ f[0] = start
            /\ \A k \in 0..N : f[k] \in Good[k]
            /\ \A k \in 1..N : f[k] = round[<<f[k - 1], k>>]
  BY <1>4 DEF Runs
<1>6. ASSUME NEW k \in 1..N PROVE f[k] = Round(f[k - 1], k)
  <2>1. k - 1 \in 0..N
    BY <1>2
  <2> QED
    BY <1>1, <1>5, <2>1
<1>7. IsLoop(f)
  <2>1. ASSUME NEW n \in 0..N PROVE f[n] = IF n = 0 THEN start ELSE Round(f[n - 1], n)
    BY <1>2, <1>5, <1>6
  <2> QED
    BY <1>5, <2>1
<1> DEFINE g == CHOOSE h : IsLoop(h)
<1>8. IsLoop(g)
  BY <1>7
<1>9. Scale = g
  BY DEF Scale, N, Round, start
<1> HIDE DEF g
<1>10. g[0] = start /\ \A k \in 1..N : g[k] = Round(g[k - 1], k)
  BY <1>2, <1>8
<1> HIDE DEF IsLoop
<1>11. Alike(f, g, N)
  BY <1>5, <1>6, <1>10 DEF Alike
<1>12. g[N] = f[N]
  BY <1>2, <1>11, SameIteration
<1>13. \A k \in 0..N : g[k] = f[k]
  BY <1>2, <1>11, SameThroughout
<1>14. \A k \in 0..N : g[k] \in S
  BY <1>2, <1>5, <1>13
<1> QED
  BY <1>9, <1>10, <1>14 DEF N, S, Round, start

\* The rests of a code exist, and its groups are cut by them.
LEMMA GroupsCut ==
  ASSUME NEW code \in Nat
  PROVE  \E rest : Rests(rest, code) /\ Groups(code) = Cuts(rest)
<1> DEFINE S == Nat
           Good == [n \in 0..LastGroup |-> S]
<1>0. GroupSize \in Nat \ {0} /\ LastGroup \in Nat
  BY ColdAssumption DEF ColdAssumption
<1>a. Good \in [0..LastGroup -> SUBSET S] /\ \A k \in 0..LastGroup : Good[k] = S
  OBVIOUS
<1>b. \A k \in 1..LastGroup : \A x \in Good[k - 1] : x \div GroupSize \in Good[k]
  <2>1. ASSUME NEW k \in 1..LastGroup, NEW x \in Good[k - 1] PROVE x \div GroupSize \in Good[k]
    <3>1. k - 1 \in 0..LastGroup /\ k \in 0..LastGroup
      BY <1>0
    <3>2. x \in S
      BY <1>a, <3>1
    <3>3. x \div GroupSize \in S
      BY <1>0, <3>2, Division
    <3> QED
      BY <1>a, <3>1, <3>3
  <2> QED
    BY <2>1
<1>c. code \in Good[0]
  BY <1>0
<1> HIDE DEF Good, S
<1> DEFINE N == LastGroup
           start == code
           Round(x, k) == x \div GroupSize
           round == [p \in S \X (1..N) |-> Round(p[1], p[2])]
           IsLoop(f) == f = [n \in 0..N |-> IF n = 0 THEN start ELSE Round(f[n - 1], n)]
<1>1. ASSUME NEW k \in 1..N, NEW x \in Good[k - 1]
      PROVE  x \in S /\ round[<<x, k>>] = Round(x, k) /\ round[<<x, k>>] \in Good[k]
  <2>1. k - 1 \in 0..N
    BY <1>0
  <2>2. Good[k - 1] \subseteq S
    BY <1>a, <2>1
  <2> QED
    BY <1>b, <2>2
<1>2. N \in Nat /\ Good \in [0..N -> SUBSET S] /\ start \in Good[0]
  BY <1>0, <1>a, <1>c
<1> HIDE DEF round, Round, N, start
<1>3. StaysGood(Good, N, round)
  BY <1>1 DEF StaysGood
<1>4. \E f : Runs(f, N, S, start, round) /\ \A k \in 0..N : f[k] \in Good[k]
  BY ONLY <1>2, <1>3, GoodLoop
<1>5. PICK f \in [0..N -> S] :
            /\ f[0] = start
            /\ \A k \in 0..N : f[k] \in Good[k]
            /\ \A k \in 1..N : f[k] = round[<<f[k - 1], k>>]
  BY <1>4 DEF Runs
<1>6. ASSUME NEW k \in 1..N PROVE f[k] = Round(f[k - 1], k)
  <2>1. k - 1 \in 0..N
    BY <1>2
  <2> QED
    BY <1>1, <1>5, <2>1
<1>7. IsLoop(f)
  <2>1. ASSUME NEW n \in 0..N PROVE f[n] = IF n = 0 THEN start ELSE Round(f[n - 1], n)
    BY <1>2, <1>5, <1>6
  <2> QED
    BY <1>5, <2>1
<1> DEFINE g == CHOOSE h : IsLoop(h)
<1>8. IsLoop(g)
  BY <1>7
<1>9. Groups(code) = Cuts(g)
  BY DEF Groups, Cuts, N, Round, start
<1> HIDE DEF g
<1>10. g[0] = start /\ \A k \in 1..N : g[k] = Round(g[k - 1], k)
  BY <1>2, <1>8
<1> HIDE DEF IsLoop
<1>11. Alike(f, g, N)
  BY <1>5, <1>6, <1>10 DEF Alike
<1>12. g[N] = f[N]
  BY <1>2, <1>11, SameIteration
<1>13. \A k \in 0..N : g[k] = f[k]
  BY <1>2, <1>11, SameThroughout
<1>14. g \in [0..N -> S]
  <2>1. g = [n \in 0..N |-> IF n = 0 THEN start ELSE Round(g[n - 1], n)]
    BY <1>8 DEF IsLoop
  <2> QED
    BY <1>2, <1>5, <1>13, <2>1
<1>15. Rests(g, code)
  BY <1>10, <1>14 DEF Rests, N, S, Round, start
<1> QED
  BY <1>9, <1>15

\* Writing a clause, literal by literal,
LEMMA EncodedGood ==
  ASSUME NEW lits, Len(lits) \in Nat, NEW S, NEW Good \in [0..Len(lits) -> SUBSET S], <<>> \in Good[0],
         \A k \in 1..Len(lits) : \A x \in Good[k - 1] : x \o Groups(Folded(lits[k] - Before(lits, k))) \in Good[k]
  PROVE  Encoded(lits) \in Good[Len(lits)]
<1> DEFINE N == Len(lits)
           start == <<>>
           Round(x, k) == x \o Groups(Folded(lits[k] - Before(lits, k)))
           round == [p \in S \X (1..N) |-> Round(p[1], p[2])]
           IsLoop(f) == f = [n \in 0..N |-> IF n = 0 THEN start ELSE Round(f[n - 1], n)]
<1>1. ASSUME NEW k \in 1..N, NEW x \in Good[k - 1]
      PROVE  x \in S /\ round[<<x, k>>] = Round(x, k) /\ round[<<x, k>>] \in Good[k]
  <2>1. k - 1 \in 0..N
    OBVIOUS
  <2>2. Good[k - 1] \subseteq S
    BY <2>1
  <2> QED
    BY <2>2
<1>2. N \in Nat /\ Good \in [0..N -> SUBSET S] /\ start \in Good[0]
  OBVIOUS
<1> HIDE DEF round, Round, N, start
<1>3. StaysGood(Good, N, round)
  BY <1>1 DEF StaysGood
<1>4. \E f : Runs(f, N, S, start, round) /\ \A k \in 0..N : f[k] \in Good[k]
  BY ONLY <1>2, <1>3, GoodLoop
<1>5. PICK f \in [0..N -> S] :
            /\ f[0] = start
            /\ \A k \in 0..N : f[k] \in Good[k]
            /\ \A k \in 1..N : f[k] = round[<<f[k - 1], k>>]
  BY <1>4 DEF Runs
<1>6. ASSUME NEW k \in 1..N PROVE f[k] = Round(f[k - 1], k)
  <2>1. k - 1 \in 0..N
    BY <1>2
  <2> QED
    BY <1>1, <1>5, <2>1
<1>7. IsLoop(f)
  <2>1. ASSUME NEW n \in 0..N PROVE f[n] = IF n = 0 THEN start ELSE Round(f[n - 1], n)
    BY <1>2, <1>5, <1>6
  <2> QED
    BY <1>5, <2>1
<1> DEFINE g == CHOOSE h : IsLoop(h)
<1>8. IsLoop(g)
  BY <1>7
<1>9. Encoded(lits) = g[N]
  BY DEF Encoded, N, Round, start
<1> HIDE DEF g
<1>10. g[0] = start /\ \A k \in 1..N : g[k] = Round(g[k - 1], k)
  BY <1>2, <1>8
<1> HIDE DEF IsLoop
<1>11. Alike(f, g, N)
  BY <1>5, <1>6, <1>10 DEF Alike
<1>12. g[N] = f[N]
  BY <1>2, <1>11, SameIteration
<1> QED
  BY <1>2, <1>5, <1>9, <1>12 DEF N

\* and reading bytes, which is also determined by its turns.
IsRead(f, bytes) ==
    /\ f[0] = Idle(0, <<>>)
    /\ \A k \in 1..Len(bytes) : f[k] = ReadByte(f[k - 1], bytes[k])
    /\ ReadBytes(bytes) = f[Len(bytes)]
LEMMA BytesGood ==
  ASSUME NEW bytes, Len(bytes) \in Nat, NEW S, NEW Good \in [0..Len(bytes) -> SUBSET S], Idle(0, <<>>) \in Good[0],
         \A k \in 1..Len(bytes) : \A x \in Good[k - 1] : ReadByte(x, bytes[k]) \in Good[k]
  PROVE  ReadBytes(bytes) \in Good[Len(bytes)] /\ \E f : IsRead(f, bytes)
<1> DEFINE N == Len(bytes)
           start == Idle(0, <<>>)
           Round(x, k) == ReadByte(x, bytes[k])
           round == [p \in S \X (1..N) |-> Round(p[1], p[2])]
           IsLoop(f) == f = [n \in 0..N |-> IF n = 0 THEN start ELSE Round(f[n - 1], n)]
<1>1. ASSUME NEW k \in 1..N, NEW x \in Good[k - 1]
      PROVE  x \in S /\ round[<<x, k>>] = Round(x, k) /\ round[<<x, k>>] \in Good[k]
  <2>1. k - 1 \in 0..N
    OBVIOUS
  <2>2. Good[k - 1] \subseteq S
    BY <2>1
  <2> QED
    BY <2>2
<1>2. N \in Nat /\ Good \in [0..N -> SUBSET S] /\ start \in Good[0]
  OBVIOUS
<1> HIDE DEF round, Round, N, start
<1>3. StaysGood(Good, N, round)
  BY <1>1 DEF StaysGood
<1>4. \E f : Runs(f, N, S, start, round) /\ \A k \in 0..N : f[k] \in Good[k]
  BY ONLY <1>2, <1>3, GoodLoop
<1>5. PICK f \in [0..N -> S] :
            /\ f[0] = start
            /\ \A k \in 0..N : f[k] \in Good[k]
            /\ \A k \in 1..N : f[k] = round[<<f[k - 1], k>>]
  BY <1>4 DEF Runs
<1>6. ASSUME NEW k \in 1..N PROVE f[k] = Round(f[k - 1], k)
  <2>1. k - 1 \in 0..N
    BY <1>2
  <2> QED
    BY <1>1, <1>5, <2>1
<1>7. IsLoop(f)
  <2>1. ASSUME NEW n \in 0..N PROVE f[n] = IF n = 0 THEN start ELSE Round(f[n - 1], n)
    BY <1>2, <1>5, <1>6
  <2> QED
    BY <1>5, <2>1
<1> DEFINE g == CHOOSE h : IsLoop(h)
<1>8. IsLoop(g)
  BY <1>7
<1>9. ReadBytes(bytes) = g[N]
  BY DEF ReadBytes, N, Round, start
<1> HIDE DEF g
<1>10. g[0] = start /\ \A k \in 1..N : g[k] = Round(g[k - 1], k)
  BY <1>2, <1>8
<1> HIDE DEF IsLoop
<1>11. Alike(f, g, N)
  BY <1>5, <1>6, <1>10 DEF Alike
<1>12. g[N] = f[N]
  BY <1>2, <1>11, SameIteration
<1>13. ReadBytes(bytes) \in Good[N]
  BY <1>2, <1>5, <1>9, <1>12
<1>14. IsRead(g, bytes)
  BY <1>9, <1>10 DEF IsRead, N, Round, start
<1> QED
  BY <1>13, <1>14 DEF N

\* One more byte is one more turn of the reader.
LEMMA ReadTyped ==
  ASSUME NEW d \in Reader, NEW b \in PayloadBytes
  PROVE  ReadByte(d, b) \in Reader
<1>1. /\ LastGroup \in Nat /\ TopSize \in Nat
      /\ d.code \in Nat /\ d.group \in Nat /\ d.previous \in Int /\ d.literals \in Seq(RawLiterals) /\ d.bad \in BOOLEAN
      /\ b.low \in Nat /\ b.more \in BOOLEAN
  BY ColdAssumption DEF ColdAssumption, Reader, Readers, PayloadBytes
<1>2. CASE d.bad \/ (d.group = LastGroup /\ b.low > TopGroup)
  <2>1. ReadByte(d, b) = [d EXCEPT !.bad = TRUE]
    BY <1>2 DEF ReadByte
  <2> QED
    BY <2>1, Zenon DEF Reader, Readers
<1>3. CASE ~(d.bad \/ (d.group = LastGroup /\ b.low > TopGroup))
  <2>1. d.group \in 0..LastGroup
    BY <1>1, <1>3 DEF Reader
  <2> DEFINE code == d.code + b.low * Scale[d.group]
             value == d.previous + Unfolded(code)
             last == d.group = LastGroup
             next == d.group + 1
  <2>2. code \in Nat /\ next \in Nat /\ last \in BOOLEAN /\ (last \/ next <= LastGroup)
    <3>1. Scale[d.group] \in Nat /\ b.low \in Nat
      BY <1>1, <2>1, ScaleIs
    <3>2. \A x, y, z \in Nat : x + y * z \in Nat
      OBVIOUS
    <3>3. code \in Nat
      BY <1>1, <3>1, <3>2
    <3>4. next \in Nat /\ last \in BOOLEAN /\ (last \/ next <= LastGroup)
      BY <1>1, <2>1
    <3> QED
      BY <3>3, <3>4
  <2>3. ReadByte(d, b) = IF b.more THEN [d EXCEPT !.code = code, !.group = next, !.bad = last]
                         ELSE IF value \notin RawLiterals THEN [d EXCEPT !.bad = TRUE]
                         ELSE Idle(value, Append(d.literals, value))
    BY <1>3, Zenon DEF ReadByte
  <2> HIDE DEF code, value, last, next
  <2>4. d \in Readers
    BY DEF Reader
  <2>5. [d EXCEPT !.code = code, !.group = next, !.bad = last] \in Reader
    <3> DEFINE e == [d EXCEPT !.code = code, !.group = next, !.bad = last]
    <3>1. e \in Readers /\ e.bad = last /\ e.group = next
      BY <2>2, <2>4 DEF Readers
    <3> QED
      BY <2>2, <3>1 DEF Reader
  <2>6. [d EXCEPT !.bad = TRUE] \in Reader
    BY <2>4, Zenon DEF Reader, Readers
  <2>7. ASSUME value \in RawLiterals PROVE Idle(value, Append(d.literals, value)) \in Reader
    <3>1. Append(d.literals, value) \in Seq(RawLiterals) /\ value \in Int
      BY <1>1, <2>7 DEF RawLiterals
    <3> HIDE DEF RawLiterals
    <3>2. Idle(value, Append(d.literals, value)) \in Readers /\ Idle(value, Append(d.literals, value)).group = 0
      BY <3>1 DEF Idle, Readers
    <3> QED
      BY <1>1, <3>2 DEF Reader
  <2> QED
    BY <2>3, <2>5, <2>6, <2>7
<1> QED
  BY <1>2, <1>3

LEMMA ReadAppend ==
  ASSUME NEW bytes \in Seq(PayloadBytes), NEW b \in PayloadBytes
  PROVE  /\ ReadBytes(<<>>) = Idle(0, <<>>)
         /\ ReadBytes(Append(bytes, b)) = ReadByte(ReadBytes(bytes), b)
<1>1. Idle(0, <<>>) \in Reader
  <2>1. LastGroup \in Nat /\ <<>> \in Seq(RawLiterals)
    BY ColdAssumption DEF ColdAssumption
  <2> QED
    BY <2>1 DEF Idle, Reader, Readers
<1>2. ASSUME NEW some \in Seq(PayloadBytes) PROVE \E f : IsRead(f, some)
  <2> DEFINE Good == [n \in 0..Len(some) |-> Reader]
  <2>1. Len(some) \in Nat /\ Good \in [0..Len(some) -> SUBSET Reader] /\ Idle(0, <<>>) \in Good[0]
    BY <1>1
  <2>2. ASSUME NEW k \in 1..Len(some), NEW x \in Good[k - 1] PROVE ReadByte(x, some[k]) \in Good[k]
    <3>1. k - 1 \in 0..Len(some) /\ k \in 0..Len(some) /\ some[k] \in PayloadBytes
      OBVIOUS
    <3>2. x \in Reader
      BY <3>1
    <3>3. ReadByte(x, some[k]) \in Reader
      BY <3>1, <3>2, ReadTyped
    <3> QED
      BY <3>1, <3>3
  <2> HIDE DEF Good
  <2> QED
    BY <2>1, <2>2, BytesGood
<1> DEFINE more == Append(bytes, b)
           n == Len(bytes)
<1>3. more \in Seq(PayloadBytes) /\ Len(more) = n + 1 /\ n \in Nat /\ more[n + 1] = b /\ \A k \in 1..n : more[k] = bytes[k]
  OBVIOUS
<1> HIDE DEF more
<1>4. PICK f : /\ f[0] = Idle(0, <<>>)
               /\ \A k \in 1..n : f[k] = ReadByte(f[k - 1], bytes[k])
               /\ ReadBytes(bytes) = f[n]
  BY <1>2 DEF IsRead
<1>5. PICK g : /\ g[0] = Idle(0, <<>>)
               /\ \A k \in 1..(n + 1) : g[k] = ReadByte(g[k - 1], more[k])
               /\ ReadBytes(more) = g[n + 1]
  BY <1>2, <1>3 DEF IsRead
<1>6. Alike(f, g, n)
  BY <1>3, <1>4, <1>5 DEF Alike
<1>7. g[n] = f[n]
  BY <1>3, <1>6, SameIteration
<1>8. g[n + 1] = ReadByte(g[n], b)
  <2>1. n + 1 \in 1..(n + 1) /\ (n + 1) - 1 = n
    BY <1>3
  <2> QED
    BY <1>3, <1>5, <2>1
<1>9. ReadBytes(<<>>) = Idle(0, <<>>)
  <2>1. <<>> \in Seq(PayloadBytes) /\ Len(<<>>) = 0
    OBVIOUS
  <2> QED
    BY <1>2, <2>1 DEF IsRead
<1> QED
  BY <1>4, <1>5, <1>7, <1>8, <1>9 DEF more

-----------------------------------------------------------------------------
\* A code of a difference of literals, sign and all, fits in the groups.
Codes == 0..2 * (TopSize * Scale[LastGroup]) - 1

\* What a group and those after it stand for is never more than the code.
LEMMA RestsBounded ==
  ASSUME NEW code \in Codes, NEW rest, Rests(rest, code)
  PROVE  /\ \A k \in 0..LastGroup : rest[k] \in Nat /\ rest[k] * Scale[k] <= code
         /\ rest[LastGroup] <= TopGroup /\ rest[LastGroup] < GroupSize
<1>1. /\ GroupSize \in Nat \ {0} /\ LastGroup \in Nat /\ TopSize \in Nat /\ 2 * TopSize <= GroupSize
      /\ \A k \in 0..LastGroup : Scale[k] \in Nat \ {0} /\ rest[k] \in Nat
      /\ Scale[LastGroup] \in Nat \ {0} /\ code \in Nat
  BY ScaleIs, ColdAssumption DEF ColdAssumption, Rests, Codes
<1> DEFINE P == {k \in Nat : k <= LastGroup => rest[k] * Scale[k] <= code}
<1>2. 0 \in P
  BY <1>1, ScaleIs DEF Rests
<1>3. ASSUME NEW k \in Nat, k \in P PROVE k + 1 \in P
  <2>1. SUFFICES ASSUME k + 1 <= LastGroup PROVE rest[k + 1] * Scale[k + 1] <= code
    BY <1>3
  <2>2. k \in 0..LastGroup /\ k + 1 \in 1..LastGroup /\ (k + 1) - 1 = k
    BY <1>1, <2>1
  <2>3. rest[k + 1] = rest[k] \div GroupSize /\ Scale[k + 1] = GroupSize * Scale[k]
    BY <2>2, ScaleIs DEF Rests
  <2> DEFINE a == rest[k]
             b == rest[k + 1]
             s == Scale[k]
  <2>4. a \in Nat /\ b \in Nat /\ s \in Nat /\ a * s <= code
    BY <1>1, <1>3, <2>1, <2>2
  <2>5. GroupSize * b <= a
    <3>1. b = a \div GroupSize
      BY <2>3
    <3> HIDE DEF a, b
    <3>2. a % GroupSize \in 0..GroupSize - 1 /\ a = GroupSize * (a \div GroupSize) + (a % GroupSize)
      BY <1>1, <2>4, Division
    <3>3. GroupSize * b \in Int
      BY <1>1, <2>4
    <3> QED
      BY <1>1, <2>4, <3>1, <3>2, <3>3
  <2>6. (GroupSize * b) * s <= a * s
    BY <1>1, <2>4, <2>5
  <2>7. b * (GroupSize * s) = (GroupSize * b) * s
    BY <1>1, <2>4
  <2>8. (GroupSize * b) * s \in Int /\ a * s \in Int
    BY <1>1, <2>4
  <2> HIDE DEF a, b, s
  <2>9. b * (GroupSize * s) <= code
    BY <1>1, <2>4, <2>6, <2>7, <2>8
  <2> QED
    BY <2>3, <2>9 DEF b, s
<1>4. \A k \in 0..LastGroup : rest[k] * Scale[k] <= code
  <2>1. Nat \subseteq P
    BY <1>2, <1>3, CountingUp
  <2> QED
    BY <1>1, <2>1
<1>5. rest[LastGroup] < 2 * TopSize
  <2> DEFINE a == rest[LastGroup]
             s == Scale[LastGroup]
             t == 2 * TopSize
  <2>1. a \in Nat /\ s \in Nat \ {0} /\ t \in Nat
    BY <1>1
  <2>2. a * s <= code /\ code < t * s
    BY <1>1, <1>4 DEF Codes
  <2> HIDE DEF a, s, t
  <2>3. a >= t => a * s >= t * s
    BY <2>1
  <2>4. a * s \in Int /\ t * s \in Int /\ code \in Int
    BY <1>1, <2>1
  <2>5. a < t
    BY <2>1, <2>2, <2>3, <2>4
  <2> QED
    BY <2>5 DEF a, t
<1> QED
  BY <1>1, <1>4, <1>5 DEF TopGroup

\* The groups of a code: as many as it takes, each but the last marked.
LEMMA GroupsAre ==
  ASSUME NEW code \in Codes
  PROVE  \E rest : \E last \in 0..LastGroup :
           /\ Rests(rest, code)
           /\ rest[last] < GroupSize /\ (\A k \in 0..last - 1 : ~(rest[k] < GroupSize))
           /\ Groups(code) = [k \in 1..last + 1 |-> [low |-> rest[k - 1] % GroupSize, more |-> k <= last]]
<1>1. code \in Nat /\ LastGroup \in Nat /\ GroupSize \in Nat \ {0}
  BY ScaleIs, ColdAssumption DEF ColdAssumption, Codes
<1>2. PICK rest : Rests(rest, code) /\ Groups(code) = Cuts(rest)
  BY <1>1, GroupsCut
<1> DEFINE K == {k \in 0..LastGroup : rest[k] < GroupSize}
<1>3. K # {} /\ K \in SUBSET Nat
  BY <1>1, <1>2, RestsBounded
<1>4. PICK last \in K : \A k \in K : last <= k
  BY <1>3, Least
<1>5. Min(K) = last
  BY <1>3, <1>4, LeastIsMin
<1>6. last \in 0..LastGroup /\ rest[last] < GroupSize
  BY <1>4
<1>7. \A k \in 0..last - 1 : ~(rest[k] < GroupSize)
  BY <1>1, <1>4, <1>6
<1>8. Cuts(rest) = [k \in 1..last + 1 |-> [low |-> rest[k - 1] % GroupSize, more |-> k <= last]]
  BY <1>5 DEF Cuts
<1> QED
  BY <1>2, <1>6, <1>7, <1>8

\* Between literals, reading the groups of a code gives what it stands for.
LEMMA GroupsRead ==
  ASSUME NEW bytes \in Seq(PayloadBytes), NEW p \in Int, NEW lits \in Seq(RawLiterals), NEW code \in Codes,
         ReadBytes(bytes) = Idle(p, lits), p + Unfolded(code) \in RawLiterals
  PROVE  /\ Groups(code) \in Seq(PayloadBytes)
         /\ bytes \o Groups(code) \in Seq(PayloadBytes)
         /\ ReadBytes(bytes \o Groups(code)) = Idle(p + Unfolded(code), Append(lits, p + Unfolded(code)))
<1>1. /\ GroupSize \in Nat \ {0} /\ LastGroup \in Nat /\ code \in Nat
  BY ScaleIs, ColdAssumption DEF ColdAssumption, Codes
<1>2. PICK rest : \E last \in 0..LastGroup :
           /\ Rests(rest, code)
           /\ rest[last] < GroupSize /\ (\A k \in 0..last - 1 : ~(rest[k] < GroupSize))
           /\ Groups(code) = [k \in 1..last + 1 |-> [low |-> rest[k - 1] % GroupSize, more |-> k <= last]]
  BY GroupsAre
<1>3. PICK last \in 0..LastGroup :
           /\ Rests(rest, code)
           /\ rest[last] < GroupSize /\ (\A k \in 0..last - 1 : ~(rest[k] < GroupSize))
           /\ Groups(code) = [k \in 1..last + 1 |-> [low |-> rest[k - 1] % GroupSize, more |-> k <= last]]
  BY <1>2
<1> DEFINE gs == Groups(code)
           Partly(k) == [code |-> code - rest[k] * Scale[k], group |-> k, previous |-> p, literals |-> lits, bad |-> FALSE]
           Upto(k) == bytes \o SubSeq(gs, 1, k)
           P == {k \in Nat : k <= last => ReadBytes(Upto(k)) = Partly(k)}
<1>4. /\ last \in Nat /\ last <= LastGroup
      /\ \A k \in 0..LastGroup : rest[k] \in Nat /\ Scale[k] \in Nat \ {0} /\ rest[k] * Scale[k] <= code
      /\ rest[LastGroup] <= TopGroup
  BY <1>1, <1>3, RestsBounded, ScaleIs
<1>5. /\ gs \in Seq(PayloadBytes) /\ Len(gs) = last + 1
      /\ \A k \in 0..last : gs[k + 1].low = rest[k] % GroupSize /\ gs[k + 1].more = (k < last)
  <2>1. \A k \in 1..last + 1 : [low |-> rest[k - 1] % GroupSize, more |-> k <= last] \in PayloadBytes
    <3>1. ASSUME NEW k \in 1..last + 1 PROVE [low |-> rest[k - 1] % GroupSize, more |-> k <= last] \in PayloadBytes
      <4>1. k - 1 \in 0..LastGroup
        BY <1>1, <1>4
      <4>2. rest[k - 1] % GroupSize \in 0..GroupSize - 1
        BY <1>1, <1>4, <4>1, Division
      <4>3. (k <= last) \in BOOLEAN
        OBVIOUS
      <4> QED
        BY <4>2, <4>3, Zenon DEF PayloadBytes
    <3> QED
      BY <3>1
  <2>2. gs \in [1..last + 1 -> PayloadBytes] /\ last + 1 \in Nat
    BY <1>3, <1>4, <2>1
  <2>3. gs \in Seq(PayloadBytes) /\ Len(gs) = last + 1
    BY <2>2
  <2>4. ASSUME NEW k \in 0..last PROVE gs[k + 1].low = rest[k] % GroupSize /\ gs[k + 1].more = (k < last)
    <3>1. k + 1 \in 1..last + 1 /\ (k + 1) - 1 = k /\ (k + 1 <= last <=> k < last)
      BY <1>4
    <3> QED
      BY <1>3, <3>1
  <2> QED
    BY <2>3, <2>4
<1> HIDE DEF gs
<1>6. ASSUME NEW k \in 0..last
      PROVE  /\ Upto(k) \in Seq(PayloadBytes) /\ gs[k + 1] \in PayloadBytes
             /\ bytes \o SubSeq(gs, 1, k + 1) = Append(Upto(k), gs[k + 1])
  <2>1. k + 1 \in 1..Len(gs) /\ k \in Nat /\ k <= Len(gs)
    BY <1>4, <1>5
  <2>2. SubSeq(gs, 1, k) \in Seq(PayloadBytes) /\ Len(SubSeq(gs, 1, k)) = k
    BY <1>5, <2>1
  <2>3. SubSeq(gs, 1, k + 1) = Append(SubSeq(gs, 1, k), gs[k + 1])
    BY <1>5, <2>1
  <2>4. gs[k + 1] \in PayloadBytes
    BY <1>5, <2>1
  <2>5. bytes \o Append(SubSeq(gs, 1, k), gs[k + 1]) = Append(bytes \o SubSeq(gs, 1, k), gs[k + 1])
    <3> DEFINE some == SubSeq(gs, 1, k)
               b == gs[k + 1]
    <3> HIDE DEF some, b
    <3>1. some \in Seq(PayloadBytes) /\ b \in PayloadBytes
      BY <2>2, <2>4 DEF some, b
    <3>2. bytes \o Append(some, b) = Append(bytes \o some, b)
      BY <3>1
    <3> QED
      BY <3>2 DEF some, b
  <2> QED
    BY <2>2, <2>3, <2>4, <2>5
<1>7. ReadBytes(Upto(0)) = Partly(0)
  <2>1. SubSeq(gs, 1, 0) = <<>>
    BY <1>5
  <2>2. Upto(0) = bytes
    BY <2>1
  <2>3. code - rest[0] * Scale[0] = 0
    BY <1>1, <1>3, ScaleIs DEF Rests
  <2> QED
    BY <2>2, <2>3 DEF Idle
<1>8. ASSUME NEW k \in 0..last
      PROVE  /\ (code - rest[k] * Scale[k]) + gs[k + 1].low * Scale[k] =
                  code - (rest[k] - (rest[k] % GroupSize)) * Scale[k]
             /\ k < last => /\ (rest[k] - (rest[k] % GroupSize)) * Scale[k] = rest[k + 1] * Scale[k + 1]
                            /\ k < LastGroup
             /\ k = last => rest[k] % GroupSize = rest[k]
             /\ ~(k = LastGroup /\ gs[k + 1].low > TopGroup)
  <2> DEFINE a == rest[k]
             r == rest[k] % GroupSize
             q == rest[k] \div GroupSize
             s == Scale[k]
  <2>1. k \in 0..LastGroup /\ gs[k + 1].low = r
    BY <1>1, <1>4, <1>5
  <2>2. a \in Nat /\ s \in Nat /\ r \in 0..GroupSize - 1 /\ q \in Nat /\ a = GroupSize * q + r
    BY <1>1, <1>4, <2>1, Division
  <2>3. k < last => rest[k + 1] = q /\ Scale[k + 1] = GroupSize * s /\ k < LastGroup
    <3>1. SUFFICES ASSUME k < last PROVE rest[k + 1] = q /\ Scale[k + 1] = GroupSize * s /\ k < LastGroup
      OBVIOUS
    <3>2. k + 1 \in 1..LastGroup /\ (k + 1) - 1 = k /\ k < LastGroup
      BY <1>1, <1>4, <3>1
    <3>3. rest[k + 1] = rest[(k + 1) - 1] \div GroupSize
      BY <1>3, <3>2 DEF Rests
    <3>4. Scale[k + 1] = GroupSize * Scale[(k + 1) - 1]
      BY <3>2, ScaleIs
    <3> QED
      BY <3>2, <3>3, <3>4
  <2>4. k = last => q = 0
    <3>1. k = last => a < GroupSize
      BY <1>3
    <3> HIDE DEF a, r, q
    <3>2. a < GroupSize => q = 0
      <4>1. q >= 1 => GroupSize * q >= GroupSize
        BY <1>1, <2>2
      <4>2. GroupSize * q \in Int
        BY <1>1, <2>2
      <4> QED
        BY <1>1, <2>2, <4>1, <4>2
    <3> QED
      BY <3>1, <3>2
  <2>5. k = last => r = a
    <3> HIDE DEF a, r, q
    <3> QED
      BY <1>1, <2>2, <2>4
  <2>6. k = LastGroup => r <= TopGroup
    <3>1. k = LastGroup => k = last /\ a <= TopGroup
      BY <1>4
    <3> QED
      BY <2>5, <3>1
  <2>7. (code - a * s) + r * s = code - (a - r) * s
    <3> HIDE DEF a, r, s
    <3> QED
      BY <1>1, <2>2
  <2>8. (a - r) * s = q * (GroupSize * s)
    <3> HIDE DEF a, r, q, s
    <3>1. a - r = GroupSize * q
      BY <1>1, <2>2
    <3>2. (GroupSize * q) * s = q * (GroupSize * s)
      BY <1>1, <2>2
    <3> QED
      BY <3>1, <3>2
  <2>9. ~(k = LastGroup /\ r > TopGroup)
    <3>1. TopGroup \in Int
      BY ColdAssumption DEF ColdAssumption, TopGroup
    <3> QED
      BY <1>1, <2>2, <2>6, <3>1
  <2> QED
    BY <2>1, <2>3, <2>5, <2>7, <2>8, <2>9
<1>9. ASSUME NEW k \in Nat, k \in P PROVE k + 1 \in P
  <2>1. SUFFICES ASSUME k + 1 <= last PROVE ReadBytes(Upto(k + 1)) = Partly(k + 1)
    BY <1>9
  <2>2. k \in 0..last /\ k < last /\ k < LastGroup /\ k # LastGroup
    BY <1>1, <1>4, <2>1
  <2>3. ReadBytes(Upto(k)) = Partly(k)
    BY <1>9, <2>2
  <2>4. ReadBytes(Upto(k + 1)) = ReadByte(Partly(k), gs[k + 1])
    BY <1>6, <2>2, <2>3, ReadAppend
  <2>5. gs[k + 1].more = TRUE
    BY <1>5, <2>2
  <2>6. (code - rest[k] * Scale[k]) + gs[k + 1].low * Scale[k] = code - rest[k + 1] * Scale[k + 1]
    BY <1>8, <2>2
  <2>7. ReadByte(Partly(k), gs[k + 1]) = Partly(k + 1)
    BY <2>2, <2>5, <2>6 DEF ReadByte
  <2> QED
    BY <2>4, <2>7
<1>10. ReadBytes(Upto(last)) = Partly(last)
  <2>1. Nat \subseteq P
    BY <1>7, <1>9, CountingUp
  <2> QED
    BY <1>4, <2>1
<1>11. ReadBytes(bytes \o gs) = ReadByte(Partly(last), gs[last + 1])
  <2>1. last \in 0..last /\ SubSeq(gs, 1, last + 1) = gs
    BY <1>4, <1>5
  <2> QED
    BY <1>6, <1>10, <2>1, ReadAppend
<1>12. ReadByte(Partly(last), gs[last + 1]) = Idle(p + Unfolded(code), Append(lits, p + Unfolded(code)))
  <2>1. last \in 0..last
    BY <1>4
  <2>4. gs[last + 1].more = FALSE
    <3>1. gs[last + 1].more = (last < last)
      BY <1>5, <2>1
    <3>2. (last < last) = FALSE
      BY <1>4
    <3> QED
      BY <3>1, <3>2, Zenon
  <2>2. (code - rest[last] * Scale[last]) + gs[last + 1].low * Scale[last] = code
    <3>1. (rest[last] - rest[last]) * Scale[last] = 0
      BY <1>4
    <3> QED
      BY <1>1, <1>8, <2>1, <3>1
  <2>3. ~(last = LastGroup /\ gs[last + 1].low > TopGroup)
    BY <1>8, <2>1
  <2> QED
    BY <2>4, <2>2, <2>3 DEF ReadByte
<1>13. bytes \o gs \in Seq(PayloadBytes)
  BY <1>5
<1> QED
  BY <1>5, <1>11, <1>12, <1>13 DEF gs

\* The difference of two literals folds into a code of the groups, and back.
LEMMA FoldedBack ==
  ASSUME NEW l \in RawLiterals, NEW p \in RawLiterals \cup {0}
  PROVE  Folded(l - p) \in Codes /\ p + Unfolded(Folded(l - p)) = l
<1> DEFINE all == TopSize * Scale[LastGroup]
           delta == l - p
<1>1. all \in Nat /\ l \in 0..all - 1 /\ p \in 0..all - 1
  <2>1. TopSize \in Nat \ {0} /\ Scale[LastGroup] \in Nat \ {0}
    BY ScaleIs, ColdAssumption DEF ColdAssumption
  <2>2. all \in Nat /\ all > 0
    BY <2>1
  <2> QED
    BY <2>2 DEF RawLiterals
<1>2. Codes = 0..2 * all - 1
  BY DEF Codes
<1> HIDE DEF all
<1>3. delta \in Int /\ delta < all /\ -delta < all
  BY <1>1
<1>4. CASE delta < 0
  <2>1. Folded(delta) = -2 * delta - 1
    BY <1>4 DEF Folded
  <2>2. Unfolded(-2 * delta - 1) = delta
    BY <1>3, <1>4 DEF Unfolded
  <2> QED
    BY <1>1, <1>2, <1>3, <1>4, <2>1, <2>2
<1>5. CASE ~(delta < 0)
  <2>1. Folded(delta) = 2 * delta
    BY <1>5 DEF Folded
  <2>2. Unfolded(2 * delta) = delta
    BY <1>3, <1>5 DEF Unfolded
  <2> QED
    BY <1>1, <1>2, <1>3, <1>5, <2>1, <2>2
<1> QED
  BY <1>4, <1>5

\* A clause put away reads back as it was.
LEMMA ReadsBack ==
  ASSUME NEW lits \in Seq(RawLiterals)
  PROVE  Decoded(Encoded(lits)) = lits /\ Encoded(lits) \in Seq(PayloadBytes)
<1> DEFINE last(n) == IF n = 0 THEN 0 ELSE lits[n]
           Good == [n \in 0..Len(lits) |-> {bytes \in Seq(PayloadBytes) : ReadBytes(bytes) = Idle(last(n), SubSeq(lits, 1, n))}]
<1>1. Len(lits) \in Nat /\ Good \in [0..Len(lits) -> SUBSET Seq(PayloadBytes)]
  OBVIOUS
<1>2. <<>> \in Good[0]
  <2>1. PayloadBytes # {}
    <3>1. [low |-> 0, more |-> FALSE] \in PayloadBytes
      BY ColdAssumption DEF ColdAssumption, PayloadBytes
    <3> QED
      BY <3>1
  <2>2. PICK b \in PayloadBytes : TRUE
    BY <2>1
  <2>3. <<>> \in Seq(PayloadBytes)
    OBVIOUS
  <2>5. ReadBytes(<<>>) = Idle(0, <<>>)
    BY <2>2, <2>3, ReadAppend
  <2>4. SubSeq(lits, 1, 0) = <<>>
    OBVIOUS
  <2> QED
    BY <2>3, <2>4, <2>5
<1>3. ASSUME NEW k \in 1..Len(lits), NEW x \in Good[k - 1]
      PROVE  x \o Groups(Folded(lits[k] - Before(lits, k))) \in Good[k]
  <2> DEFINE some == SubSeq(lits, 1, k - 1)
             p == last(k - 1)
             l == lits[k]
             code == Folded(l - p)
  <2>1. k - 1 \in 0..Len(lits) /\ k \in 0..Len(lits) /\ k - 1 \in Nat
    OBVIOUS
  <2>2. x \in Seq(PayloadBytes) /\ ReadBytes(x) = Idle(p, some)
    BY <2>1
  <2>3. Before(lits, k) = p
    BY <2>1 DEF Before
  <2>4. some \in Seq(RawLiterals) /\ SubSeq(lits, 1, k) = Append(some, l)
    BY <2>1
  <2>5. l \in RawLiterals /\ p \in RawLiterals \cup {0}
    BY <2>1
  <2>6. p \in Int /\ l \in Int
    BY <2>5 DEF RawLiterals
  <2> HIDE DEF some, p, l
  <2>7. code \in Codes /\ p + Unfolded(code) = l
    BY <2>5, FoldedBack
  <2> HIDE DEF code
  <2>8. x \o Groups(code) \in Seq(PayloadBytes) /\ ReadBytes(x \o Groups(code)) = Idle(l, Append(some, l))
    BY <2>2, <2>4, <2>5, <2>6, <2>7, GroupsRead
  <2>9. last(k) = l
    BY <2>1 DEF l
  <2>10. x \o Groups(code) \in Good[k]
    BY <2>1, <2>4, <2>8, <2>9
  <2> QED
    BY <2>3, <2>10 DEF code, l
<1>4. Good[Len(lits)] = {bytes \in Seq(PayloadBytes) : ReadBytes(bytes) = Idle(last(Len(lits)), SubSeq(lits, 1, Len(lits)))}
  BY <1>1
<1> HIDE DEF Good
<1>5. Encoded(lits) \in Good[Len(lits)]
  BY <1>1, <1>2, <1>3, EncodedGood
<1>6. SubSeq(lits, 1, Len(lits)) = lits
  OBVIOUS
<1>7. Encoded(lits) \in Seq(PayloadBytes) /\ ReadBytes(Encoded(lits)) = Idle(last(Len(lits)), lits)
  BY <1>4, <1>5, <1>6
<1> QED
  BY <1>7 DEF Decoded, Idle

-----------------------------------------------------------------------------
\* What is stored of a clause is its bytes, apart from those of every other.
LEMMA StoredChanges ==
  ASSUME NEW m, NEW r, NEW value, BytesOf(value) \in Nat, IsFiniteSet(Stored(m))
  PROVE  /\ r \notin DOMAIN m =>
              /\ IsFiniteSet(Stored(PutAway(m, r, value)))
              /\ Cardinality(Stored(PutAway(m, r, value))) = Cardinality(Stored(m)) + BytesOf(value)
         /\ r \in DOMAIN m /\ m[r] = value =>
              /\ IsFiniteSet(Stored(TakenOut(m, r)))
              /\ Cardinality(Stored(m)) = Cardinality(Stored(TakenOut(m, r))) + BytesOf(value)
<1> DEFINE bytes == {r} \X (1..BytesOf(value))
<1>1. IsFiniteSet(bytes) /\ Cardinality(bytes) = BytesOf(value)
  <2>1. IsFiniteSet(1..BytesOf(value)) /\ Cardinality(1..BytesOf(value)) = BytesOf(value)
    BY FS_Interval
  <2>2. IsFiniteSet({r}) /\ Cardinality({r}) = 1
    BY FS_Singleton
  <2>3. Cardinality(bytes) = 1 * BytesOf(value) /\ IsFiniteSet(bytes)
    BY <2>1, <2>2, FS_Product
  <2> QED
    BY <2>3
<1>2. ASSUME NEW A, NEW B, IsFiniteSet(A), B = A \cup bytes, A \cap bytes = {}
      PROVE  IsFiniteSet(B) /\ Cardinality(B) = Cardinality(A) + BytesOf(value)
  <2> HIDE DEF bytes
  <2>1. Cardinality(A \cap bytes) = 0
    BY <1>2, FS_EmptySet
  <2>2. Cardinality(A \cup bytes) = Cardinality(A) + Cardinality(bytes) - Cardinality(A \cap bytes) /\ IsFiniteSet(A \cup bytes)
    BY <1>1, <1>2, FS_Union, Zenon
  <2>3. Cardinality(A) \in Nat /\ Cardinality(bytes) \in Nat
    BY <1>1, <1>2, FS_CardinalityType
  <2>4. Cardinality(A \cup bytes) = Cardinality(A) + Cardinality(bytes)
    BY <2>1, <2>2, <2>3
  <2> QED
    BY <1>1, <1>2, <2>2, <2>4
<1>3. ASSUME r \notin DOMAIN m
      PROVE  Stored(PutAway(m, r, value)) = Stored(m) \cup bytes /\ Stored(m) \cap bytes = {}
  <2>1. DOMAIN PutAway(m, r, value) = DOMAIN m \cup {r}
    BY DEF PutAway
  <2>2. PutAway(m, r, value)[r] = value /\ \A q \in DOMAIN m : PutAway(m, r, value)[q] = m[q]
    BY <1>3 DEF PutAway
  <2>3. Stored(PutAway(m, r, value)) = Stored(m) \cup bytes
    BY <2>1, <2>2 DEF Stored
  <2>4. Stored(m) \cap bytes = {}
    BY <1>3 DEF Stored
  <2> QED
    BY <2>3, <2>4
<1>4. ASSUME r \in DOMAIN m, m[r] = value
      PROVE  Stored(m) = Stored(TakenOut(m, r)) \cup bytes /\ Stored(TakenOut(m, r)) \cap bytes = {}
  <2>1. DOMAIN TakenOut(m, r) = DOMAIN m \ {r} /\ \A q \in DOMAIN m \ {r} : TakenOut(m, r)[q] = m[q]
    BY DEF TakenOut
  <2>2. Stored(m) = Stored(TakenOut(m, r)) \cup bytes
    BY <1>4, <2>1 DEF Stored
  <2>3. Stored(TakenOut(m, r)) \cap bytes = {}
    BY <2>1 DEF Stored
  <2> QED
    BY <2>2, <2>3
<1>5. r \in DOMAIN m /\ m[r] = value => IsFiniteSet(Stored(TakenOut(m, r)))
  BY <1>4, FS_Subset
<1> HIDE DEF bytes
<1> QED
  BY <1>2, <1>3, <1>4, <1>5

\* What every step keeps: a payload is the code of the clause last stated, and
\* what is stored is counted byte for byte.
ColdInv ==
    /\ enabled \in BOOLEAN
    /\ DOMAIN payloads = DOMAIN told
    /\ \A r \in DOMAIN told : told[r] \in Seq(RawLiterals) /\ payloads[r] = Encoded(told[r])
    /\ ~enabled => DOMAIN payloads = {}
    /\ IsFiniteSet(Stored(payloads)) /\ footprint = Cardinality(Stored(payloads))

LEMMA BytesNatural ==
  ASSUME NEW lits \in Seq(RawLiterals)
  PROVE  BytesOf(Encoded(lits)) \in Nat
<1>1. Len(Encoded(lits)) \in Nat
  BY ReadsBack
<1> QED
  BY <1>1, ColdAssumption DEF ColdAssumption, BytesOf

\* Nothing is stored of no payload.
LEMMA NothingStored ==
  IsFiniteSet(Stored(NoPayload)) /\ Cardinality(Stored(NoPayload)) = 0 /\ DOMAIN NoPayload = {}
<1>1. Stored(NoPayload) = {} /\ DOMAIN NoPayload = {}
  BY DEF Stored, NoPayload
<1> QED
  BY <1>1, FS_EmptySet

LEMMA ColdInitInv == ColdInit => ColdInv
  BY NothingStored DEF ColdInit, ColdInv

\* A clause is put away beside those that are.
LEMMA StoringKeeps ==
  ASSUME NEW from, NEW said, NEW r, r \notin DOMAIN from, NEW lits \in Seq(RawLiterals),
         DOMAIN from = DOMAIN said,
         \A q \in DOMAIN said : said[q] \in Seq(RawLiterals) /\ from[q] = Encoded(said[q]),
         NEW value, value = Encoded(lits)
  PROVE  /\ DOMAIN PutAway(from, r, value) = DOMAIN PutAway(said, r, lits)
         /\ \A q \in DOMAIN PutAway(said, r, lits) :
               /\ PutAway(said, r, lits)[q] \in Seq(RawLiterals)
               /\ PutAway(from, r, value)[q] = Encoded(PutAway(said, r, lits)[q])
BY DEF PutAway

LEMMA TakingKeeps ==
  ASSUME ColdInv, NEW r
  PROVE  /\ DOMAIN TakenOut(payloads, r) = DOMAIN TakenOut(told, r)
         /\ DOMAIN TakenOut(payloads, r) = DOMAIN payloads \ {r}
         /\ \A q \in DOMAIN TakenOut(told, r) :
               /\ TakenOut(told, r)[q] \in Seq(RawLiterals)
               /\ TakenOut(payloads, r)[q] = Encoded(TakenOut(told, r)[q])
BY DEF TakenOut, ColdInv

\* What a clause taken out leaves stored.
LEMMA TakenStored ==
  ASSUME ColdInv, NEW r \in DOMAIN payloads
  PROVE  /\ BytesOf(payloads[r]) \in Nat
         /\ IsFiniteSet(Stored(TakenOut(payloads, r))) /\ Cardinality(Stored(TakenOut(payloads, r))) \in Nat
         /\ footprint = Cardinality(Stored(TakenOut(payloads, r))) + BytesOf(payloads[r])
         /\ Left(r) = Cardinality(Stored(TakenOut(payloads, r)))
<1> DEFINE value == payloads[r]
<1>1. value = Encoded(told[r]) /\ told[r] \in Seq(RawLiterals)
  BY DEF ColdInv
<1>2. BytesOf(value) \in Nat
  BY <1>1, BytesNatural
<1>3. /\ IsFiniteSet(Stored(TakenOut(payloads, r)))
      /\ Cardinality(Stored(payloads)) = Cardinality(Stored(TakenOut(payloads, r))) + BytesOf(value)
  <2>1. payloads[r] = value /\ IsFiniteSet(Stored(payloads))
    BY DEF ColdInv
  <2> HIDE DEF value
  <2> QED
    BY <1>2, <2>1, StoredChanges
<1>4. Cardinality(Stored(TakenOut(payloads, r))) \in Nat
  BY <1>3, FS_CardinalityType
<1>5. footprint = Cardinality(Stored(payloads))
  BY DEF ColdInv
<1> QED
  BY <1>2, <1>3, <1>4, <1>5 DEF Left

LEMMA ColdStepInv == ColdInv /\ [ColdNext]_coldVars => ColdInv'
<1> SUFFICES ASSUME ColdInv, [ColdNext]_coldVars PROVE ColdInv'
  OBVIOUS
<1> USE DEF ColdInv
<1>0. /\ \A lits \in ColdTexts : lits \in Seq(RawLiterals)
      /\ \A r \in DOMAIN payloads : payloads[r] = Encoded(told[r]) /\ told[r] \in Seq(RawLiterals)
                                    /\ BytesOf(payloads[r]) \in Nat
      /\ Cardinality(Stored(payloads)) \in Nat
  BY BytesNatural, FS_CardinalityType, ColdAssumption DEF ColdAssumption
<1>1. CASE SetEnabled
  <2>1. CASE enabled' = TRUE
    BY <1>1, <2>1 DEF SetEnabled
  <2>2. CASE enabled' # TRUE
    <3>1. ResetCold /\ enabled' \in BOOLEAN
      BY <1>1, <2>2 DEF SetEnabled
    <3> QED
      BY <3>1, NothingStored DEF ResetCold
  <2> QED
    BY <2>1, <2>2
<1>2. CASE Reset
  BY <1>2, NothingStored DEF Reset, ResetCold
<1>3. CASE DemoteToCold
  <2>1. PICK r \in ColdRefs, lits \in ColdTexts :
          /\ enabled /\ r \notin DOMAIN payloads
          /\ StorePayload(payloads, r, lits)
          /\ footprint' = footprint + BytesOf(Encoded(lits))
          /\ UNCHANGED enabled
    BY <1>3 DEF DemoteToCold
  <2>2. lits \in Seq(RawLiterals) /\ BytesOf(Encoded(lits)) \in Nat
    BY <1>0, BytesNatural
  <2> DEFINE value == Encoded(lits)
  <2>3. payloads' = PutAway(payloads, r, value) /\ told' = PutAway(told, r, lits)
    BY <2>1 DEF StorePayload
  <2>4. value = Encoded(lits)
    OBVIOUS
  <2> HIDE DEF value
  <2>5. /\ DOMAIN payloads' = DOMAIN told'
        /\ \A q \in DOMAIN told' : told'[q] \in Seq(RawLiterals) /\ payloads'[q] = Encoded(told'[q])
    BY <2>1, <2>2, <2>3, <2>4, StoringKeeps
  <2>6. IsFiniteSet(Stored(payloads)') /\ Cardinality(Stored(payloads)') = Cardinality(Stored(payloads)) + BytesOf(value)
    <3>1. IsFiniteSet(Stored(PutAway(payloads, r, value)))
          /\ Cardinality(Stored(PutAway(payloads, r, value))) = Cardinality(Stored(payloads)) + BytesOf(value)
      BY <2>1, <2>2, <2>4, StoredChanges
    <3>2. Stored(payloads)' = Stored(PutAway(payloads, r, value))
      BY <2>3 DEF Stored
    <3> QED
      BY <3>1, <3>2
  <2> QED
    BY <2>1, <2>4, <2>5, <2>6
<1>4. CASE PromoteFromCold
  <2>1. PICK r \in DOMAIN payloads :
          /\ enabled
          /\ payloads' = TakenOut(payloads, r) /\ told' = TakenOut(told, r)
          /\ footprint' = Left(r)
          /\ UNCHANGED enabled
    BY <1>4 DEF PromoteFromCold
  <2>2. /\ DOMAIN payloads' = DOMAIN told'
        /\ \A q \in DOMAIN told' : told'[q] \in Seq(RawLiterals) /\ payloads'[q] = Encoded(told'[q])
    BY <2>1, TakingKeeps
  <2>3. IsFiniteSet(Stored(payloads')) /\ footprint' = Cardinality(Stored(payloads'))
    BY <2>1, TakenStored
  <2> QED
    BY <2>1, <2>2, <2>3 DEF Stored
<1>5. CASE RewriteRefAfterGc
  <2>1. PICK r \in DOMAIN payloads, q \in ColdRefs \ DOMAIN payloads :
          /\ enabled
          /\ payloads' = PutAway(TakenOut(payloads, r), q, payloads[r])
          /\ told' = PutAway(TakenOut(told, r), q, told[r])
          /\ UNCHANGED <<enabled, footprint>>
    BY <1>5 DEF RewriteRefAfterGc
  <2> DEFINE from == TakenOut(payloads, r)
             said == TakenOut(told, r)
  <2>2. /\ DOMAIN from = DOMAIN said /\ q \notin DOMAIN from
        /\ \A o \in DOMAIN said : said[o] \in Seq(RawLiterals) /\ from[o] = Encoded(said[o])
    BY <2>1, TakingKeeps
  <2>3. /\ IsFiniteSet(Stored(from)) /\ BytesOf(payloads[r]) \in Nat
        /\ footprint = Cardinality(Stored(from)) + BytesOf(payloads[r])
    BY <2>1, TakenStored
  <2>4. payloads' = PutAway(from, q, payloads[r]) /\ told' = PutAway(said, q, told[r])
    BY <2>1
  <2> HIDE DEF from, said
  <2>5. /\ DOMAIN payloads' = DOMAIN told'
        /\ \A o \in DOMAIN told' : told'[o] \in Seq(RawLiterals) /\ payloads'[o] = Encoded(told'[o])
    BY <1>0, <2>1, <2>2, <2>4, StoringKeeps
  <2>6. IsFiniteSet(Stored(payloads')) /\ Cardinality(Stored(payloads')) = Cardinality(Stored(from)) + BytesOf(payloads[r])
    BY <1>0, <2>1, <2>2, <2>3, <2>4, StoredChanges
  <2> QED
    BY <2>1, <2>3, <2>5, <2>6 DEF Stored
<1>6. CASE RewriteLiteralsAfterCompaction
  <2>1. PICK r \in DOMAIN payloads, lits \in ColdTexts :
          /\ enabled
          /\ StorePayload(TakenOut(payloads, r), r, lits)
          /\ footprint' = Left(r) + BytesOf(Encoded(lits))
          /\ UNCHANGED enabled
    BY <1>6 DEF RewriteLiteralsAfterCompaction
  <2> DEFINE from == TakenOut(payloads, r)
             said == TakenOut(told, r)
             value == Encoded(lits)
  <2>2. /\ DOMAIN from = DOMAIN said /\ r \notin DOMAIN from
        /\ \A o \in DOMAIN said : said[o] \in Seq(RawLiterals) /\ from[o] = Encoded(said[o])
    BY <2>1, TakingKeeps
  <2>3. IsFiniteSet(Stored(from)) /\ Left(r) = Cardinality(Stored(from))
    BY <2>1, TakenStored
  <2>4. lits \in Seq(RawLiterals) /\ BytesOf(value) \in Nat /\ value = Encoded(lits)
    BY <1>0, BytesNatural
  <2>5. payloads' = PutAway(from, r, value) /\ told' = PutAway(said, r, lits)
    <3>1. PutAway(told, r, lits) = PutAway(said, r, lits)
      BY DEF PutAway, TakenOut
    <3> QED
      BY <2>1, <3>1 DEF StorePayload
  <2> HIDE DEF from, said, value
  <2>6. /\ DOMAIN payloads' = DOMAIN told'
        /\ \A o \in DOMAIN told' : told'[o] \in Seq(RawLiterals) /\ payloads'[o] = Encoded(told'[o])
    BY <2>2, <2>4, <2>5, StoringKeeps
  <2>7. IsFiniteSet(Stored(payloads')) /\ Cardinality(Stored(payloads')) = Cardinality(Stored(from)) + BytesOf(value)
    BY <2>2, <2>3, <2>4, <2>5, StoredChanges
  <2> QED
    BY <2>1, <2>3, <2>4, <2>6, <2>7 DEF Stored
<1>7. CASE UNCHANGED coldVars
  BY <1>7 DEF coldVars, Stored
<1> QED
  BY <1>1, <1>2, <1>3, <1>4, <1>5, <1>6, <1>7 DEF ColdNext

LEMMA ColdInvSuffices == ColdInv => ColdKept
<1> SUFFICES ASSUME ColdInv PROVE ColdKept
  OBVIOUS
<1>1. ASSUME NEW r \in DOMAIN payloads \cup DOMAIN told PROVE DecodeLiterals(r) = told[r]
  <2>1. enabled /\ r \in DOMAIN payloads /\ payloads[r] = Encoded(told[r]) /\ told[r] \in Seq(RawLiterals)
    BY <1>1 DEF ColdInv
  <2> QED
    BY <2>1, ReadsBack DEF DecodeLiterals
<1> QED
  BY <1>1 DEF ColdKept, ColdInv

\* A clause that was put away reads back as it was last stated, for groups of
\* any size, literals of any width whose top bits share a group with the sign,
\* any clauses and any moves, and every byte stored is counted once
\* (clause_cold.cpp: store_payload, decode_literals, rewrite_ref_after_gc).
THEOREM ColdAlwaysKept == ColdSpec => []ColdKept
  BY ColdInitInv, ColdStepInv, ColdInvSuffices, PTL DEF ColdSpec

==============================================================================
