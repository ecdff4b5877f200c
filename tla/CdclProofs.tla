----------------------------- MODULE CdclProofs -----------------------------
(***************************************************************************)
(* Soundness of the search, for any number of variables, any calls and any *)
(* schedule of restarts and reductions: what it learns follows from what   *)
(* the caller stated, and so does every "unsatisfiable" it answers.  One   *)
(* lemma per action shows that the action keeps the inductive invariant.   *)
(***************************************************************************)
EXTENDS CdclInductive, TLAPS, SequenceTheorems, Iterations

-----------------------------------------------------------------------------
(* Literals.                                                               *)

\* A literal and its negation share a variable, and no others do.
LEMMA Literals ==
  /\ \A l \in Lits : /\ VarOf(l) \in Vars
                     /\ -l \in Lits
                     /\ -l # l
                     /\ -(-l) = l
                     /\ VarOf(-l) = VarOf(l)
  /\ \A k, l \in Lits : VarOf(k) = VarOf(l) => k = l \/ k = -l
BY NumVarsAssumption DEF Lits, Vars, VarOf

\* An assignment holds a literal or its negation, and never both.
LEMMA OnePolarity ==
  ASSUME NEW f, NEW m \in Models(f), NEW l \in Lits
  PROVE  (l \in m) # (-l \in m)
<1>1. m \in SUBSET Lits /\ \A v \in Vars : (v \in m) # (-v \in m)
  BY DEF Models, Assignments
<1>2. CASE l > 0
  BY <1>1, <1>2, NumVarsAssumption DEF Lits, Vars
<1>3. CASE l < 0
  <2>1. -l \in Vars /\ -(-l) = l
    BY <1>3, NumVarsAssumption DEF Lits, Vars
  <2>2. QED
    BY <1>1, <2>1
<1>4. QED
  BY <1>2, <1>3, NumVarsAssumption DEF Lits

-----------------------------------------------------------------------------
(* Trails: what cutting, extending and opening a level preserve.           *)

Trails   == Seq(TrailEntry)
Controls == Seq(ControlFrame)
\* The trail tr cut back to level t of ctl.
Cut(tr, ctl, t) == SubSeq(tr, 1, ctl[t + 1].trail_begin)

\* Elements of trails and frames are typed.
LEMMA TrailTypes ==
  ASSUME NEW tr \in Trails, NEW ctl \in Controls
  PROVE  /\ Len(tr) \in Nat /\ Len(ctl) \in Nat
         /\ \A i \in 1..Len(tr) : /\ tr[i].lit \in Lits
                                  /\ tr[i].level \in Nat
                                  /\ tr[i].reason \in Nat
         /\ \A k \in 1..Len(ctl) : ctl[k].trail_begin \in Nat
<1>1. \A i \in 1..Len(tr) : tr[i] \in TrailEntry
  BY ElementOfSeq DEF Trails
<1>2. \A k \in 1..Len(ctl) : ctl[k] \in ControlFrame
  BY ElementOfSeq DEF Controls
<1>3. Len(tr) \in Nat /\ Len(ctl) \in Nat
  BY LenProperties DEF Trails, Controls
<1>4. QED
  BY <1>1, <1>2, <1>3 DEF TrailEntry, ControlFrame

\* Cutting keeps a prefix: the entries of the levels that stay.
LEMMA CutIsPrefix ==
  ASSUME NEW tr \in Trails, NEW ctl \in Controls, OrderedTrail(tr, ctl),
         NEW t \in 0..Len(ctl) - 1
  PROVE  /\ Cut(tr, ctl, t) \in Trails
         /\ Len(Cut(tr, ctl, t)) = ctl[t + 1].trail_begin
         /\ Len(Cut(tr, ctl, t)) <= Len(tr)
         /\ \A i \in 1..Len(Cut(tr, ctl, t)) :
              Cut(tr, ctl, t)[i] = tr[i] /\ tr[i].level <= t
         /\ \A i \in 1..Len(tr) :
              i <= Len(Cut(tr, ctl, t)) <=> tr[i].level <= t
         /\ SubSeq(ctl, 1, t) \in Controls
         /\ Len(SubSeq(ctl, 1, t)) = t
         /\ \A k \in 1..t : SubSeq(ctl, 1, t)[k] = ctl[k]
<1> DEFINE n == ctl[t + 1].trail_begin
<1>0. /\ Len(tr) \in Nat /\ Len(ctl) \in Nat /\ n \in Nat /\ t \in Nat
      /\ t + 1 \in 1..Len(ctl)
      /\ \A i \in 1..Len(tr) : tr[i].level \in Nat
  BY TrailTypes
<1>1. n <= Len(tr)
  BY <1>0 DEF OrderedTrail
<1>2. \A i \in 1..n : tr[i] \in TrailEntry
  BY <1>0, <1>1, ElementOfSeq DEF Trails
<1>3. /\ SubSeq(tr, 1, n) \in Trails
      /\ Len(SubSeq(tr, 1, n)) = n
      /\ \A i \in 1..n : SubSeq(tr, 1, n)[i] = tr[i]
  <2>1. /\ SubSeq(tr, 1, n) \in Seq(TrailEntry)
        /\ Len(SubSeq(tr, 1, n)) = IF 1 <= n THEN n - 1 + 1 ELSE 0
        /\ \A i \in 1..n - 1 + 1 : SubSeq(tr, 1, n)[i] = tr[1 + i - 1]
    BY <1>0, <1>2, SubSeqProperties
  <2>2. QED
    BY <2>1, <1>0 DEF Trails
<1>4. \A k \in 1..t : ctl[k] \in ControlFrame
  BY <1>0, ElementOfSeq DEF Controls
<1>5. /\ SubSeq(ctl, 1, t) \in Controls
      /\ Len(SubSeq(ctl, 1, t)) = t
      /\ \A k \in 1..t : SubSeq(ctl, 1, t)[k] = ctl[k]
  <2>1. /\ SubSeq(ctl, 1, t) \in Seq(ControlFrame)
        /\ Len(SubSeq(ctl, 1, t)) = IF 1 <= t THEN t - 1 + 1 ELSE 0
        /\ \A i \in 1..t - 1 + 1 : SubSeq(ctl, 1, t)[i] = ctl[1 + i - 1]
    BY <1>0, <1>4, SubSeqProperties
  <2>2. QED
    BY <2>1, <1>0 DEF Controls
<1>6. \A i \in 1..Len(tr) : i <= n <=> tr[i].level <= t
  BY <1>0 DEF OrderedTrail
<1>7. QED
  BY <1>0, <1>1, <1>3, <1>5, <1>6 DEF Cut

\* Cutting preserves everything said of trails.
LEMMA CutKeeps ==
  ASSUME NEW tr \in Trails, NEW ctl \in Controls, OrderedTrail(tr, ctl),
         NEW t \in 0..Len(ctl) - 1
  PROVE  /\ OrderedTrail(Cut(tr, ctl, t), SubSeq(ctl, 1, t))
         /\ \A as : OpenedByDecisions(tr, ctl, as)
              => OpenedByDecisions(Cut(tr, ctl, t), SubSeq(ctl, 1, t), as)
         /\ \A cs : Justified(tr, cs) => Justified(Cut(tr, ctl, t), cs)
         /\ \A f : RootHolds(tr, f) => RootHolds(Cut(tr, ctl, t), f)
<1> DEFINE tr2 == Cut(tr, ctl, t)
           ctl2 == SubSeq(ctl, 1, t)
<1>1. /\ tr2 \in Trails
      /\ Len(tr2) = ctl[t + 1].trail_begin
      /\ Len(tr2) <= Len(tr)
      /\ \A i \in 1..Len(tr2) : tr2[i] = tr[i] /\ tr[i].level <= t
      /\ \A i \in 1..Len(tr) : i <= Len(tr2) <=> tr[i].level <= t
      /\ ctl2 \in Controls
      /\ Len(ctl2) = t
      /\ \A k \in 1..t : ctl2[k] = ctl[k]
  BY CutIsPrefix
<1>2. /\ Len(tr) \in Nat /\ Len(ctl) \in Nat /\ Len(tr2) \in Nat
      /\ t \in Nat /\ t + 1 \in 1..Len(ctl)
      /\ \A i \in 1..Len(tr) : tr[i].level \in Nat
      /\ \A k \in 1..Len(ctl) : ctl[k].trail_begin \in Nat
  BY <1>1, TrailTypes
<1> HIDE DEF tr2, ctl2
<1>3. OrderedTrail(tr2, ctl2)
  <2>1. \A i, j \in 1..Len(tr2) : VarOf(tr2[i].lit) = VarOf(tr2[j].lit) => i = j
    BY <1>1, <1>2 DEF OrderedTrail
  <2>2. \A k \in 1..Len(ctl2) : ctl2[k].trail_begin <= Len(tr2)
    <3> SUFFICES ASSUME NEW k \in 1..t PROVE ctl[k].trail_begin <= Len(tr2)
      BY <1>1
    <3>0. k \in 1..Len(ctl)
      BY <1>2
    <3>1. CASE ctl[k].trail_begin = 0
      BY <3>1, <1>2
    <3>2. CASE ctl[k].trail_begin > 0
      <4>1. ctl[k].trail_begin \in 1..Len(tr)
        BY <3>0, <3>2, <1>2 DEF OrderedTrail
      <4>2. tr[ctl[k].trail_begin].level < k
        BY <3>0, <4>1, <1>2 DEF OrderedTrail
      <4>3. QED
        BY <3>0, <4>1, <4>2, <1>1, <1>2
    <3>3. QED
      BY <3>0, <3>1, <3>2, <1>2
  <2>3. \A i \in 1..Len(tr2), k \in 1..Len(ctl2) :
          i <= ctl2[k].trail_begin <=> tr2[i].level < k
    BY <1>1, <1>2 DEF OrderedTrail
  <2>4. \A i \in 1..Len(tr2) : tr2[i].level <= Len(ctl2)
    BY <1>1
  <2>5. QED
    BY <2>1, <2>2, <2>3, <2>4 DEF OrderedTrail
<1> DEFINE kept == 1..Len(tr2)
<1>a. \A i \in kept : /\ i \in 1..Len(tr)
                      /\ tr2[i] = tr[i]
                      /\ tr[i].level \in 0..t
                      /\ 1..i-1 \subseteq kept
  BY <1>1, <1>2
<1>b. \A k \in 1..t : ctl2[k] = ctl[k]
  BY <1>1
<1> HIDE DEF kept
<1>4. ASSUME NEW as, OpenedByDecisions(tr, ctl, as)
      PROVE  OpenedByDecisions(tr2, ctl2, as)
  <2> SUFFICES ASSUME NEW i \in kept, tr2[i].reason = 0
               PROVE  /\ tr2[i].level >= 1
                      /\ i = ctl2[tr2[i].level].trail_begin + 1
                      /\ tr2[i].level <= Len(as) => tr2[i].lit = as[tr2[i].level]
    BY DEF OpenedByDecisions, kept
  <2>1. /\ tr[i].level >= 1
        /\ i = ctl[tr[i].level].trail_begin + 1
        /\ tr[i].level <= Len(as) => tr[i].lit = as[tr[i].level]
    BY <1>a, <1>4 DEF OpenedByDecisions
  <2>2. tr[i].level \in 1..t
    BY <1>a, <2>1, <1>2
  <2>3. QED
    BY <1>a, <1>b, <2>1, <2>2
<1>5. ASSUME NEW cs, Justified(tr, cs)
      PROVE  Justified(tr2, cs)
  <2> SUFFICES ASSUME NEW i \in kept, tr2[i].reason # 0
               PROVE  /\ tr2[i].reason \in 1..Len(cs)
                      /\ cs[tr2[i].reason].alive
                      /\ tr2[i].lit \in cs[tr2[i].reason].lits
                      /\ \A k \in cs[tr2[i].reason].lits \ {tr2[i].lit} :
                           \E j \in 1..i-1 : tr2[j].lit = -k
    BY DEF Justified, kept
  <2>1. /\ tr[i].reason \in 1..Len(cs)
        /\ cs[tr[i].reason].alive
        /\ tr[i].lit \in cs[tr[i].reason].lits
        /\ \A k \in cs[tr[i].reason].lits \ {tr[i].lit} :
             \E j \in 1..i-1 : tr[j].lit = -k
    BY <1>a, <1>5 DEF Justified
  <2>2. \A j \in 1..i-1 : tr2[j] = tr[j]
    BY <1>a
  <2>3. QED
    BY <1>a, <2>1, <2>2
<1>6. ASSUME NEW f, RootHolds(tr, f)
      PROVE  RootHolds(tr2, f)
  <2> SUFFICES ASSUME NEW m \in Models(f), NEW i \in kept, tr2[i].level = 0
               PROVE  tr2[i].lit \in m
    BY DEF RootHolds, kept
  <2>1. QED
    BY <1>a, <1>6 DEF RootHolds
<1>7. QED
  BY <1>3, <1>4, <1>5, <1>6 DEF tr2, ctl2

\* Assigning an unassigned literal at the current level, for a clause whose
\* other literals are false, or as no decision at all.
LEMMA ExtendKeeps ==
  ASSUME NEW tr \in Trails, NEW ctl \in Controls, OrderedTrail(tr, ctl),
         NEW l \in Lits, NEW reason \in Nat,
         \A i \in 1..Len(tr) : VarOf(tr[i].lit) # VarOf(l)
  PROVE  LET tr2 == Append(tr, Entry(l, Len(ctl), reason)) IN
         /\ tr2 \in Trails
         /\ Len(tr2) = Len(tr) + 1
         /\ \A i \in 1..Len(tr) : tr2[i] = tr[i]
         /\ tr2[Len(tr) + 1] = Entry(l, Len(ctl), reason)
         /\ OrderedTrail(tr2, ctl)
         /\ \A as : reason # 0 /\ OpenedByDecisions(tr, ctl, as)
              => OpenedByDecisions(tr2, ctl, as)
         /\ \A cs : /\ Justified(tr, cs)
                    /\ reason \in 1..Len(cs) /\ cs[reason].alive
                    /\ l \in cs[reason].lits
                    /\ \A k \in cs[reason].lits \ {l} :
                         \E j \in 1..Len(tr) : tr[j].lit = -k
              => Justified(tr2, cs)
         /\ \A f : /\ RootHolds(tr, f)
                   /\ Len(ctl) = 0 => \A m \in Models(f) : l \in m
              => RootHolds(tr2, f)
<1> DEFINE e == Entry(l, Len(ctl), reason)
           tr2 == Append(tr, e)
<1>1. /\ Len(tr) \in Nat /\ Len(ctl) \in Nat
      /\ \A i \in 1..Len(tr) : tr[i].level \in Nat
      /\ \A k \in 1..Len(ctl) : ctl[k].trail_begin \in Nat
  BY TrailTypes
<1>2. e \in TrailEntry
  BY <1>1 DEF Entry, TrailEntry
<1>3. /\ tr2 \in Trails
      /\ Len(tr2) = Len(tr) + 1
      /\ \A i \in 1..Len(tr) : tr2[i] = tr[i]
      /\ tr2[Len(tr) + 1] = e
  BY <1>2, AppendProperties DEF Trails
<1>4. e.lit = l /\ e.level = Len(ctl) /\ e.reason = reason
  BY DEF Entry
<1> HIDE DEF tr2, e
<1>5. \A i \in 1..Len(tr2) : i \in 1..Len(tr) \/ i = Len(tr) + 1
  BY <1>1, <1>3
<1>6. OrderedTrail(tr2, ctl)
  <2>1. \A i, j \in 1..Len(tr2) : VarOf(tr2[i].lit) = VarOf(tr2[j].lit) => i = j
    <3> SUFFICES ASSUME NEW i \in 1..Len(tr2), NEW j \in 1..Len(tr2),
                        VarOf(tr2[i].lit) = VarOf(tr2[j].lit)
                 PROVE  i = j
      OBVIOUS
    <3>1. CASE i \in 1..Len(tr) /\ j \in 1..Len(tr)
      BY <3>1, <1>3 DEF OrderedTrail
    <3>2. CASE i = Len(tr) + 1 /\ j \in 1..Len(tr)
      BY <3>2, <1>3, <1>4
    <3>3. CASE j = Len(tr) + 1 /\ i \in 1..Len(tr)
      BY <3>3, <1>3, <1>4
    <3>4. QED
      BY <3>1, <3>2, <3>3, <1>5
  <2>2. \A i \in 1..Len(tr2) : tr2[i].level <= Len(ctl)
    BY <1>1, <1>3, <1>4, <1>5 DEF OrderedTrail
  <2>3. \A k \in 1..Len(ctl) : ctl[k].trail_begin <= Len(tr2)
    BY <1>1, <1>3 DEF OrderedTrail
  <2>4. \A i \in 1..Len(tr2), k \in 1..Len(ctl) :
          i <= ctl[k].trail_begin <=> tr2[i].level < k
    BY <1>1, <1>3, <1>4, <1>5 DEF OrderedTrail
  <2>5. QED
    BY <2>1, <2>2, <2>3, <2>4 DEF OrderedTrail
<1>7. ASSUME NEW as, reason # 0, OpenedByDecisions(tr, ctl, as)
      PROVE  OpenedByDecisions(tr2, ctl, as)
  BY <1>3, <1>4, <1>5, <1>7 DEF OpenedByDecisions
<1>8. ASSUME NEW cs, Justified(tr, cs),
             reason \in 1..Len(cs), cs[reason].alive,
             l \in cs[reason].lits,
             \A k \in cs[reason].lits \ {l} : \E j \in 1..Len(tr) : tr[j].lit = -k
      PROVE  Justified(tr2, cs)
  <2> SUFFICES ASSUME NEW i \in 1..Len(tr2), tr2[i].reason # 0
               PROVE  /\ tr2[i].reason \in 1..Len(cs)
                      /\ cs[tr2[i].reason].alive
                      /\ tr2[i].lit \in cs[tr2[i].reason].lits
                      /\ \A k \in cs[tr2[i].reason].lits \ {tr2[i].lit} :
                           \E j \in 1..i-1 : tr2[j].lit = -k
    BY DEF Justified
  <2>1. CASE i \in 1..Len(tr)
    <3>1. /\ tr[i].reason \in 1..Len(cs)
          /\ cs[tr[i].reason].alive
          /\ tr[i].lit \in cs[tr[i].reason].lits
          /\ \A k \in cs[tr[i].reason].lits \ {tr[i].lit} :
               \E j \in 1..i-1 : tr[j].lit = -k
      BY <2>1, <1>3, <1>8 DEF Justified
    <3>2. \A j \in 1..i-1 : tr2[j] = tr[j]
      BY <2>1, <1>1, <1>3
    <3>3. QED
      BY <2>1, <1>3, <3>1, <3>2
  <2>2. CASE i = Len(tr) + 1
    BY <2>2, <1>1, <1>3, <1>4, <1>8
  <2>3. QED
    BY <2>1, <2>2, <1>5
<1>9. ASSUME NEW f, RootHolds(tr, f),
             Len(ctl) = 0 => \A m \in Models(f) : l \in m
      PROVE  RootHolds(tr2, f)
  BY <1>3, <1>4, <1>5, <1>9 DEF RootHolds
<1>10. QED
  BY <1>3, <1>6, <1>7, <1>8, <1>9 DEF tr2, e

\* Opening a level that has no decision yet.
LEMMA FrameKeeps ==
  ASSUME NEW tr \in Trails, NEW ctl \in Controls, OrderedTrail(tr, ctl),
         NEW fr \in ControlFrame, fr.trail_begin = Len(tr)
  PROVE  LET ctl2 == Append(ctl, fr) IN
         /\ ctl2 \in Controls /\ Len(ctl2) = Len(ctl) + 1
         /\ OrderedTrail(tr, ctl2)
         /\ \A as : OpenedByDecisions(tr, ctl, as) => OpenedByDecisions(tr, ctl2, as)
<1> DEFINE ctl2 == Append(ctl, fr)
<1>1. /\ Len(tr) \in Nat /\ Len(ctl) \in Nat
      /\ \A i \in 1..Len(tr) : tr[i].level \in Nat
      /\ \A k \in 1..Len(ctl) : ctl[k].trail_begin \in Nat
  BY TrailTypes
<1>4. /\ ctl2 \in Controls
      /\ Len(ctl2) = Len(ctl) + 1
      /\ \A k \in 1..Len(ctl) : ctl2[k] = ctl[k]
      /\ ctl2[Len(ctl) + 1] = fr
  BY AppendProperties DEF Controls
<1> HIDE DEF ctl2
<1>6. \A k \in 1..Len(ctl2) : k \in 1..Len(ctl) \/ k = Len(ctl) + 1
  BY <1>1, <1>4
<1>7. OrderedTrail(tr, ctl2)
  <2>1. \A i \in 1..Len(tr) : tr[i].level <= Len(ctl2)
    BY <1>1, <1>4 DEF OrderedTrail
  <2>2. \A k \in 1..Len(ctl2) : ctl2[k].trail_begin <= Len(tr)
    BY <1>1, <1>4, <1>6 DEF OrderedTrail
  <2>3. ASSUME NEW i \in 1..Len(tr), NEW k \in 1..Len(ctl2)
        PROVE  i <= ctl2[k].trail_begin <=> tr[i].level < k
    <3>1. CASE k \in 1..Len(ctl)
      BY <3>1, <1>4 DEF OrderedTrail
    <3>2. CASE k = Len(ctl) + 1
      BY <3>2, <1>1, <1>4 DEF OrderedTrail
    <3>3. QED
      BY <3>1, <3>2, <1>6
  <2>4. QED
    BY <2>1, <2>2, <2>3 DEF OrderedTrail
<1>9. ASSUME NEW as, OpenedByDecisions(tr, ctl, as)
      PROVE  OpenedByDecisions(tr, ctl2, as)
  <2> SUFFICES ASSUME NEW i \in 1..Len(tr), tr[i].reason = 0
               PROVE  /\ tr[i].level >= 1
                      /\ i = ctl2[tr[i].level].trail_begin + 1
                      /\ tr[i].level <= Len(as) => tr[i].lit = as[tr[i].level]
    BY DEF OpenedByDecisions
  <2>1. /\ tr[i].level >= 1
        /\ i = ctl[tr[i].level].trail_begin + 1
        /\ tr[i].level <= Len(as) => tr[i].lit = as[tr[i].level]
    BY <1>9 DEF OpenedByDecisions
  <2>2. tr[i].level \in 1..Len(ctl)
    BY <2>1, <1>1 DEF OrderedTrail
  <2>3. QED
    BY <2>1, <2>2, <1>4
<1>10. QED
  BY <1>4, <1>7, <1>9 DEF ctl2

\* Opening a level with its decision.
LEMMA OpenKeeps ==
  ASSUME NEW tr \in Trails, NEW ctl \in Controls, OrderedTrail(tr, ctl),
         NEW fr \in ControlFrame, fr.trail_begin = Len(tr),
         NEW l \in Lits, \A i \in 1..Len(tr) : VarOf(tr[i].lit) # VarOf(l)
  PROVE  LET tr2 == Append(tr, Entry(l, Len(ctl) + 1, 0))
             ctl2 == Append(ctl, fr) IN
         /\ ctl2 \in Controls /\ Len(ctl2) = Len(ctl) + 1
         /\ tr2 \in Trails /\ Len(tr2) = Len(tr) + 1
         /\ \A i \in 1..Len(tr) : tr2[i] = tr[i]
         /\ tr2[Len(tr) + 1] = Entry(l, Len(ctl) + 1, 0)
         /\ OrderedTrail(tr2, ctl2)
         /\ \A as : /\ OpenedByDecisions(tr, ctl, as)
                    /\ Len(ctl) + 1 <= Len(as) => l = as[Len(ctl) + 1]
              => OpenedByDecisions(tr2, ctl2, as)
         /\ \A cs : Justified(tr, cs) => Justified(tr2, cs)
         /\ \A f : RootHolds(tr, f) => RootHolds(tr2, f)
<1> DEFINE e == Entry(l, Len(ctl) + 1, 0)
           tr2 == Append(tr, e)
           ctl2 == Append(ctl, fr)
<1>1. /\ Len(tr) \in Nat /\ Len(ctl) \in Nat
      /\ \A i \in 1..Len(tr) : tr[i].level \in Nat
      /\ \A k \in 1..Len(ctl) : ctl[k].trail_begin \in Nat
  BY TrailTypes
<1>2. e \in TrailEntry
  BY <1>1 DEF Entry, TrailEntry
<1>3. /\ tr2 \in Trails
      /\ Len(tr2) = Len(tr) + 1
      /\ \A i \in 1..Len(tr) : tr2[i] = tr[i]
      /\ tr2[Len(tr) + 1] = e
  BY <1>2, AppendProperties DEF Trails
<1>4. /\ ctl2 \in Controls
      /\ Len(ctl2) = Len(ctl) + 1
      /\ \A k \in 1..Len(ctl) : ctl2[k] = ctl[k]
      /\ ctl2[Len(ctl) + 1] = fr
  BY AppendProperties DEF Controls
<1>5. e.lit = l /\ e.level = Len(ctl) + 1 /\ e.reason = 0
  BY DEF Entry
<1> HIDE DEF tr2, ctl2, e
<1>6. /\ \A i \in 1..Len(tr2) : i \in 1..Len(tr) \/ i = Len(tr) + 1
      /\ \A k \in 1..Len(ctl2) : k \in 1..Len(ctl) \/ k = Len(ctl) + 1
  BY <1>1, <1>3, <1>4
<1>7. OrderedTrail(tr, ctl2)
  BY FrameKeeps DEF ctl2
<1>8. OrderedTrail(tr2, ctl2)
  <2>1. \A i, j \in 1..Len(tr2) : VarOf(tr2[i].lit) = VarOf(tr2[j].lit) => i = j
    <3> SUFFICES ASSUME NEW i \in 1..Len(tr2), NEW j \in 1..Len(tr2),
                        VarOf(tr2[i].lit) = VarOf(tr2[j].lit)
                 PROVE  i = j
      OBVIOUS
    <3>1. CASE i \in 1..Len(tr) /\ j \in 1..Len(tr)
      BY <3>1, <1>3 DEF OrderedTrail
    <3>2. CASE i = Len(tr) + 1 /\ j \in 1..Len(tr)
      BY <3>2, <1>3, <1>5
    <3>3. CASE j = Len(tr) + 1 /\ i \in 1..Len(tr)
      BY <3>3, <1>3, <1>5
    <3>4. QED
      BY <3>1, <3>2, <3>3, <1>6
  <2>2. \A i \in 1..Len(tr2) : tr2[i].level <= Len(ctl2)
    BY <1>1, <1>3, <1>4, <1>5, <1>6, <1>7 DEF OrderedTrail
  <2>3. \A k \in 1..Len(ctl2) : ctl2[k].trail_begin <= Len(tr)
    BY <1>7 DEF OrderedTrail
  <2>4. ASSUME NEW i \in 1..Len(tr2), NEW k \in 1..Len(ctl2)
        PROVE  i <= ctl2[k].trail_begin <=> tr2[i].level < k
    <3>1. CASE i \in 1..Len(tr)
      BY <3>1, <1>3, <1>7 DEF OrderedTrail
    <3>2. CASE i = Len(tr) + 1
      <4>1. ~(i <= ctl2[k].trail_begin)
        BY <3>2, <2>3, <1>1, <1>4, <1>6
      <4>2. ~(tr2[i].level < k)
        BY <3>2, <1>1, <1>3, <1>4, <1>5
      <4>3. QED
        BY <4>1, <4>2
    <3>3. QED
      BY <3>1, <3>2, <1>6
  <2>5. \A k \in 1..Len(ctl2) : ctl2[k].trail_begin <= Len(tr2)
    BY <2>3, <1>1, <1>3, <1>4, <1>6
  <2>6. QED
    BY <2>1, <2>2, <2>4, <2>5 DEF OrderedTrail
<1>9. ASSUME NEW as, OpenedByDecisions(tr, ctl, as)
      PROVE  OpenedByDecisions(tr, ctl2, as)
  BY <1>9, FrameKeeps DEF ctl2
<1>10. ASSUME NEW as, OpenedByDecisions(tr, ctl, as),
              Len(ctl) + 1 <= Len(as) => l = as[Len(ctl) + 1]
       PROVE  OpenedByDecisions(tr2, ctl2, as)
  <2> SUFFICES ASSUME NEW i \in 1..Len(tr2), tr2[i].reason = 0
               PROVE  /\ tr2[i].level >= 1
                      /\ i = ctl2[tr2[i].level].trail_begin + 1
                      /\ tr2[i].level <= Len(as) => tr2[i].lit = as[tr2[i].level]
    BY DEF OpenedByDecisions
  <2>0. OpenedByDecisions(tr, ctl2, as)
    BY <1>9, <1>10
  <2>1. CASE i \in 1..Len(tr)
    <3>1. /\ tr[i].level >= 1
          /\ i = ctl2[tr[i].level].trail_begin + 1
          /\ tr[i].level <= Len(as) => tr[i].lit = as[tr[i].level]
      BY <2>0, <2>1, <1>3 DEF OpenedByDecisions
    <3>2. QED
      BY <3>1, <2>1, <1>3
  <2>2. CASE i = Len(tr) + 1
    <3>1. tr2[i].level = Len(ctl) + 1 /\ tr2[i].lit = l
      BY <2>2, <1>3, <1>5
    <3>2. ctl2[tr2[i].level].trail_begin = Len(tr)
      BY <3>1, <1>4
    <3>3. tr2[i].level <= Len(as) => tr2[i].lit = as[tr2[i].level]
      <4>1. ASSUME NEW v, v = Len(ctl) + 1 PROVE v <= Len(as) => l = as[v]
        BY <4>1, <1>10
      <4>2. QED
        BY <3>1, <4>1
    <3>4. tr2[i].level >= 1
      BY <3>1, <1>1
    <3>5. i = ctl2[tr2[i].level].trail_begin + 1
      BY <2>2, <3>2
    <3>6. QED
      BY <3>3, <3>4, <3>5
  <2>3. QED
    BY <2>1, <2>2, <1>6
<1>11. ASSUME NEW cs, Justified(tr, cs)
       PROVE  Justified(tr2, cs)
  <2> SUFFICES ASSUME NEW i \in 1..Len(tr), tr2[i].reason # 0
               PROVE  /\ tr2[i].reason \in 1..Len(cs)
                      /\ cs[tr2[i].reason].alive
                      /\ tr2[i].lit \in cs[tr2[i].reason].lits
                      /\ \A k \in cs[tr2[i].reason].lits \ {tr2[i].lit} :
                           \E j \in 1..i-1 : tr2[j].lit = -k
    BY <1>3, <1>5, <1>6 DEF Justified
  <2>1. /\ tr[i].reason \in 1..Len(cs)
        /\ cs[tr[i].reason].alive
        /\ tr[i].lit \in cs[tr[i].reason].lits
        /\ \A k \in cs[tr[i].reason].lits \ {tr[i].lit} :
             \E j \in 1..i-1 : tr[j].lit = -k
    BY <1>3, <1>11 DEF Justified
  <2>2. \A j \in 1..i-1 : tr2[j] = tr[j]
    BY <1>1, <1>3
  <2>3. QED
    BY <1>3, <2>1, <2>2
<1>12. ASSUME NEW f, RootHolds(tr, f)
       PROVE  RootHolds(tr2, f)
  BY <1>1, <1>3, <1>5, <1>6, <1>12 DEF RootHolds
<1>13. QED
  BY <1>3, <1>4, <1>7, <1>8, <1>9, <1>10, <1>11, <1>12 DEF tr2, ctl2, e

-----------------------------------------------------------------------------
(* The state.                                                              *)

\* The trail and the database are typed.
LEMMA StateTypes ==
  ASSUME TypeOK
  PROVE  /\ trail \in Trails /\ control \in Controls
         /\ Len(trail) \in Nat /\ Level \in Nat
         /\ \A i \in Positions : /\ trail[i].lit \in Lits
                                 /\ trail[i].level \in Nat
                                 /\ trail[i].reason \in Nat
         /\ \A k \in 1..Level : control[k].trail_begin \in Nat
         /\ Len(clauses) \in Nat
         /\ \A r \in Refs : /\ clauses[r] \in Clause
                            /\ clauses[r].lits \in SUBSET Lits
                            /\ clauses[r].head \in SUBSET Lits
<1>1. trail \in Trails /\ control \in Controls
  BY DEF TypeOK, Trails, Controls
<1>2. clauses \in Seq(Clause)
  BY DEF TypeOK
<1>3. \A r \in Refs : clauses[r] \in Clause
  BY <1>2, ElementOfSeq DEF Refs
<1>4. Len(clauses) \in Nat
  BY <1>2, LenProperties
<1>5. \A r \in Refs : /\ clauses[r].lits \in SUBSET Lits
                      /\ clauses[r].head \in SUBSET Lits
  BY <1>3 DEF Clause
<1>6. QED
  BY <1>1, <1>3, <1>4, <1>5, TrailTypes DEF Level, Positions

\* PosOf finds the one position of an assigned variable.
LEMMA OnTrail ==
  ASSUME TypeOK, TrailOrdered, NEW i \in Positions
  PROVE  /\ PosOf(VarOf(trail[i].lit)) = i
         /\ ReasonOf(VarOf(trail[i].lit)) = trail[i].reason
<1>1. \A j \in Positions : VarOf(trail[j].lit) = VarOf(trail[i].lit) => j = i
  BY DEF TrailOrdered, OrderedTrail, Positions
<1>2. PosOf(VarOf(trail[i].lit)) = i
  BY <1>1 DEF PosOf
<1>3. QED
  BY <1>2 DEF ReasonOf

\* Where a false literal lies.
LEMMA FalseAt ==
  ASSUME TypeOK, TrailOrdered, NEW k \in Lits, NEW i \in Positions,
         trail[i].lit = -k
  PROVE  /\ PosOf(VarOf(k)) = i
         /\ LevelOf(k) = trail[i].level
         /\ ReasonOf(VarOf(k)) = trail[i].reason
         /\ VarOf(k) = VarOf(trail[i].lit)
<1>1. VarOf(trail[i].lit) = VarOf(k)
  BY Literals
<1>2. PosOf(VarOf(k)) = i /\ ReasonOf(VarOf(k)) = trail[i].reason
  BY <1>1, OnTrail
<1>3. QED
  BY <1>1, <1>2 DEF LevelOf

\* A literal that is neither true nor false has its variable nowhere on the
\* trail.
LEMMA Nowhere ==
  ASSUME TypeOK, NEW l \in Lits, ~IsTrue(l), ~IsFalse(l)
  PROVE  \A i \in 1..Len(trail) : VarOf(trail[i].lit) # VarOf(l)
<1>1. \A i \in Positions : trail[i].lit \in Lits /\ trail[i].lit # l /\ trail[i].lit # -l
  BY StateTypes DEF IsTrue, IsFalse
<1>2. QED
  BY <1>1, Literals DEF Positions

\* A literal false at the root holds in no model of the stated clauses.
LEMMA RootFalse ==
  ASSUME TypeOK, RootEntailed, NEW m \in Models(problem), NEW k \in Lits,
         NEW i \in Positions, trail[i].lit = -k, trail[i].level = 0
  PROVE  k \notin m
<1>1. -k \in m
  BY DEF RootEntailed, RootHolds, Positions
<1>2. QED
  BY <1>1, OnePolarity

\* What backtracking to level t keeps, whether or not it undoes anything.
LEMMA Backtracked ==
  ASSUME TypeOK, TrailOrdered, NEW t \in 0..Level
  PROVE  /\ TrailAt(t) \in Trails
         /\ ControlAt(t) \in Controls
         /\ Len(ControlAt(t)) = t
         /\ Len(TrailAt(t)) <= Len(trail)
         /\ \A i \in 1..Len(TrailAt(t)) : TrailAt(t)[i] = trail[i]
         /\ \A i \in Positions : i <= Len(TrailAt(t)) <=> trail[i].level <= t
         /\ OrderedTrail(TrailAt(t), ControlAt(t))
         /\ \A as : OpenedByDecisions(trail, control, as)
              => OpenedByDecisions(TrailAt(t), ControlAt(t), as)
         /\ \A cs : Justified(trail, cs) => Justified(TrailAt(t), cs)
         /\ \A f : RootHolds(trail, f) => RootHolds(TrailAt(t), f)
<1>1. CASE t < Level
  <2>1. t \in 0..Len(control) - 1
    BY <1>1, StateTypes DEF Level
  <2>2. TrailAt(t) = Cut(trail, control, t) /\ ControlAt(t) = SubSeq(control, 1, t)
    BY <1>1 DEF TrailAt, ControlAt, Cut
  <2>3. trail \in Trails /\ control \in Controls /\ OrderedTrail(trail, control)
    BY StateTypes DEF TrailOrdered
  <2>4. QED
    BY <2>1, <2>2, <2>3, CutIsPrefix, CutKeeps DEF Positions
<1>2. CASE t = Level
  <2>1. TrailAt(t) = trail /\ ControlAt(t) = control
    BY <1>2, StateTypes DEF TrailAt, ControlAt
  <2>2. QED
    BY <1>2, <2>1, StateTypes DEF Positions, Level, TrailOrdered, OrderedTrail
<1>3. QED
  BY <1>1, <1>2, StateTypes

\* A database that keeps the literals of the reasons, and keeps them alive,
\* justifies the same trail.
LEMMA StillJustified ==
  ASSUME NEW tr, NEW cs, NEW cs2, Justified(tr, cs),
         Len(cs) \in Nat, Len(cs2) \in Nat, Len(cs) <= Len(cs2),
         \A i \in 1..Len(tr) : tr[i].reason # 0 =>
           /\ cs2[tr[i].reason].lits = cs[tr[i].reason].lits
           /\ cs2[tr[i].reason].alive
  PROVE  Justified(tr, cs2)
<1> SUFFICES ASSUME NEW i \in 1..Len(tr), tr[i].reason # 0
             PROVE  /\ tr[i].reason \in 1..Len(cs2)
                    /\ cs2[tr[i].reason].alive
                    /\ tr[i].lit \in cs2[tr[i].reason].lits
                    /\ \A k \in cs2[tr[i].reason].lits \ {tr[i].lit} :
                         \E j \in 1..i-1 : tr[j].lit = -k
  BY DEF Justified
<1>1. /\ tr[i].reason \in 1..Len(cs)
      /\ tr[i].lit \in cs[tr[i].reason].lits
      /\ \A k \in cs[tr[i].reason].lits \ {tr[i].lit} :
           \E j \in 1..i-1 : tr[j].lit = -k
  BY DEF Justified
<1>2. QED
  BY <1>1

-----------------------------------------------------------------------------
(* The clause database.                                                    *)

\* The pair attach_clause_for_propagation watches is two literals of the clause.
LEMMA FirstPairIs ==
  ASSUME NEW s \in Seq(Lits)
  PROVE  FirstPair(s) = {} \/ \E a, b \in Range1(s) : a # b /\ FirstPair(s) = {a, b}
<1>1. CASE Short(Range1(s))
  BY <1>1 DEF FirstPair
<1>2. CASE ~Short(Range1(s))
  <2> DEFINE S == {i \in 1..Len(s) : s[i] # s[1]}
             P(i) == s[i] # s[1] /\ \A j \in 1..i-1 : s[j] = s[1]
             first == CHOOSE i \in 1..Len(s) : P(i)
  <2>0. Len(s) \in Nat
    BY LenProperties
  <2>1. S # {}
    BY <1>2 DEF Short, Range1
  <2>2. S \subseteq Nat
    OBVIOUS
  <2>3. PICK n \in S : \A k \in S : n <= k
    BY <2>1, <2>2, Least
  <2>4. P(n)
    BY <2>0, <2>3
  <2>5. first \in 1..Len(s) /\ P(first)
    BY <2>4
  <2>6. FirstPair(s) = {s[1], s[first]}
    BY <1>2 DEF FirstPair
  <2> HIDE DEF first
  <2>7. s[1] \in Range1(s) /\ s[first] \in Range1(s)
    BY <2>0, <2>5 DEF Range1
  <2>8. QED
    BY <2>5, <2>6, <2>7
<1>3. QED
  BY <1>1, <1>2

\* Of a pair, the other literal.
LEMMA OtherOfPair ==
  ASSUME NEW a, NEW b, a # b
  PROVE  OtherOf({a, b}, a) = b /\ OtherOf({a, b}, b) = a
BY DEF OtherOf

\* The literals of a sequence of literals.
LEMMA RangeOfLits ==
  ASSUME NEW s \in Seq(Lits)
  PROVE  Range1(s) \subseteq Lits
BY ElementOfSeq DEF Range1

\* A clause appended to the database leaves the others as they were.
LEMMA Appended ==
  ASSUME NEW cs \in Seq(Clause), NEW c \in Clause
  PROVE  /\ Append(cs, c) \in Seq(Clause)
         /\ Len(Append(cs, c)) = Len(cs) + 1
         /\ Len(cs) \in Nat
         /\ \A r \in 1..Len(cs) : Append(cs, c)[r] = cs[r]
         /\ Append(cs, c)[Len(cs) + 1] = c
         /\ \A r \in 1..Len(cs) + 1 : r \in 1..Len(cs) \/ r = Len(cs) + 1
BY AppendProperties, LenProperties

\* The rebuilt watch lists match the database.
LEMMA Attached ==
  ASSUME TypeOK, PairsAndUnits
  PROVE  /\ AttachAll(clauses) \in [Lits -> SUBSET WatchEntry]
         /\ \A l \in Lits : \A e \in AttachAll(clauses)[l] :
              /\ e.ref \in Alive
              /\ l \in clauses[e.ref].head
              /\ e.blocking \in clauses[e.ref].lits \ {l}
         /\ \A l \in Lits : \A e, f \in AttachAll(clauses)[l] : e.ref = f.ref => e = f
<1> DEFINE W == AttachAll(clauses)
<1>1. \A l \in Lits : W[l] = {[ref |-> r, blocking |-> OtherOf(clauses[r].head, l)] :
        r \in {q \in 1..Len(clauses) : clauses[q].alive /\ l \in clauses[q].head}}
  BY DEF AttachAll
<1>2. W = [l \in Lits |-> W[l]]
  BY DEF AttachAll
<1> HIDE DEF W
<1>3. ASSUME NEW l \in Lits, NEW e \in W[l]
      PROVE  /\ e = [ref |-> e.ref, blocking |-> OtherOf(clauses[e.ref].head, l)]
             /\ e.ref \in Alive
             /\ l \in clauses[e.ref].head
             /\ e.blocking \in clauses[e.ref].lits \ {l}
  <2>1. PICK r \in Refs : /\ clauses[r].alive /\ l \in clauses[r].head
                          /\ e = [ref |-> r, blocking |-> OtherOf(clauses[r].head, l)]
    BY <1>1 DEF Refs
  <2>2. e.ref = r /\ e.blocking = OtherOf(clauses[r].head, l)
    BY <2>1
  <2>3. PICK a, b \in clauses[r].lits : a # b /\ clauses[r].head = {a, b}
    BY <2>1 DEF PairsAndUnits
  <2>4. OtherOf(clauses[r].head, l) \in clauses[r].lits \ {l}
    BY <2>1, <2>3, OtherOfPair
  <2>5. QED
    BY <2>1, <2>2, <2>4 DEF Alive
<1>4. \A l \in Lits : W[l] \subseteq WatchEntry
  <2> SUFFICES ASSUME NEW l \in Lits, NEW e \in W[l] PROVE e \in WatchEntry
    OBVIOUS
  <2>1. e.ref \in Refs /\ e.ref \in Nat
    BY <1>3, StateTypes DEF Alive, Refs
  <2>2. e.blocking \in Lits
    BY <1>3, <2>1, StateTypes
  <2>3. e = [ref |-> e.ref, blocking |-> e.blocking]
    BY <1>3
  <2>4. QED
    BY <2>1, <2>2, <2>3 DEF WatchEntry
<1>5. \A l \in Lits : \A e, f \in W[l] : e.ref = f.ref => e = f
  BY <1>3
<1>6. W \in [Lits -> SUBSET WatchEntry]
  BY <1>2, <1>4
<1>7. QED
  BY <1>3, <1>5, <1>6 DEF W

-----------------------------------------------------------------------------
(* Assigning.                                                              *)

\* Assigning the last literal of a clause whose others are false.
LEMMA AssignedKeeps ==
  ASSUME IInv, NEW l \in Lits, ~IsTrue(l), ~IsFalse(l),
         NEW r \in Alive, l \in clauses[r].lits,
         \A k \in clauses[r].lits \ {l} : IsFalse(k)
  PROVE  /\ Assigned(l, r) \in Trails
         /\ Len(Assigned(l, r)) = Len(trail) + 1
         /\ \A i \in Positions : Assigned(l, r)[i] = trail[i]
         /\ Assigned(l, r)[Len(trail) + 1] = Entry(l, Level, r)
         /\ OrderedTrail(Assigned(l, r), control)
         /\ OpenedByDecisions(Assigned(l, r), control, request.assumptions)
         /\ Justified(Assigned(l, r), clauses)
         /\ RootHolds(Assigned(l, r), problem)
<1>1. trail \in Trails /\ control \in Controls /\ OrderedTrail(trail, control)
  BY StateTypes DEF IInv, TrailOrdered
<1>2. r \in Refs /\ r \in 1..Len(clauses) /\ r \in Nat /\ r # 0 /\ clauses[r].alive
  BY StateTypes DEF IInv, Alive, Refs
<1>3. \A i \in 1..Len(trail) : VarOf(trail[i].lit) # VarOf(l)
  BY Nowhere DEF IInv
<1>4. \A k \in clauses[r].lits \ {l} : \E j \in 1..Len(trail) : trail[j].lit = -k
  BY DEF IsFalse, Positions
<1>5. ASSUME Level = 0, NEW m \in Models(problem) PROVE l \in m
  <2>1. PICK k \in clauses[r].lits : k \in m
    BY <1>2 DEF IInv, ClausesEntailed
  <2>2. CASE k = l
    BY <2>1, <2>2
  <2>3. CASE k # l
    <3>1. PICK i \in Positions : trail[i].lit = -k
      BY <2>3 DEF IsFalse
    <3>2. trail[i].level = 0
      BY <1>5, StateTypes DEF IInv, TrailOrdered, OrderedTrail, Positions, Level
    <3>3. k \in Lits
      BY <1>2, StateTypes DEF IInv
    <3>4. QED
      BY <2>1, <3>1, <3>2, <3>3, RootFalse DEF IInv
  <2>4. QED
    BY <2>2, <2>3
<1>6. OpenedByDecisions(trail, control, request.assumptions)
  BY DEF IInv, DecisionsOpen
<1>7. Justified(trail, clauses) /\ RootHolds(trail, problem)
  BY DEF IInv, TrailJustified, RootEntailed
<1> DEFINE tr2 == Append(trail, Entry(l, Len(control), r))
<1>8. Assigned(l, r) = tr2
  BY DEF Assigned, Level
<1>9. /\ tr2 \in Trails
      /\ Len(tr2) = Len(trail) + 1
      /\ \A i \in 1..Len(trail) : tr2[i] = trail[i]
      /\ tr2[Len(trail) + 1] = Entry(l, Len(control), r)
      /\ OrderedTrail(tr2, control)
  BY <1>1, <1>2, <1>3, ExtendKeeps
<1>10. OpenedByDecisions(tr2, control, request.assumptions)
  BY <1>1, <1>2, <1>3, <1>6, ExtendKeeps
<1>11. Justified(tr2, clauses)
  BY <1>1, <1>2, <1>3, <1>4, <1>7, ExtendKeeps
<1>12. RootHolds(tr2, problem)
  BY <1>1, <1>2, <1>3, <1>5, <1>7, ExtendKeeps DEF Level
<1>13. QED
  BY <1>8, <1>9, <1>10, <1>11, <1>12 DEF Positions, Level

-----------------------------------------------------------------------------
(* The steps.                                                              *)

\* Steps that touch neither the database nor the trail.
LEMMA Quiet ==
  ASSUME IInv,
         UNCHANGED <<problem, clauses, watches, trail, control, request>>
  PROVE  /\ TrailOrdered' /\ DecisionsOpen' /\ TrailJustified' /\ RootEntailed'
         /\ ClausesEntailed' /\ WatchEntries'
BY DEF IInv, TrailOrdered, DecisionsOpen, TrailJustified, RootEntailed,
       ClausesEntailed, WatchEntries, Refs, Alive

LEMMA LuckyStays ==
  ASSUME IInv, mode' \in {mode, "search"}, UNCHANGED request
  PROVE  LuckyUnassumed'
BY DEF IInv, LuckyUnassumed

LEMMA PropagateLiteralKeeps ==
  ASSUME IInv, PropagateLiteral
  PROVE  IInv'
<1> USE DEF PropagateLiteral, callVars, dbVars, trailVars, setupVars, countVars, resultVars
<1>1. TypeOK'
  <2>1. propagated + 1 \in Positions
    BY StateTypes DEF IInv, TypeOK, Positions
  <2>2. -trail[propagated + 1].lit \in Lits
    BY <2>1, StateTypes, Literals DEF IInv
  <2>3. propagated' \in 0..Len(trail)' /\ pending' \subseteq WatchEntry
    BY <2>1, <2>2 DEF IInv, TypeOK, Positions
  <2>4. QED
    BY <2>3 DEF IInv, TypeOK, Refs
<1>2. /\ TrailOrdered' /\ DecisionsOpen' /\ TrailJustified' /\ RootEntailed'
      /\ ClausesEntailed' /\ WatchEntries'
  BY Quiet
<1>3. UnsatSound' /\ PairsAndUnits' /\ ConflictFalsified' /\ AnalysisSound'
  BY DEF IInv, UnsatSound, PairsAndUnits, ConflictFalsified, AnalysisSound, Refs, Alive
<1>4. QueueAtLevel'
  BY StateTypes DEF IInv, QueueAtLevel, TypeOK, Positions, NotLit, Level
<1>5. LuckyUnassumed'
  BY LuckyStays
<1>6. QED
  BY <1>1, <1>2, <1>3, <1>4, <1>5 DEF IInv

\* A clause falsified at the root leaves the stated clauses without a model.
LEMMA RootRefutes ==
  ASSUME TypeOK, TrailOrdered, RootEntailed, ClausesEntailed, Level = 0,
         NEW r \in Refs, \A k \in clauses[r].lits : IsFalse(k)
  PROVE  \A m \in Models(problem) : FALSE
<1> SUFFICES ASSUME NEW m \in Models(problem) PROVE FALSE
  OBVIOUS
<1>1. PICK k \in clauses[r].lits : k \in m
  BY DEF ClausesEntailed
<1>2. k \in Lits
  BY StateTypes
<1>3. PICK i \in Positions : trail[i].lit = -k
  BY DEF IsFalse
<1>4. trail[i].level = 0
  BY StateTypes DEF TrailOrdered, OrderedTrail, Positions, Level
<1>5. QED
  BY <1>1, <1>2, <1>3, <1>4, RootFalse

\* The end of an episode refuted by a falsified root clause or assumption.
LEMMA RootConflictKeeps ==
  ASSUME IInv, NEW core \in SUBSET Lits, RootConflict(core),
         core \subseteq Range1(request.assumptions),
         \A m \in Models(problem) : ~(core \subseteq m),
         conflict' \in {0, conflict},
         UNCHANGED <<calls, problem, clauses, watches, units, trail, control, heap,
                     propagated, pending, variable_count, request, mode, strategy,
                     unit_queue, analysis>>
  PROVE  IInv'
<1> USE DEF RootConflict, Finish
<1>1. TypeOK'
  BY DEF IInv, TypeOK, Refs
<1>2. /\ TrailOrdered' /\ DecisionsOpen' /\ TrailJustified' /\ RootEntailed'
      /\ ClausesEntailed' /\ WatchEntries'
  BY Quiet
<1>3. UnsatSound'
  BY DEF UnsatSound, Models
<1>4. PairsAndUnits' /\ ConflictFalsified' /\ AnalysisSound' /\ QueueAtLevel'
  BY DEF IInv, PairsAndUnits, ConflictFalsified, AnalysisSound, QueueAtLevel, Refs, Alive
<1>5. LuckyUnassumed'
  BY LuckyStays
<1>6. QED
  BY <1>1, <1>2, <1>3, <1>4, <1>5 DEF IInv

LEMMA RootUnitFalsifiedKeeps ==
  ASSUME IInv, NEW r \in unit_queue, RootUnitFalsified(r)
  PROVE  IInv'
<1> USE DEF RootUnitFalsified, callVars, dbVars, trailVars, propVars, setupVars, countVars, resultVars
<1>1. CASE mode = "lucky"
  <2>1. /\ StartUnits("search", units)
        /\ UNCHANGED <<countVars, resultVars>>
    BY <1>1
  <2>2. TypeOK'
    BY <2>1 DEF IInv, TypeOK, StartUnits, Refs
  <2>3. /\ TrailOrdered' /\ DecisionsOpen' /\ TrailJustified' /\ RootEntailed'
        /\ ClausesEntailed' /\ WatchEntries'
    BY Quiet
  <2>4. pc' \in {"units", "propagate"} /\ unit_queue' = units /\ pc = "units"
    BY <2>1 DEF StartUnits
  <2>5. UnsatSound' /\ ConflictFalsified' /\ AnalysisSound'
    BY <2>4 DEF UnsatSound, ConflictFalsified, AnalysisSound
  <2>6. PairsAndUnits'
    BY <2>4 DEF IInv, PairsAndUnits, Refs, Alive, Level
  <2>7. QueueAtLevel'
    BY <2>4 DEF IInv, QueueAtLevel, Positions, Level, NotLit
  <2>8. LuckyUnassumed'
    BY <2>1, LuckyStays DEF StartUnits
  <2>9. QED
    BY <2>2, <2>3, <2>5, <2>6, <2>7, <2>8 DEF IInv
<1>2. CASE mode = "search"
  <2>1. RootConflict({}) /\ UNCHANGED <<mode, unit_queue>>
    BY <1>2
  <2>2. r \in Refs /\ \A k \in clauses[r].lits : IsFalse(k)
    BY DEF IInv, TypeOK
  <2>3. \A m \in Models(problem) : FALSE
    BY <2>2, RootRefutes DEF IInv, PairsAndUnits
  <2>4. QED
    BY <2>1, <2>3, RootConflictKeeps
<1>3. QED
  BY <1>1, <1>2

LEMMA RefuteAtRootKeeps ==
  ASSUME IInv, RefuteAtRoot
  PROVE  IInv'
<1> USE DEF RefuteAtRoot, callVars, dbVars, trailVars, propVars, setupVars, countVars, resultVars
<1>1. conflict \in Refs /\ \A k \in clauses[conflict].lits : IsFalse(k)
  BY DEF IInv, ConflictFalsified
<1>2. \A m \in Models(problem) : FALSE
  BY <1>1, RootRefutes DEF IInv
<1>3. QED
  BY <1>2, RootConflictKeeps

LEMMA LuckySucceedsKeeps ==
  ASSUME IInv, LuckySucceeds
  PROVE  IInv'
<1> USE DEF LuckySucceeds, Finish, callVars, dbVars, trailVars, propVars, setupVars, countVars
<1>1. TypeOK'
  BY DEF IInv, TypeOK, Refs
<1>2. /\ TrailOrdered' /\ DecisionsOpen' /\ TrailJustified' /\ RootEntailed'
      /\ ClausesEntailed' /\ WatchEntries'
  BY Quiet
<1>3. UnsatSound' /\ PairsAndUnits' /\ ConflictFalsified' /\ AnalysisSound' /\ QueueAtLevel'
  BY DEF IInv, UnsatSound, PairsAndUnits, ConflictFalsified, AnalysisSound, QueueAtLevel, Refs, Alive
<1>4. LuckyUnassumed'
  BY LuckyStays
<1>5. QED
  BY <1>1, <1>2, <1>3, <1>4 DEF IInv

LEMMA ModelFoundKeeps ==
  ASSUME IInv, ModelFound
  PROVE  IInv'
<1> USE DEF ModelFound, Finish, callVars, dbVars, propVars, setupVars, countVars
<1>1. TypeOK'
  BY DEF IInv, TypeOK, Refs
<1>2. /\ TrailOrdered' /\ DecisionsOpen' /\ TrailJustified' /\ RootEntailed'
      /\ ClausesEntailed' /\ WatchEntries'
  BY Quiet
<1>3. UnsatSound' /\ PairsAndUnits' /\ ConflictFalsified' /\ AnalysisSound' /\ QueueAtLevel'
  BY DEF IInv, UnsatSound, PairsAndUnits, ConflictFalsified, AnalysisSound, QueueAtLevel, Refs, Alive
<1>4. LuckyUnassumed'
  BY LuckyStays
<1>5. QED
  BY <1>1, <1>2, <1>3, <1>4 DEF IInv

LEMMA SkipRestartKeeps ==
  ASSUME IInv, SkipRestart
  PROVE  IInv'
<1> USE DEF SkipRestart, RestartFrame, callVars, dbVars, trailVars, propVars, setupVars, resultVars
<1>1. TypeOK'
  BY DEF IInv, TypeOK, Refs
<1>2. /\ TrailOrdered' /\ DecisionsOpen' /\ TrailJustified' /\ RootEntailed'
      /\ ClausesEntailed' /\ WatchEntries'
  BY Quiet
<1>3. UnsatSound' /\ PairsAndUnits' /\ ConflictFalsified' /\ AnalysisSound' /\ QueueAtLevel'
  BY DEF IInv, SearchOn, SearchFixpoint, Fixpoint, UnsatSound, PairsAndUnits,
         ConflictFalsified, AnalysisSound, QueueAtLevel, Refs, Alive, Positions
<1>4. LuckyUnassumed'
  BY LuckyStays
<1>5. QED
  BY <1>1, <1>2, <1>3, <1>4 DEF IInv

LEMMA StartAnalysisKeeps ==
  ASSUME IInv, StartAnalysis
  PROVE  IInv'
<1>0. \A c \in Nat :
        [seen |-> {}, learned |-> {}, open |-> {}, uip |-> 0, reason |-> c] \in Analysis
  BY DEF Analysis
<1> USE DEF StartAnalysis, callVars, dbVars, trailVars, propVars, setupVars, countVars, resultVars
<1>1. analysis' = [seen |-> {}, learned |-> {}, open |-> {}, uip |-> 0, reason |-> conflict]
  BY DEF NoAnalysis
<1>2. TypeOK'
  <2>1. conflict \in Nat
    BY StateTypes DEF IInv, TypeOK
  <2>2. analysis' \in Analysis
    BY <1>0, <1>1, <2>1
  <2>3. QED
    BY <2>2 DEF IInv, TypeOK, Refs
<1>3. /\ TrailOrdered' /\ DecisionsOpen' /\ TrailJustified' /\ RootEntailed'
      /\ ClausesEntailed' /\ WatchEntries'
  BY Quiet
<1>4. UnsatSound' /\ ConflictFalsified'
  BY DEF UnsatSound, ConflictFalsified
<1>5. PairsAndUnits' /\ QueueAtLevel'
  BY DEF IInv, PairsAndUnits, QueueAtLevel, Refs, Alive, Positions, Level, NotLit
<1>6. AnalysisSound'
  <2>1. Level > 0 /\ pc' = "analyze" /\ conflict \in Refs
        /\ (\A k \in clauses[conflict].lits : IsFalse(k))
        /\ (\E k \in clauses[conflict].lits : LevelOf(k) = Level)
    BY DEF IInv, ConflictFalsified
  <2>2. /\ \A k : IsFalse(k)' <=> IsFalse(k)
        /\ \A k : LevelOf(k)' = LevelOf(k)
        /\ Level' = Level /\ Refs' = Refs
    BY DEF IsFalse, LevelOf, PosOf, Positions, Level, Refs
  <2>3. AnalysisBegun'
    BY <1>1, <2>1, <2>2 DEF AnalysisBegun
  <2>4. QED
    BY <1>1, <2>1, <2>2, <2>3 DEF AnalysisSound
<1>7. LuckyUnassumed'
  BY LuckyStays
<1>8. QED
  BY <1>2, <1>3, <1>4, <1>5, <1>6, <1>7 DEF IInv

\* A clause the caller states.
LEMMA AddProblemClauseKeeps ==
  ASSUME IInv, AddProblemClause
  PROVE  IInv'
<1> DEFINE raw == Head(calls).lits
           new == [lits |-> Range1(raw), head |-> FirstPair(raw),
                   redundant |-> FALSE, alive |-> TRUE, core |-> TRUE]
<1>1. /\ calls \in Seq(AddCalls \cup SolveCalls) /\ calls # <<>>
      /\ Head(calls).op = "add" /\ calls' = Tail(calls)
      /\ pc = "idle" /\ pc' = "idle"
      /\ problem' = problem \cup {Range1(raw)}
      /\ clauses' = IF Tautology(raw) THEN clauses ELSE Append(clauses, new)
      /\ UNCHANGED <<watches, units, trail, control, heap, propagated, pending,
                     variable_count, request, mode, strategy, unit_queue, conflict,
                     analysis, conflicts, decisions, restart_pending,
                     reduce_pending, progress, terminated, status, failed_core>>
  BY DEF IInv, TypeOK, AddProblemClause, trailVars, propVars, setupVars, countVars, resultVars
<1>2. Head(calls) \in AddCalls \cup SolveCalls /\ Tail(calls) \in Seq(AddCalls \cup SolveCalls)
  BY <1>1, HeadTailProperties
<1>3. raw \in Seq(Lits)
  BY <1>1, <1>2 DEF AddCalls, SolveCalls
<1>4. Range1(raw) \subseteq Lits /\ FirstPair(raw) \subseteq Range1(raw)
  BY <1>3, RangeOfLits, FirstPairIs
<1>5. new \in Clause
  BY <1>4 DEF Clause
<1>6. /\ clauses' \in Seq(Clause)
      /\ Len(clauses) \in Nat /\ Len(clauses') \in Nat
      /\ Len(clauses) <= Len(clauses')
      /\ \A r \in Refs : r \in Refs' /\ clauses'[r] = clauses[r]
      /\ \A r \in Refs' : r \in Refs \/ clauses'[r] = new
  <2>1. clauses \in Seq(Clause)
    BY DEF IInv, TypeOK
  <2>2. CASE Tautology(raw)
    BY <1>1, <2>1, <2>2, LenProperties DEF Refs
  <2>3. CASE ~Tautology(raw)
    <3>1. clauses' = Append(clauses, new)
      BY <1>1, <2>3
    <3> HIDE DEF new
    <3>2. QED
      BY <1>5, <2>1, <3>1, Appended DEF Refs
  <2>4. QED
    BY <2>2, <2>3
<1>7. \A m \in Models(problem') : m \in Models(problem) /\ m \cap Range1(raw) # {}
  BY <1>1 DEF Models
<1> HIDE DEF raw, new
<1>8. TypeOK'
  <2>1. problem' \subseteq SUBSET Lits
    BY <1>1, <1>4 DEF IInv, TypeOK
  <2>2. units' \subseteq Refs' /\ unit_queue' \subseteq Refs' /\ conflict' \in 0..Len(clauses')
    BY <1>1, <1>6 DEF IInv, TypeOK
  <2>3. QED
    BY <1>1, <1>2, <1>6, <2>1, <2>2 DEF IInv, TypeOK
<1>9. ClausesEntailed'
  <2>1. \A r \in Refs' : \/ r \in Refs /\ clauses'[r] = clauses[r]
                         \/ clauses'[r].lits = Range1(raw)
    BY <1>6 DEF new
  <2>2. QED
    BY <1>7, <2>1 DEF IInv, ClausesEntailed
<1>10. UnsatSound'
  BY <1>1, <1>7 DEF IInv, UnsatSound
<1>11. TrailOrdered' /\ DecisionsOpen' /\ RootEntailed'
  BY <1>1, <1>7 DEF IInv, TrailOrdered, DecisionsOpen, RootEntailed, RootHolds
<1>12. TrailJustified'
  <2>1. \A i \in 1..Len(trail) : trail[i].reason # 0 =>
          trail[i].reason \in Refs /\ clauses[trail[i].reason].alive
    BY DEF IInv, TrailJustified, Justified, Refs
  <2>2. Justified(trail, clauses')
    BY <1>6, <2>1, StillJustified DEF IInv, TrailJustified
  <2>3. QED
    BY <1>1, <2>2 DEF TrailJustified
<1>13. PairsAndUnits'
  <2>1. \A r \in Refs' : clauses'[r].head # {} =>
          \E a, b \in clauses'[r].lits : a # b /\ clauses'[r].head = {a, b}
    <3>1. new.head # {} => \E a, b \in new.lits : a # b /\ new.head = {a, b}
      BY <1>3, FirstPairIs DEF new
    <3>2. QED
      BY <1>6, <3>1 DEF IInv, PairsAndUnits
  <2>2. \A r \in units' : r \in Alive' /\ Short(clauses'[r].lits)
    BY <1>1, <1>6 DEF IInv, PairsAndUnits, Alive
  <2>3. QED
    BY <1>1, <2>1, <2>2 DEF PairsAndUnits
<1>14. WatchEntries'
  BY <1>1, <1>6 DEF IInv, WatchEntries, Alive
<1>15. QueueAtLevel' /\ ConflictFalsified' /\ AnalysisSound'
  BY <1>1 DEF QueueAtLevel, ConflictFalsified, AnalysisSound
<1>16. LuckyUnassumed'
  BY <1>1, LuckyStays
<1>17. QED
  BY <1>8, <1>9, <1>10, <1>11, <1>12, <1>13, <1>14, <1>15, <1>16 DEF IInv

\* The start of an episode.
LEMMA SolveKeeps ==
  ASSUME IInv, Solve
  PROVE  IInv'
<1>1. /\ calls \in Seq(AddCalls \cup SolveCalls) /\ calls # <<>>
      /\ Head(calls).op = "solve" /\ calls' = Tail(calls) /\ request' = Head(calls)
      /\ variable_count' = MaxVariable(request'.assumptions)
      /\ trail' = <<>> /\ control' = <<>> /\ propagated' = 0 /\ pending' = {}
      /\ heap' = 1..variable_count'
      /\ watches' = AttachAll(clauses) /\ units' = ShortRefs(clauses)
      /\ strategy' = 0 /\ conflict' = 0 /\ analysis' = NoAnalysis
      /\ conflicts' = 0 /\ decisions' = 0 /\ restart_pending' = FALSE
      /\ reduce_pending' = FALSE /\ progress' = FALSE /\ terminated' = FALSE
      /\ failed_core' = {}
      /\ UNCHANGED <<problem, clauses, status>>
  BY DEF IInv, TypeOK, Solve
<1>2. /\ mode' \in {"lucky", "search"} /\ unit_queue' = units'
      /\ pc' \in {"units", "propagate"}
  BY DEF Solve, StartUnits
<1>3. Head(calls) \in AddCalls \cup SolveCalls /\ Tail(calls) \in Seq(AddCalls \cup SolveCalls)
  BY <1>1, HeadTailProperties
<1>4. request' \in SolveCalls /\ request'.assumptions \in Seq(Lits)
  BY <1>1, <1>3 DEF AddCalls, SolveCalls
<1>5. variable_count' \in 0..NumVars
  <2> DEFINE S == StatedVars(request'.assumptions)
  <2>1. \A l \in Lits : VarOf(l) \in Vars
    BY Literals
  <2>2. S \subseteq Vars
    <3> DEFINE A == (UNION problem) \cup Range1(request'.assumptions)
               B == UNION {clauses[r].lits : r \in Alive}
    <3>1. A \subseteq Lits
      <4>1. Range1(request'.assumptions) \subseteq Lits
        BY <1>4, RangeOfLits
      <4>2. \A c \in problem : c \subseteq Lits
        BY DEF IInv, TypeOK
      <4>3. QED
        BY <4>1, <4>2
    <3>2. B \subseteq Lits
      BY StateTypes DEF IInv, Alive
    <3>3. S = {VarOf(l) : l \in A} \cup {VarOf(l) : l \in B}
      BY DEF StatedVars
    <3> HIDE DEF A, B, S
    <3>4. QED
      BY <2>1, <3>1, <3>2, <3>3
  <2>3. CASE S = {}
    BY <1>1, <2>3, NumVarsAssumption DEF MaxVariable
  <2>4. CASE S # {}
    <3>1. S \in SUBSET (0..NumVars)
      BY <2>2, NumVarsAssumption DEF Vars
    <3>2. \E v \in S : \A u \in S : u <= v
      BY <2>4, <3>1, NumVarsAssumption, Greatest
    <3>3. MaxVariable(request'.assumptions) \in S
      BY <2>4, <3>2 DEF MaxVariable
    <3>4. QED
      BY <1>1, <3>1, <3>3
  <2>5. QED
    BY <2>3, <2>4
<1>6. TypeOK /\ PairsAndUnits /\ Len(clauses) \in Nat
  BY StateTypes DEF IInv
<1>7. watches' \in [Lits -> SUBSET WatchEntry] /\ units' \subseteq Refs'
  BY <1>1, <1>6, Attached DEF ShortRefs, Refs
<1>8. analysis' \in Analysis
  BY <1>1 DEF NoAnalysis, Analysis
<1>9. TypeOK'
  <2>1. trail' \in Seq(TrailEntry) /\ control' \in Seq(ControlFrame) /\ propagated' \in 0..Len(trail')
    BY <1>1
  <2>2. heap' \subseteq Vars
    BY <1>1, <1>5, NumVarsAssumption DEF Vars
  <2>3. /\ calls' \in Seq(AddCalls \cup SolveCalls)
        /\ problem' \subseteq SUBSET Lits /\ clauses' \in Seq(Clause)
        /\ conflict' \in 0..Len(clauses')
        /\ strategy' \in 0..3
        /\ status' \in {"unknown", "satisfiable", "unsatisfiable"}
        /\ failed_core' \subseteq Lits
        /\ pending' \subseteq WatchEntry
    BY <1>1, <1>3, <1>6 DEF TypeOK
  <2>4. QED
    BY <1>1, <1>2, <1>4, <1>5, <1>7, <1>8, <2>1, <2>2, <2>3 DEF TypeOK
<1>10. ClausesEntailed'
  BY <1>1 DEF IInv, ClausesEntailed, Refs
<1>11. UnsatSound' /\ ConflictFalsified' /\ AnalysisSound'
  BY <1>2 DEF UnsatSound, ConflictFalsified, AnalysisSound
<1>12. Len(trail') = 0 /\ Len(control') = 0
  BY <1>1
<1>13. TrailOrdered' /\ DecisionsOpen' /\ TrailJustified' /\ RootEntailed'
  BY <1>12 DEF TrailOrdered, OrderedTrail, DecisionsOpen, OpenedByDecisions,
               TrailJustified, Justified, RootEntailed, RootHolds
<1>14. PairsAndUnits'
  <2>1. \A r \in Refs' : clauses'[r].head # {} =>
          \E a, b \in clauses'[r].lits : a # b /\ clauses'[r].head = {a, b}
    BY <1>1, <1>6 DEF PairsAndUnits, Refs
  <2>2. \A r \in units' : r \in Alive' /\ Short(clauses'[r].lits)
    BY <1>1 DEF ShortRefs, Alive, Refs
  <2>3. QED
    BY <1>2, <1>12, <2>1, <2>2 DEF PairsAndUnits, Level
<1>15. WatchEntries'
  <2>1. Alive' = Alive
    BY <1>1 DEF Alive, Refs
  <2>2. QED
    BY <1>1, <1>6, <2>1, Attached DEF WatchEntries
<1>16. QueueAtLevel'
  BY <1>1, <1>2, <1>12 DEF QueueAtLevel, Positions
<1>17. LuckyUnassumed'
  BY <1>1 DEF Solve, StartUnits, LuckyUnassumed
<1>18. QED
  BY <1>9, <1>10, <1>11, <1>13, <1>14, <1>15, <1>16, <1>17 DEF IInv

\* A root unit that is true already, or assigned now.
LEMMA AssignRootUnitKeeps ==
  ASSUME IInv, NEW r \in unit_queue, AssignRootUnit(r)
  PROVE  IInv'
<1>1. PICK l \in clauses[r].lits :
        ~IsFalse(l) /\ trail' = IF IsTrue(l) THEN trail ELSE Assigned(l, r)
  BY DEF AssignRootUnit
<1>2. /\ pc = "units" /\ pc' \in {"units", "propagate"}
      /\ unit_queue' = unit_queue \ {r}
      /\ UNCHANGED <<calls, problem, clauses, watches, units, control, heap,
                     propagated, pending, variable_count, request, mode, strategy,
                     conflict, analysis, conflicts, decisions, restart_pending,
                     reduce_pending, progress, terminated, status, failed_core>>
  BY DEF AssignRootUnit, NextUnit, callVars, dbVars, propVars, setupVars, countVars, resultVars
<1>3. r \in units /\ r \in Alive /\ Short(clauses[r].lits) /\ Level = 0
  BY <1>2 DEF IInv, PairsAndUnits
<1>4. l \in Lits
  BY <1>3, StateTypes DEF IInv, Alive
<1>5. \A k \in clauses[r].lits \ {l} : IsFalse(k)
  BY <1>3 DEF Short
<1>6. /\ trail' \in Trails
      /\ Len(trail) \in Nat /\ Len(trail') \in Nat /\ Len(trail) <= Len(trail')
      /\ OrderedTrail(trail', control)
      /\ OpenedByDecisions(trail', control, request.assumptions)
      /\ Justified(trail', clauses)
      /\ RootHolds(trail', problem)
  <2>1. CASE IsTrue(l)
    BY <1>1, <2>1, StateTypes DEF IInv, TrailOrdered, DecisionsOpen, TrailJustified, RootEntailed
  <2>2. CASE ~IsTrue(l)
    BY <1>1, <1>3, <1>4, <1>5, <2>2, AssignedKeeps, StateTypes DEF IInv
  <2>3. QED
    BY <2>1, <2>2
<1>7. TypeOK'
  <2>1. trail' \in Seq(TrailEntry) /\ propagated' \in 0..Len(trail')
    BY <1>2, <1>6 DEF IInv, TypeOK, Trails
  <2>2. QED
    BY <1>2, <2>1 DEF IInv, TypeOK, Refs
<1>8. TrailOrdered' /\ DecisionsOpen' /\ TrailJustified' /\ RootEntailed'
  BY <1>2, <1>6 DEF TrailOrdered, DecisionsOpen, TrailJustified, RootEntailed
<1>9. ClausesEntailed' /\ WatchEntries'
  BY <1>2 DEF IInv, ClausesEntailed, WatchEntries, Refs, Alive
<1>10. UnsatSound' /\ ConflictFalsified' /\ AnalysisSound'
  BY <1>2 DEF UnsatSound, ConflictFalsified, AnalysisSound
<1>11. PairsAndUnits'
  BY <1>2 DEF IInv, PairsAndUnits, Refs, Alive, Level
<1>12. QueueAtLevel'
  <2>1. Level' = 0 /\ pending' = {}
    BY <1>2, <1>3 DEF IInv, QueueAtLevel, Level
  <2>2. \A i \in 1..Len(trail') : trail'[i].level = 0
    BY <1>3, <1>6, TrailTypes, StateTypes DEF IInv, OrderedTrail, Level
  <2>3. QED
    BY <1>2, <2>1, <2>2 DEF QueueAtLevel, Positions
<1>13. LuckyUnassumed'
  BY <1>2, LuckyStays
<1>14. QED
  BY <1>7, <1>8, <1>9, <1>10, <1>11, <1>12, <1>13 DEF IInv

\* What a visited entry names.
LEMMA Visited ==
  ASSUME IInv, pc = "propagate", NEW e \in pending
  PROVE  /\ NotLit \in Lits /\ IsFalse(NotLit) /\ LevelOf(NotLit) = Level
         /\ e \in watches[NotLit] /\ pending \subseteq watches[NotLit]
         /\ e.ref \in Alive /\ e.ref \in Refs
         /\ e.blocking \in clauses[e.ref].lits \ {NotLit}
         /\ OtherOf(clauses[e.ref].head, NotLit) \in clauses[e.ref].lits \ {NotLit}
         /\ clauses[e.ref].head = {NotLit, OtherOf(clauses[e.ref].head, NotLit)}
<1>1. /\ pending \subseteq watches[NotLit]
      /\ propagated \in Positions /\ trail[propagated].level = Level
  BY DEF IInv, QueueAtLevel
<1>2. trail[propagated].lit \in Lits
  BY <1>1, StateTypes DEF IInv
<1>3. NotLit \in Lits /\ trail[propagated].lit = -NotLit
  BY <1>2, Literals DEF NotLit
<1>4. IsFalse(NotLit)
  BY <1>1, <1>3 DEF IsFalse
<1>5. LevelOf(NotLit) = Level
  BY <1>1, <1>3, FalseAt DEF IInv
<1>6. /\ e.ref \in Alive /\ NotLit \in clauses[e.ref].head
      /\ e.blocking \in clauses[e.ref].lits \ {NotLit}
  BY <1>1, <1>3 DEF IInv, WatchEntries
<1>7. e.ref \in Refs
  BY <1>6 DEF Alive
<1>8. PICK a, b \in clauses[e.ref].lits : a # b /\ clauses[e.ref].head = {a, b}
  BY <1>6, <1>7 DEF IInv, PairsAndUnits
<1>9. /\ OtherOf(clauses[e.ref].head, NotLit) \in clauses[e.ref].lits \ {NotLit}
      /\ clauses[e.ref].head = {NotLit, OtherOf(clauses[e.ref].head, NotLit)}
  <2>1. CASE NotLit = a
    <3>1. OtherOf(clauses[e.ref].head, NotLit) = b
      BY <1>8, <2>1, OtherOfPair
    <3>2. QED
      BY <1>8, <2>1, <3>1
  <2>2. CASE NotLit = b
    <3>1. OtherOf(clauses[e.ref].head, NotLit) = a
      BY <1>8, <2>2, OtherOfPair
    <3>2. QED
      BY <1>8, <2>2, <3>1
  <2>3. QED
    BY <1>6, <1>8, <2>1, <2>2
<1>10. QED
  BY <1>1, <1>3, <1>4, <1>5, <1>6, <1>7, <1>9

\* An entry that blocks on another literal of its clause.
LEMMA ReblockedKeeps ==
  ASSUME IInv, pc = "propagate", NEW e \in pending,
         NEW other, other \in clauses[e.ref].lits \ {NotLit},
         watches' = Reblocked(e, other), UNCHANGED clauses
  PROVE  /\ watches' \in [Lits -> SUBSET WatchEntry]
         /\ WatchEntries'
         /\ pending \ {e} \subseteq watches'[NotLit]
<1> DEFINE new == [ref |-> e.ref, blocking |-> other]
<1>1. /\ NotLit \in Lits /\ e \in watches[NotLit] /\ pending \subseteq watches[NotLit]
      /\ e.ref \in Alive /\ e.ref \in Refs /\ NotLit \in clauses[e.ref].head
  BY Visited
<1>2. watches \in [Lits -> SUBSET WatchEntry]
  BY DEF IInv, TypeOK
<1>3. new \in WatchEntry /\ new.ref = e.ref /\ new.blocking = other
  <2>1. other \in Lits
    BY <1>1, StateTypes DEF IInv
  <2>2. QED
    BY <1>1, <2>1, StateTypes DEF IInv, Refs, WatchEntry
<1> HIDE DEF new
<1>4. watches' = [watches EXCEPT ![NotLit] = (@ \ {e}) \cup {new}]
  BY DEF Reblocked, new
<1>5. /\ watches'[NotLit] = (watches[NotLit] \ {e}) \cup {new}
      /\ \A l \in Lits : l # NotLit => watches'[l] = watches[l]
  BY <1>1, <1>2, <1>4
<1>6. watches' \in [Lits -> SUBSET WatchEntry]
  BY <1>1, <1>2, <1>3, <1>4
<1>7. ASSUME NEW l \in Lits, NEW f \in watches'[l]
      PROVE  f.ref \in Alive /\ l \in clauses[f.ref].head /\ f.blocking \in clauses[f.ref].lits \ {l}
  <2>1. CASE f \in watches[l]
    BY <2>1 DEF IInv, WatchEntries
  <2>2. CASE l = NotLit /\ f = new
    BY <2>2, <1>1, <1>3
  <2>3. QED
    BY <1>5, <2>1, <2>2
<1>8. ASSUME NEW l \in Lits, NEW f \in watches'[l], NEW g \in watches'[l], f.ref = g.ref
      PROVE  f = g
  <2>1. \A h \in watches[NotLit] : h.ref = e.ref => h = e
    BY <1>1 DEF IInv, WatchEntries
  <2>2. CASE l = NotLit
    BY <1>3, <1>5, <1>8, <2>1, <2>2 DEF IInv, WatchEntries
  <2>3. CASE l # NotLit
    BY <1>5, <1>8, <2>3 DEF IInv, WatchEntries
  <2>4. QED
    BY <2>2, <2>3
<1>9. WatchEntries'
  BY <1>7, <1>8 DEF WatchEntries, Alive, Refs
<1>10. QED
  BY <1>1, <1>5, <1>6, <1>9

\* A watch moved to a literal that is not false.
LEMMA MovedKeeps ==
  ASSUME IInv, pc = "propagate", NEW e \in pending,
         NEW other, other = OtherOf(clauses[e.ref].head, NotLit),
         NEW k \in Replacements(e.ref),
         clauses' = [clauses EXCEPT ![e.ref].head = {other, k}],
         watches' = [watches EXCEPT
                       ![NotLit] = @ \ {e},
                       ![k] = @ \cup {[ref |-> e.ref, blocking |-> other]}]
  PROVE  /\ clauses' \in Seq(Clause) /\ Len(clauses') = Len(clauses)
         /\ \A r \in Refs : /\ clauses'[r].lits = clauses[r].lits
                            /\ clauses'[r].alive = clauses[r].alive
         /\ \A r \in Refs : clauses'[r].head # {} =>
              \E a, b \in clauses'[r].lits : a # b /\ clauses'[r].head = {a, b}
         /\ watches' \in [Lits -> SUBSET WatchEntry]
         /\ WatchEntries'
         /\ pending \ {e} \subseteq watches'[NotLit]
<1> DEFINE new == [ref |-> e.ref, blocking |-> other]
<1>1. /\ NotLit \in Lits /\ IsFalse(NotLit)
      /\ e \in watches[NotLit] /\ pending \subseteq watches[NotLit]
      /\ e.ref \in Alive /\ e.ref \in Refs
      /\ other \in clauses[e.ref].lits \ {NotLit}
      /\ clauses[e.ref].head = {NotLit, other}
  BY Visited
<1>2. watches \in [Lits -> SUBSET WatchEntry] /\ clauses \in Seq(Clause)
  BY DEF IInv, TypeOK
<1>3. /\ k \in clauses[e.ref].lits /\ k \notin clauses[e.ref].head /\ ~IsFalse(k)
      /\ k # NotLit /\ k # other
  BY <1>1 DEF Replacements
<1>4. k \in Lits /\ other \in Lits
  BY <1>1, <1>3, StateTypes DEF IInv
<1>5. new \in WatchEntry /\ new.ref = e.ref /\ new.blocking = other
  BY <1>1, <1>4, StateTypes DEF IInv, Refs, WatchEntry
<1>6. watches' = [watches EXCEPT ![NotLit] = @ \ {e}, ![k] = @ \cup {new}]
  OBVIOUS
<1> HIDE DEF new
<1>7. /\ watches'[NotLit] = watches[NotLit] \ {e}
      /\ watches'[k] = watches[k] \cup {new}
      /\ \A l \in Lits : l # NotLit /\ l # k => watches'[l] = watches[l]
  BY <1>1, <1>2, <1>3, <1>4, <1>6
<1>8. watches' \in [Lits -> SUBSET WatchEntry]
  <2>1. \A l \in Lits : watches'[l] \in SUBSET WatchEntry
    BY <1>1, <1>2, <1>4, <1>5, <1>7
  <2>2. watches' = [l \in Lits |-> watches'[l]]
    BY <1>2, <1>6
  <2>3. QED
    BY <2>1, <2>2
<1>9. /\ clauses' \in Seq(Clause) /\ Len(clauses') = Len(clauses)
      /\ \A r \in Refs : r # e.ref => clauses'[r] = clauses[r]
      /\ clauses'[e.ref] = [clauses[e.ref] EXCEPT !.head = {other, k}]
      /\ clauses'[e.ref].lits = clauses[e.ref].lits
      /\ clauses'[e.ref].alive = clauses[e.ref].alive
      /\ clauses'[e.ref].head = {other, k}
  <2>1. clauses[e.ref] \in Clause
    BY <1>1, StateTypes DEF IInv
  <2>2. [clauses[e.ref] EXCEPT !.head = {other, k}] \in Clause
    BY <1>4, <2>1 DEF Clause
  <2>3. clauses' = [clauses EXCEPT ![e.ref] = [clauses[e.ref] EXCEPT !.head = {other, k}]]
    OBVIOUS
  <2> DEFINE c == [clauses[e.ref] EXCEPT !.head = {other, k}]
  <2>4. c.lits = clauses[e.ref].lits /\ c.alive = clauses[e.ref].alive /\ c.head = {other, k}
    BY <2>1 DEF Clause
  <2> HIDE DEF c
  <2>5. /\ clauses' \in Seq(Clause) /\ Len(clauses') = Len(clauses)
        /\ \A j \in 1..Len(clauses) : clauses'[j] = IF j = e.ref THEN c ELSE clauses[j]
    BY <1>1, <1>2, <2>2, <2>3, ExceptSeq DEF Refs, c
  <2>6. clauses'[e.ref] = c /\ \A r \in Refs : r # e.ref => clauses'[r] = clauses[r]
    BY <1>1, <2>5 DEF Refs
  <2>7. QED
    BY <2>4, <2>5, <2>6 DEF c
<1>10. \A r \in Refs : /\ clauses'[r].lits = clauses[r].lits
                       /\ clauses'[r].alive = clauses[r].alive
  BY <1>9
<1>11. \A r \in Refs : clauses'[r].head # {} =>
         \E a, b \in clauses'[r].lits : a # b /\ clauses'[r].head = {a, b}
  <2>1. other \in clauses'[e.ref].lits /\ k \in clauses'[e.ref].lits
    BY <1>1, <1>3, <1>9
  <2>2. QED
    BY <1>3, <1>9, <2>1 DEF IInv, PairsAndUnits
<1>12. Refs' = Refs /\ Alive' = Alive
  BY <1>9, <1>10 DEF Refs, Alive
<1>13. ASSUME NEW l \in Lits, NEW f \in watches'[l]
       PROVE  f.ref \in Alive /\ l \in clauses'[f.ref].head /\ f.blocking \in clauses'[f.ref].lits \ {l}
  <2>1. CASE l = k /\ f = new
    BY <2>1, <1>1, <1>3, <1>5, <1>9
  <2>2. CASE f \in watches[l] /\ (l = NotLit => f # e)
    <3>1. f.ref \in Alive /\ l \in clauses[f.ref].head /\ f.blocking \in clauses[f.ref].lits \ {l}
      BY <2>2 DEF IInv, WatchEntries
    <3>2. f.ref \in Refs
      BY <3>1 DEF Alive
    <3>3. CASE f.ref # e.ref
      BY <1>9, <3>1, <3>2, <3>3
    <3>4. CASE f.ref = e.ref
      <4>1. l # NotLit
        BY <1>1, <2>2, <3>4 DEF IInv, WatchEntries
      <4>2. l = other
        BY <1>1, <3>1, <3>4, <4>1
      <4>3. QED
        BY <1>9, <3>1, <3>4, <4>2
    <3>5. QED
      BY <3>3, <3>4
  <2>3. QED
    BY <1>7, <2>1, <2>2
<1>14. ASSUME NEW l \in Lits, NEW f \in watches'[l], NEW g \in watches'[l], f.ref = g.ref
       PROVE  f = g
  <2>1. CASE l = k
    <3>1. \A h \in watches[k] : h.ref # e.ref
      BY <1>1, <1>3, <1>4 DEF IInv, WatchEntries
    <3>2. QED
      <4>1. f \in watches[k] \cup {new} /\ g \in watches[k] \cup {new}
        BY <1>7, <2>1
      <4>2. CASE f \in watches[k] /\ g \in watches[k]
        BY <1>4, <1>14, <4>2 DEF IInv, WatchEntries
      <4>3. QED
        BY <1>5, <1>14, <3>1, <4>1, <4>2
  <2>2. CASE l # k
    BY <1>7, <1>14, <2>2 DEF IInv, WatchEntries
  <2>3. QED
    BY <2>1, <2>2
<1>15. WatchEntries'
  BY <1>12, <1>13, <1>14 DEF WatchEntries
<1>16. QED
  BY <1>1, <1>7, <1>8, <1>9, <1>10, <1>11, <1>15

\* What a visit does to the database.
LEMMA VisitDatabase ==
  ASSUME IInv, NEW e \in pending, VisitWatch(e)
  PROVE  /\ clauses' \in Seq(Clause) /\ Len(clauses') = Len(clauses)
         /\ \A r \in Refs : /\ clauses'[r].lits = clauses[r].lits
                            /\ clauses'[r].alive = clauses[r].alive
         /\ \A r \in Refs : clauses'[r].head # {} =>
              \E a, b \in clauses'[r].lits : a # b /\ clauses'[r].head = {a, b}
         /\ watches' \in [Lits -> SUBSET WatchEntry]
         /\ WatchEntries'
         /\ pending \ {e} \subseteq watches'[NotLit]
<1> DEFINE other == OtherOf(clauses[e.ref].head, NotLit)
<1>0. pc = "propagate"
  BY DEF VisitWatch
<1>1. other \in clauses[e.ref].lits \ {NotLit} /\ pending \subseteq watches[NotLit]
  BY <1>0, Visited
<1>2. /\ clauses \in Seq(Clause)
      /\ \A r \in Refs : clauses[r].head # {} =>
           \E a, b \in clauses[r].lits : a # b /\ clauses[r].head = {a, b}
      /\ watches \in [Lits -> SUBSET WatchEntry]
      /\ WatchEntries
  BY DEF IInv, TypeOK, PairsAndUnits
<1>3. CASE UNCHANGED <<clauses, watches>>
  <2>1. WatchEntries'
    BY <1>2, <1>3 DEF WatchEntries, Alive, Refs
  <2>2. QED
    BY <1>1, <1>2, <1>3, <2>1
<1>4. CASE UNCHANGED clauses /\ watches' = Reblocked(e, other)
  <2>1. /\ watches' \in [Lits -> SUBSET WatchEntry] /\ WatchEntries'
        /\ pending \ {e} \subseteq watches'[NotLit]
    BY <1>0, <1>1, <1>4, ReblockedKeeps
  <2>2. QED
    BY <1>2, <1>4, <2>1
<1>5. CASE \E k \in Replacements(e.ref) :
             /\ clauses' = [clauses EXCEPT ![e.ref].head = {other, k}]
             /\ watches' = [watches EXCEPT
                              ![NotLit] = @ \ {e},
                              ![k] = @ \cup {[ref |-> e.ref, blocking |-> other]}]
  BY <1>0, <1>5, MovedKeeps
<1>6. CASE VisitSatisfied(e)
  BY <1>3, <1>6 DEF VisitSatisfied
<1>7. CASE VisitBinary(e)
  BY <1>3, <1>7 DEF VisitBinary
<1>8. CASE VisitLong(e)
  BY <1>4, <1>5, <1>8 DEF VisitLong
<1>9. QED
  BY <1>6, <1>7, <1>8 DEF VisitWatch

\* What a visit assigns, or finds falsified.
LEMMA VisitOutcome ==
  ASSUME IInv, NEW e \in pending, VisitWatch(e)
  PROVE  \/ /\ pending' = pending \ {e} /\ UNCHANGED <<pc, conflict>>
            /\ \/ UNCHANGED trail
               \/ \E l \in clauses[e.ref].lits :
                    /\ ~IsTrue(l) /\ ~IsFalse(l)
                    /\ \A k \in clauses[e.ref].lits \ {l} : IsFalse(k)
                    /\ trail' = Assigned(l, e.ref)
         \/ /\ pending' = {} /\ pc' = "conflict" /\ conflict' = e.ref
            /\ UNCHANGED trail
            /\ \A k \in clauses[e.ref].lits : IsFalse(k)
<1> DEFINE other == OtherOf(clauses[e.ref].head, NotLit)
<1>1. /\ IsFalse(NotLit)
      /\ e.blocking \in clauses[e.ref].lits \ {NotLit}
      /\ other \in clauses[e.ref].lits \ {NotLit}
      /\ clauses[e.ref].head = {NotLit, other}
  BY Visited DEF VisitWatch
<1>2. CASE VisitSatisfied(e)
  BY <1>2 DEF VisitSatisfied, ReadOn
<1>3. CASE VisitBinary(e)
  <2>1. \A k \in clauses[e.ref].lits : k = NotLit \/ k = e.blocking
    BY <1>1, <1>3 DEF VisitBinary, Binary
  <2>2. CASE IsFalse(e.blocking) /\ Falsified(e) /\ UNCHANGED trail
    BY <1>1, <2>1, <2>2 DEF Falsified
  <2>3. CASE /\ ~IsFalse(e.blocking)
             /\ trail' = Assigned(e.blocking, e.ref)
             /\ ReadOn(e)
    BY <1>1, <1>3, <2>1, <2>3 DEF VisitBinary, ReadOn
  <2>4. QED
    BY <1>3, <2>2, <2>3 DEF VisitBinary
<1>4. CASE VisitLong(e)
  <2>1. Replacements(e.ref) = {} =>
          \A k \in clauses[e.ref].lits : k = NotLit \/ k = other \/ IsFalse(k)
    BY <1>1 DEF Replacements
  <2> HIDE DEF other
  <2>2. CASE ReadOn(e) /\ UNCHANGED trail
    BY <2>2 DEF ReadOn
  <2>3. CASE /\ ~IsTrue(other) /\ ~IsFalse(other)
             /\ Replacements(e.ref) = {}
             /\ trail' = Assigned(other, e.ref)
             /\ ReadOn(e)
    BY <1>1, <2>1, <2>3 DEF ReadOn
  <2>4. CASE /\ IsFalse(other)
             /\ Replacements(e.ref) = {}
             /\ Falsified(e)
             /\ UNCHANGED trail
    BY <1>1, <2>1, <2>4 DEF Falsified
  <2>5. QED
    BY <1>4, <2>2, <2>3, <2>4 DEF VisitLong, other
<1>5. QED
  BY <1>2, <1>3, <1>4 DEF VisitWatch

LEMMA VisitWatchKeeps ==
  ASSUME IInv, NEW e \in pending, VisitWatch(e)
  PROVE  IInv'
<1>1. /\ pc = "propagate" /\ pc' \in {"propagate", "conflict"}
      /\ conflict' \in {conflict, e.ref}
      /\ pending' \subseteq pending \ {e}
      /\ UNCHANGED <<calls, problem, units, control, heap, propagated,
                     variable_count, request, mode, strategy, unit_queue, analysis,
                     conflicts, decisions, restart_pending, reduce_pending,
                     progress, terminated, status, failed_core>>
  <2>1. pc = "propagate" /\ VisitFrame
    BY DEF VisitWatch
  <2>2. pc' \in {"propagate", "conflict"} /\ conflict' \in {conflict, e.ref}
        /\ pending' \subseteq pending \ {e}
    BY <2>1, VisitOutcome
  <2>3. QED
    BY <2>1, <2>2 DEF VisitFrame, callVars, setupVars, countVars, resultVars
<1>2. /\ NotLit \in Lits /\ IsFalse(NotLit) /\ LevelOf(NotLit) = Level
      /\ e.ref \in Alive /\ e.ref \in Refs
      /\ NotLit \in clauses[e.ref].lits
  <2>1. NotLit \in clauses[e.ref].head /\ e.ref \in Refs
    BY <1>1, Visited
  <2>2. NotLit \in clauses[e.ref].lits
    BY <2>1 DEF IInv, PairsAndUnits
  <2>3. QED
    BY <1>1, <2>2, Visited
<1>3. /\ clauses' \in Seq(Clause) /\ Len(clauses') = Len(clauses)
      /\ \A r \in Refs : /\ clauses'[r].lits = clauses[r].lits
                         /\ clauses'[r].alive = clauses[r].alive
      /\ \A r \in Refs : clauses'[r].head # {} =>
           \E a, b \in clauses'[r].lits : a # b /\ clauses'[r].head = {a, b}
      /\ watches' \in [Lits -> SUBSET WatchEntry]
      /\ WatchEntries'
      /\ pending \ {e} \subseteq watches'[NotLit]
  BY VisitDatabase
<1>4. Refs' = Refs /\ Alive' = Alive
  BY <1>3 DEF Refs, Alive
<1> DEFINE Extended ==
      /\ trail' \in Trails
      /\ Len(trail) \in Nat /\ Len(trail') \in Nat /\ Len(trail) <= Len(trail')
      /\ \A i \in Positions : trail'[i] = trail[i]
      /\ \A i \in 1..Len(trail') : i \in Positions \/ trail'[i].level = Level
      /\ OrderedTrail(trail', control)
      /\ OpenedByDecisions(trail', control, request.assumptions)
      /\ Justified(trail', clauses)
      /\ RootHolds(trail', problem)
<1>5. Extended
  <2>1. CASE UNCHANGED trail
    BY <2>1, StateTypes DEF IInv, TrailOrdered, DecisionsOpen, TrailJustified, RootEntailed, Positions
  <2>2. ASSUME NEW l \in clauses[e.ref].lits,
               ~IsTrue(l), ~IsFalse(l),
               \A k \in clauses[e.ref].lits \ {l} : IsFalse(k),
               trail' = Assigned(l, e.ref)
        PROVE  Extended
    <3>1. l \in Lits /\ Len(trail) \in Nat
      BY <1>2, StateTypes DEF IInv
    <3>2. /\ trail' \in Trails /\ Len(trail') = Len(trail) + 1
          /\ \A i \in Positions : trail'[i] = trail[i]
          /\ trail'[Len(trail) + 1] = Entry(l, Level, e.ref)
          /\ OrderedTrail(trail', control)
          /\ OpenedByDecisions(trail', control, request.assumptions)
          /\ Justified(trail', clauses)
          /\ RootHolds(trail', problem)
      BY <1>2, <2>2, <3>1, AssignedKeeps
    <3>3. \A i \in 1..Len(trail') : i \in Positions \/ i = Len(trail) + 1
      BY <3>1, <3>2 DEF Positions
    <3>4. QED
      BY <3>1, <3>2, <3>3 DEF Entry
  <2>3. QED
    BY <2>1, <2>2, VisitOutcome
<1>6. TypeOK'
  <2>1. trail' \in Seq(TrailEntry) /\ propagated' \in 0..Len(trail')
    BY <1>1, <1>5 DEF IInv, TypeOK, Trails
  <2>2. conflict' \in 0..Len(clauses') /\ pending' \subseteq WatchEntry
    BY <1>1, <1>2, <1>3, StateTypes DEF IInv, TypeOK, Refs
  <2>3. QED
    BY <1>1, <1>3, <1>4, <2>1, <2>2 DEF IInv, TypeOK
<1>7. ClausesEntailed'
  BY <1>1, <1>3, <1>4 DEF IInv, ClausesEntailed
<1>8. UnsatSound' /\ AnalysisSound'
  BY <1>1 DEF UnsatSound, AnalysisSound
<1>9. TrailOrdered' /\ DecisionsOpen' /\ RootEntailed'
  BY <1>1, <1>5 DEF TrailOrdered, DecisionsOpen, RootEntailed
<1>10. TrailJustified'
  <2>1. \A i \in 1..Len(trail') : trail'[i].reason # 0 =>
          trail'[i].reason \in Refs /\ clauses[trail'[i].reason].alive
    BY <1>5 DEF Justified, Refs
  <2>2. \A i \in 1..Len(trail') : trail'[i].reason # 0 =>
          /\ clauses'[trail'[i].reason].lits = clauses[trail'[i].reason].lits
          /\ clauses'[trail'[i].reason].alive
    BY <1>3, <2>1
  <2>3. Len(clauses) \in Nat /\ Len(clauses') = Len(clauses) /\ Justified(trail', clauses)
    BY <1>3, <1>5, StateTypes DEF IInv
  <2>4. Justified(trail', clauses')
    BY <2>2, <2>3, StillJustified
  <2>5. QED
    BY <2>4 DEF TrailJustified
<1>11. PairsAndUnits'
  BY <1>1, <1>3, <1>4 DEF IInv, PairsAndUnits, Level, Alive
<1>12. QueueAtLevel'
  <2>1. propagated \in Positions /\ trail[propagated].level = Level /\ Level' = Level
    BY <1>1 DEF IInv, QueueAtLevel, Level
  <2>2. /\ propagated' \in Positions' /\ trail'[propagated'].level = Level'
        /\ NotLit' = NotLit
    BY <1>1, <1>5, <2>1 DEF Positions, NotLit
  <2>3. \A i \in Positions' : i > propagated' => trail'[i].level = Level'
    BY <1>1, <1>5, <2>1 DEF IInv, QueueAtLevel, Positions
  <2>4. pending' # {} => pc' = "propagate" /\ pending' \subseteq watches'[NotLit']
    BY <1>1, <1>3, <2>2, VisitOutcome
  <2>5. QED
    BY <2>2, <2>3, <2>4 DEF QueueAtLevel
<1>13. ConflictFalsified'
  <2>1. CASE pc' = "conflict"
    <3>1. conflict' = e.ref /\ UNCHANGED trail /\ \A k \in clauses[e.ref].lits : IsFalse(k)
      BY <1>1, <2>1, VisitOutcome
    <3>2. \A k : (IsFalse(k)' <=> IsFalse(k)) /\ LevelOf(k)' = LevelOf(k)
      BY <3>1 DEF IsFalse, LevelOf, PosOf, Positions
    <3>3. QED
      BY <1>1, <1>2, <1>3, <1>4, <3>1, <3>2 DEF ConflictFalsified, Level
  <2>2. CASE pc' # "conflict"
    BY <2>2 DEF ConflictFalsified
  <2>3. QED
    BY <2>1, <2>2
<1>14. LuckyUnassumed'
  BY <1>1, LuckyStays
<1>15. QED
  BY <1>3, <1>6, <1>7, <1>8, <1>9, <1>10, <1>11, <1>12, <1>13, <1>14 DEF IInv

-----------------------------------------------------------------------------
(* Steps that open a level.                                                *)

\* A decision on an unassigned literal, an assumption on an assumption level.
LEMMA DecisionKeeps ==
  ASSUME IInv, NEW l \in Lits, ~IsTrue(l), ~IsFalse(l),
         Level + 1 <= Len(request.assumptions) => l = request.assumptions[Level + 1],
         propagated = Len(trail),
         control' = Append(control, Frame(l)),
         trail' = Append(trail, Entry(l, Level + 1, 0)),
         UNCHANGED <<problem, clauses, watches, propagated, request>>
  PROVE  /\ trail' \in Seq(TrailEntry) /\ control' \in Seq(ControlFrame)
         /\ propagated' \in 0..Len(trail')
         /\ TrailOrdered' /\ DecisionsOpen' /\ TrailJustified' /\ RootEntailed'
         /\ ClausesEntailed' /\ WatchEntries'
         /\ \A i \in Positions' : i > propagated' => trail'[i].level = Level'
<1>1. /\ trail \in Trails /\ control \in Controls /\ OrderedTrail(trail, control)
      /\ Len(trail) \in Nat /\ Len(control) \in Nat
  BY StateTypes DEF IInv, TrailOrdered, Level
<1>2. \A i \in 1..Len(trail) : VarOf(trail[i].lit) # VarOf(l)
  BY Nowhere DEF IInv
<1>3. Frame(l) \in ControlFrame /\ Frame(l).trail_begin = Len(trail)
  BY <1>1 DEF Frame, ControlFrame
<1> DEFINE tr2 == Append(trail, Entry(l, Len(control) + 1, 0))
           ctl2 == Append(control, Frame(l))
           as == request.assumptions
<1>4. /\ ctl2 \in Controls /\ Len(ctl2) = Len(control) + 1
      /\ tr2 \in Trails /\ Len(tr2) = Len(trail) + 1
      /\ tr2[Len(trail) + 1] = Entry(l, Len(control) + 1, 0)
      /\ OrderedTrail(tr2, ctl2)
  BY <1>1, <1>2, <1>3, OpenKeeps
<1>5. OpenedByDecisions(tr2, ctl2, as)
  <2>1. OpenedByDecisions(trail, control, as)
    BY DEF IInv, DecisionsOpen
  <2>2. Len(control) + 1 <= Len(as) => l = as[Len(control) + 1]
    BY DEF Level
  <2>3. QED
    BY <1>1, <1>2, <1>3, <2>1, <2>2, OpenKeeps
<1>6. Justified(tr2, clauses)
  BY <1>1, <1>2, <1>3, OpenKeeps DEF IInv, TrailJustified
<1>7. RootHolds(tr2, problem)
  BY <1>1, <1>2, <1>3, OpenKeeps DEF IInv, RootEntailed
<1>8. trail' = tr2 /\ control' = ctl2
  BY DEF Level
<1> HIDE DEF tr2, ctl2, as
<1>9. TrailOrdered' /\ DecisionsOpen' /\ TrailJustified' /\ RootEntailed'
  BY <1>4, <1>5, <1>6, <1>7, <1>8 DEF TrailOrdered, DecisionsOpen, TrailJustified, RootEntailed, as
<1>10. ClausesEntailed' /\ WatchEntries'
  BY DEF IInv, ClausesEntailed, WatchEntries, Refs, Alive
<1>11. \A i \in Positions' : i > propagated' => trail'[i].level = Level'
  <2>1. ASSUME NEW i \in 1..Len(tr2), i > Len(trail) PROVE tr2[i].level = Len(ctl2)
    <3>1. i = Len(trail) + 1
      BY <1>1, <1>4, <2>1
    <3>2. QED
      BY <1>4, <3>1 DEF Entry
  <2>2. QED
    BY <1>8, <2>1 DEF Positions, Level
<1>12. propagated' \in 0..Len(trail')
  BY <1>1, <1>4, <1>8
<1>13. QED
  BY <1>4, <1>8, <1>9, <1>10, <1>11, <1>12 DEF Trails, Controls

\* A literal of an unassigned variable is neither true nor false.
LEMMA UnassignedLit ==
  ASSUME TypeOK, NEW v \in Vars, Unassigned(v), NEW l \in {v, -v}
  PROVE  l \in Lits /\ ~IsTrue(l) /\ ~IsFalse(l)
<1>1. v \in Lits /\ -v \in Lits /\ -(-v) = v
  BY NumVarsAssumption DEF Vars, Lits
<1>2. CASE l = v
  BY <1>1, <1>2 DEF Unassigned
<1>3. CASE l = -v
  BY <1>1, <1>3 DEF Unassigned, IsTrue, IsFalse
<1>4. QED
  BY <1>2, <1>3

\* The next assumption is a literal.
LEMMA NextAssumptionIsLit ==
  ASSUME TypeOK, Level < Len(request.assumptions)
  PROVE  NextAssumption \in Lits
<1>1. request.assumptions \in Seq(Lits)
  BY DEF TypeOK, SolveCalls
<1>2. Len(request.assumptions) \in Nat
  BY <1>1, LenProperties
<1>3. Level + 1 \in 1..Len(request.assumptions)
  BY <1>2, StateTypes
<1>4. QED
  BY <1>1, <1>3, ElementOfSeq DEF NextAssumption

LEMMA OpenPlaceholderKeeps ==
  ASSUME IInv, OpenPlaceholder
  PROVE  IInv'
<1>1. /\ pc = "propagate" /\ pending = {} /\ propagated = Len(trail)
      /\ control' = Append(control, Frame(0))
      /\ UNCHANGED <<calls, problem, clauses, watches, units, trail, heap,
                     propagated, pending, variable_count, request, mode, strategy,
                     pc, unit_queue, conflict, analysis, conflicts, decisions,
                     restart_pending, reduce_pending, progress, terminated,
                     status, failed_core>>
  BY DEF OpenPlaceholder, AssumptionDue, SearchFixpoint, Fixpoint, OpenFrame,
         callVars, dbVars, propVars, setupVars, countVars, resultVars
<1>2. /\ trail \in Trails /\ control \in Controls /\ OrderedTrail(trail, control)
      /\ Len(trail) \in Nat
  BY StateTypes DEF IInv, TrailOrdered
<1>3. Frame(0) \in ControlFrame /\ Frame(0).trail_begin = Len(trail)
  BY <1>2 DEF Frame, ControlFrame
<1>4. /\ control' \in Controls
      /\ OrderedTrail(trail, control')
      /\ OpenedByDecisions(trail, control', request.assumptions)
  BY <1>1, <1>2, <1>3, FrameKeeps DEF IInv, DecisionsOpen
<1>5. TypeOK'
  BY <1>1, <1>4 DEF IInv, TypeOK, Refs, Controls
<1>6. TrailOrdered' /\ DecisionsOpen' /\ TrailJustified' /\ RootEntailed'
  BY <1>1, <1>4 DEF IInv, TrailOrdered, DecisionsOpen, TrailJustified, RootEntailed
<1>7. ClausesEntailed' /\ WatchEntries'
  BY <1>1 DEF IInv, ClausesEntailed, WatchEntries, Refs, Alive
<1>8. UnsatSound' /\ ConflictFalsified' /\ AnalysisSound'
  BY <1>1 DEF UnsatSound, ConflictFalsified, AnalysisSound
<1>9. PairsAndUnits'
  BY <1>1 DEF IInv, PairsAndUnits, Refs, Alive
<1>10. QueueAtLevel'
  BY <1>1, <1>2 DEF QueueAtLevel, Positions
<1>11. LuckyUnassumed'
  BY <1>1, LuckyStays
<1>12. QED
  BY <1>5, <1>6, <1>7, <1>8, <1>9, <1>10, <1>11 DEF IInv

LEMMA OpenAssumptionKeeps ==
  ASSUME IInv, OpenAssumption
  PROVE  IInv'
<1>1. /\ pc = "propagate" /\ pending = {} /\ propagated = Len(trail)
      /\ Level < Len(request.assumptions)
      /\ ~IsTrue(NextAssumption) /\ ~IsFalse(NextAssumption)
      /\ control' = Append(control, Frame(NextAssumption))
      /\ trail' = Append(trail, Entry(NextAssumption, Level + 1, 0))
      /\ UNCHANGED <<calls, problem, clauses, watches, units, heap,
                     propagated, pending, variable_count, request, mode, strategy,
                     pc, unit_queue, conflict, analysis, conflicts, decisions,
                     restart_pending, reduce_pending, progress, terminated,
                     status, failed_core>>
  BY DEF OpenAssumption, AssumptionDue, SearchFixpoint, Fixpoint, OpenFrame,
         callVars, dbVars, propVars, setupVars, countVars, resultVars
<1>2. NextAssumption \in Lits
  BY <1>1, NextAssumptionIsLit DEF IInv
<1>3. NextAssumption = request.assumptions[Level + 1]
  BY DEF NextAssumption
<1>4. /\ trail' \in Seq(TrailEntry) /\ control' \in Seq(ControlFrame)
      /\ propagated' \in 0..Len(trail')
      /\ TrailOrdered' /\ DecisionsOpen' /\ TrailJustified' /\ RootEntailed'
      /\ ClausesEntailed' /\ WatchEntries'
      /\ \A i \in Positions' : i > propagated' => trail'[i].level = Level'
  BY <1>1, <1>2, <1>3, DecisionKeeps
<1>5. TypeOK'
  BY <1>1, <1>4 DEF IInv, TypeOK, Refs
<1>6. UnsatSound' /\ ConflictFalsified' /\ AnalysisSound'
  BY <1>1 DEF UnsatSound, ConflictFalsified, AnalysisSound
<1>7. PairsAndUnits'
  BY <1>1 DEF IInv, PairsAndUnits, Refs, Alive
<1>8. QueueAtLevel'
  BY <1>1, <1>4 DEF QueueAtLevel
<1>9. LuckyUnassumed'
  BY <1>1, LuckyStays
<1>10. QED
  BY <1>4, <1>5, <1>6, <1>7, <1>8, <1>9 DEF IInv

LEMMA DecideKeeps ==
  ASSUME IInv, Decide
  PROVE  IInv'
<1>0. PICK v \in {u \in heap : Unassigned(u)},
           popped \in SUBSET {u \in heap : ~Unassigned(u)} :
             /\ heap' = heap \ (popped \cup {v})
             /\ \E l \in {v, -v} :
                  /\ control' = Append(control, Frame(l))
                  /\ trail' = Append(trail, Entry(l, Level + 1, 0))
  BY DEF Decide
<1>1. PICK l \in {v, -v} :
        /\ control' = Append(control, Frame(l))
        /\ trail' = Append(trail, Entry(l, Level + 1, 0))
  BY <1>0
<1>2. /\ pc = "propagate" /\ pending = {} /\ propagated = Len(trail)
      /\ Level >= Len(request.assumptions)
      /\ UNCHANGED <<calls, problem, clauses, watches, units,
                     propagated, pending, variable_count, request, mode, strategy,
                     unit_queue, conflict, analysis>>
  BY DEF Decide, DecisionDue, SearchOn, SearchFixpoint, Fixpoint,
         callVars, dbVars, propVars, setupVars
<1>3. /\ conflicts' = conflicts /\ decisions' \in Nat
      /\ terminated' \in BOOLEAN /\ restart_pending' \in BOOLEAN
      /\ UNCHANGED <<reduce_pending, progress>>
  <2>1. NoteDecision /\ decisions \in Nat /\ terminated \in BOOLEAN
        /\ request.decision_limit \in Nat /\ restart_pending \in BOOLEAN
    BY DEF Decide, IInv, TypeOK, SolveCalls
  <2>2. DecisionRestarts \in BOOLEAN
    BY SwitchAssumption
  <2>3. QED
    BY <2>1, <2>2 DEF NoteDecision
<1>4. \/ pc' = "propagate" /\ UNCHANGED <<status, failed_core>>
      \/ pc' = "idle" /\ status' = "unknown" /\ failed_core' = {}
  BY <1>2 DEF Decide, Finish, resultVars
<1>5. l \in Lits /\ ~IsTrue(l) /\ ~IsFalse(l)
  <2>1. v \in Vars /\ Unassigned(v)
    BY DEF IInv, TypeOK
  <2>2. QED
    BY <2>1, UnassignedLit DEF IInv
<1>6. ~(Level + 1 <= Len(request.assumptions))
  <2>1. request.assumptions \in Seq(Lits)
    BY DEF IInv, TypeOK, SolveCalls
  <2>2. Len(request.assumptions) \in Nat /\ Level \in Nat
    BY <2>1, LenProperties, StateTypes DEF IInv
  <2>3. QED
    BY <1>2, <2>2
<1>7. /\ trail' \in Seq(TrailEntry) /\ control' \in Seq(ControlFrame)
      /\ propagated' \in 0..Len(trail')
      /\ TrailOrdered' /\ DecisionsOpen' /\ TrailJustified' /\ RootEntailed'
      /\ ClausesEntailed' /\ WatchEntries'
      /\ \A i \in Positions' : i > propagated' => trail'[i].level = Level'
  BY <1>1, <1>2, <1>5, <1>6, DecisionKeeps
<1>8. TypeOK'
  <2>1. heap' \subseteq Vars
    BY <1>0 DEF IInv, TypeOK
  <2>2. QED
    BY <1>2, <1>3, <1>4, <1>7, <2>1 DEF IInv, TypeOK, Refs
<1>9. UnsatSound' /\ ConflictFalsified' /\ AnalysisSound'
  BY <1>4 DEF UnsatSound, ConflictFalsified, AnalysisSound
<1>10. PairsAndUnits'
  BY <1>2, <1>4 DEF IInv, PairsAndUnits, Refs, Alive
<1>11. QueueAtLevel'
  BY <1>2, <1>4, <1>7 DEF QueueAtLevel
<1>12. LuckyUnassumed'
  BY <1>2, LuckyStays
<1>13. QED
  BY <1>7, <1>8, <1>9, <1>10, <1>11, <1>12 DEF IInv

-----------------------------------------------------------------------------
(* Steps that undo levels.                                                 *)

\* Backtracking keeps what is said of the trail, and hands typed variables back.
LEMMA UndoneKeeps ==
  ASSUME IInv, NEW t \in 0..Level,
         trail' = TrailAt(t), control' = ControlAt(t),
         UNCHANGED <<problem, clauses, watches, request>>
  PROVE  /\ trail' \in Seq(TrailEntry) /\ control' \in Seq(ControlFrame)
         /\ Len(trail') \in Nat /\ Len(trail') <= Len(trail)
         /\ Level' = t
         /\ \A i \in Positions' : trail'[i] = trail[i]
         /\ TrailOrdered' /\ DecisionsOpen' /\ TrailJustified' /\ RootEntailed'
         /\ ClausesEntailed' /\ WatchEntries'
         /\ {VarOf(trail[i].lit) : i \in Len(TrailAt(t)) + 1 .. Len(trail)} \subseteq Vars
<1>1. /\ TrailAt(t) \in Trails /\ ControlAt(t) \in Controls
      /\ Len(ControlAt(t)) = t
      /\ Len(TrailAt(t)) <= Len(trail)
      /\ \A i \in 1..Len(TrailAt(t)) : TrailAt(t)[i] = trail[i]
      /\ OrderedTrail(TrailAt(t), ControlAt(t))
      /\ \A as : OpenedByDecisions(trail, control, as)
           => OpenedByDecisions(TrailAt(t), ControlAt(t), as)
      /\ \A cs : Justified(trail, cs) => Justified(TrailAt(t), cs)
      /\ \A f : RootHolds(trail, f) => RootHolds(TrailAt(t), f)
  BY Backtracked DEF IInv
<1>2. TrailOrdered' /\ DecisionsOpen' /\ TrailJustified' /\ RootEntailed'
  BY <1>1 DEF IInv, TrailOrdered, DecisionsOpen, TrailJustified, RootEntailed
<1>3. ClausesEntailed' /\ WatchEntries'
  BY DEF IInv, ClausesEntailed, WatchEntries, Refs, Alive
<1>4. Len(TrailAt(t)) \in Nat /\ Len(trail) \in Nat
  BY <1>1, LenProperties, StateTypes DEF IInv, Trails
<1>5. \A i \in Len(TrailAt(t)) + 1 .. Len(trail) : VarOf(trail[i].lit) \in Vars
  <2>1. ASSUME NEW i \in Len(TrailAt(t)) + 1 .. Len(trail) PROVE i \in Positions
    BY <1>4 DEF Positions
  <2>2. QED
    BY <2>1, StateTypes, Literals DEF IInv
<1>6. QED
  BY <1>1, <1>2, <1>3, <1>4, <1>5 DEF Trails, Controls, Level, Positions

\* The lucky assignments hand over to the search.
LEMMA HandOverKeeps ==
  ASSUME IInv, mode = "lucky", pc \in {"propagate", "conflict"}, pending = {},
         trail' = TrailAt(0), control' = ControlAt(0), heap' = HeapAt(0),
         \/ propagated' = Len(TrailAt(0))
         \/ Level = 0 /\ propagated' = propagated,
         \/ StartUnits("search", units)
         \/ pc' = "propagate" /\ UNCHANGED <<mode, unit_queue>>,
         strategy' \in 0..3, conflict' \in {0, conflict},
         decisions' \in Nat, restart_pending' \in BOOLEAN, terminated' \in BOOLEAN,
         UNCHANGED <<calls, problem, clauses, watches, units, pending,
                     variable_count, request, analysis, conflicts,
                     reduce_pending, progress, status, failed_core>>
  PROVE  IInv'
<1>1. 0 \in 0..Level
  BY StateTypes DEF IInv
<1>2. /\ trail' \in Seq(TrailEntry) /\ control' \in Seq(ControlFrame)
      /\ Len(trail') \in Nat /\ Len(trail') <= Len(trail)
      /\ Level' = 0
      /\ \A i \in Positions' : trail'[i] = trail[i]
      /\ TrailOrdered' /\ DecisionsOpen' /\ TrailJustified' /\ RootEntailed'
      /\ ClausesEntailed' /\ WatchEntries'
      /\ {VarOf(trail[i].lit) : i \in Len(TrailAt(0)) + 1 .. Len(trail)} \subseteq Vars
  BY <1>1, UndoneKeeps
<1>3. /\ mode' \in {mode, "search"} /\ pc' \in {"units", "propagate"}
      /\ unit_queue' \in {units, unit_queue}
      /\ pc' = "units" => unit_queue' = units
  BY DEF StartUnits
<1>4. TypeOK'
  <2>1. heap' \subseteq Vars
    BY <1>2 DEF IInv, TypeOK, HeapAt
  <2>2. propagated' \in 0..Len(trail')
    <3>1. Level = 0 => TrailAt(0) = trail
      BY DEF TrailAt
    <3>2. QED
      BY <1>2, <3>1 DEF IInv, TypeOK
  <2>3. conflict' \in 0..Len(clauses')
    BY StateTypes DEF IInv, TypeOK
  <2>4. QED
    BY <1>2, <1>3, <2>1, <2>2, <2>3 DEF IInv, TypeOK, Refs
<1>5. UnsatSound' /\ ConflictFalsified' /\ AnalysisSound'
  BY <1>3 DEF UnsatSound, ConflictFalsified, AnalysisSound
<1>6. PairsAndUnits'
  BY <1>2, <1>3 DEF IInv, PairsAndUnits, Refs, Alive
<1>7. QueueAtLevel'
  <2>1. \A i \in Positions' : trail'[i].level \in Nat /\ trail'[i].level <= 0
    <3>1. trail' \in Trails /\ control' \in Controls
      BY <1>2 DEF Trails, Controls
    <3>2. QED
      BY <1>2, <3>1, TrailTypes DEF TrailOrdered, OrderedTrail, Positions, Level
  <2>2. QED
    BY <1>2, <1>3, <2>1 DEF QueueAtLevel
<1>8. LuckyUnassumed'
  BY <1>3, LuckyStays
<1>9. QED
  BY <1>2, <1>4, <1>5, <1>6, <1>7, <1>8 DEF IInv

LEMMA LuckyFailsKeeps ==
  ASSUME IInv, LuckyFails
  PROVE  IInv'
<1>1. /\ pc = "conflict" /\ mode = "lucky" /\ conflict' = 0
      /\ trail' = TrailAt(0) /\ control' = ControlAt(0) /\ heap' = HeapAt(0)
      /\ propagated' = IF Level = 0 THEN propagated ELSE Len(TrailAt(0))
      /\ UNCHANGED <<calls, problem, clauses, watches, units, pending,
                     variable_count, request, analysis, conflicts, decisions,
                     restart_pending, reduce_pending, progress, terminated,
                     status, failed_core>>
  BY DEF LuckyFails, callVars, dbVars, setupVars, countVars, resultVars
<1>2. \/ StartUnits("search", units)
      \/ pc' = "propagate" /\ UNCHANGED <<mode, unit_queue>>
  BY DEF LuckyFails
<1>3. strategy' \in 0..3
  BY DEF LuckyFails, IInv, TypeOK
<1>4. pending = {}
  BY <1>1 DEF IInv, QueueAtLevel
<1>5. /\ decisions' \in Nat /\ restart_pending' \in BOOLEAN
      /\ terminated' \in BOOLEAN
  BY <1>1 DEF IInv, TypeOK
<1>6. QED
  BY <1>1, <1>2, <1>3, <1>4, <1>5, HandOverKeeps

LEMMA LuckyDecideKeeps ==
  ASSUME IInv, LuckyDecide
  PROVE  IInv'
<1>1. /\ pc = "propagate" /\ pending = {} /\ propagated = Len(trail)
      /\ mode = "lucky" /\ Free # {}
      /\ UNCHANGED <<calls, problem, clauses, watches, units, pending,
                     variable_count, request, strategy, conflict, analysis,
                     status, failed_core>>
  BY DEF LuckyDecide, Fixpoint, callVars, dbVars, setupVars, resultVars
<1>2. /\ conflicts' = conflicts /\ decisions' \in Nat
      /\ terminated' \in BOOLEAN /\ restart_pending' \in BOOLEAN
      /\ UNCHANGED <<reduce_pending, progress>>
  <2>1. NoteDecision /\ decisions \in Nat /\ terminated \in BOOLEAN
        /\ request.decision_limit \in Nat /\ restart_pending \in BOOLEAN
    BY DEF LuckyDecide, IInv, TypeOK, SolveCalls
  <2>2. DecisionRestarts \in BOOLEAN
    BY SwitchAssumption
  <2>3. QED
    BY <2>1, <2>2 DEF NoteDecision
<1>3. CASE Backtrack(0) /\ StartUnits("search", units)
  <2>1. /\ trail' = TrailAt(0) /\ control' = ControlAt(0) /\ heap' = HeapAt(0)
        /\ propagated' = PropagatedAt(0)
    BY <1>3 DEF Backtrack
  <2>2. propagated' = Len(TrailAt(0))
    <3>1. /\ Len(TrailAt(0)) <= Len(trail)
          /\ Len(TrailAt(0)) \in Nat /\ Len(trail) \in Nat
      BY Backtracked, StateTypes, TrailTypes DEF IInv
    <3>2. QED
      BY <1>1, <2>1, <3>1 DEF PropagatedAt
  <2>3. strategy' \in 0..3
    BY <1>1 DEF IInv, TypeOK
  <2>4. QED
    BY <1>1, <1>2, <1>3, <2>1, <2>2, <2>3, HandOverKeeps
<1>4. CASE /\ control' = Append(control, Frame(LuckyLit))
           /\ trail' = Append(trail, Entry(LuckyLit, Level + 1, 0))
           /\ UNCHANGED <<heap, propagated, mode, pc, unit_queue>>
  <2>1. LuckyVar \in Free
    <3>1. variable_count \in Nat
      BY NumVarsAssumption DEF IInv, TypeOK
    <3>2. Free \in SUBSET Nat /\ Free \in SUBSET (0..variable_count)
      BY <3>1 DEF Free
    <3>3. CASE strategy < 2
      <4>1. \E v \in Free : \A u \in Free : v <= u
        BY <1>1, <3>2, Least
      <4>2. QED
        BY <3>3, <4>1 DEF LuckyVar
    <3>4. CASE ~(strategy < 2)
      <4>1. \E v \in Free : \A u \in Free : u <= v
        BY <1>1, <3>1, <3>2, Greatest
      <4>2. \E v \in Free : \A u \in Free : v >= u
        BY <3>2, <4>1
      <4>3. QED
        BY <3>4, <4>2 DEF LuckyVar
    <3>5. QED
      BY <3>3, <3>4
  <2>2. LuckyVar \in Vars /\ Unassigned(LuckyVar)
    BY <2>1, NumVarsAssumption DEF Free, IInv, TypeOK, Vars
  <2>3. LuckyLit \in Lits /\ ~IsTrue(LuckyLit) /\ ~IsFalse(LuckyLit)
    BY <2>2, UnassignedLit DEF IInv, LuckyLit
  <2>4. ~(Level + 1 <= Len(request.assumptions))
    <3>1. Len(request.assumptions) = 0 /\ Level \in Nat
      BY <1>1, StateTypes DEF IInv, LuckyUnassumed
    <3>2. QED
      BY <3>1
  <2>5. /\ trail' \in Seq(TrailEntry) /\ control' \in Seq(ControlFrame)
        /\ propagated' \in 0..Len(trail')
        /\ TrailOrdered' /\ DecisionsOpen' /\ TrailJustified' /\ RootEntailed'
        /\ ClausesEntailed' /\ WatchEntries'
        /\ \A i \in Positions' : i > propagated' => trail'[i].level = Level'
    BY <1>1, <1>4, <2>3, <2>4, DecisionKeeps
  <2>6. TypeOK'
    BY <1>1, <1>2, <1>4, <2>5 DEF IInv, TypeOK, Refs
  <2>7. UnsatSound' /\ ConflictFalsified' /\ AnalysisSound'
    BY <1>1, <1>4 DEF UnsatSound, ConflictFalsified, AnalysisSound
  <2>8. PairsAndUnits'
    BY <1>1, <1>4 DEF IInv, PairsAndUnits, Refs, Alive
  <2>9. QueueAtLevel'
    BY <1>1, <1>4, <2>5 DEF QueueAtLevel
  <2>10. LuckyUnassumed'
    BY <1>1, <1>4, LuckyStays
  <2>11. QED
    BY <2>5, <2>6, <2>7, <2>8, <2>9, <2>10 DEF IInv
<1>5. QED
  BY <1>3, <1>4 DEF LuckyDecide

LEMMA RestartKeeps ==
  ASSUME IInv, Restart
  PROVE  IInv'
<1>0. PICK reuse \in Len(request.assumptions)..Level,
           popped \in SUBSET {v \in heap : ~Unassigned(v)} :
             /\ trail' = TrailAt(reuse)
             /\ control' = ControlAt(reuse)
             /\ propagated' = PropagatedAt(reuse)
             /\ heap' = (heap \ popped) \cup
                  {VarOf(trail[i].lit) : i \in Len(TrailAt(reuse)) + 1 .. Len(trail)}
  BY DEF Restart
<1>1. /\ pc = "propagate" /\ pending = {} /\ propagated = Len(trail)
      /\ restart_pending' = FALSE /\ progress' = FALSE
      /\ UNCHANGED <<calls, problem, clauses, watches, units, pending,
                     variable_count, request, mode, strategy, pc, unit_queue,
                     conflict, analysis, conflicts, decisions, reduce_pending,
                     terminated, status, failed_core>>
  BY DEF Restart, SearchOn, SearchFixpoint, Fixpoint, RestartFrame,
         callVars, dbVars, setupVars, resultVars
<1>2. reuse \in 0..Level
  <2>1. Len(request.assumptions) \in Nat
    BY LenProperties DEF IInv, TypeOK, SolveCalls
  <2>2. QED
    BY <2>1
<1>3. /\ trail' \in Seq(TrailEntry) /\ control' \in Seq(ControlFrame)
      /\ Len(trail') \in Nat /\ Len(trail') <= Len(trail)
      /\ TrailOrdered' /\ DecisionsOpen' /\ TrailJustified' /\ RootEntailed'
      /\ ClausesEntailed' /\ WatchEntries'
      /\ {VarOf(trail[i].lit) : i \in Len(TrailAt(reuse)) + 1 .. Len(trail)} \subseteq Vars
  BY <1>0, <1>1, <1>2, UndoneKeeps
<1>4. propagated' = Len(trail')
  BY <1>0, <1>1, <1>3, StateTypes DEF IInv, PropagatedAt
<1>5. TypeOK'
  <2>1. heap' \subseteq Vars
    BY <1>0, <1>3 DEF IInv, TypeOK
  <2>2. propagated' \in 0..Len(trail')
    BY <1>3, <1>4
  <2>3. QED
    BY <1>1, <1>3, <2>1, <2>2 DEF IInv, TypeOK, Refs
<1>6. UnsatSound' /\ ConflictFalsified' /\ AnalysisSound'
  BY <1>1 DEF UnsatSound, ConflictFalsified, AnalysisSound
<1>7. PairsAndUnits'
  BY <1>1 DEF IInv, PairsAndUnits, Refs, Alive
<1>8. QueueAtLevel'
  BY <1>1, <1>3, <1>4 DEF QueueAtLevel, Positions
<1>9. LuckyUnassumed'
  BY <1>1, LuckyStays
<1>10. QED
  BY <1>3, <1>5, <1>6, <1>7, <1>8, <1>9 DEF IInv

LEMMA ReduceKeeps ==
  ASSUME IInv, Reduce
  PROVE  IInv'
<1>0. PICK victims \in SUBSET Reducible :
        /\ clauses' = [r \in Refs |-> [clauses[r] EXCEPT !.alive = @ /\ r \notin victims]]
        /\ watches' = Flushed(victims)
        /\ units' = units \ victims
  BY DEF Reduce
<1>1. /\ pc = "propagate" /\ pending = {} /\ reduce_pending' = FALSE
      /\ UNCHANGED <<calls, problem, trail, control, heap, propagated, pending,
                     variable_count, request, mode, strategy, pc, unit_queue,
                     conflict, analysis, conflicts, decisions, restart_pending,
                     progress, terminated, status, failed_core>>
  BY DEF Reduce, SearchOn, SearchFixpoint, Fixpoint,
         callVars, trailVars, propVars, setupVars, resultVars
<1>2. Len(clauses) \in Nat /\ \A r \in Refs : clauses[r] \in Clause
  BY StateTypes DEF IInv
<1>3. \A r \in Refs : /\ clauses'[r].lits = clauses[r].lits
                      /\ clauses'[r].head = clauses[r].head
                      /\ clauses'[r].alive = (clauses[r].alive /\ r \notin victims)
                      /\ clauses'[r] \in Clause
  <2>1. ASSUME NEW r \in Refs, NEW c \in Clause, c = clauses[r]
        PROVE  LET c2 == [c EXCEPT !.alive = @ /\ r \notin victims] IN
               /\ c2.lits = c.lits /\ c2.head = c.head
               /\ c2.alive = (c.alive /\ r \notin victims)
               /\ c2 \in Clause
    BY DEF Clause
  <2>2. QED
    BY <1>0, <1>2, <2>1
<1>4. clauses' \in Seq(Clause) /\ Len(clauses') = Len(clauses)
  <2>1. clauses' \in [1..Len(clauses) -> Clause]
    BY <1>0, <1>3 DEF Refs
  <2>2. QED
    BY <1>2, <2>1, SeqDef, LenProperties
<1>5. Refs' = Refs /\ Alive' = Alive \ victims
  BY <1>3, <1>4 DEF Refs, Alive
<1>6. /\ watches' \in [Lits -> SUBSET WatchEntry]
      /\ \A l \in Lits : watches'[l] = {e \in watches[l] : e.ref \notin victims}
  BY <1>0 DEF IInv, TypeOK, Flushed
<1>7. TypeOK'
  <2>1. units' \subseteq Refs' /\ unit_queue' \subseteq Refs' /\ conflict' \in 0..Len(clauses')
    BY <1>0, <1>1, <1>4, <1>5 DEF IInv, TypeOK
  <2>2. QED
    BY <1>1, <1>4, <1>6, <2>1 DEF IInv, TypeOK
<1>8. ClausesEntailed'
  BY <1>1, <1>3, <1>5 DEF IInv, ClausesEntailed
<1>9. TrailOrdered' /\ DecisionsOpen' /\ RootEntailed'
  BY <1>1 DEF IInv, TrailOrdered, DecisionsOpen, RootEntailed
<1>10. TrailJustified'
  <2>1. ASSUME NEW i \in 1..Len(trail), trail[i].reason # 0
        PROVE  /\ clauses'[trail[i].reason].lits = clauses[trail[i].reason].lits
               /\ clauses'[trail[i].reason].alive
    <3>1. trail[i].reason \in Refs /\ clauses[trail[i].reason].alive
      BY <2>1 DEF IInv, TrailJustified, Justified, Refs
    <3>2. trail[i].reason \notin victims
      BY <1>0 DEF Reducible, Reasons, Positions
    <3>3. QED
      BY <1>3, <3>1, <3>2
  <2>2. Justified(trail, clauses')
    BY <1>2, <1>4, <2>1, StillJustified DEF IInv, TrailJustified
  <2>3. QED
    BY <1>1, <2>2 DEF TrailJustified
<1>11. UnsatSound' /\ ConflictFalsified' /\ AnalysisSound'
  BY <1>1 DEF UnsatSound, ConflictFalsified, AnalysisSound
<1>12. PairsAndUnits'
  <2>1. \A r \in Refs' : clauses'[r].head # {} =>
          \E a, b \in clauses'[r].lits : a # b /\ clauses'[r].head = {a, b}
    BY <1>3, <1>5 DEF IInv, PairsAndUnits
  <2>2. \A r \in units' : r \in Alive' /\ Short(clauses'[r].lits)
    BY <1>0, <1>3, <1>5 DEF IInv, PairsAndUnits, Alive
  <2>3. QED
    BY <1>1, <2>1, <2>2 DEF PairsAndUnits
<1>13. WatchEntries'
  <2>1. \A l \in Lits : \A e \in watches'[l] :
          /\ e \in watches[l] /\ e.ref \in Alive' /\ e.ref \in Refs
          /\ l \in clauses[e.ref].head
          /\ e.blocking \in clauses[e.ref].lits \ {l}
    BY <1>5, <1>6 DEF IInv, WatchEntries, Alive
  <2>2. \A l \in Lits : \A e, f \in watches'[l] : e.ref = f.ref => e = f
    BY <1>6 DEF IInv, WatchEntries
  <2>3. QED
    BY <1>3, <2>1, <2>2 DEF WatchEntries
<1>14. QueueAtLevel'
  BY <1>1 DEF IInv, QueueAtLevel, Positions, Level
<1>15. LuckyUnassumed'
  BY <1>1, LuckyStays
<1>16. QED
  BY <1>7, <1>8, <1>9, <1>10, <1>11, <1>12, <1>13, <1>14, <1>15 DEF IInv

-----------------------------------------------------------------------------
(* Conflict analysis.                                                      *)

\* Where analysis stands before a resolution: q bounds what is still open and
\* the clause about to be absorbed, whose other literals, with what was kept,
\* follow from the stated clauses.
LEMMA Frontier ==
  ASSUME IInv, pc = "analyze"
  PROVE  /\ analysis.reason \in Refs
         /\ analysis.open \cup Here # {}
         /\ \E q \in 1..Len(trail) + 1 :
              /\ \A k \in clauses[analysis.reason].lits \ {analysis.uip} :
                   \E i \in 1..q-1 : trail[i].lit = -k
              /\ \A v \in analysis.open :
                   \E i \in 1..q-1 : VarOf(trail[i].lit) = v /\ trail[i].level = Level
              /\ \A v \in analysis.seen :
                   \/ v \in analysis.open
                   \/ \E l \in analysis.learned : VarOf(l) = v
                   \/ \E i \in q..Len(trail) : VarOf(trail[i].lit) = v
              /\ \A m \in Models(problem) :
                   \E x \in m : \/ x \in analysis.learned
                                \/ x \in OpenLits
                                \/ x \in clauses[analysis.reason].lits \ {analysis.uip}
<1> DEFINE c == clauses[analysis.reason].lits
<1>1. CASE analysis.uip = 0 /\ AnalysisBegun
  <2>1. /\ analysis.seen = {} /\ analysis.learned = {} /\ analysis.open = {}
        /\ analysis.reason \in Refs
        /\ \A k \in c : IsFalse(k)
    BY <1>1 DEF AnalysisBegun
  <2>2. PICK k \in c : LevelOf(k) = Level
    BY <1>1 DEF AnalysisBegun
  <2>3. c \subseteq Lits /\ 0 \notin c
    BY <2>1, StateTypes DEF IInv, Lits
  <2>4. Level > 0 /\ Level \in Nat /\ Len(trail) \in Nat
    BY StateTypes DEF IInv, AnalysisSound
  <2>5. VarOf(k) \in Here
    <3>1. k \in Absorbed
      BY <1>1, <2>1, <2>2, <2>3, <2>4 DEF Absorbed
    <3>2. k \notin Lower
      BY <2>2, <2>4 DEF Lower
    <3>3. QED
      BY <3>1, <3>2 DEF Here
  <2>6. Len(trail) + 1 \in 1..Len(trail) + 1 /\ 1..(Len(trail) + 1) - 1 = Positions
    BY <2>4 DEF Positions
  <2>7. \A j \in c : \E i \in Positions : trail[i].lit = -j
    BY <2>1 DEF IsFalse
  <2>8. \A m \in Models(problem) : \E x \in m : x \in c \ {analysis.uip}
    BY <1>1, <2>1, <2>3 DEF IInv, ClausesEntailed
  <2> HIDE DEF c
  <2>9. \E q \in 1..Len(trail) + 1 :
          /\ 1..q-1 = Positions
    BY <2>6
  <2>10. QED
    BY <2>1, <2>5, <2>7, <2>8, <2>9 DEF c
<1>2. ASSUME NEW p \in Positions, AnalysisAt(p)
      PROVE  /\ analysis.reason \in Refs
             /\ analysis.open # {}
             /\ \A k \in c \ {analysis.uip} : \E i \in 1..p-1 : trail[i].lit = -k
             /\ \A v \in analysis.open :
                  \E i \in 1..p-1 : VarOf(trail[i].lit) = v /\ trail[i].level = Level
             /\ \A v \in analysis.seen :
                  \/ v \in analysis.open
                  \/ \E l \in analysis.learned : VarOf(l) = v
                  \/ \E i \in p..Len(trail) : VarOf(trail[i].lit) = v
             /\ \A m \in Models(problem) :
                  \E x \in m : \/ x \in analysis.learned
                               \/ x \in OpenLits
                               \/ x \in c \ {analysis.uip}
  <2>1. /\ trail[p].lit = analysis.uip
        /\ analysis.open # {}
        /\ analysis.reason # 0 /\ analysis.reason = trail[p].reason
    BY <1>2 DEF AnalysisAt
  <2>2. /\ analysis.reason \in Refs
        /\ \A k \in c \ {analysis.uip} : \E i \in 1..p-1 : trail[i].lit = -k
    BY <2>1 DEF IInv, TrailJustified, Justified, Positions, Refs
  <2>3. ASSUME NEW m \in Models(problem)
        PROVE  \E x \in m : \/ x \in analysis.learned
                            \/ x \in OpenLits
                            \/ x \in c \ {analysis.uip}
    <3>1. analysis.uip \in Lits
      BY <2>1, StateTypes DEF IInv
    <3>2. PICK x \in m : x \in Resolvent
      BY <1>2 DEF AnalysisAt
    <3>3. CASE x = -analysis.uip
      <4>1. analysis.uip \notin m
        BY <3>1, <3>2, <3>3, OnePolarity
      <4>2. PICK y \in m : y \in c
        BY <2>2 DEF IInv, ClausesEntailed
      <4>3. QED
        BY <4>1, <4>2
    <3>4. QED
      BY <3>2, <3>3 DEF Resolvent
  <2>4. QED
    BY <1>2, <2>1, <2>2, <2>3 DEF AnalysisAt
<1>3. Positions \subseteq 1..Len(trail) + 1
  BY StateTypes DEF IInv, Positions
<1>4. CASE \E p \in Positions : AnalysisAt(p)
  <2>1. PICK p \in Positions : AnalysisAt(p)
    BY <1>4
  <2>2. p \in 1..Len(trail) + 1
    BY <1>3
  <2>3. QED
    BY <1>2, <2>1, <2>2
<1>5. QED
  BY <1>1, <1>4 DEF IInv, AnalysisSound

\* The next literal to resolve on: the last open one of the conflict level.
LEMMA NextUipAt ==
  ASSUME IInv, pc = "analyze", NEW q \in 1..Len(trail) + 1,
         \A k \in clauses[analysis.reason].lits \ {analysis.uip} :
           \E i \in 1..q-1 : trail[i].lit = -k,
         \A v \in analysis.open :
           \E i \in 1..q-1 : VarOf(trail[i].lit) = v /\ trail[i].level = Level
  PROVE  /\ NextUip \in Positions /\ NextUip < q
         /\ trail[NextUip].level = Level
         /\ VarOf(trail[NextUip].lit) \in analysis.open \cup Here
         /\ \A v \in analysis.open \cup Here :
              \E i \in 1..q-1 : /\ VarOf(trail[i].lit) = v /\ trail[i].level = Level
                                /\ i <= NextUip
<1> DEFINE Open == analysis.open \cup Here
           S == {i \in Positions : VarOf(trail[i].lit) \in Open}
<1>0. Len(trail) \in Nat /\ 1..q-1 \subseteq Positions
  BY StateTypes DEF IInv, Positions
<1>1. ASSUME NEW v \in Open
      PROVE  \E i \in 1..q-1 : VarOf(trail[i].lit) = v /\ trail[i].level = Level
  <2>1. CASE v \in analysis.open
    BY <2>1
  <2>2. CASE v \in Here
    <3>1. PICK k \in Absorbed \ Lower : v = VarOf(k)
      BY <2>2 DEF Here
    <3>2. /\ k \in clauses[analysis.reason].lits \ {analysis.uip}
          /\ ~(LevelOf(k) < Level)
      BY <3>1 DEF Absorbed, Lower
    <3>3. PICK i \in 1..q-1 : trail[i].lit = -k
      BY <3>2
    <3>4. k \in Lits
      BY <3>2, Frontier, StateTypes DEF IInv
    <3>5. i \in Positions /\ LevelOf(k) = trail[i].level /\ VarOf(k) = VarOf(trail[i].lit)
      BY <1>0, <3>3, <3>4, FalseAt DEF IInv
    <3>6. trail[i].level <= Level /\ trail[i].level \in Nat /\ Level \in Nat
      BY <3>5, StateTypes DEF IInv, TrailOrdered, OrderedTrail, Positions, Level
    <3>7. QED
      BY <3>1, <3>2, <3>5, <3>6
  <2>3. QED
    BY <2>1, <2>2
<1>2. S # {}
  <2>1. PICK v \in Open : TRUE
    BY Frontier
  <2>2. QED
    BY <1>0, <1>1, <2>1
<1>3. S \in SUBSET (0..Len(trail))
  BY <1>0 DEF Positions
<1> HIDE DEF Open
<1>4. \E i \in S : \A j \in S : j <= i
  BY <1>0, <1>2, <1>3, Greatest
<1>5. /\ NextUip \in Positions /\ VarOf(trail[NextUip].lit) \in Open
      /\ \A j \in Positions : VarOf(trail[j].lit) \in Open => j <= NextUip
  BY <1>4 DEF NextUip, Open
<1>6. PICK i \in 1..q-1 : VarOf(trail[i].lit) = VarOf(trail[NextUip].lit) /\ trail[i].level = Level
  BY <1>1, <1>5
<1>7. i = NextUip
  BY <1>0, <1>5, <1>6 DEF IInv, TrailOrdered, OrderedTrail, Positions
<1>8. \A v \in Open : \E j \in 1..q-1 : /\ VarOf(trail[j].lit) = v /\ trail[j].level = Level
                                        /\ j <= NextUip
  BY <1>0, <1>1, <1>5
<1>9. QED
  BY <1>5, <1>6, <1>7, <1>8 DEF Open

LEMMA ResolveKeeps ==
  ASSUME IInv, Resolve
  PROVE  IInv'
<1> DEFINE c == clauses[analysis.reason].lits
           Open == analysis.open \cup Here
<1>0. pc = "analyze"
  BY DEF Resolve
<1>2. PICK q \in 1..Len(trail) + 1 :
        /\ \A k \in c \ {analysis.uip} : \E i \in 1..q-1 : trail[i].lit = -k
        /\ \A v \in analysis.open :
             \E i \in 1..q-1 : VarOf(trail[i].lit) = v /\ trail[i].level = Level
        /\ \A v \in analysis.seen :
             \/ v \in analysis.open
             \/ \E l \in analysis.learned : VarOf(l) = v
             \/ \E i \in q..Len(trail) : VarOf(trail[i].lit) = v
        /\ \A m \in Models(problem) :
             \E x \in m : \/ x \in analysis.learned
                          \/ x \in OpenLits
                          \/ x \in c \ {analysis.uip}
  BY <1>0, Frontier
<1>n. PICK n \in Positions : n = NextUip
  BY <1>0, <1>2, NextUipAt
<1> DEFINE uip == trail[n].lit
           left == Open \ {VarOf(uip)}
<1>1. /\ pc = "analyze"
      /\ pc' = IF left = {} THEN "learn" ELSE "analyze"
      /\ analysis' = [seen    |-> analysis.seen \cup {VarOf(l) : l \in Absorbed},
                      learned |-> analysis.learned \cup Lower,
                      open    |-> left,
                      uip     |-> uip,
                      reason  |-> IF left = {} THEN 0 ELSE trail[n].reason]
      /\ UNCHANGED <<calls, problem, clauses, watches, units, trail, control, heap,
                     propagated, pending, variable_count, request, mode, strategy,
                     unit_queue, conflict, conflicts, decisions, restart_pending,
                     reduce_pending, progress, terminated, status, failed_core>>
  BY <1>n DEF Resolve, callVars, dbVars, trailVars, propVars, setupVars, countVars, resultVars
<1>3. /\ n \in Positions /\ n < q
      /\ trail[n].level = Level
      /\ VarOf(uip) \in Open
      /\ \A v \in Open :
           \E i \in 1..q-1 : /\ VarOf(trail[i].lit) = v /\ trail[i].level = Level
                             /\ i <= n
  BY <1>0, <1>2, <1>n, NextUipAt
<1>4. c \subseteq Lits /\ Len(trail) \in Nat /\ uip \in Lits /\ trail[n].reason \in Nat
      /\ Level \in Nat
  BY <1>1, <1>3, Frontier, StateTypes DEF IInv
<1>5. 1..q-1 \subseteq Positions /\ q..Len(trail) \subseteq Positions
      /\ q..Len(trail) \subseteq n..Len(trail)
  BY <1>3, <1>4 DEF Positions
<1>6. /\ analysis'.seen = analysis.seen \cup {VarOf(l) : l \in Absorbed}
      /\ analysis'.learned = analysis.learned \cup Lower
      /\ analysis'.open = left /\ analysis'.uip = uip
      /\ analysis'.reason = IF left = {} THEN 0 ELSE trail[n].reason
  BY <1>1
<1> HIDE DEF c, uip, Open
<1>7. Absorbed \subseteq c \ {analysis.uip} /\ Lower \subseteq Absorbed
      /\ Here = {VarOf(l) : l \in Absorbed \ Lower}
  BY DEF Absorbed, Lower, Here, c
<1>8. ASSUME NEW k \in c \ {analysis.uip}
      PROVE  \E i \in 1..q-1 : /\ trail[i].lit = -k /\ LevelOf(k) = trail[i].level
                               /\ VarOf(k) = VarOf(trail[i].lit)
  <2>1. PICK i \in 1..q-1 : trail[i].lit = -k
    BY <1>2
  <2>2. QED
    BY <1>4, <1>5, <2>1, FalseAt DEF IInv
<1>9. \A i, j \in Positions : VarOf(trail[i].lit) = VarOf(trail[j].lit) => i = j
  BY DEF IInv, TrailOrdered, OrderedTrail, Positions
<1>10. TypeOK'
  <2>1. analysis \in Analysis
    BY DEF IInv, TypeOK
  <2>2. Absorbed \subseteq Lits /\ Lower \subseteq Lits /\ Here \subseteq Vars
        /\ {VarOf(l) : l \in Absorbed} \subseteq Vars
    BY <1>4, <1>7, Literals
  <2>3. left \subseteq Vars
    BY <2>1, <2>2 DEF Analysis, Open
  <2>4. analysis' \in Analysis
    BY <1>1, <1>4, <2>1, <2>2, <2>3 DEF Analysis, uip
  <2>5. QED
    BY <1>1, <2>4 DEF IInv, TypeOK, Refs
<1>11. /\ TrailOrdered' /\ DecisionsOpen' /\ TrailJustified' /\ RootEntailed'
       /\ ClausesEntailed' /\ WatchEntries'
  BY <1>1, Quiet
<1>12. UnsatSound' /\ ConflictFalsified'
  BY <1>1 DEF UnsatSound, ConflictFalsified
<1>13. PairsAndUnits' /\ QueueAtLevel' /\ LuckyUnassumed'
  BY <1>1 DEF IInv, PairsAndUnits, QueueAtLevel, LuckyUnassumed, Refs, Alive, Positions, Level, NotLit
<1>14. \A v \in left : \E i \in 1..n-1 : VarOf(trail[i].lit) = v /\ trail[i].level = Level
  <2> SUFFICES ASSUME NEW v \in left
               PROVE  \E i \in 1..n-1 : VarOf(trail[i].lit) = v /\ trail[i].level = Level
    OBVIOUS
  <2>1. PICK i \in 1..q-1 : VarOf(trail[i].lit) = v /\ trail[i].level = Level /\ i <= n
    BY <1>3
  <2>2. i # n
    BY <2>1 DEF uip
  <2>3. i \in 1..n-1
    BY <1>3, <1>5, <2>1, <2>2 DEF Positions
  <2>4. QED
    BY <2>1, <2>3
<1>15. ASSUME NEW v \in analysis'.seen
       PROVE  \/ v \in left
              \/ \E l \in analysis'.learned : VarOf(l) = v
              \/ \E i \in n..Len(trail) : VarOf(trail[i].lit) = v
  <2>0. n \in n..Len(trail)
    BY <1>3, <1>4 DEF Positions
  <2>1. CASE v \in Open
    BY <2>0, <2>1 DEF uip
  <2>2. CASE v \in analysis.seen
    BY <1>2, <1>5, <1>6, <2>1, <2>2 DEF Open
  <2>3. CASE v \in {VarOf(l) : l \in Absorbed}
    <3>1. PICK l \in Absorbed : v = VarOf(l)
      BY <2>3
    <3>2. CASE l \in Lower
      BY <1>6, <3>1, <3>2
    <3>3. CASE l \notin Lower
      BY <1>7, <2>1, <3>1, <3>3 DEF Open
    <3>4. QED
      BY <3>2, <3>3
  <2>4. QED
    BY <1>6, <2>2, <2>3
<1> DEFINE resolvent == analysis'.learned
                        \cup {-trail[i].lit : i \in {j \in Positions : VarOf(trail[j].lit) \in left}}
                        \cup {-uip}
<1>16. ASSUME NEW m \in Models(problem) PROVE m \cap resolvent # {}
  <2>1. \A i \in Positions : VarOf(trail[i].lit) \in Open => -trail[i].lit \in resolvent
    <3> SUFFICES ASSUME NEW i \in Positions, VarOf(trail[i].lit) \in Open
                 PROVE  -trail[i].lit \in resolvent
      OBVIOUS
    <3>1. CASE VarOf(trail[i].lit) = VarOf(uip)
      BY <1>3, <1>9, <3>1 DEF uip
    <3>2. CASE VarOf(trail[i].lit) # VarOf(uip)
      BY <3>2
    <3>3. QED
      BY <3>1, <3>2
  <2>2. PICK x \in m : \/ x \in analysis.learned
                       \/ x \in OpenLits
                       \/ x \in c \ {analysis.uip}
    BY <1>2
  <2>3. CASE x \in analysis.learned
    BY <1>6, <2>3
  <2>4. CASE x \in OpenLits
    BY <2>1, <2>4 DEF OpenLits, Open
  <2>5. CASE x \in c \ {analysis.uip}
    <3>1. PICK i \in 1..q-1 : /\ trail[i].lit = -x /\ LevelOf(x) = trail[i].level
                              /\ VarOf(x) = VarOf(trail[i].lit)
      BY <1>8, <2>5
    <3>2. i \in Positions /\ x \in Lits /\ -trail[i].lit = x
      BY <1>4, <1>5, <2>5, <3>1, Literals
    <3>3. CASE x \in Absorbed
      <4>1. CASE x \in Lower
        BY <1>6, <4>1
      <4>2. CASE x \notin Lower
        BY <1>7, <2>1, <3>1, <3>2, <3>3, <4>2 DEF Open
      <4>3. QED
        BY <4>1, <4>2
    <3>4. CASE VarOf(x) \in analysis.seen
      <4>1. CASE VarOf(x) \in analysis.open
        BY <2>1, <3>1, <3>2, <4>1 DEF Open
      <4>2. ASSUME NEW l \in analysis.learned, VarOf(l) = VarOf(x)
            PROVE  m \cap resolvent # {}
        <5>1. PICK j \in Positions : trail[j].lit = -l
          BY <1>1 DEF IInv, AnalysisSound
        <5>2. l \in Lits
          BY DEF IInv, TypeOK, Analysis
        <5>3. VarOf(trail[j].lit) = VarOf(trail[i].lit) /\ -trail[j].lit = l
          BY <3>1, <4>2, <5>1, <5>2, Literals
        <5>4. l = x
          BY <1>9, <3>2, <5>3
        <5>5. QED
          BY <1>6, <5>4
      <4>3. ASSUME NEW j \in q..Len(trail), VarOf(trail[j].lit) = VarOf(x)
            PROVE  FALSE
        <5>1. i = j
          BY <1>5, <1>9, <3>1, <3>2, <4>3
        <5>2. QED
          BY <5>1
      <4>4. QED
        BY <1>2, <3>4, <4>1, <4>2, <4>3
    <3>5. CASE ~(LevelOf(x) > 0)
      <4>1. trail[i].level = 0
        BY <3>1, <3>2, <3>5, StateTypes DEF IInv
      <4>2. QED
        BY <3>1, <3>2, <4>1, RootFalse DEF IInv
    <3>6. QED
      BY <2>5, <3>3, <3>4, <3>5 DEF Absorbed, c
  <2>6. QED
    BY <2>2, <2>3, <2>4, <2>5
<1>17. left # {} => trail[n].reason # 0
  <2> SUFFICES ASSUME left # {}, trail[n].reason = 0 PROVE FALSE
    OBVIOUS
  <2>1. PICK v \in left : TRUE
    OBVIOUS
  <2>2. PICK i \in 1..n-1 : trail[i].level = Level
    BY <1>14, <2>1
  <2>3. Level >= 1 /\ n = control[Level].trail_begin + 1
    BY <1>3 DEF IInv, DecisionsOpen, OpenedByDecisions, Positions
  <2>4. i \in Positions /\ Level \in 1..Level /\ control[Level].trail_begin \in Nat
    <3>1. Level \in 1..Level /\ control[Level].trail_begin \in Nat
      BY <2>3, StateTypes DEF IInv
    <3>2. n \in Nat /\ n <= Len(trail) /\ Len(trail) \in Nat
      BY <1>3, StateTypes DEF IInv, Positions
    <3>3. QED
      BY <2>2, <3>1, <3>2 DEF Positions
  <2>5. i <= control[Level].trail_begin
    BY <2>3, <2>4
  <2>6. trail[i].level < Level
    BY <2>4, <2>5 DEF IInv, TrailOrdered, OrderedTrail, Positions, Level
  <2>7. QED
    BY <1>4, <2>2, <2>6
<1>18. \A l \in analysis'.learned :
         \E i \in Positions : trail[i].lit = -l /\ 0 < trail[i].level /\ trail[i].level < Level
  <2>1. \A l \in analysis.learned :
          \E i \in Positions : trail[i].lit = -l /\ 0 < trail[i].level /\ trail[i].level < Level
    BY <1>1 DEF IInv, AnalysisSound
  <2>2. \A l \in Lower :
          \E i \in Positions : trail[i].lit = -l /\ 0 < trail[i].level /\ trail[i].level < Level
    <3> SUFFICES ASSUME NEW l \in Lower
                 PROVE  \E i \in Positions : trail[i].lit = -l /\ 0 < trail[i].level /\ trail[i].level < Level
      OBVIOUS
    <3>1. 0 < LevelOf(l) /\ LevelOf(l) < Level
      BY DEF Lower, Absorbed
    <3>2. PICK i \in 1..q-1 : trail[i].lit = -l /\ LevelOf(l) = trail[i].level
      BY <1>7, <1>8
    <3>3. QED
      BY <1>5, <3>1, <3>2
  <2>3. QED
    BY <1>6, <2>1, <2>2
<1>19. AnalysisAt(n)'
  <2>1. Positions' = Positions /\ Level' = Level /\ Resolvent' = resolvent
    BY <1>1, <1>6 DEF Positions, Level, Resolvent, OpenLits
  <2>2. trail'[n].lit = analysis'.uip /\ trail'[n].level = Level'
    BY <1>1, <1>3, <1>6, <2>1 DEF uip
  <2>3. /\ pc' = "analyze" => /\ analysis'.open # {}
                              /\ analysis'.reason # 0
                              /\ analysis'.reason = trail'[n].reason
        /\ pc' = "learn" => analysis'.open = {}
    BY <1>1, <1>6, <1>17
  <2>4. \A v \in analysis'.open :
          \E i \in 1..n-1 : VarOf(trail'[i].lit) = v /\ trail'[i].level = Level'
    BY <1>1, <1>6, <1>14, <2>1
  <2>5. \A v \in analysis'.seen :
          \/ v \in analysis'.open
          \/ \E l \in analysis'.learned : VarOf(l) = v
          \/ \E i \in n..Len(trail') : VarOf(trail'[i].lit) = v
    BY <1>1, <1>6, <1>15
  <2>6. \A m \in Models(problem') : m \cap Resolvent' # {}
    BY <1>1, <1>16, <2>1
  <2>7. QED
    BY <2>2, <2>3, <2>4, <2>5, <2>6 DEF AnalysisAt
<1>20. AnalysisSound'
  <2>1. Positions' = Positions /\ Level' = Level /\ Level > 0
    BY <1>1 DEF IInv, AnalysisSound, Positions, Level
  <2>2. \A l \in analysis'.learned :
          \E i \in Positions' : /\ trail'[i].lit = -l
                                /\ 0 < trail'[i].level /\ trail'[i].level < Level'
    BY <1>1, <1>18, <2>1
  <2>3. \E p \in Positions' : AnalysisAt(p)'
    BY <1>19, <2>1
  <2>4. QED
    BY <2>1, <2>2, <2>3 DEF AnalysisSound
<1>21. QED
  BY <1>10, <1>11, <1>12, <1>13, <1>20 DEF IInv

-----------------------------------------------------------------------------
(* Learning.                                                               *)

\* Where analysis ends: the unique implication point, and the literals kept
\* beside it, all falsified below its level.
LEMMA AnalysisEnds ==
  ASSUME IInv, pc = "learn"
  PROVE  /\ Level > 0 /\ analysis.uip \in Lits /\ -analysis.uip \in Lits
         /\ \E p \in Positions : trail[p].lit = analysis.uip /\ trail[p].level = Level
         /\ analysis.learned \subseteq Lits
         /\ \A l \in analysis.learned :
              \E i \in Positions : /\ trail[i].lit = -l
                                   /\ LevelOf(l) = trail[i].level
                                   /\ VarOf(l) = VarOf(trail[i].lit)
                                   /\ PosOf(VarOf(l)) = i
                                   /\ ReasonOf(VarOf(l)) = trail[i].reason
                                   /\ 0 < trail[i].level /\ trail[i].level < Level
         /\ \A m \in Models(problem) : \E x \in m : x \in analysis.learned \/ x = -analysis.uip
<1>1. Level > 0 /\ \A l \in analysis.learned :
         \E i \in Positions : /\ trail[i].lit = -l
                              /\ 0 < trail[i].level /\ trail[i].level < Level
  BY DEF IInv, AnalysisSound
<1>2. PICK p \in Positions : AnalysisAt(p)
  BY DEF IInv, AnalysisSound, AnalysisBegun
<1>3. trail[p].lit = analysis.uip /\ trail[p].level = Level /\ analysis.open = {}
  BY <1>2 DEF AnalysisAt
<1>4. analysis.uip \in Lits /\ -analysis.uip \in Lits
  BY <1>3, StateTypes, Literals DEF IInv
<1>5. analysis.learned \subseteq Lits
  BY DEF IInv, TypeOK, Analysis
<1>6. OpenLits = {}
  BY <1>3 DEF OpenLits
<1>7. \A m \in Models(problem) : \E x \in m : x \in analysis.learned \/ x = -analysis.uip
  BY <1>2, <1>6 DEF AnalysisAt, Resolvent
<1>8. ASSUME NEW l \in analysis.learned
      PROVE  \E i \in Positions : /\ trail[i].lit = -l
                                  /\ LevelOf(l) = trail[i].level
                                  /\ VarOf(l) = VarOf(trail[i].lit)
                                  /\ PosOf(VarOf(l)) = i
                                  /\ ReasonOf(VarOf(l)) = trail[i].reason
                                  /\ 0 < trail[i].level /\ trail[i].level < Level
  <2>1. PICK i \in Positions : /\ trail[i].lit = -l
                              /\ 0 < trail[i].level /\ trail[i].level < Level
    BY <1>1
  <2>2. QED
    BY <1>5, <2>1, FalseAt DEF IInv
<1>9. QED
  BY <1>1, <1>3, <1>4, <1>5, <1>7, <1>8

\* Minimisation is sound: what it drops follows from what it keeps.  Of the
\* dropped literals and those expanded below them, one that a model held
\* against the trail could not be the earliest.
LEMMA MinimisedEntailed ==
  ASSUME IInv, pc = "learn", NEW m \in Models(problem)
  PROVE  m \cap (Kept \cup {-analysis.uip}) # {}
<1> SUFFICES ASSUME m \cap (Kept \cup {-analysis.uip}) = {}
             PROVE  FALSE
  OBVIOUS
<1> DEFINE Closed(ds) ==
             \A d \in ds :
               /\ Expandable(d)
               /\ \A k \in clauses[ReasonOf(d)].lits :
                    \/ VarOf(k) \in ds
                    \/ LevelOf(k) = 0
                    \/ k \in analysis.learned
           B == {i \in Positions : /\ -trail[i].lit \in m
                                   /\ \E ds : Closed(ds) /\ VarOf(trail[i].lit) \in ds}
<1>1. ASSUME NEW l \in analysis.learned, l \in m,
             NEW i \in Positions, trail[i].lit = -l, VarOf(l) = VarOf(trail[i].lit)
      PROVE  i \in B
  <2>1. Redundant(l)
    BY <1>1 DEF Kept
  <2>2. PICK ds : Closed(ds) /\ VarOf(l) \in ds
    BY <2>1 DEF Redundant
  <2> HIDE DEF Closed
  <2>3. -trail[i].lit = l
    BY <1>1, AnalysisEnds, Literals
  <2>4. QED
    BY <1>1, <2>2, <2>3
<1>2. B # {}
  <2>1. PICK x \in m : x \in analysis.learned
    BY AnalysisEnds
  <2>2. PICK i \in Positions : trail[i].lit = -x /\ VarOf(x) = VarOf(trail[i].lit)
    BY <2>1, AnalysisEnds
  <2>3. QED
    BY <1>1, <2>1, <2>2
<1>3. B \in SUBSET Nat
  BY DEF Positions
<1>4. PICK i \in B : \A j \in B : i <= j
  BY <1>2, <1>3, Least
<1>5. PICK ds : Closed(ds) /\ VarOf(trail[i].lit) \in ds
  OBVIOUS
<1> DEFINE r == trail[i].reason
<1>6. i \in Positions /\ ReasonOf(VarOf(trail[i].lit)) = r
  BY OnTrail DEF IInv
<1>7. r # 0 /\ \A k \in clauses[r].lits :
        VarOf(k) \in ds \/ LevelOf(k) = 0 \/ k \in analysis.learned
  BY <1>5, <1>6 DEF Expandable
<1>8. /\ r \in Refs
      /\ \A k \in clauses[r].lits \ {trail[i].lit} : \E j \in 1..i-1 : trail[j].lit = -k
  BY <1>6, <1>7 DEF IInv, TrailJustified, Justified, Refs, Positions
<1>9. PICK k \in m : k \in clauses[r].lits
  BY <1>8 DEF IInv, ClausesEntailed
<1>10. k # trail[i].lit
  <2>1. trail[i].lit \in Lits /\ -trail[i].lit \in m
    BY <1>6, StateTypes DEF IInv
  <2>2. QED
    BY <1>9, <2>1, OnePolarity
<1>11. PICK j \in 1..i-1 : trail[j].lit = -k
  BY <1>8, <1>9, <1>10
<1>12. k \in Lits /\ j \in Positions /\ j < i
  BY <1>6, <1>8, <1>9, StateTypes DEF IInv, Positions
<1>13. LevelOf(k) = trail[j].level /\ VarOf(k) = VarOf(trail[j].lit) /\ -trail[j].lit = k
  BY <1>11, <1>12, FalseAt, Literals DEF IInv
<1>14. j \notin B
  <2>1. j \in Nat /\ i \in Nat
    BY <1>6, <1>12 DEF Positions
  <2>2. QED
    BY <1>4, <1>12, <2>1
<1>15. CASE VarOf(k) \in ds
  BY <1>5, <1>9, <1>12, <1>13, <1>14, <1>15
<1>16. CASE LevelOf(k) = 0
  BY <1>9, <1>11, <1>12, <1>13, <1>16, RootFalse DEF IInv
<1>17. CASE k \in analysis.learned
  BY <1>1, <1>9, <1>11, <1>12, <1>13, <1>14, <1>17
<1>18. QED
  BY <1>7, <1>9, <1>15, <1>16, <1>17

\* The partner is of the highest level among the literals kept.
LEMMA PartnerIs ==
  ASSUME IInv, pc = "learn", Kept # {}
  PROVE  /\ Partner(Kept) \in Kept
         /\ \A k \in Kept : LevelOf(k) <= LevelOf(Partner(Kept))
         /\ 0 < LevelOf(Partner(Kept)) /\ LevelOf(Partner(Kept)) < Level
<1> DEFINE P(l) == \A k \in Kept \ {l} :
             \/ LevelOf(k) < LevelOf(l)
             \/ LevelOf(k) = LevelOf(l) /\ PosOf(VarOf(k)) > PosOf(VarOf(l))
           levels == {LevelOf(l) : l \in Kept}
<1>1. Kept \subseteq analysis.learned
  BY DEF Kept
<1>2. \A l \in Kept : /\ LevelOf(l) \in Nat /\ 0 < LevelOf(l) /\ LevelOf(l) < Level
                      /\ PosOf(VarOf(l)) \in Positions
                      /\ trail[PosOf(VarOf(l))].lit = -l
                      /\ l \in Lits
  BY <1>1, AnalysisEnds, StateTypes DEF IInv
<1>3. Level \in Nat /\ Positions \subseteq Nat
  BY StateTypes DEF IInv, Positions
<1>4. levels \in SUBSET (0..Level) /\ levels # {}
  BY <1>2, <1>3
<1>5. PICK top \in levels : \A n \in levels : n <= top
  BY <1>3, <1>4, Greatest
<1> DEFINE places == {PosOf(VarOf(l)) : l \in {k \in Kept : LevelOf(k) = top}}
<1>6. places \in SUBSET Nat /\ places # {}
  BY <1>2, <1>3, <1>5
<1>7. PICK first \in places : \A n \in places : first <= n
  BY <1>6, Least
<1>8. PICK l \in Kept : LevelOf(l) = top /\ PosOf(VarOf(l)) = first
  BY <1>7
<1>9. P(l)
  <2> SUFFICES ASSUME NEW k \in Kept \ {l}
               PROVE  \/ LevelOf(k) < LevelOf(l)
                      \/ LevelOf(k) = LevelOf(l) /\ PosOf(VarOf(k)) > PosOf(VarOf(l))
    OBVIOUS
  <2>1. LevelOf(k) <= top
    BY <1>5
  <2>2. PosOf(VarOf(k)) # PosOf(VarOf(l))
    <3>1. -(-k) = k /\ -(-l) = l
      BY <1>2, Literals
    <3>2. QED
      BY <1>2, <3>1
  <2>3. LevelOf(k) = top => first <= PosOf(VarOf(k))
    BY <1>7
  <2>4. PosOf(VarOf(k)) \in Nat /\ PosOf(VarOf(l)) \in Nat
    BY <1>2, <1>3
  <2>5. QED
    BY <1>2, <1>8, <2>1, <2>2, <2>3, <2>4
<1>10. Partner(Kept) \in Kept /\ P(Partner(Kept))
  BY <1>9 DEF Partner
<1>11. \A k \in Kept : LevelOf(k) <= LevelOf(Partner(Kept))
  <2> DEFINE x == Partner(Kept)
  <2>1. x \in Kept /\ P(x)
    BY <1>10
  <2> HIDE DEF x
  <2>2. QED
    BY <1>2, <2>1 DEF x
<1>12. QED
  BY <1>2, <1>10, <1>11

\* The backjump and the assertion: trail and levels.
LEMMA AssertedTrail ==
  ASSUME IInv, pc = "learn",
         NEW target \in 0..Level - 1, NEW ref, ref = Len(clauses) + 1,
         NEW c \in Clause, c.alive, c.lits = Kept \cup {-analysis.uip},
         \A k \in Kept : LevelOf(k) <= target,
         target = 0 => Kept = {},
         clauses' = Append(clauses, c),
         trail' = Append(TrailAt(target), Entry(-analysis.uip, target, ref)),
         control' = ControlAt(target),
         UNCHANGED <<problem, request>>
  PROVE  /\ trail' \in Seq(TrailEntry) /\ control' \in Seq(ControlFrame)
         /\ Len(TrailAt(target)) \in Nat /\ Len(trail') = Len(TrailAt(target)) + 1
         /\ trail'[Len(trail')].level = Level'
         /\ TrailOrdered' /\ DecisionsOpen' /\ TrailJustified' /\ RootEntailed'
<1> DEFINE tr == TrailAt(target)
           ctl == ControlAt(target)
           first == -analysis.uip
<1>1. target \in 0..Level /\ target \in Nat /\ Level \in Nat /\ target < Level
  BY StateTypes DEF IInv
<1>2. /\ tr \in Trails /\ ctl \in Controls
      /\ Len(ctl) = target
      /\ Len(tr) <= Len(trail)
      /\ \A i \in 1..Len(tr) : tr[i] = trail[i]
      /\ \A i \in Positions : i <= Len(tr) <=> trail[i].level <= target
      /\ OrderedTrail(tr, ctl)
      /\ OpenedByDecisions(tr, ctl, request.assumptions)
      /\ Justified(tr, clauses)
      /\ RootHolds(tr, problem)
  BY <1>1, Backtracked DEF IInv, DecisionsOpen, TrailJustified, RootEntailed
<1>3. Len(tr) \in Nat /\ Len(trail) \in Nat /\ Len(clauses) \in Nat
  BY <1>2, TrailTypes, StateTypes DEF IInv
<1>4. ref \in Nat /\ ref # 0
  BY <1>3
<1>5. /\ clauses' \in Seq(Clause) /\ Len(clauses') = ref
      /\ \A r \in Refs : clauses'[r] = clauses[r]
      /\ clauses'[ref] = c
  BY Appended DEF IInv, TypeOK, Refs
<1> HIDE DEF tr, ctl
<1>6. Justified(tr, clauses')
  <2>1. \A i \in 1..Len(tr) : tr[i].reason # 0 =>
          /\ clauses'[tr[i].reason].lits = clauses[tr[i].reason].lits
          /\ clauses'[tr[i].reason].alive
    BY <1>2, <1>5 DEF Justified, Refs
  <2>2. Len(clauses') \in Nat /\ Len(clauses) <= Len(clauses')
    BY <1>3, <1>5
  <2>3. QED
    BY <1>2, <1>3, <2>1, <2>2, StillJustified
<1>7. first \in Lits /\ \A i \in 1..Len(tr) : VarOf(tr[i].lit) # VarOf(first)
  <2>1. PICK p \in Positions : trail[p].lit = analysis.uip /\ trail[p].level = Level
    BY AnalysisEnds
  <2>2. analysis.uip \in Lits /\ first \in Lits /\ VarOf(first) = VarOf(trail[p].lit)
    BY <2>1, AnalysisEnds, Literals
  <2>3. ~(p <= Len(tr))
    BY <1>1, <1>2, <2>1
  <2>4. \A i \in 1..Len(tr) : i \in Positions /\ i # p /\ tr[i] = trail[i]
    BY <1>2, <1>3, <2>3 DEF Positions
  <2>5. \A i \in Positions : VarOf(trail[i].lit) = VarOf(trail[p].lit) => i = p
    BY <2>1 DEF IInv, TrailOrdered, OrderedTrail, Positions
  <2>6. QED
    BY <2>2, <2>4, <2>5
<1>8. \A k \in c.lits \ {first} : \E j \in 1..Len(tr) : tr[j].lit = -k
  <2> SUFFICES ASSUME NEW k \in Kept PROVE \E j \in 1..Len(tr) : tr[j].lit = -k
    OBVIOUS
  <2>1. k \in analysis.learned /\ LevelOf(k) <= target
    BY DEF Kept
  <2>2. PICK i \in Positions : trail[i].lit = -k /\ LevelOf(k) = trail[i].level
    BY <2>1, AnalysisEnds
  <2>3. i <= Len(tr) /\ i \in 1..Len(tr)
    BY <1>2, <1>3, <2>1, <2>2 DEF Positions
  <2>4. QED
    BY <1>2, <2>2, <2>3
<1>9. Len(ctl) = 0 => \A m \in Models(problem) : first \in m
  <2> SUFFICES ASSUME Len(ctl) = 0, NEW m \in Models(problem) PROVE first \in m
    OBVIOUS
  <2>1. Kept = {}
    BY <1>2
  <2>2. m \cap (Kept \cup {first}) # {}
    BY MinimisedEntailed
  <2>3. QED
    BY <2>1, <2>2
<1> HIDE DEF first
<1> DEFINE tr2 == Append(tr, Entry(first, Len(ctl), ref))
<1>10. trail' = tr2 /\ control' = ctl
  BY <1>2 DEF tr, ctl, first
<1>11. /\ tr2 \in Trails
       /\ Len(tr2) = Len(tr) + 1
       /\ tr2[Len(tr) + 1] = Entry(first, Len(ctl), ref)
       /\ OrderedTrail(tr2, ctl)
  BY <1>2, <1>4, <1>7, ExtendKeeps
<1>12. OpenedByDecisions(tr2, ctl, request.assumptions)
  BY <1>2, <1>4, <1>7, ExtendKeeps
<1>13. Justified(tr2, clauses')
  <2>1. ref \in 1..Len(clauses') /\ clauses'[ref].alive /\ clauses'[ref].lits = c.lits
    BY <1>3, <1>5
  <2>2. first \in c.lits
    BY DEF first
  <2>3. \A cs : /\ Justified(tr, cs)
                 /\ ref \in 1..Len(cs) /\ cs[ref].alive
                 /\ first \in cs[ref].lits
                 /\ \A k \in cs[ref].lits \ {first} :
                      \E j \in 1..Len(tr) : tr[j].lit = -k
           => Justified(tr2, cs)
    BY <1>2, <1>4, <1>7, ExtendKeeps
  <2> HIDE DEF tr2
  <2>4. QED
    BY <1>6, <1>8, <2>1, <2>2, <2>3
<1>14. RootHolds(tr2, problem)
  BY <1>2, <1>4, <1>7, <1>9, ExtendKeeps
<1> HIDE DEF tr2
<1>15. TrailOrdered' /\ DecisionsOpen' /\ TrailJustified' /\ RootEntailed'
  BY <1>10, <1>11, <1>12, <1>13, <1>14
     DEF TrailOrdered, DecisionsOpen, TrailJustified, RootEntailed
<1>16. trail'[Len(trail')].level = Level'
  BY <1>10, <1>11 DEF Entry, Level
<1>17. QED
  BY <1>2, <1>3, <1>10, <1>11, <1>15, <1>16 DEF Trails, Controls, tr

\* The database after a clause was learned: the clause and its two entries.
LEMMA LearnedDatabase ==
  ASSUME IInv, pc = "learn", NEW pair, NEW target, Learn(pair, target),
         \/ Kept = {} /\ pair = {}
         \/ \E k \in Kept : pair = {-analysis.uip, k}
  PROVE  \E c \in Clause :
           /\ c.alive /\ c.lits = Kept \cup {-analysis.uip}
           /\ clauses' = Append(clauses, c)
           /\ units' \subseteq Refs' /\ units \subseteq units'
           /\ watches' \in [Lits -> SUBSET WatchEntry]
           /\ UNCHANGED problem => ClausesEntailed'
           /\ WatchEntries'
           /\ \A r \in Refs' : clauses'[r].head # {} =>
                \E a, b \in clauses'[r].lits : a # b /\ clauses'[r].head = {a, b}
           /\ \A r \in units' : r \in Alive' /\ Short(clauses'[r].lits)
<1> DEFINE ref == Len(clauses) + 1
           first == -analysis.uip
           c == [lits |-> Kept \cup {first}, head |-> pair, redundant |-> TRUE,
                 alive |-> TRUE, core |-> Glue(Kept) <= CoreGlueLimit]
           Fresh(l) == [ref |-> ref, blocking |-> OtherOf(pair, l)]
<1>1. /\ clauses' = Append(clauses, c)
      /\ watches' = [l \in Lits |-> IF l \in pair THEN watches[l] \cup {Fresh(l)} ELSE watches[l]]
      /\ units' = IF pair = {} THEN units \cup {ref} ELSE units
  BY DEF Learn
<1>2. Kept \subseteq Lits /\ first \in Lits /\ Kept \subseteq analysis.learned
  BY AnalysisEnds DEF Kept
<1>3. pair # {} => \E k \in Kept : k # first /\ pair = {first, k}
  <2> SUFFICES ASSUME NEW k \in Kept, pair = {first, k} PROVE k # first
    OBVIOUS
  <2>1. PICK i \in Positions : trail[i].lit = -k /\ trail[i].level < Level
    BY <1>2, AnalysisEnds
  <2>2. PICK p \in Positions : trail[p].lit = analysis.uip /\ trail[p].level = Level
    BY AnalysisEnds
  <2>3. Level \in Nat /\ trail[i].level \in Nat
    BY <2>1, StateTypes DEF IInv
  <2>4. i # p
    BY <2>1, <2>2, <2>3
  <2>5. VarOf(trail[i].lit) # VarOf(trail[p].lit)
    BY <2>4 DEF IInv, TrailOrdered, OrderedTrail, Positions
  <2>6. k # -analysis.uip
    BY <1>2, <2>1, <2>2, <2>5, AnalysisEnds, Literals
  <2>7. QED
    BY <2>6
<1>4. pair \subseteq Lits /\ pair \subseteq Kept \cup {first}
  BY <1>2, <1>3
<1>5. c \in Clause /\ c.alive /\ c.lits = Kept \cup {first} /\ c.head = pair
  <2>1. (Glue(Kept) <= CoreGlueLimit) \in BOOLEAN
    OBVIOUS
  <2>2. QED
    BY <1>2, <1>4, <2>1 DEF Clause
<1> HIDE DEF c
<1>6. /\ clauses' \in Seq(Clause) /\ Len(clauses') = ref
      /\ Len(clauses) \in Nat
      /\ \A r \in Refs : r \in Refs' /\ clauses'[r] = clauses[r]
      /\ clauses'[ref] = c /\ ref \in Refs' /\ ref \notin Refs /\ ref \in Nat
      /\ \A r \in Refs' : r \in Refs \/ r = ref
  BY <1>1, <1>5, Appended DEF IInv, TypeOK, Refs
<1>7. \A l \in pair : /\ OtherOf(pair, l) \in c.lits \ {l}
                      /\ OtherOf(pair, l) \in Lits
  <2> SUFFICES ASSUME NEW l \in pair
               PROVE  OtherOf(pair, l) \in (Kept \cup {first}) \ {l}
    BY <1>2, <1>5
  <2>1. PICK k \in Kept : k # first /\ pair = {first, k}
    BY <1>3
  <2>2. OtherOf(pair, first) = k /\ OtherOf(pair, k) = first
    BY <2>1, OtherOfPair
  <2>3. QED
    BY <2>1, <2>2
<1>8. \A l \in pair : /\ Fresh(l) \in WatchEntry /\ Fresh(l).ref = ref
                      /\ Fresh(l).blocking = OtherOf(pair, l)
  BY <1>6, <1>7 DEF WatchEntry
<1> HIDE DEF ref, first, Fresh
<1>9. watches \in [Lits -> SUBSET WatchEntry]
  BY DEF IInv, TypeOK
<1>10. /\ watches' \in [Lits -> SUBSET WatchEntry]
       /\ \A l \in Lits : \A e \in watches'[l] : e \in watches[l] \/ (l \in pair /\ e = Fresh(l))
  <2>1. \A l \in Lits : watches'[l] = IF l \in pair THEN watches[l] \cup {Fresh(l)} ELSE watches[l]
    BY <1>1
  <2>2. ASSUME NEW l \in Lits PROVE watches'[l] \in SUBSET WatchEntry
    <3>1. watches[l] \in SUBSET WatchEntry
      BY <1>9
    <3>2. CASE l \in pair
      BY <1>8, <2>1, <3>1, <3>2
    <3>3. CASE l \notin pair
      BY <2>1, <3>1, <3>3
    <3>4. QED
      BY <3>2, <3>3
  <2>3. watches' = [l \in Lits |-> watches'[l]]
    BY <1>1
  <2>4. watches' \in [Lits -> SUBSET WatchEntry]
    BY <2>2, <2>3
  <2>5. \A l \in Lits : \A e \in watches'[l] : e \in watches[l] \/ (l \in pair /\ e = Fresh(l))
    BY <2>1
  <2>6. QED
    BY <2>4, <2>5
<1>11. Alive' = Alive \cup {ref}
  BY <1>5, <1>6 DEF Alive
<1>12. \A l \in Lits : \A e \in watches[l] :
         /\ e.ref \in Refs /\ e.ref \in Alive /\ l \in clauses[e.ref].head
         /\ e.blocking \in clauses[e.ref].lits \ {l}
  BY DEF IInv, WatchEntries, Alive
<1>13. WatchEntries'
  <2>1. ASSUME NEW l \in Lits, NEW e \in watches'[l]
        PROVE  e.ref \in Alive' /\ l \in clauses'[e.ref].head
               /\ e.blocking \in clauses'[e.ref].lits \ {l}
    <3>1. CASE e \in watches[l]
      BY <1>6, <1>11, <1>12, <3>1
    <3>2. CASE l \in pair /\ e = Fresh(l)
      BY <1>5, <1>6, <1>7, <1>8, <1>11, <3>2
    <3>3. QED
      BY <1>10, <3>1, <3>2
  <2>2. ASSUME NEW l \in Lits, NEW e \in watches'[l], NEW f \in watches'[l], e.ref = f.ref
        PROVE  e = f
    <3>1. CASE e \in watches[l] /\ f \in watches[l]
      BY <2>2, <3>1 DEF IInv, WatchEntries
    <3>2. QED
      BY <1>6, <1>8, <1>10, <1>12, <2>2, <3>1
  <2>3. QED
    BY <2>1, <2>2 DEF WatchEntries
<1>14. ASSUME UNCHANGED problem PROVE ClausesEntailed'
  <2>1. \A m \in Models(problem) : m \cap c.lits # {}
    BY <1>5, MinimisedEntailed DEF first
  <2>2. QED
    BY <1>6, <1>14, <2>1 DEF IInv, ClausesEntailed
<1>15. \A r \in Refs' : clauses'[r].head # {} =>
         \E a, b \in clauses'[r].lits : a # b /\ clauses'[r].head = {a, b}
  <2>1. c.head # {} => \E a, b \in c.lits : a # b /\ c.head = {a, b}
    BY <1>3, <1>5
  <2>2. \A r \in Refs : clauses[r].head # {} =>
          \E a, b \in clauses[r].lits : a # b /\ clauses[r].head = {a, b}
    BY DEF IInv, PairsAndUnits
  <2>3. ASSUME NEW r \in Refs', clauses'[r].head # {}
        PROVE  \E a, b \in clauses'[r].lits : a # b /\ clauses'[r].head = {a, b}
    <3>1. CASE r \in Refs
      <4>1. clauses'[r] = clauses[r]
        BY <1>6, <3>1
      <4>2. clauses[r].head # {} => \E a, b \in clauses[r].lits : a # b /\ clauses[r].head = {a, b}
        BY <2>2, <3>1
      <4>3. QED
        BY <2>3, <4>1, <4>2
    <3>2. CASE r = ref
      BY <1>6, <2>1, <2>3, <3>2
    <3>3. QED
      BY <1>6, <3>1, <3>2
  <2>4. QED
    BY <2>3
<1>16. \A r \in units' : r \in Refs' /\ r \in Alive' /\ Short(clauses'[r].lits)
  <2>1. \A r \in units : r \in Refs /\ r \in Alive /\ Short(clauses[r].lits)
    BY DEF IInv, PairsAndUnits, Alive
  <2>2. ASSUME pair = {} PROVE Short(clauses'[ref].lits)
    <3>1. clauses'[ref].lits = {first}
      BY <1>5, <1>6, <2>2
    <3>2. QED
      BY <3>1 DEF Short
  <2>3. QED
    BY <1>1, <1>6, <1>11, <2>1, <2>2
<1>17. units' \subseteq Refs' /\ units \subseteq units'
  BY <1>1, <1>16
<1>18. QED
  BY <1>1, <1>5, <1>10, <1>13, <1>14, <1>15, <1>16, <1>17 DEF first

LEMMA LearnClauseKeeps ==
  ASSUME IInv, LearnClause
  PROVE  IInv'
<1>1. /\ pc = "learn" /\ NoteConflict
      /\ \/ pc' = "idle" /\ status' = "unknown" /\ failed_core' = {}
         \/ pc' = "propagate" /\ UNCHANGED <<status, failed_core>>
      /\ analysis' = NoAnalysis
      /\ UNCHANGED <<calls, problem, pending, variable_count, request, mode,
                     strategy, unit_queue, conflict>>
  BY DEF LearnClause, Finish, callVars, setupVars, resultVars
<1>2. PICK pair, target : /\ Learn(pair, target)
                          /\ \/ Kept = {} /\ pair = {} /\ target = 0
                             \/ /\ Kept # {}
                                /\ pair = {-analysis.uip, Partner(Kept)}
                                /\ target = LevelOf(Partner(Kept))
  BY DEF LearnClause
<1>3. /\ target \in 0..Level - 1
      /\ \A k \in Kept : LevelOf(k) <= target
      /\ target = 0 => Kept = {}
      /\ (Kept = {} /\ pair = {}) \/ (\E k \in Kept : pair = {-analysis.uip, k})
  <2>1. Level \in Nat /\ Level > 0
    BY <1>1, AnalysisEnds, StateTypes DEF IInv
  <2>2. CASE Kept = {}
    BY <1>2, <2>1, <2>2
  <2>3. CASE Kept # {}
    <3>1. /\ Partner(Kept) \in Kept
          /\ \A k \in Kept : LevelOf(k) <= target
          /\ 0 < target /\ target < Level
      BY <1>1, <1>2, <2>3, PartnerIs
    <3>2. target \in Nat
      <4>1. PICK i \in Positions : LevelOf(Partner(Kept)) = trail[i].level
        BY <1>1, <3>1, AnalysisEnds DEF Kept
      <4>2. QED
        BY <1>2, <2>3, <4>1, StateTypes DEF IInv
    <3>3. QED
      BY <1>2, <2>1, <2>3, <3>1, <3>2
  <2>4. QED
    BY <2>2, <2>3
<1>4. PICK c \in Clause :
        /\ c.alive /\ c.lits = Kept \cup {-analysis.uip}
        /\ clauses' = Append(clauses, c)
        /\ units' \subseteq Refs' /\ units \subseteq units'
        /\ watches' \in [Lits -> SUBSET WatchEntry]
        /\ UNCHANGED problem => ClausesEntailed'
        /\ WatchEntries'
        /\ \A r \in Refs' : clauses'[r].head # {} =>
             \E a, b \in clauses'[r].lits : a # b /\ clauses'[r].head = {a, b}
        /\ \A r \in units' : r \in Alive' /\ Short(clauses'[r].lits)
  BY <1>1, <1>2, <1>3, LearnedDatabase
<1>5. /\ trail' = Append(TrailAt(target), Entry(-analysis.uip, target, Len(clauses) + 1))
      /\ control' = ControlAt(target)
      /\ propagated' = PropagatedAt(target)
      /\ heap' = HeapAt(target)
  BY <1>2 DEF Learn
<1>6. /\ trail' \in Seq(TrailEntry) /\ control' \in Seq(ControlFrame)
      /\ Len(TrailAt(target)) \in Nat /\ Len(trail') = Len(TrailAt(target)) + 1
      /\ trail'[Len(trail')].level = Level'
      /\ TrailOrdered' /\ DecisionsOpen' /\ TrailJustified' /\ RootEntailed'
  BY <1>1, <1>3, <1>4, <1>5, AssertedTrail
<1>7. propagated' = Len(TrailAt(target))
  <2>1. propagated \in Positions /\ trail[propagated].level = Level
    BY <1>1 DEF IInv, QueueAtLevel
  <2>2. target \in 0..Level /\ target < Level /\ Level \in Nat
    BY <1>3, StateTypes DEF IInv
  <2>3. \A i \in Positions : i <= Len(TrailAt(target)) <=> trail[i].level <= target
    BY <2>2, Backtracked DEF IInv
  <2>4. propagated > Len(TrailAt(target))
    BY <1>6, <2>1, <2>2, <2>3 DEF Positions
  <2>5. QED
    BY <1>5, <2>4 DEF PropagatedAt
<1>8. clauses' \in Seq(Clause) /\ Len(clauses') = Len(clauses) + 1 /\ Len(clauses) \in Nat
  BY <1>4, Appended DEF IInv, TypeOK
<1>9. Refs \subseteq Refs'
  BY <1>8 DEF Refs
<1>10. TypeOK'
  <2>1. heap' \subseteq Vars
    <3>1. Len(trail) \in Nat /\ \A i \in Positions : VarOf(trail[i].lit) \in Vars
      BY StateTypes, Literals DEF IInv
    <3>2. Len(TrailAt(target)) + 1 .. Len(trail) \subseteq Positions
      BY <1>6, <3>1 DEF Positions
    <3>3. QED
      BY <1>5, <3>1, <3>2 DEF IInv, TypeOK, HeapAt
  <2>2. /\ conflicts' \in Nat /\ decisions' \in Nat
        /\ restart_pending' \in BOOLEAN /\ reduce_pending' \in BOOLEAN
        /\ progress' \in BOOLEAN /\ terminated' \in BOOLEAN
    <3>1. /\ conflicts \in Nat /\ decisions \in Nat
          /\ restart_pending \in BOOLEAN /\ reduce_pending \in BOOLEAN
          /\ terminated \in BOOLEAN
      BY DEF IInv, TypeOK
    <3>2. ConflictRestarts \in BOOLEAN /\ Reductions \in BOOLEAN
      BY SwitchAssumption
    <3>3. QED
      BY <1>1, <3>1, <3>2 DEF NoteConflict
  <2>3. analysis' \in Analysis
    BY <1>1 DEF NoAnalysis, Analysis
  <2>4. /\ conflict' \in 0..Len(clauses') /\ unit_queue' \subseteq Refs'
        /\ propagated' \in 0..Len(trail')
    BY <1>1, <1>6, <1>7, <1>8, <1>9 DEF IInv, TypeOK
  <2>5. QED
    BY <1>1, <1>4, <1>6, <1>8, <2>1, <2>2, <2>3, <2>4 DEF IInv, TypeOK
<1>11. ClausesEntailed' /\ WatchEntries'
  BY <1>1, <1>4
<1>12. UnsatSound' /\ ConflictFalsified' /\ AnalysisSound'
  BY <1>1 DEF IInv, UnsatSound, ConflictFalsified, AnalysisSound
<1>13. PairsAndUnits'
  BY <1>1, <1>4 DEF PairsAndUnits
<1>14. QueueAtLevel'
  <2>1. pending' = {}
    BY <1>1 DEF IInv, QueueAtLevel
  <2>2. \A i \in Positions' : i > propagated' => i = Len(trail')
    BY <1>6, <1>7 DEF Positions
  <2>3. QED
    BY <1>1, <1>6, <2>1, <2>2 DEF QueueAtLevel
<1>15. LuckyUnassumed'
  BY <1>1, LuckyStays
<1>16. QED
  BY <1>6, <1>10, <1>11, <1>12, <1>13, <1>14, <1>15 DEF IInv

-----------------------------------------------------------------------------
(* Failed assumptions.                                                     *)

\* What analyze_final reaches holds of every reason of a reached literal.
LEMMA ReachedClosed ==
  ASSUME IInv, NEW v \in Vars, NEW i \in Positions,
         VarOf(trail[i].lit) \in ReachedFrom(v),
         trail[i].level > 0, trail[i].reason # 0,
         NEW k \in clauses[trail[i].reason].lits
  PROVE  VarOf(k) \in ReachedFrom(v)
<1>1. trail[i].reason \in Refs
  BY DEF IInv, TrailJustified, Justified, Refs, Positions
<1>2. VarOf(k) \in Vars
  BY <1>1, StateTypes, Literals DEF IInv
<1>3. ASSUME NEW s \in SUBSET Vars, v \in s, ClosedUnderReasons(s)
      PROVE  VarOf(k) \in s
  <2>1. VarOf(trail[i].lit) \in s
    BY <1>3 DEF ReachedFrom
  <2>2. {VarOf(j) : j \in clauses[trail[i].reason].lits} \subseteq s
    BY <1>3, <2>1 DEF ClosedUnderReasons
  <2>3. QED
    BY <2>2
<1>4. QED
  BY <1>2, <1>3 DEF ReachedFrom

\* No model of the stated clauses satisfies the failed assumptions: the
\* earliest reached literal it held against the trail would be implied by a
\* clause the model falsifies.
LEMMA CoreRefuted ==
  ASSUME IInv, NEW a \in Lits, IsFalse(a),
         NEW m \in Models(problem), FinalCore(a) \subseteq m
  PROVE  FALSE
<1> DEFINE v == VarOf(a)
           B == {i \in Positions : VarOf(trail[i].lit) \in ReachedFrom(v) /\ trail[i].lit \notin m}
<1>1. v \in Vars
  BY Literals
<1>2. v \in ReachedFrom(v)
  BY <1>1 DEF ReachedFrom
<1>3. a \in m
  BY DEF FinalCore
<1>4. PICK i0 \in Positions : trail[i0].lit = -a
  BY DEF IsFalse
<1>5. i0 \in B
  <2>1. VarOf(trail[i0].lit) = v
    BY <1>4, Literals
  <2>2. -a \notin m
    BY <1>3, OnePolarity
  <2>3. QED
    BY <1>2, <1>4, <2>1, <2>2
<1>6. B \in SUBSET Nat
  BY DEF Positions
<1>7. PICK i \in B : \A j \in B : i <= j
  BY <1>5, <1>6, Least
<1>8. i \in Positions /\ VarOf(trail[i].lit) \in ReachedFrom(v) /\ trail[i].lit \notin m
  BY <1>7
<1>9. trail[i].level # 0
  BY <1>8 DEF IInv, RootEntailed, RootHolds, Positions
<1>10. trail[i].level > 0 /\ trail[i].lit \in Lits
  BY <1>8, <1>9, StateTypes DEF IInv
<1>11. trail[i].reason # 0
  BY <1>8, <1>10 DEF FinalCore
<1> DEFINE r == trail[i].reason
<1>12. /\ r \in Refs
       /\ \A k \in clauses[r].lits \ {trail[i].lit} : \E j \in 1..i-1 : trail[j].lit = -k
  BY <1>8, <1>11 DEF IInv, TrailJustified, Justified, Refs, Positions
<1>13. PICK k \in m : k \in clauses[r].lits
  BY <1>12 DEF IInv, ClausesEntailed
<1>14. PICK j \in 1..i-1 : trail[j].lit = -k
  BY <1>8, <1>12, <1>13
<1>15. j \in Positions /\ j < i /\ k \in Lits
  BY <1>8, <1>12, <1>13, StateTypes DEF IInv, Positions
<1>16. VarOf(k) \in ReachedFrom(v)
  BY <1>1, <1>8, <1>10, <1>11, <1>13, ReachedClosed
<1>17. VarOf(trail[j].lit) \in ReachedFrom(v)
  BY <1>14, <1>15, <1>16, Literals
<1>18. trail[j].lit \notin m
  BY <1>13, <1>14, <1>15, OnePolarity
<1>19. j \in B
  BY <1>15, <1>17, <1>18
<1>20. i \in Nat /\ j \in Nat
  BY <1>8, <1>15 DEF Positions
<1>21. QED
  BY <1>7, <1>15, <1>19, <1>20

\* What analyze_final names are assumptions.
LEMMA CoreAssumed ==
  ASSUME IInv, AssumptionFailed
  PROVE  /\ NextAssumption \in Lits
         /\ FinalCore(NextAssumption) \subseteq Range1(request.assumptions)
<1> DEFINE a == NextAssumption
           as == request.assumptions
<1>1. Level < Len(as)
  BY DEF AssumptionFailed, AssumptionDue
<1>2. a \in Lits
  BY <1>1, NextAssumptionIsLit DEF IInv
<1>3. Len(as) \in Nat /\ Level \in Nat
  BY LenProperties, StateTypes DEF IInv, TypeOK, SolveCalls
<1>4. a \in Range1(as)
  BY <1>1, <1>3 DEF NextAssumption, Range1
<1>5. ASSUME NEW i \in Positions, trail[i].level > 0, trail[i].reason = 0
      PROVE  trail[i].lit \in Range1(as)
  <2>1. /\ trail[i].level >= 1 /\ trail[i].level \in Nat
        /\ trail[i].level <= Level
        /\ trail[i].level <= Len(as) => trail[i].lit = as[trail[i].level]
    BY <1>5, StateTypes
       DEF IInv, DecisionsOpen, OpenedByDecisions, TrailOrdered, OrderedTrail, Positions, Level
  <2>2. trail[i].level \in 1..Len(as)
    BY <1>1, <1>3, <2>1
  <2>3. QED
    BY <2>1, <2>2 DEF Range1
<1>6. QED
  BY <1>2, <1>4, <1>5 DEF FinalCore

LEMMA AssumptionFailedKeeps ==
  ASSUME IInv, AssumptionFailed
  PROVE  IInv'
<1> DEFINE a == NextAssumption
           as == request.assumptions
<1>1. /\ IsFalse(a) /\ RootConflict(FinalCore(a))
      /\ UNCHANGED <<calls, problem, clauses, watches, units, trail, control, heap,
                     propagated, pending, variable_count, request, mode, strategy,
                     unit_queue, conflict, analysis>>
  BY DEF AssumptionFailed, callVars, dbVars, trailVars, propVars, setupVars
<1>2. a \in Lits /\ FinalCore(a) \subseteq Range1(as)
  BY CoreAssumed
<1>3. FinalCore(a) \subseteq Lits
  BY <1>2, StateTypes DEF IInv, FinalCore
<1>4. \A m \in Models(problem) : ~(FinalCore(a) \subseteq m)
  BY <1>1, <1>2, CoreRefuted
<1>5. QED
  BY <1>1, <1>2, <1>3, <1>4, RootConflictKeeps

-----------------------------------------------------------------------------
(* The theorems.                                                           *)

LEMMA InitIInv ==
  ASSUME Init
  PROVE  IInv
<1> USE DEF Init
<1>1. TypeOK
  <2>1. calls \in Seq(AddCalls \cup SolveCalls)
    BY ScriptsAssumption
  <2>2. request \in SolveCalls
    BY DEF NoRequest, SolveCalls
  <2>3. analysis \in Analysis
    BY DEF NoAnalysis, Analysis
  <2>4. trail \in Seq(TrailEntry) /\ control \in Seq(ControlFrame) /\ clauses \in Seq(Clause)
    OBVIOUS
  <2>5. Len(trail) = 0 /\ Len(clauses) = 0
    OBVIOUS
  <2>6. watches \in [Lits -> SUBSET WatchEntry]
    OBVIOUS
  <2>7. propagated \in 0..Len(trail) /\ conflict \in 0..Len(clauses)
    BY <2>5
  <2>8. variable_count \in 0..NumVars
    BY NumVarsAssumption
  <2>9. /\ strategy \in 0..3 /\ conflicts \in Nat /\ decisions \in Nat
        /\ pc \in {"idle", "units", "propagate", "conflict", "analyze", "learn"}
        /\ mode \in {"lucky", "search"}
        /\ status \in {"unknown", "satisfiable", "unsatisfiable"}
    OBVIOUS
  <2>10. /\ restart_pending \in BOOLEAN /\ reduce_pending \in BOOLEAN
         /\ progress \in BOOLEAN /\ terminated \in BOOLEAN
    OBVIOUS
  <2>11. /\ problem \subseteq SUBSET Lits /\ units \subseteq Refs
         /\ pending \subseteq WatchEntry /\ heap \subseteq Vars
         /\ unit_queue \subseteq Refs /\ failed_core \subseteq Lits
    OBVIOUS
  <2>12. QED
    <3> HIDE DEF Init
    <3>1. QED
      BY <2>1, <2>2, <2>3, <2>4, <2>6, <2>7, <2>8, <2>9, <2>10, <2>11 DEF TypeOK
<1>2. Refs = {} /\ Positions = {} /\ Len(trail) = 0 /\ Len(control) = 0
  BY DEF Refs, Positions
<1>3. ClausesEntailed /\ UnsatSound /\ ConflictFalsified /\ AnalysisSound /\ QueueAtLevel
  BY <1>2 DEF ClausesEntailed, UnsatSound, ConflictFalsified, AnalysisSound, QueueAtLevel
<1>4. TrailOrdered /\ DecisionsOpen /\ TrailJustified /\ RootEntailed
  BY <1>2 DEF TrailOrdered, OrderedTrail, DecisionsOpen, OpenedByDecisions,
              TrailJustified, Justified, RootEntailed, RootHolds
<1>5. PairsAndUnits /\ WatchEntries /\ LuckyUnassumed
  BY <1>2 DEF PairsAndUnits, WatchEntries, LuckyUnassumed
<1>6. QED
  BY <1>1, <1>3, <1>4, <1>5 DEF IInv

LEMMA StutterIInv ==
  ASSUME IInv, UNCHANGED vars
  PROVE  IInv'
<1> USE DEF vars, callVars, dbVars, trailVars, propVars, setupVars, countVars, resultVars
<1>1. TypeOK'
  BY DEF IInv, TypeOK, Refs
<1>2. /\ TrailOrdered' /\ DecisionsOpen' /\ TrailJustified' /\ RootEntailed'
      /\ ClausesEntailed' /\ WatchEntries'
  BY Quiet
<1>3. UnsatSound' /\ PairsAndUnits' /\ QueueAtLevel' /\ LuckyUnassumed'
  BY DEF IInv, UnsatSound, PairsAndUnits, QueueAtLevel, LuckyUnassumed, Refs, Alive,
         Positions, Level, NotLit
<1>4. ConflictFalsified'
  <2>1. /\ \A k : (IsFalse(k)' <=> IsFalse(k)) /\ LevelOf(k)' = LevelOf(k)
        /\ Level' = Level /\ Refs' = Refs
    BY DEF IsFalse, LevelOf, PosOf, Positions, Level, Refs
  <2>2. QED
    BY <2>1 DEF IInv, ConflictFalsified
<1>5. AnalysisSound'
  <2>1. /\ \A k : (IsFalse(k)' <=> IsFalse(k)) /\ LevelOf(k)' = LevelOf(k)
        /\ Level' = Level /\ Refs' = Refs /\ Positions' = Positions
        /\ Resolvent' = Resolvent
    BY DEF IsFalse, LevelOf, PosOf, Positions, Level, Refs, Resolvent, OpenLits
  <2>2. AnalysisBegun' <=> AnalysisBegun
    BY <2>1 DEF AnalysisBegun
  <2>3. \A p : AnalysisAt(p)' <=> AnalysisAt(p)
    BY <2>1 DEF AnalysisAt
  <2>4. QED
    BY <2>1, <2>2, <2>3 DEF IInv, AnalysisSound
<1>6. QED
  BY <1>1, <1>2, <1>3, <1>4, <1>5 DEF IInv

LEMMA NextIInv ==
  ASSUME IInv, [Next]_vars
  PROVE  IInv'
<1>1. CASE AddProblemClause
  BY <1>1, AddProblemClauseKeeps
<1>2. CASE Solve
  BY <1>2, SolveKeeps
<1>3. CASE Engine
  <2>1. CASE \E r \in unit_queue : AssignRootUnit(r)
    BY <2>1, AssignRootUnitKeeps
  <2>2. CASE \E r \in unit_queue : RootUnitFalsified(r)
    BY <2>2, RootUnitFalsifiedKeeps
  <2>3. CASE PropagateLiteral
    BY <2>3, PropagateLiteralKeeps
  <2>4. CASE \E e \in pending : VisitWatch(e)
    BY <2>4, VisitWatchKeeps
  <2>5. CASE LuckyDecide
    BY <2>5, LuckyDecideKeeps
  <2>6. CASE LuckySucceeds
    BY <2>6, LuckySucceedsKeeps
  <2>7. CASE LuckyFails
    BY <2>7, LuckyFailsKeeps
  <2>8. CASE RefuteAtRoot
    BY <2>8, RefuteAtRootKeeps
  <2>9. CASE StartAnalysis
    BY <2>9, StartAnalysisKeeps
  <2>10. CASE Resolve
    BY <2>10, ResolveKeeps
  <2>11. CASE LearnClause
    BY <2>11, LearnClauseKeeps
  <2>12. CASE OpenPlaceholder
    BY <2>12, OpenPlaceholderKeeps
  <2>13. CASE OpenAssumption
    BY <2>13, OpenAssumptionKeeps
  <2>14. CASE AssumptionFailed
    BY <2>14, AssumptionFailedKeeps
  <2>15. CASE Restart
    BY <2>15, RestartKeeps
  <2>16. CASE SkipRestart
    BY <2>16, SkipRestartKeeps
  <2>17. CASE Reduce
    BY <2>17, ReduceKeeps
  <2>18. CASE Decide
    BY <2>18, DecideKeeps
  <2>19. CASE ModelFound
    BY <2>19, ModelFoundKeeps
  <2>20. QED
    BY <1>3, <2>1, <2>2, <2>3, <2>4, <2>5, <2>6, <2>7, <2>8, <2>9, <2>10, <2>11,
       <2>12, <2>13, <2>14, <2>15, <2>16, <2>17, <2>18, <2>19 DEF Engine
<1>4. CASE UNCHANGED vars
  BY <1>4, StutterIInv
<1>5. QED
  BY <1>1, <1>2, <1>3, <1>4 DEF Next

\* The inductive invariant holds in every state of the engine.
THEOREM Inductive == Spec => []IInv
BY InitIInv, NextIInv, PTL DEF Spec

\* Every variable of the engine stays in its type.
THEOREM TypeCorrect == Spec => []TypeOK
<1>1. IInv => TypeOK
  BY DEF IInv
<1>2. QED
  BY <1>1, Inductive, PTL

\* What the engine learns follows from what the caller stated.
THEOREM LearningSound == Spec => []ClausesEntailed
<1>1. IInv => ClausesEntailed
  BY DEF IInv
<1>2. QED
  BY <1>1, Inductive, PTL

\* "unsatisfiable" is never answered of a satisfiable request, and the failed
\* assumptions it names suffice.
THEOREM RefutationSound == Spec => []UnsatSound
<1>1. IInv => UnsatSound
  BY DEF IInv
<1>2. QED
  BY <1>1, Inductive, PTL

\* No reduction takes the reason of a literal away, and no reason is anything
\* but the clause that implied its literal.
THEOREM ReasonsStand == Spec => []ReasonsJustify
<1>1. IInv => ReasonsJustify
  BY DEF IInv, TrailJustified, Justified, ReasonsJustify, Positions, Alive, Refs
<1>2. QED
  BY <1>1, Inductive, PTL

=============================================================================
