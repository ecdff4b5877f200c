------------------------- MODULE CdclCompleteProofs -------------------------
(***************************************************************************)
(* Propagation misses nothing, for any number of variables, any calls and  *)
(* any schedule: the second strengthening is inductive on top of the       *)
(* first.  From both follow the models the engine answers with, what its   *)
(* watch lists and its heap promise, and the contract it implements.       *)
(***************************************************************************)
EXTENDS CdclProofs, CdclComplete, FiniteSetTheorems

-----------------------------------------------------------------------------
(* The trail and what satisfies a clause.                                  *)

\* What a step leaves of the trail up to level t.
KeptTo(t) == \A j \in Positions :
               trail[j].level <= t => j \in Positions' /\ trail'[j] = trail[j]

\* No literal is both true and false.
LEMMA OneValue ==
  ASSUME TypeOK, TrailOrdered, NEW k \in Lits, IsTrue(k), IsFalse(k)
  PROVE  FALSE
<1>1. PICK i \in Positions : trail[i].lit = k
  BY DEF IsTrue
<1>2. PICK j \in Positions : trail[j].lit = -k
  BY DEF IsFalse
<1>3. VarOf(trail[i].lit) = VarOf(trail[j].lit) /\ k # -k
  BY <1>1, <1>2, Literals
<1>4. i = j
  BY <1>3 DEF TrailOrdered, OrderedTrail, Positions
<1>5. QED
  BY <1>1, <1>2, <1>3, <1>4

\* A clause with a true literal is not falsified.
LEMMA SatisfiedNotFalse ==
  ASSUME TypeOK, TrailOrdered, NEW r \in Refs, NEW i \in Positions,
         SatisfiedAt(r, i), \A k \in clauses[r].lits : IsFalse(k)
  PROVE  FALSE
<1>1. PICK j \in Positions : trail[j].lit \in clauses[r].lits
  BY DEF SatisfiedAt
<1>2. IsTrue(trail[j].lit) /\ IsFalse(trail[j].lit) /\ trail[j].lit \in Lits
  BY <1>1, StateTypes DEF IsTrue
<1>3. QED
  BY <1>2, OneValue

\* What satisfies a clause as of position i goes no earlier than that position.
LEMMA SatisfiedStays ==
  ASSUME NEW r, NEW i \in Positions, SatisfiedAt(r, i),
         clauses'[r].lits = clauses[r].lits,
         KeptTo(trail[i].level), trail'[i] = trail[i]
  PROVE  SatisfiedAt(r, i)'
BY DEF SatisfiedAt, KeptTo

\* Levels on the trail.
LEMMA TrailLevels ==
  ASSUME TypeOK, TrailOrdered, NEW i \in Positions
  PROVE  trail[i].level \in 0..Level
BY StateTypes DEF TrailOrdered, OrderedTrail, Positions, Level

\* A longer trail keeps every level.
LEMMA ExtendedKept ==
  ASSUME TypeOK, Len(trail') \in Nat, Len(trail) <= Len(trail'),
         \A i \in Positions : trail'[i] = trail[i], NEW t
  PROVE  KeptTo(t)
BY StateTypes DEF KeptTo, Positions

\* Backtracking keeps the levels up to its target.
LEMMA CutKept ==
  ASSUME TypeOK, TrailOrdered, NEW t \in 0..Level,
         \/ trail' = TrailAt(t)
         \/ \E e \in TrailEntry : trail' = Append(TrailAt(t), e)
  PROVE  /\ KeptTo(t)
         /\ \A u \in 0..t : KeptTo(u)
         /\ Len(TrailAt(t)) \in Nat /\ Len(trail') \in Nat
         /\ Len(TrailAt(t)) <= Len(trail) /\ Len(TrailAt(t)) <= Len(trail')
         /\ \A i \in 1..Len(TrailAt(t)) :
              i \in Positions /\ i \in Positions' /\ trail'[i] = trail[i] /\ trail[i].level <= t
         /\ \A i \in Positions : trail[i].level <= t => i \in 1..Len(TrailAt(t))
<1> DEFINE tr == TrailAt(t)
<1>1. /\ tr \in Trails /\ Len(tr) <= Len(trail)
      /\ \A i \in 1..Len(tr) : tr[i] = trail[i]
      /\ \A i \in Positions : i <= Len(tr) <=> trail[i].level <= t
  BY Backtracked
<1>2. Len(tr) \in Nat /\ Len(trail) \in Nat
  BY <1>1, StateTypes, LenProperties DEF Trails
<1>3. /\ Len(trail') \in Nat /\ Len(tr) <= Len(trail')
      /\ \A i \in 1..Len(tr) : trail'[i] = tr[i]
  <2> HIDE DEF tr
  <2>1. CASE trail' = tr
    BY <1>2, <2>1
  <2>2. CASE \E e \in TrailEntry : trail' = Append(tr, e)
    BY <1>1, <1>2, <2>2, AppendProperties DEF Trails
  <2>3. QED
    BY <2>1, <2>2 DEF tr
<1> HIDE DEF tr
<1>4. \A i \in 1..Len(tr) :
        i \in Positions /\ i \in Positions' /\ trail'[i] = trail[i] /\ trail[i].level <= t
  BY <1>1, <1>2, <1>3 DEF Positions
<1>5. \A i \in Positions : trail[i].level <= t => i \in 1..Len(tr)
  BY <1>1, <1>2 DEF Positions
<1>6. KeptTo(t)
  BY <1>4, <1>5 DEF KeptTo
<1>7. ASSUME NEW u \in 0..t PROVE KeptTo(u)
  <2>1. \A i \in Positions : trail[i].level <= u => trail[i].level <= t
    BY StateTypes
  <2>2. QED
    BY <1>6, <2>1 DEF KeptTo
<1>8. QED
  BY <1>1, <1>2, <1>3, <1>4, <1>5, <1>6, <1>7 DEF tr

\* At a fixpoint every watched literal that is false is covered.
LEMMA FixpointSatisfied ==
  ASSUME IInv, CInv, Fixpoint
  PROVE  /\ ~RefutationAhead
         /\ \A i \in Positions, r \in Alive :
              -trail[i].lit \in clauses[r].head => SatisfiedAt(r, i)
<1>1. pc = "propagate" /\ pending = {} /\ propagated = Len(trail) /\ Len(trail) \in Nat
  BY StateTypes DEF Fixpoint, IInv
<1>2. ~RefutationAhead
  BY <1>1 DEF RefutationAhead, Unread, Positions
<1>3. QED
  BY <1>1, <1>2 DEF CInv, PropagatedSatisfied, Unread, Positions

\* What a fixpoint established survives a step that keeps the levels it needs.
LEMMA FixpointKept ==
  ASSUME IInv, CInv, Fixpoint,
         \A i \in 1..propagated' : /\ i \in Positions
                                   /\ trail'[i] = trail[i]
                                   /\ KeptTo(trail[i].level),
         \A r \in Alive' : /\ r \in Alive
                           /\ clauses'[r].lits = clauses[r].lits
                           /\ clauses'[r].head = clauses[r].head
  PROVE  PropagatedSatisfied'
<1>1. \A i \in 1..propagated', r \in Alive' :
        -trail'[i].lit \in clauses'[r].head => SatisfiedAt(r, i)'
  <2> SUFFICES ASSUME NEW i \in 1..propagated', NEW r \in Alive',
                      -trail'[i].lit \in clauses'[r].head
               PROVE  SatisfiedAt(r, i)'
    OBVIOUS
  <2>1. i \in Positions /\ r \in Alive /\ -trail[i].lit \in clauses[r].head
    OBVIOUS
  <2>2. SatisfiedAt(r, i)
    BY <2>1, FixpointSatisfied
  <2>3. QED
    BY <2>1, <2>2, SatisfiedStays
<1>2. QED
  BY <1>1 DEF PropagatedSatisfied

-----------------------------------------------------------------------------
(* What each part of the strengthening needs of a step.                    *)

\* The clauses, what was stated and what is watched.
LEMMA DatabaseStays ==
  ASSUME CInv, UNCHANGED <<problem, clauses>>
  PROVE  LongHavePairs' /\ StatedKept'
BY DEF CInv, LongHavePairs, StatedKept, Refs, Alive

LEMMA ListsStay ==
  ASSUME CInv, pc # "idle", UNCHANGED <<clauses, watches, units>>
  PROVE  AllWatched'
BY DEF CInv, AllWatched, Refs, Alive

\* The units already assigned, as long as the root level stays.
LEMMA UnitsStay ==
  ASSUME CInv, pc # "idle", KeptTo(0),
         \A r \in units' \ unit_queue' :
           r \in units \ unit_queue /\ clauses'[r].lits = clauses[r].lits,
         pc' # "units" => unit_queue' = {}
  PROVE  UnitsAssigned'
<1>1. ASSUME NEW r \in units' \ unit_queue'
      PROVE  \E i \in Positions' : trail'[i].lit \in clauses'[r].lits /\ trail'[i].level = 0
  <2>1. PICK i \in Positions : trail[i].lit \in clauses[r].lits /\ trail[i].level = 0
    BY <1>1 DEF CInv, UnitsAssigned
  <2>2. i \in Positions' /\ trail'[i] = trail[i]
    BY <2>1 DEF KeptTo
  <2>3. QED
    BY <1>1, <2>1, <2>2
<1>2. QED
  BY <1>1 DEF UnitsAssigned

\* The assumptions of the levels that stay.
LEMMA AssumptionsStay ==
  ASSUME IInv, CInv, pc # "idle", mode = "search", UNCHANGED request,
         \A t \in 0..Level' : KeptTo(t),
         \A k \in 1..Len(request.assumptions) : k <= Level' => k <= Level
  PROVE  AssumptionsOpen'
<1>1. ASSUME NEW k \in 1..Len(request.assumptions), k <= Level'
      PROVE  \E i \in Positions' : /\ trail'[i].lit = request.assumptions[k]
                                   /\ trail'[i].level <= k
  <2>1. PICK i \in Positions : /\ trail[i].lit = request.assumptions[k]
                               /\ trail[i].level <= k
    BY <1>1 DEF CInv, AssumptionsOpen
  <2>2. k \in 0..Level'
    <3>1. k \in 1..Level
      BY <1>1, StateTypes DEF IInv
    <3>2. QED
      BY <1>1, <3>1
  <2>3. i \in Positions' /\ trail'[i] = trail[i]
    BY <2>1, <2>2 DEF KeptTo
  <2>4. QED
    BY <2>1, <2>3
<1>2. QED
  BY <1>1 DEF AssumptionsOpen

\* Without assumptions there is none to hold.
LEMMA NothingAssumed ==
  ASSUME IInv, mode = "lucky", UNCHANGED request
  PROVE  AssumptionsOpen'
<1>1. Len(request.assumptions) = 0
  BY DEF IInv, LuckyUnassumed
<1>2. QED
  BY <1>1 DEF AssumptionsOpen

\* The range of variables, as long as what the trail gains lies in it.
LEMMA RangeStays ==
  ASSUME CInv, pc # "idle", UNCHANGED <<problem, variable_count, request>>,
         \A r \in Alive' : r \in Alive /\ clauses'[r].lits = clauses[r].lits,
         heap' \subseteq 1..variable_count,
         \A i \in Positions' : VarOf(trail'[i].lit) <= variable_count
  PROVE  InRange'
BY DEF CInv, InRange

\* A variable unassigned by a backtrack is handed back.
LEMMA HandedBack ==
  ASSUME IInv, CInv, pc # "idle", NEW t \in 0..Level,
         \/ trail' = TrailAt(t)
         \/ \E e \in TrailEntry : trail' = Append(TrailAt(t), e),
         NEW popped \in SUBSET {v \in heap : ~Unassigned(v)},
         heap' = (heap \ popped) \cup
                 {VarOf(trail[i].lit) : i \in Len(TrailAt(t)) + 1 .. Len(trail)},
         UNCHANGED variable_count
  PROVE  /\ HeapComplete'
         /\ heap' \subseteq 1..variable_count
<1>1. /\ Len(TrailAt(t)) \in Nat /\ Len(trail) \in Nat
      /\ \A i \in 1..Len(TrailAt(t)) : i \in Positions' /\ trail'[i] = trail[i]
  BY CutKept, StateTypes DEF IInv
<1>2. \A i \in Positions : i \in 1..Len(TrailAt(t)) \/ i \in Len(TrailAt(t)) + 1 .. Len(trail)
  BY <1>1 DEF Positions
<1>3. ASSUME NEW v \in 1..variable_count, Unassigned(v)' PROVE v \in heap'
  <2>1. CASE Unassigned(v)
    BY <1>3, <2>1 DEF CInv, HeapComplete
  <2>2. CASE ~Unassigned(v)
    <3>1. PICK i \in Positions : trail[i].lit = v \/ trail[i].lit = -v
      BY <2>2 DEF Unassigned, IsTrue, IsFalse
    <3>2. i \notin 1..Len(TrailAt(t))
      BY <1>1, <1>3, <3>1 DEF Unassigned, IsTrue, IsFalse
    <3>3. i \in Len(TrailAt(t)) + 1 .. Len(trail)
      BY <1>2, <3>2
    <3>4. VarOf(trail[i].lit) = v
      <4>1. v \in Nat /\ v > 0
        BY NumVarsAssumption DEF IInv, TypeOK
      <4>2. VarOf(v) = v /\ VarOf(-v) = v
        BY <4>1 DEF VarOf
      <4>3. QED
        BY <3>1, <4>2
    <3>5. QED
      BY <3>3, <3>4
  <2>3. QED
    BY <2>1, <2>2
<1>4. HeapComplete'
  BY <1>3 DEF HeapComplete
<1>5. ASSUME NEW i \in Len(TrailAt(t)) + 1 .. Len(trail)
      PROVE  VarOf(trail[i].lit) \in 1..variable_count
  <2>1. i \in Positions
    BY <1>1, <1>5 DEF Positions
  <2>2. VarOf(trail[i].lit) \in Vars /\ VarOf(trail[i].lit) <= variable_count
    BY <2>1, StateTypes, Literals DEF IInv, CInv, InRange
  <2>3. QED
    BY <2>2, NumVarsAssumption DEF Vars, IInv, TypeOK
<1>6. heap \subseteq 1..variable_count
  BY DEF CInv, InRange
<1>7. QED
  BY <1>4, <1>5, <1>6

\* The heap still holds what a longer trail leaves unassigned.
LEMMA HeapStays ==
  ASSUME IInv, CInv, pc # "idle", UNCHANGED variable_count,
         \A i \in Positions : i \in Positions' /\ trail'[i] = trail[i],
         \A v \in heap \ heap' : ~Unassigned(v)'
  PROVE  HeapComplete'
<1>1. \A v : Unassigned(v)' => Unassigned(v)
  BY DEF Unassigned, IsTrue, IsFalse
<1>2. QED
  BY <1>1 DEF CInv, HeapComplete

\* An episode that ends leaves the database as it was.
LEMMA EndKeeps ==
  ASSUME CInv, pc' = "idle", UNCHANGED <<problem, clauses>>
  PROVE  CInv'
<1>1. LongHavePairs' /\ StatedKept'
  BY DatabaseStays
<1>2. QED
  BY <1>1 DEF CInv, AllWatched, UnitsAssigned, ConflictWatched, PropagatedSatisfied,
         HeapComplete, AssumptionsOpen, InRange, LimitsStop

\* A step that moves no literal and no clause.
LEMMA StillKeeps ==
  ASSUME IInv, CInv,
         \/ pc = "propagate" /\ pc' = "propagate"
         \/ /\ pc \in {"conflict", "analyze"} /\ pc' \in {"analyze", "learn"}
            /\ Level > 0,
         UNCHANGED <<problem, clauses, watches, units, trail, control, propagated,
                     pending, heap, variable_count, request, mode, unit_queue,
                     terminated>>
  PROVE  CInv'
<1>1. LongHavePairs' /\ StatedKept' /\ AllWatched'
  BY DatabaseStays, ListsStay
<1>2. UnitsAssigned' /\ ConflictWatched' /\ HeapComplete' /\ AssumptionsOpen'
      /\ InRange' /\ LimitsStop'
  BY DEF CInv, UnitsAssigned, ConflictWatched, HeapComplete, AssumptionsOpen, InRange,
         LimitsStop, Positions, Alive, Refs, Level, Unassigned, IsTrue, IsFalse
<1>3. PropagatedSatisfied'
  <2>1. /\ \A r, i : SatisfiedAt(r, i)' <=> SatisfiedAt(r, i)
        /\ \A r : Unread(r)' <=> Unread(r)
        /\ Alive' = Alive /\ Positions' = Positions /\ Level' = Level
        /\ \A k : IsFalse(k)' <=> IsFalse(k)
    BY DEF SatisfiedAt, Unread, Alive, Refs, Positions, Level, IsFalse
  <2>2. RefutationAhead => RefutationAhead'
    BY <2>1, StateTypes DEF IInv, RefutationAhead
  <2>3. QED
    BY <2>1, <2>2 DEF CInv, PropagatedSatisfied
<1>4. QED
  BY <1>1, <1>2, <1>3 DEF CInv

-----------------------------------------------------------------------------
(* The caller's steps.                                                     *)

LEMMA AddProblemClauseComplete ==
  ASSUME IInv, CInv, AddProblemClause
  PROVE  CInv'
<1> DEFINE raw == Head(calls).lits
           new == [lits |-> Range1(raw), head |-> FirstPair(raw),
                   redundant |-> FALSE, alive |-> TRUE, core |-> TRUE]
<1>1. /\ pc = "idle" /\ pc' = "idle"
      /\ problem' = problem \cup {Range1(raw)}
      /\ clauses' = IF Tautology(raw) THEN clauses ELSE Append(clauses, new)
  BY DEF AddProblemClause
<1>2. Len(clauses) \in Nat
  BY StateTypes DEF IInv
<1>3. /\ \A r \in Refs : r \in Refs' /\ clauses'[r] = clauses[r]
      /\ \A r \in Refs' : r \in Refs \/ clauses'[r] = new
      /\ ~Tautology(raw) => \E r \in Refs' : clauses'[r] = new
  <2>1. CASE Tautology(raw)
    BY <1>1, <2>1 DEF Refs
  <2>2. CASE ~Tautology(raw)
    <3>1. clauses \in Seq(Clause) /\ clauses' = Append(clauses, new)
      BY <1>1, <2>2 DEF IInv, TypeOK
    <3> HIDE DEF new
    <3>2. /\ Len(clauses') = Len(clauses) + 1
          /\ \A r \in 1..Len(clauses) : clauses'[r] = clauses[r]
          /\ clauses'[Len(clauses) + 1] = new
      BY <3>1
    <3>3. \A r \in 1..Len(clauses) + 1 : r \in 1..Len(clauses) \/ r = Len(clauses) + 1
      BY <1>2
    <3>4. Len(clauses) + 1 \in Refs'
      BY <1>2, <3>2 DEF Refs
    <3>5. QED
      BY <1>2, <3>2, <3>3, <3>4 DEF Refs
  <2>3. QED
    BY <2>1, <2>2
<1>4. FirstPair(raw) = {} => Short(Range1(raw))
  BY DEF FirstPair
<1>5. Tautology(raw) => \E l \in Range1(raw) : -l \in Range1(raw)
  <2> SUFFICES ASSUME NEW i \in 1..Len(raw), NEW j \in 1..Len(raw), raw[i] = -raw[j]
               PROVE  \E l \in Range1(raw) : -l \in Range1(raw)
    BY DEF Tautology
  <2>1. raw[j] \in Range1(raw) /\ -raw[j] \in Range1(raw)
    BY DEF Range1
  <2>2. QED
    BY <2>1
<1> DEFINE stated == Range1(raw)
<1>6. new.lits = stated /\ new.head = FirstPair(raw) /\ ~new.redundant /\ new.alive
  OBVIOUS
<1> HIDE DEF raw, new, stated
<1>7. LongHavePairs'
  <2>1. \A r \in Refs' : clauses'[r].head = {} => Short(clauses'[r].lits)
    BY <1>3, <1>4, <1>6 DEF CInv, LongHavePairs, stated
  <2>2. QED
    BY <2>1 DEF LongHavePairs
<1>8. StatedKept'
  <2> SUFFICES ASSUME NEW c \in problem'
               PROVE  \/ \E l \in c : -l \in c
                      \/ \E r \in Alive' : clauses'[r].lits = c /\ ~clauses'[r].redundant
    BY DEF StatedKept
  <2>1. CASE c \in problem
    BY <1>3, <2>1 DEF CInv, StatedKept, Alive
  <2>2. CASE c = stated
    BY <1>3, <1>5, <1>6, <2>2 DEF Alive, stated
  <2>3. QED
    BY <1>1, <2>1, <2>2 DEF stated
<1>9. QED
  BY <1>1, <1>7, <1>8 DEF CInv, AllWatched, UnitsAssigned, ConflictWatched,
         PropagatedSatisfied, HeapComplete, AssumptionsOpen, InRange, LimitsStop

\* An episode begins with the largest variable anything it reads mentions.
LEMMA MaxVariableIs ==
  ASSUME TypeOK, NEW as \in Seq(Lits)
  PROVE  \A v \in StatedVars(as) : v <= MaxVariable(as)
<1> DEFINE S == StatedVars(as)
           A == (UNION problem) \cup Range1(as)
           B == UNION {clauses[r].lits : r \in Alive}
<1>1. A \subseteq Lits
  <2>1. Range1(as) \subseteq Lits
    BY RangeOfLits
  <2>2. \A c \in problem : c \subseteq Lits
    BY DEF TypeOK
  <2>3. QED
    BY <2>1, <2>2
<1>2. B \subseteq Lits
  BY StateTypes DEF Alive
<1>3. S = {VarOf(l) : l \in A} \cup {VarOf(l) : l \in B}
  BY DEF StatedVars
<1>4. \A l \in Lits : VarOf(l) \in Vars
  BY Literals
<1> HIDE DEF A, B
<1>5. S \subseteq Vars
  BY <1>1, <1>2, <1>3, <1>4
<1> HIDE DEF S
<1>6. S \in SUBSET (0..NumVars)
  BY <1>5, NumVarsAssumption DEF Vars
<1>7. CASE S # {}
  <2>1. \E v \in S : \A u \in S : u <= v
    BY <1>6, <1>7, NumVarsAssumption, Greatest
  <2>2. QED
    BY <1>7, <2>1 DEF MaxVariable, S
<1>8. QED
  BY <1>7 DEF S

\* The lists an episode starts with lead to every watched literal.
LEMMA AttachedComplete ==
  ASSUME IInv, CInv, NEW r \in Alive
  PROVE  /\ \A l \in clauses[r].head : \E e \in AttachAll(clauses)[l] : e.ref = r
         /\ clauses[r].head = {} => r \in ShortRefs(clauses)
<1>1. r \in 1..Len(clauses) /\ clauses[r].alive /\ r \in Refs
  BY DEF Alive, Refs
<1>2. ASSUME NEW l \in clauses[r].head
      PROVE  \E e \in AttachAll(clauses)[l] : e.ref = r
  <2>1. l \in Lits
    BY <1>1, StateTypes DEF IInv
  <2> DEFINE e == [ref |-> r, blocking |-> OtherOf(clauses[r].head, l)]
  <2>2. e \in AttachAll(clauses)[l]
    BY <1>1, <2>1 DEF AttachAll
  <2>3. e.ref = r
    OBVIOUS
  <2>4. QED
    BY <2>2, <2>3
<1>3. clauses[r].head = {} => r \in ShortRefs(clauses)
  BY <1>1 DEF CInv, LongHavePairs, ShortRefs
<1>4. QED
  BY <1>2, <1>3

LEMMA SolveComplete ==
  ASSUME IInv, CInv, Solve
  PROVE  CInv'
<1>1. /\ calls \in Seq(AddCalls \cup SolveCalls) /\ calls # <<>>
      /\ Head(calls).op = "solve" /\ request' = Head(calls)
      /\ variable_count' = MaxVariable(request'.assumptions)
      /\ trail' = <<>> /\ control' = <<>> /\ propagated' = 0
      /\ heap' = 1..variable_count'
      /\ watches' = AttachAll(clauses) /\ units' = ShortRefs(clauses)
      /\ terminated' = FALSE
      /\ UNCHANGED <<problem, clauses>>
  BY DEF IInv, TypeOK, Solve
<1>2. /\ unit_queue' = units' /\ pc' \in {"units", "propagate"}
      /\ pc' # "units" => unit_queue' = {}
  BY DEF Solve, StartUnits
<1>3. request'.assumptions \in Seq(Lits)
  <2>1. Head(calls) \in AddCalls \cup SolveCalls
    BY <1>1, HeadTailProperties
  <2>2. QED
    BY <1>1, <2>1 DEF AddCalls, SolveCalls
<1>4. Positions' = {} /\ Level' = 0 /\ Alive' = Alive
  BY <1>1 DEF Positions, Level, Alive, Refs
<1>5. LongHavePairs' /\ StatedKept'
  BY <1>1, DatabaseStays
<1>6. AllWatched'
  BY <1>1, <1>4, AttachedComplete DEF AllWatched
<1>7. UnitsAssigned' /\ ConflictWatched'
  BY <1>2 DEF UnitsAssigned, ConflictWatched
<1>8. PropagatedSatisfied' /\ HeapComplete'
  BY <1>1 DEF PropagatedSatisfied, HeapComplete
<1>9. AssumptionsOpen'
  BY <1>4 DEF AssumptionsOpen
<1>10. InRange'
  <2> DEFINE as == request'.assumptions
  <2>1. \A v \in StatedVars(as) : v <= variable_count'
    BY <1>1, <1>3, MaxVariableIs DEF IInv
  <2>2. \A c \in problem : \A l \in c : VarOf(l) \in StatedVars(as)
    BY DEF StatedVars
  <2>3. \A r \in Alive : \A l \in clauses[r].lits : VarOf(l) \in StatedVars(as)
    BY DEF StatedVars
  <2>4. \A k \in 1..Len(as) : VarOf(as[k]) \in StatedVars(as)
    BY DEF StatedVars, Range1
  <2> HIDE DEF as
  <2>5. \A k \in 1..Len(as) : VarOf(as[k]) <= variable_count'
    BY <2>1, <2>4
  <2>6. QED
    BY <1>1, <1>4, <2>1, <2>2, <2>3, <2>5 DEF InRange, as
<1>11. LimitsStop'
  BY <1>1 DEF LimitsStop
<1>12. QED
  BY <1>5, <1>6, <1>7, <1>8, <1>9, <1>10, <1>11 DEF CInv

-----------------------------------------------------------------------------
(* Root units and propagation.                                             *)

\* A conflict foreseen at the root is not undone by more assignments there.
LEMMA RefutationStays ==
  ASSUME IInv, RefutationAhead, pc \in {"units", "propagate"},
         pc' \in {"units", "propagate"},
         \A i \in Positions : i \in Positions' /\ trail'[i] = trail[i],
         UNCHANGED <<clauses, control, mode, pending, propagated>>
  PROVE  RefutationAhead'
<1>1. /\ \A k : IsFalse(k) => IsFalse(k)'
      /\ Alive' = Alive /\ Level' = Level
      /\ \A r : Unread(r)' <=> Unread(r)
  BY DEF IsFalse, Alive, Refs, Level, Unread
<1>2. QED
  BY <1>1 DEF RefutationAhead

LEMMA AssignRootUnitComplete ==
  ASSUME IInv, CInv, NEW r \in unit_queue, AssignRootUnit(r)
  PROVE  CInv'
<1>1. PICK l \in clauses[r].lits :
        ~IsFalse(l) /\ trail' = IF IsTrue(l) THEN trail ELSE Assigned(l, r)
  BY DEF AssignRootUnit
<1>2. /\ pc = "units" /\ pc' \in {"units", "propagate"}
      /\ unit_queue' = unit_queue \ {r}
      /\ pc' # "units" => unit_queue' = {}
      /\ UNCHANGED <<problem, clauses, watches, units, control, heap,
                     propagated, pending, variable_count, request, mode, terminated>>
  BY DEF AssignRootUnit, NextUnit, callVars, dbVars, propVars, setupVars, countVars
<1>3. r \in units /\ r \in Alive /\ Short(clauses[r].lits) /\ Level = 0
  BY <1>2 DEF IInv, PairsAndUnits
<1>4. l \in Lits /\ Len(trail) \in Nat
  BY <1>3, StateTypes DEF IInv, Alive
<1>5. \A k \in clauses[r].lits \ {l} : IsFalse(k)
  BY <1>3 DEF Short
<1>6. /\ Len(trail') \in Nat /\ Len(trail) <= Len(trail')
      /\ \A i \in Positions : trail'[i] = trail[i]
      /\ \A i \in Positions' : i \in Positions \/ trail'[i].lit = l
      /\ \E i \in Positions' : trail'[i].lit = l /\ trail'[i].level = 0
  <2>1. CASE IsTrue(l)
    <3>1. PICK i \in Positions : trail[i].lit = l
      BY <2>1 DEF IsTrue
    <3>2. trail[i].level = 0
      BY <1>3, TrailLevels DEF IInv
    <3>3. QED
      BY <1>1, <1>4, <2>1, <3>1, <3>2 DEF Positions
  <2>2. CASE ~IsTrue(l)
    <3>1. /\ Len(trail') = Len(trail) + 1
          /\ \A i \in Positions : trail'[i] = trail[i]
          /\ trail'[Len(trail) + 1] = Entry(l, Level, r)
      BY <1>1, <1>3, <1>4, <1>5, <2>2, AssignedKeeps
    <3>2. Len(trail) + 1 \in Positions' /\ trail'[Len(trail) + 1].lit = l
          /\ trail'[Len(trail) + 1].level = 0
      BY <1>3, <1>4, <3>1 DEF Positions, Entry
    <3>3. \A i \in Positions' : i \in Positions \/ i = Len(trail) + 1
      BY <1>4, <3>1 DEF Positions
    <3>4. QED
      BY <1>4, <3>1, <3>2, <3>3
  <2>3. QED
    BY <2>1, <2>2
<1>7. /\ \A t : KeptTo(t)
      /\ \A i \in Positions : i \in Positions' /\ trail'[i] = trail[i]
  BY <1>4, <1>6, ExtendedKept DEF IInv, Positions
<1>8. LongHavePairs' /\ StatedKept' /\ AllWatched'
  BY <1>2, DatabaseStays, ListsStay
<1>9. UnitsAssigned'
  <2>1. ASSUME NEW q \in units' \ unit_queue'
        PROVE  \E i \in Positions' : trail'[i].lit \in clauses'[q].lits /\ trail'[i].level = 0
    <3>1. CASE q = r
      BY <1>1, <1>2, <1>6, <3>1
    <3>2. CASE q # r
      <4>1. PICK i \in Positions : trail[i].lit \in clauses[q].lits /\ trail[i].level = 0
        BY <1>2, <2>1, <3>2 DEF CInv, UnitsAssigned
      <4>2. QED
        BY <1>2, <1>7, <4>1
    <3>3. QED
      BY <3>1, <3>2
  <2>2. QED
    BY <1>2, <2>1 DEF UnitsAssigned
<1>10. ConflictWatched' /\ LimitsStop'
  BY <1>2 DEF CInv, ConflictWatched, LimitsStop
<1>11. HeapComplete'
  BY <1>2, <1>7, HeapStays
<1>12. AssumptionsOpen'
  <2>1. CASE mode = "search"
    BY <1>2, <1>7, <2>1, AssumptionsStay DEF Level
  <2>2. CASE mode # "search"
    BY <1>2, <2>2 DEF AssumptionsOpen
  <2>3. QED
    BY <2>1, <2>2
<1>13. InRange'
  <2>1. VarOf(l) <= variable_count
    BY <1>1, <1>2, <1>3 DEF CInv, InRange
  <2>2. \A i \in Positions' : VarOf(trail'[i].lit) <= variable_count
    BY <1>2, <1>6, <1>7, <2>1 DEF CInv, InRange
  <2>3. heap' \subseteq 1..variable_count /\ Alive' = Alive
    BY <1>2 DEF CInv, InRange, Alive, Refs
  <2>4. QED
    BY <1>2, <2>2, <2>3, RangeStays
<1>14. PropagatedSatisfied'
  <2>1. CASE RefutationAhead
    <3>1. RefutationAhead'
      BY <1>2, <1>7, <2>1, RefutationStays
    <3>2. QED
      BY <3>1 DEF PropagatedSatisfied
  <2>2. CASE ~RefutationAhead
    <3>1. ASSUME NEW i \in 1..propagated', NEW q \in Alive',
                 -trail'[i].lit \in clauses'[q].head
          PROVE  SatisfiedAt(q, i)' \/ (i = propagated' /\ Unread(q)')
      <4>1. /\ i \in Positions /\ q \in Alive /\ trail'[i] = trail[i]
            /\ -trail[i].lit \in clauses[q].head /\ i \in 1..propagated
        <5>1. i \in 1..propagated /\ propagated \in 0..Len(trail) /\ Len(trail) \in Nat
          BY <1>2, <3>1, StateTypes DEF IInv, TypeOK
        <5>2. i \in Positions
          BY <5>1 DEF Positions
        <5>3. Alive' = Alive /\ clauses' = clauses
          BY <1>2 DEF Alive, Refs
        <5>4. trail'[i] = trail[i]
          BY <1>7, <5>2
        <5>5. QED
          BY <3>1, <5>1, <5>2, <5>3, <5>4
      <4>2. SatisfiedAt(q, i) \/ (i = propagated /\ Unread(q))
        BY <1>2, <2>2, <4>1 DEF CInv, PropagatedSatisfied
      <4>3. CASE SatisfiedAt(q, i)
        BY <1>2, <1>7, <4>1, <4>3, SatisfiedStays
      <4>4. CASE i = propagated /\ Unread(q)
        BY <1>2, <4>4 DEF Unread
      <4>5. QED
        BY <4>2, <4>3, <4>4
    <3>2. QED
      BY <3>1 DEF PropagatedSatisfied
  <2>3. QED
    BY <2>1, <2>2
<1>15. QED
  BY <1>8, <1>9, <1>10, <1>11, <1>12, <1>13, <1>14 DEF CInv

LEMMA RootUnitFalsifiedComplete ==
  ASSUME IInv, CInv, NEW r \in unit_queue, RootUnitFalsified(r)
  PROVE  CInv'
<1> USE DEF RootUnitFalsified, callVars, dbVars, trailVars, propVars, setupVars, countVars, resultVars
<1>1. CASE mode = "lucky"
  <2>1. /\ pc = "units" /\ pc' \in {"units", "propagate"}
        /\ mode' = "search" /\ unit_queue' = units
        /\ pc' # "units" => unit_queue' = {}
        /\ UNCHANGED <<problem, clauses, watches, units, trail, control, heap,
                       propagated, pending, variable_count, request, terminated>>
    BY <1>1 DEF StartUnits
  <2>2. LongHavePairs' /\ StatedKept' /\ AllWatched'
    BY <2>1, DatabaseStays, ListsStay
  <2>3. UnitsAssigned' /\ ConflictWatched' /\ LimitsStop'
    BY <2>1 DEF CInv, UnitsAssigned, ConflictWatched, LimitsStop
  <2>4. HeapComplete' /\ InRange'
    BY <2>1 DEF CInv, HeapComplete, InRange, Unassigned, IsTrue, IsFalse, Positions, Alive, Refs
  <2>5. AssumptionsOpen'
    BY <1>1, <2>1, NothingAssumed
  <2>6. PropagatedSatisfied'
    <3>1. ~RefutationAhead
      BY <1>1 DEF RefutationAhead
    <3>2. /\ \A q, i : SatisfiedAt(q, i)' <=> SatisfiedAt(q, i)
          /\ \A q : Unread(q)' <=> Unread(q)
          /\ Alive' = Alive
      BY <2>1 DEF SatisfiedAt, Unread, Alive, Refs, Positions
    <3>3. QED
      BY <2>1, <3>1, <3>2 DEF CInv, PropagatedSatisfied
  <2>7. QED
    BY <2>2, <2>3, <2>4, <2>5, <2>6 DEF CInv
<1>2. CASE mode = "search"
  BY <1>2, EndKeeps DEF RootConflict, Finish
<1>3. QED
  BY <1>1, <1>2

LEMMA PropagateLiteralComplete ==
  ASSUME IInv, CInv, PropagateLiteral
  PROVE  CInv'
<1>1. /\ pc = "propagate" /\ pc' = "propagate" /\ pending = {}
      /\ propagated < Len(trail) /\ propagated' = propagated + 1
      /\ pending' = watches[-trail[propagated + 1].lit]
      /\ UNCHANGED <<problem, clauses, watches, units, trail, control, heap,
                     variable_count, request, mode, unit_queue, terminated>>
  BY DEF PropagateLiteral, callVars, dbVars, trailVars, setupVars, countVars
<1>2. propagated \in Nat /\ propagated + 1 \in Positions
  BY <1>1, StateTypes DEF IInv, TypeOK, Positions
<1>3. LongHavePairs' /\ StatedKept' /\ AllWatched'
  BY <1>1, DatabaseStays, ListsStay
<1>4. UnitsAssigned' /\ ConflictWatched' /\ HeapComplete' /\ AssumptionsOpen'
      /\ InRange' /\ LimitsStop'
  BY <1>1 DEF CInv, UnitsAssigned, ConflictWatched, HeapComplete, AssumptionsOpen, InRange,
         LimitsStop, Positions, Alive, Refs, Level, Unassigned, IsTrue, IsFalse
<1>5. /\ \A q, i : SatisfiedAt(q, i)' <=> SatisfiedAt(q, i)
      /\ \A k : IsFalse(k)' <=> IsFalse(k)
      /\ Alive' = Alive /\ Positions' = Positions /\ Level' = Level
  BY <1>1 DEF SatisfiedAt, IsFalse, Alive, Refs, Positions, Level
<1>6. ASSUME NEW r \in Alive, -trail[propagated + 1].lit \in clauses[r].head
      PROVE  Unread(r)'
  BY <1>1, <1>6 DEF CInv, AllWatched, Unread
<1>7. CASE RefutationAhead
  <2>1. mode = "search" /\ Level = 0
    BY <1>7 DEF RefutationAhead
  <2>2. PICK r \in Alive :
          /\ \A k \in clauses[r].lits : IsFalse(k)
          /\ \E i \in Positions : -trail[i].lit \in clauses[r].head /\ i > propagated
    BY <1>1, <1>7 DEF RefutationAhead, Unread
  <2>3. PICK i \in Positions : -trail[i].lit \in clauses[r].head /\ i > propagated
    BY <2>2
  <2>4. i > propagated' \/ (i = propagated' /\ Unread(r)')
    <3>1. i \in Nat /\ propagated' = propagated + 1
      BY <1>1 DEF Positions
    <3>2. CASE i = propagated + 1
      BY <1>6, <2>3, <3>1, <3>2
    <3>3. QED
      BY <1>2, <2>3, <3>1, <3>2
  <2>5. RefutationAhead'
    BY <1>1, <1>5, <2>1, <2>2, <2>3, <2>4 DEF RefutationAhead
  <2>6. QED
    BY <1>3, <1>4, <2>5 DEF CInv, PropagatedSatisfied
<1>8. CASE ~RefutationAhead
  <2>1. ASSUME NEW i \in 1..propagated', NEW r \in Alive, -trail[i].lit \in clauses[r].head
        PROVE  SatisfiedAt(r, i) \/ (i = propagated' /\ Unread(r)')
    <3>1. i \in 1..propagated \/ i = propagated + 1
      BY <1>1, <1>2
    <3>2. CASE i \in 1..propagated
      BY <1>1, <1>8, <2>1, <3>2 DEF CInv, PropagatedSatisfied, Unread
    <3>3. CASE i = propagated + 1
      BY <1>1, <1>6, <2>1, <3>3
    <3>4. QED
      BY <3>1, <3>2, <3>3
  <2>2. PropagatedSatisfied'
    BY <1>1, <1>5, <2>1 DEF PropagatedSatisfied
  <2>3. QED
    BY <1>3, <1>4, <2>2 DEF CInv
<1>9. QED
  BY <1>7, <1>8

\* What a visit does to the pair of the clause it visits, and to no other.
LEMMA VisitPairs ==
  ASSUME IInv, NEW e \in pending, VisitWatch(e)
  PROVE  \/ UNCHANGED clauses
         \/ \E k \in clauses[e.ref].lits :
              /\ ~IsFalse(k) /\ pc' = pc
              /\ \A r \in Refs : /\ clauses'[r].redundant = clauses[r].redundant
                                 /\ r # e.ref => clauses'[r] = clauses[r]
              /\ clauses'[e.ref].head =
                   {OtherOf(clauses[e.ref].head, NotLit), k}
<1> DEFINE other == OtherOf(clauses[e.ref].head, NotLit)
<1>1. CASE \E k \in Replacements(e.ref) :
             clauses' = [clauses EXCEPT ![e.ref].head = {other, k}] /\ pc' = pc
  <2>1. PICK k \in Replacements(e.ref) :
          clauses' = [clauses EXCEPT ![e.ref].head = {other, k}] /\ pc' = pc
    BY <1>1
  <2>2. k \in clauses[e.ref].lits /\ ~IsFalse(k)
    BY DEF Replacements
  <2>3. e.ref \in Refs
    BY Visited DEF VisitWatch
  <2>4. clauses[e.ref] \in Clause /\ clauses \in Seq(Clause)
    BY <2>3, StateTypes DEF IInv, TypeOK
  <2> DEFINE c == [clauses[e.ref] EXCEPT !.head = {other, k}]
  <2>5. c.redundant = clauses[e.ref].redundant /\ c.head = {other, k}
    BY <2>4 DEF Clause
  <2>6. clauses' = [clauses EXCEPT ![e.ref] = c]
    BY <2>1
  <2> HIDE DEF c, other
  <2>7. clauses'[e.ref] = c /\ \A r \in Refs : r # e.ref => clauses'[r] = clauses[r]
    BY <2>3, <2>4, <2>6 DEF Refs
  <2>8. \A r \in Refs : clauses'[r].redundant = clauses[r].redundant
    BY <2>5, <2>7
  <2>9. QED
    BY <2>1, <2>2, <2>5, <2>7, <2>8 DEF other
<1>2. CASE VisitSatisfied(e)
  BY <1>2 DEF VisitSatisfied
<1>3. CASE VisitBinary(e)
  BY <1>3 DEF VisitBinary
<1>4. CASE VisitLong(e)
  BY <1>1, <1>4 DEF VisitLong, ReadOn
<1>5. QED
  BY <1>2, <1>3, <1>4 DEF VisitWatch

\* A visit that does not end in a conflict leaves its clause satisfied, or
\* watching something else than the literal in propagation.
LEMMA VisitSettles ==
  ASSUME IInv, NEW e \in pending, VisitWatch(e), pc' = pc
  PROVE  /\ pending' = pending \ {e}
         /\ \E k \in clauses[e.ref].lits : ~IsFalse(k)
         /\ \/ \E j \in Positions' : trail'[j].lit \in clauses[e.ref].lits
            \/ NotLit \notin clauses'[e.ref].head
<1> DEFINE other == OtherOf(clauses[e.ref].head, NotLit)
           Goal == /\ pending' = pending \ {e}
                   /\ \E k \in clauses[e.ref].lits : ~IsFalse(k)
                   /\ \/ \E j \in Positions' : trail'[j].lit \in clauses[e.ref].lits
                      \/ NotLit \notin clauses'[e.ref].head
<1>1. /\ IsFalse(NotLit) /\ e.ref \in Refs /\ pc = "propagate"
      /\ e.blocking \in clauses[e.ref].lits \ {NotLit}
      /\ other \in clauses[e.ref].lits \ {NotLit}
  BY Visited DEF VisitWatch
<1>2. /\ Len(trail) \in Nat
      /\ \A l \in clauses[e.ref].lits : l \in Lits
  BY <1>1, StateTypes DEF IInv
<1>3. ASSUME NEW l \in clauses[e.ref].lits, IsTrue(l), UNCHANGED trail, ReadOn(e)
      PROVE  Goal
  <2>1. ~IsFalse(l)
    BY <1>2, <1>3, OneValue DEF IInv
  <2>2. \E j \in Positions' : trail'[j].lit = l
    BY <1>3 DEF IsTrue, Positions
  <2>3. QED
    BY <1>3, <2>1, <2>2 DEF ReadOn
<1>4. ASSUME NEW l \in clauses[e.ref].lits, ~IsFalse(l),
             trail' = Assigned(l, e.ref), ReadOn(e)
      PROVE  Goal
  <2>1. trail \in Seq(TrailEntry)
    BY DEF IInv, TypeOK
  <2> DEFINE en == Entry(l, Level, e.ref)
  <2>2. trail' = Append(trail, en) /\ en.lit = l
    BY <1>4 DEF Assigned, Entry
  <2> HIDE DEF en
  <2>3. Len(trail') = Len(trail) + 1 /\ trail'[Len(trail) + 1] = en
    BY <2>1, <2>2
  <2>4. Len(trail) + 1 \in Positions'
    BY <1>2, <2>3 DEF Positions
  <2>5. QED
    BY <1>4, <2>2, <2>3, <2>4 DEF ReadOn
<1>5. ~Falsified(e)
  BY <1>1 DEF Falsified
<1>6. CASE VisitSatisfied(e)
  BY <1>1, <1>3, <1>6 DEF VisitSatisfied
<1>7. CASE VisitBinary(e)
  BY <1>1, <1>4, <1>5, <1>7 DEF VisitBinary
<1>8. CASE VisitLong(e)
  <2>1. CASE \E k \in Replacements(e.ref) :
               clauses' = [clauses EXCEPT ![e.ref].head = {other, k}] /\ ReadOn(e)
    <3>1. PICK k \in Replacements(e.ref) :
            clauses' = [clauses EXCEPT ![e.ref].head = {other, k}] /\ ReadOn(e)
      BY <2>1
    <3>2. k \in clauses[e.ref].lits /\ ~IsFalse(k)
      BY DEF Replacements
    <3>3. clauses[e.ref] \in Clause /\ clauses \in Seq(Clause)
      BY <1>1, StateTypes DEF IInv, TypeOK
    <3>4. clauses'[e.ref].head = {other, k}
      BY <1>1, <3>1, <3>3 DEF Refs, Clause
    <3>5. NotLit \notin clauses'[e.ref].head
      BY <1>1, <3>2, <3>4
    <3>6. QED
      BY <3>1, <3>2, <3>5 DEF ReadOn
  <2> HIDE DEF other
  <2>2. CASE IsTrue(other) /\ ReadOn(e) /\ UNCHANGED trail
    BY <1>1, <1>3, <2>2
  <2>3. CASE ~IsFalse(other) /\ trail' = Assigned(other, e.ref) /\ ReadOn(e)
    BY <1>1, <1>4, <2>3
  <2>4. QED
    BY <1>5, <1>8, <2>1, <2>2, <2>3 DEF VisitLong, other
<1>9. QED
  BY <1>6, <1>7, <1>8 DEF VisitWatch

\* A visit loses the entry of no watched literal.
LEMMA VisitLists ==
  ASSUME IInv, CInv, NEW e \in pending, VisitWatch(e),
         NEW r \in Alive, NEW l \in clauses'[r].head
  PROVE  \E f \in watches'[l] : f.ref = r
<1> DEFINE other == OtherOf(clauses[e.ref].head, NotLit)
<1>1. /\ pc = "propagate" /\ NotLit \in Lits /\ e.ref \in Refs /\ r \in Refs
      /\ other \in clauses[e.ref].lits \ {NotLit}
      /\ clauses[e.ref].head = {NotLit, other}
  BY Visited DEF VisitWatch, Alive
<1>2. \A q \in Alive : \A h \in clauses[q].head : h \in Lits /\ \E f \in watches[h] : f.ref = q
  BY <1>1, StateTypes DEF CInv, AllWatched, Alive, IInv
<1>3. watches \in [Lits -> SUBSET WatchEntry] /\ clauses \in Seq(Clause)
  BY DEF IInv, TypeOK
<1>4. CASE UNCHANGED <<clauses, watches>>
  BY <1>2, <1>4
<1>5. CASE UNCHANGED clauses /\ watches' = Reblocked(e, other)
  <2> DEFINE new == [ref |-> e.ref, blocking |-> other]
  <2>1. new.ref = e.ref
    OBVIOUS
  <2>2. watches' = [watches EXCEPT ![NotLit] = (@ \ {e}) \cup {new}]
    BY <1>5 DEF Reblocked
  <2> HIDE DEF new
  <2>3. /\ watches'[NotLit] = (watches[NotLit] \ {e}) \cup {new}
        /\ \A h \in Lits : h # NotLit => watches'[h] = watches[h]
    BY <1>1, <1>3, <2>2
  <2>4. PICK f \in watches[l] : l \in Lits /\ f.ref = r
    BY <1>2, <1>5
  <2>5. QED
    BY <2>1, <2>3, <2>4
<1>6. CASE \E k \in Replacements(e.ref) :
             /\ clauses' = [clauses EXCEPT ![e.ref].head = {other, k}]
             /\ watches' = [watches EXCEPT
                              ![NotLit] = @ \ {e},
                              ![k] = @ \cup {[ref |-> e.ref, blocking |-> other]}]
  <2> DEFINE new == [ref |-> e.ref, blocking |-> other]
  <2>1. PICK k \in Replacements(e.ref) :
             /\ clauses' = [clauses EXCEPT ![e.ref].head = {other, k}]
             /\ watches' = [watches EXCEPT ![NotLit] = @ \ {e}, ![k] = @ \cup {new}]
    BY <1>6
  <2>2. k \in clauses[e.ref].lits /\ k \notin clauses[e.ref].head /\ k \in Lits
    BY <1>1, StateTypes DEF Replacements, IInv
  <2>3. new.ref = e.ref
    OBVIOUS
  <2>4. clauses[e.ref] \in Clause
    BY <1>1, StateTypes DEF IInv
  <2>5. /\ clauses'[e.ref].head = {other, k}
        /\ \A q \in Refs : q # e.ref => clauses'[q] = clauses[q]
    BY <1>1, <1>3, <2>1, <2>4 DEF Refs, Clause
  <2> HIDE DEF new, other
  <2>6. /\ watches'[NotLit] = watches[NotLit] \ {e}
        /\ watches'[k] = watches[k] \cup {new}
        /\ \A h \in Lits : h # NotLit /\ h # k => watches'[h] = watches[h]
    BY <1>1, <1>3, <2>1, <2>2
  <2>7. CASE r = e.ref
    <3>1. CASE l = k
      BY <2>3, <2>6, <2>7, <3>1
    <3>2. CASE l = other
      <4>1. \E f \in watches[other] : other \in Lits /\ f.ref = r
        BY <1>1, <1>2, <2>7
      <4>2. other # NotLit /\ other # k
        BY <1>1, <2>2
      <4>3. QED
        BY <2>6, <3>2, <4>1, <4>2
    <3>3. QED
      BY <2>5, <2>7, <3>1, <3>2
  <2>8. CASE r # e.ref
    <3>1. PICK f \in watches[l] : l \in Lits /\ f.ref = r
      BY <1>1, <1>2, <2>5, <2>8
    <3>2. f # e
      BY <2>8, <3>1
    <3>3. QED
      BY <2>6, <3>1, <3>2
  <2>9. QED
    BY <2>7, <2>8
<1>7. CASE VisitSatisfied(e)
  BY <1>4, <1>7 DEF VisitSatisfied
<1>8. CASE VisitBinary(e)
  BY <1>4, <1>8 DEF VisitBinary
<1>9. CASE VisitLong(e)
  BY <1>5, <1>6, <1>9 DEF VisitLong
<1>10. QED
  BY <1>7, <1>8, <1>9 DEF VisitWatch

\* What a visit adds to the trail is a literal of its clause.
LEMMA VisitTrail ==
  ASSUME IInv, NEW e \in pending, VisitWatch(e)
  PROVE  /\ Len(trail') \in Nat /\ Len(trail) <= Len(trail')
         /\ \A i \in Positions : i \in Positions' /\ trail'[i] = trail[i]
         /\ \A i \in Positions' : \/ i \in Positions
                                  \/ /\ trail'[i].lit \in clauses[e.ref].lits
                                     /\ trail'[i].level = Level
<1>1. e.ref \in Alive /\ e.ref \in Refs /\ Len(trail) \in Nat
  BY Visited, StateTypes DEF VisitWatch, IInv
<1>2. CASE UNCHANGED trail
  BY <1>1, <1>2 DEF Positions
<1>3. ASSUME NEW l \in clauses[e.ref].lits, ~IsTrue(l), ~IsFalse(l),
             \A k \in clauses[e.ref].lits \ {l} : IsFalse(k),
             trail' = Assigned(l, e.ref)
      PROVE  /\ Len(trail') \in Nat /\ Len(trail) <= Len(trail')
             /\ \A i \in Positions : i \in Positions' /\ trail'[i] = trail[i]
             /\ \A i \in Positions' : \/ i \in Positions
                                      \/ /\ trail'[i].lit \in clauses[e.ref].lits
                                         /\ trail'[i].level = Level
  <2>1. l \in Lits
    BY <1>1, StateTypes DEF IInv
  <2>2. /\ Len(trail') = Len(trail) + 1
        /\ \A i \in Positions : trail'[i] = trail[i]
        /\ trail'[Len(trail) + 1] = Entry(l, Level, e.ref)
    BY <1>1, <1>3, <2>1, AssignedKeeps
  <2>3. \A i \in Positions' : i \in Positions \/ i = Len(trail) + 1
    BY <1>1, <2>2 DEF Positions
  <2>4. QED
    BY <1>1, <2>2, <2>3 DEF Positions, Entry
<1>4. QED
  BY <1>2, <1>3, VisitOutcome

LEMMA VisitWatchComplete ==
  ASSUME IInv, CInv, NEW e \in pending, VisitWatch(e)
  PROVE  CInv'
<1>1. /\ pc = "propagate"
      /\ UNCHANGED <<problem, units, control, heap, propagated, variable_count,
                     request, mode, unit_queue, terminated>>
  BY DEF VisitWatch, VisitFrame, callVars, setupVars, countVars
<1>2. /\ \/ pc' = pc /\ pending' = pending \ {e}
         \/ /\ pc' = "conflict" /\ conflict' = e.ref /\ UNCHANGED trail
            /\ \A k \in clauses[e.ref].lits : IsFalse(k)
  BY VisitOutcome
<1>3. /\ NotLit \in Lits /\ e \in watches[NotLit]
      /\ pending \subseteq watches[NotLit]
      /\ e.ref \in Alive /\ e.ref \in Refs
      /\ NotLit \in clauses[e.ref].head
      /\ propagated \in Positions /\ trail[propagated].level = Level
  BY <1>1, Visited DEF IInv, QueueAtLevel
<1>4. /\ Len(clauses') = Len(clauses)
      /\ \A r \in Refs : /\ clauses'[r].lits = clauses[r].lits
                         /\ clauses'[r].alive = clauses[r].alive
  BY VisitDatabase
<1>5. Refs' = Refs /\ Alive' = Alive
  BY <1>4 DEF Refs, Alive
<1>6. /\ \A r \in Refs : clauses'[r].redundant = clauses[r].redundant
      /\ \A r \in Refs : r # e.ref => clauses'[r] = clauses[r]
      /\ \A r \in Refs : clauses'[r].head = {} => clauses[r].head = {}
      /\ clauses'[e.ref].head # {}
      /\ \A r \in Refs : \A l \in clauses'[r].head :
           IsFalse(l) => l \in clauses[r].head
      /\ pc' # pc => UNCHANGED clauses
  <2>1. CASE UNCHANGED clauses
    BY <1>3, <2>1
  <2>2. CASE ~UNCHANGED clauses
    <3> DEFINE other == OtherOf(clauses[e.ref].head, NotLit)
    <3>1. PICK k \in clauses[e.ref].lits :
              /\ ~IsFalse(k) /\ pc' = pc
              /\ \A r \in Refs : /\ clauses'[r].redundant = clauses[r].redundant
                                 /\ r # e.ref => clauses'[r] = clauses[r]
              /\ clauses'[e.ref].head = {other, k}
      BY <2>2, VisitPairs
    <3>2. other \in clauses[e.ref].head
      BY <1>1, Visited
    <3> HIDE DEF other
    <3>3. QED
      BY <3>1, <3>2
  <2>3. QED
    BY <2>1, <2>2
<1>7. /\ Len(trail') \in Nat /\ Len(trail) <= Len(trail')
      /\ \A i \in Positions : i \in Positions' /\ trail'[i] = trail[i]
      /\ \A i \in Positions' : \/ i \in Positions
                               \/ /\ trail'[i].lit \in clauses[e.ref].lits
                                  /\ trail'[i].level = Level
  BY VisitTrail
<1>8. \A t : KeptTo(t)
  BY <1>7, ExtendedKept DEF IInv
<1>9. LongHavePairs'
  BY <1>4, <1>5, <1>6 DEF CInv, LongHavePairs
<1>10. StatedKept'
  <2>1. \A r \in Alive : r \in Refs
    BY DEF Alive
  <2>2. QED
    BY <1>1, <1>4, <1>5, <1>6, <2>1 DEF CInv, StatedKept
<1>11. AllWatched'
  <2>1. \A r \in Alive : r \in Refs
    BY DEF Alive
  <2>2. ASSUME NEW r \in Alive'
        PROVE  /\ \A l \in clauses'[r].head : \E f \in watches'[l] : f.ref = r
               /\ clauses'[r].head = {} => r \in units'
    BY <1>1, <1>5, <1>6, <2>1, VisitLists DEF CInv, AllWatched
  <2>3. QED
    BY <2>2 DEF AllWatched
<1>12. UnitsAssigned'
  <2>1. \A r \in units : r \in Refs
    BY DEF IInv, TypeOK
  <2>2. unit_queue = {} /\ KeptTo(0)
    BY <1>1, <1>8 DEF CInv, UnitsAssigned
  <2>3. QED
    BY <1>1, <1>2, <1>4, <2>1, <2>2, UnitsStay
<1>13. ConflictWatched' /\ LimitsStop'
  BY <1>1, <1>2, <1>3, <1>5, <1>6 DEF CInv, ConflictWatched, LimitsStop
<1>14. HeapComplete'
  BY <1>1, <1>7, HeapStays
<1>15. AssumptionsOpen'
  <2>1. CASE mode = "search"
    BY <1>1, <1>8, <2>1, AssumptionsStay DEF Level
  <2>2. CASE mode # "search"
    BY <1>1, <2>2 DEF AssumptionsOpen
  <2>3. QED
    BY <2>1, <2>2
<1>16. InRange'
  <2>1. \A l \in clauses[e.ref].lits : VarOf(l) <= variable_count
    BY <1>1, <1>3 DEF CInv, InRange
  <2>2. \A i \in Positions' : VarOf(trail'[i].lit) <= variable_count
    BY <1>1, <1>7, <2>1 DEF CInv, InRange
  <2>3. heap' \subseteq 1..variable_count
    BY <1>1 DEF CInv, InRange
  <2>4. \A r \in Alive' : r \in Alive /\ clauses'[r].lits = clauses[r].lits
    BY <1>4, <1>5 DEF Alive
  <2>5. QED
    BY <1>1, <2>2, <2>3, <2>4, RangeStays
<1>17. \A k : IsFalse(k) => IsFalse(k)'
  BY <1>7 DEF IsFalse
<1>18. PropagatedSatisfied'
  <2>1. CASE RefutationAhead
    <3>1. mode = "search" /\ Level = 0 /\ Level' = 0
      BY <1>1, <2>1 DEF RefutationAhead, Level
    <3>2. CASE pc' = "conflict"
      <4>1. \A k \in clauses'[e.ref].lits : IsFalse(k)'
        BY <1>1, <1>2, <1>3, <1>4, <1>17, <3>2
      <4>2. RefutationAhead'
        BY <1>1, <1>3, <1>5, <3>1, <3>2, <4>1 DEF RefutationAhead
      <4>3. QED
        BY <4>2 DEF PropagatedSatisfied
    <3>3. CASE pc' = pc
      <4>1. PICK r \in Alive :
              /\ \A k \in clauses[r].lits : IsFalse(k)
              /\ \E i \in Positions : /\ -trail[i].lit \in clauses[r].head
                                      /\ i > propagated \/ (i = propagated /\ Unread(r))
        BY <1>1, <2>1 DEF RefutationAhead
      <4>2. r # e.ref /\ pending' = pending \ {e}
        BY <3>3, <4>1, VisitSettles
      <4>3. r \in Refs /\ clauses'[r] = clauses[r]
        BY <1>6, <4>2 DEF Alive
      <4>4. Unread(r) => Unread(r)'
        BY <4>2 DEF Unread
      <4>5. PICK i \in Positions : /\ -trail[i].lit \in clauses[r].head
                                   /\ i > propagated \/ (i = propagated /\ Unread(r))
        BY <4>1
      <4>6. /\ \A k \in clauses'[r].lits : IsFalse(k)'
            /\ i \in Positions' /\ -trail'[i].lit \in clauses'[r].head
            /\ i > propagated' \/ (i = propagated' /\ Unread(r)')
        BY <1>1, <1>7, <1>17, <4>1, <4>3, <4>4, <4>5
      <4>7. RefutationAhead'
        BY <1>1, <1>5, <3>1, <4>6 DEF RefutationAhead
      <4>8. QED
        BY <4>7 DEF PropagatedSatisfied
    <3>4. QED
      BY <1>2, <3>2, <3>3
  <2>2. CASE ~RefutationAhead
    <3>1. ASSUME NEW i \in 1..propagated', NEW r \in Alive',
                 -trail'[i].lit \in clauses'[r].head
          PROVE  \/ SatisfiedAt(r, i)'
                 \/ i = propagated' /\ (Unread(r)' \/ pc' = "conflict")
      <4>1. i \in 1..propagated /\ i \in Positions /\ trail'[i] = trail[i]
        BY <1>1, <1>3, <1>7, <3>1 DEF Positions
      <4>2. r \in Alive /\ r \in Refs /\ clauses'[r].lits = clauses[r].lits
        BY <1>4, <1>5 DEF Alive
      <4>3. -trail[i].lit \in clauses[r].head
        <5>1. trail[i].lit \in Lits /\ -(-trail[i].lit) = trail[i].lit
          BY <4>1, StateTypes, Literals DEF IInv
        <5>2. IsFalse(-trail[i].lit)
          BY <4>1, <5>1 DEF IsFalse
        <5>3. QED
          BY <1>6, <3>1, <4>1, <4>2, <5>2
      <4>4. SatisfiedAt(r, i) \/ (i = propagated /\ Unread(r))
        BY <1>1, <2>2, <4>1, <4>2, <4>3 DEF CInv, PropagatedSatisfied
      <4>5. CASE SatisfiedAt(r, i)
        BY <1>8, <4>1, <4>2, <4>5, SatisfiedStays
      <4>6. CASE i = propagated /\ Unread(r) /\ pc' = "conflict"
        BY <1>1, <4>6
      <4>7. CASE i = propagated /\ Unread(r) /\ pc' = pc /\ r # e.ref
        <5>1. PICK f \in pending : f.ref = r
          BY <4>7 DEF Unread
        <5>2. f \in pending' /\ f.ref = r
          BY <1>2, <1>1, <4>7, <5>1
        <5>3. QED
          BY <1>1, <4>7, <5>2 DEF Unread
      <4>8. CASE i = propagated /\ pc' = pc /\ r = e.ref
        <5>1. NotLit \in clauses'[e.ref].head
          BY <3>1, <4>1, <4>8 DEF NotLit
        <5>2. PICK j \in Positions' : trail'[j].lit \in clauses[e.ref].lits
          BY <4>8, <5>1, VisitSettles
        <5>3. trail'[j].level <= Level
          <6>1. CASE j \in Positions
            BY <1>7, <6>1, TrailLevels, StateTypes DEF IInv
          <6>2. CASE j \notin Positions
            BY <1>7, <6>2, StateTypes DEF IInv
          <6>3. QED
            BY <6>1, <6>2
        <5>4. trail'[i].level = Level
          BY <1>3, <4>1, <4>8
        <5>5. QED
          BY <4>2, <4>8, <5>2, <5>3, <5>4 DEF SatisfiedAt
      <4>9. QED
        BY <1>2, <4>4, <4>5, <4>6, <4>7, <4>8
    <3>2. QED
      BY <3>1 DEF PropagatedSatisfied
  <2>3. QED
    BY <2>1, <2>2
<1>19. QED
  BY <1>9, <1>10, <1>11, <1>12, <1>13, <1>14, <1>15, <1>16, <1>18 DEF CInv

-----------------------------------------------------------------------------
(* Conflicts and the steps that undo levels.                               *)

\* At a conflict what lies below the current level has been propagated for good.
LEMMA BelowSatisfied ==
  ASSUME IInv, CInv, pc \in {"conflict", "analyze", "learn"}, ~RefutationAhead,
         NEW i \in Positions, trail[i].level < Level,
         NEW r \in Alive, -trail[i].lit \in clauses[r].head
  PROVE  SatisfiedAt(r, i)
<1>1. /\ i > propagated => trail[i].level = Level
      /\ propagated \in Positions /\ trail[propagated].level = Level
  BY DEF IInv, QueueAtLevel
<1>2. trail[i].level # Level
  BY StateTypes DEF IInv
<1>3. i \in 1..propagated /\ i # propagated
  BY <1>1, <1>2 DEF Positions
<1>4. QED
  BY <1>3 DEF CInv, PropagatedSatisfied

\* The clause of a conflict watches two literals, falsified no earlier than
\* the literal in propagation.
LEMMA ConflictBeyond ==
  ASSUME IInv, CInv, pc = "conflict", ~RefutationAhead
  PROVE  \E a, b \in clauses[conflict].lits, i, j \in Positions :
           /\ a # b /\ clauses[conflict].head = {a, b} /\ i # j
           /\ trail[i].lit = -a /\ trail[j].lit = -b
           /\ i >= propagated /\ j >= propagated
<1>1. /\ conflict \in Alive /\ conflict \in Refs /\ clauses[conflict].head # {}
      /\ \A k \in clauses[conflict].lits : IsFalse(k) /\ k \in Lits
  BY StateTypes DEF IInv, CInv, ConflictWatched, ConflictFalsified
<1>2. PICK a, b \in clauses[conflict].lits : a # b /\ clauses[conflict].head = {a, b}
  BY <1>1 DEF IInv, PairsAndUnits
<1>3. PICK i \in Positions : trail[i].lit = -a
  BY <1>1 DEF IsFalse
<1>4. PICK j \in Positions : trail[j].lit = -b
  BY <1>1 DEF IsFalse
<1>5. a \in Lits /\ b \in Lits /\ -(-a) = a /\ -(-b) = b
  BY <1>1, Literals
<1>6. i # j
  BY <1>2, <1>3, <1>4, <1>5
<1>7. ASSUME NEW p \in Positions, -trail[p].lit \in clauses[conflict].head
      PROVE  p >= propagated
  <2> SUFFICES ASSUME p < propagated PROVE FALSE
    BY DEF Positions, IInv, TypeOK
  <2>1. p \in 1..propagated /\ p # propagated
    BY DEF Positions, IInv, TypeOK
  <2>2. SatisfiedAt(conflict, p)
    <3>1. \A r \in Alive : -trail[p].lit \in clauses[r].head => SatisfiedAt(r, p)
      BY <2>1 DEF CInv, PropagatedSatisfied
    <3>2. QED
      BY <1>1, <1>7, <3>1
  <2>3. PICK q \in Positions : trail[q].lit \in clauses[conflict].lits
    BY <2>2 DEF SatisfiedAt
  <2>4. IsTrue(trail[q].lit) /\ IsFalse(trail[q].lit) /\ trail[q].lit \in Lits
    BY <1>1, <2>3 DEF IsTrue
  <2>5. QED
    BY <2>4, OneValue DEF IInv
<1>8. i >= propagated /\ j >= propagated
  BY <1>2, <1>3, <1>4, <1>5, <1>7
<1>9. QED
  BY <1>2, <1>3, <1>4, <1>6, <1>8

\* Back to the root, for another lucky attempt or for the search.
LEMMA HandOverComplete ==
  ASSUME IInv, CInv, mode = "lucky", pc \in {"propagate", "conflict"},
         trail' = TrailAt(0), control' = ControlAt(0), heap' = HeapAt(0),
         \/ StartUnits("search", units)
         \/ pc' = "propagate" /\ UNCHANGED <<mode, unit_queue>>,
         PropagatedSatisfied', LimitsStop',
         UNCHANGED <<problem, clauses, watches, units, variable_count, request>>
  PROVE  CInv'
<1>1. /\ 0 \in 0..Level
      /\ pc' \in {"units", "propagate"}
      /\ pc' # "units" => unit_queue' = {}
      /\ unit_queue' = units \/ unit_queue' = unit_queue
      /\ unit_queue = {}
  BY StateTypes DEF IInv, CInv, UnitsAssigned, StartUnits
<1>2. LongHavePairs' /\ StatedKept' /\ AllWatched' /\ ConflictWatched'
  BY <1>1, DatabaseStays, ListsStay DEF ConflictWatched
<1>3. /\ KeptTo(0)
      /\ \A i \in Positions' : i \in Positions /\ trail'[i] = trail[i]
  BY <1>1, CutKept DEF IInv, Positions
<1>4. UnitsAssigned'
  BY <1>1, <1>3, UnitsStay
<1>5. HeapComplete' /\ heap' \subseteq 1..variable_count
  <2>1. heap' = (heap \ {}) \cup
                 {VarOf(trail[i].lit) : i \in Len(TrailAt(0)) + 1 .. Len(trail)}
    BY DEF HeapAt
  <2>2. {} \in SUBSET {v \in heap : ~Unassigned(v)}
    OBVIOUS
  <2>3. QED
    BY <1>1, <2>1, <2>2, HandedBack
<1>6. AssumptionsOpen'
  BY NothingAssumed
<1>7. InRange'
  <2>1. \A i \in Positions' : VarOf(trail'[i].lit) <= variable_count
    BY <1>3 DEF CInv, InRange
  <2>2. Alive' = Alive
    BY DEF Alive, Refs
  <2>3. QED
    BY <1>5, <2>1, <2>2, RangeStays
<1>8. QED
  BY <1>2, <1>4, <1>5, <1>6, <1>7 DEF CInv

LEMMA LuckyFailsComplete ==
  ASSUME IInv, CInv, LuckyFails
  PROVE  CInv'
<1>1. /\ pc = "conflict" /\ mode = "lucky"
      /\ trail' = TrailAt(0) /\ control' = ControlAt(0) /\ heap' = HeapAt(0)
      /\ propagated' = IF Level = 0 THEN propagated ELSE Len(TrailAt(0))
      /\ UNCHANGED <<problem, clauses, watches, units, pending, variable_count,
                     request, terminated>>
  BY DEF LuckyFails, callVars, dbVars, setupVars, countVars
<1>2. \/ StartUnits("search", units)
      \/ Level > 0 /\ pc' = "propagate" /\ UNCHANGED <<mode, unit_queue>>
  BY DEF LuckyFails
<1>3. pc' \in {"units", "propagate"}
  BY <1>2 DEF StartUnits
<1>4. ~RefutationAhead
  BY <1>1 DEF RefutationAhead
<1>5. 0 \in 0..Level /\ Level \in Nat /\ Alive' = Alive
  BY <1>1, StateTypes DEF IInv, Alive, Refs
<1>6. PropagatedSatisfied'
  <2>1. CASE Level > 0
    <3>1. ASSUME NEW i \in 1..propagated', NEW r \in Alive', -trail'[i].lit \in clauses'[r].head
          PROVE  SatisfiedAt(r, i)'
      <4>1. /\ i \in Positions /\ trail'[i] = trail[i] /\ trail[i].level <= 0
            /\ KeptTo(0)
        BY <1>1, <1>5, <2>1, CutKept DEF IInv
      <4>2. trail[i].level = 0 /\ trail[i].level < Level
        BY <2>1, <4>1, StateTypes DEF IInv
      <4>3. SatisfiedAt(r, i)
        BY <1>1, <1>4, <1>5, <3>1, <4>1, <4>2, BelowSatisfied
      <4>4. QED
        BY <1>1, <4>1, <4>2, <4>3, SatisfiedStays
    <3>2. QED
      BY <3>1 DEF PropagatedSatisfied
  <2>2. CASE Level = 0
    <3>1. /\ trail' = trail /\ control' = control /\ propagated' = propagated
          /\ mode' = "search"
      BY <1>1, <1>2, <2>2 DEF TrailAt, ControlAt, StartUnits
    <3>2. PICK a, b \in clauses[conflict].lits, i, j \in Positions :
           /\ a # b /\ clauses[conflict].head = {a, b} /\ i # j
           /\ trail[i].lit = -a /\ trail[j].lit = -b
           /\ i >= propagated /\ j >= propagated
      BY <1>1, <1>4, ConflictBeyond
    <3>3. conflict \in Alive /\ conflict \in Refs
          /\ \A k \in clauses[conflict].lits : IsFalse(k) /\ k \in Lits
      BY <1>1, StateTypes DEF IInv, CInv, ConflictWatched, ConflictFalsified
    <3>4. -trail[i].lit = a /\ -trail[j].lit = b
      BY <3>2, <3>3, Literals
    <3>5. \E p \in Positions : -trail[p].lit \in clauses[conflict].head /\ p > propagated
      <4>1. i \in Nat /\ j \in Nat /\ propagated \in Nat
        BY DEF Positions, IInv, TypeOK
      <4>2. i > propagated \/ j > propagated
        BY <3>2, <4>1
      <4>3. QED
        BY <3>2, <3>4, <4>2
    <3>6. /\ \A k : IsFalse(k)' <=> IsFalse(k)
          /\ Positions' = Positions /\ Level' = 0
      BY <2>2, <3>1 DEF IsFalse, Positions, Level
    <3>7. \E r \in Alive' :
            /\ \A k \in clauses'[r].lits : IsFalse(k)'
            /\ \E p \in Positions' : -trail'[p].lit \in clauses'[r].head /\ p > propagated'
      BY <1>1, <1>5, <3>1, <3>3, <3>5, <3>6
    <3>8. RefutationAhead'
      BY <3>1, <3>6, <3>7 DEF RefutationAhead
    <3>9. QED
      BY <3>8 DEF PropagatedSatisfied
  <2>3. QED
    BY <1>5, <2>1, <2>2
<1>7. LimitsStop'
  BY <1>1 DEF CInv, LimitsStop
<1>8. QED
  BY <1>1, <1>2, <1>6, <1>7, HandOverComplete

\* What NoteDecision counts ends an episode only under a limit.
LEMMA DecisionLimit ==
  ASSUME CInv, pc # "idle", NoteDecision, UNCHANGED request
  PROVE  LimitsStop'
BY DEF CInv, LimitsStop, NoteDecision

\* A decision on an unassigned variable of the episode.
LEMMA DecisionComplete ==
  ASSUME IInv, CInv, Fixpoint, pc' = "propagate",
         NEW l \in Lits, VarOf(l) <= variable_count,
         control' = Append(control, Frame(l)),
         trail' = Append(trail, Entry(l, Level + 1, 0)),
         mode = "search" /\ Level + 1 <= Len(request.assumptions) =>
           l = request.assumptions[Level + 1],
         heap' \subseteq heap,
         \A v \in heap \ heap' : ~Unassigned(v) \/ v = VarOf(l),
         LimitsStop',
         UNCHANGED <<problem, clauses, watches, units, propagated, variable_count,
                     request, mode, unit_queue>>
  PROVE  CInv'
<1>1. pc = "propagate" /\ pending = {} /\ propagated = Len(trail)
  BY DEF Fixpoint
<1>2. /\ Len(trail) \in Nat /\ Level \in Nat /\ Level' = Level + 1
      /\ Len(trail') = Len(trail) + 1
      /\ \A i \in Positions : trail'[i] = trail[i]
      /\ trail'[Len(trail) + 1].lit = l
      /\ trail'[Len(trail) + 1].level = Level + 1
  <2> DEFINE en == Entry(l, Level + 1, 0)
  <2>1. trail \in Seq(TrailEntry) /\ control \in Seq(ControlFrame)
        /\ Len(trail) \in Nat /\ Level \in Nat
    BY StateTypes DEF IInv, TypeOK
  <2>2. en.lit = l /\ en.level = Level + 1
    BY DEF Entry
  <2>3. Level' = Level + 1
    BY <2>1 DEF Level
  <2> HIDE DEF en
  <2>4. trail' = Append(trail, en)
    BY DEF en
  <2>5. /\ Len(trail') = Len(trail) + 1
        /\ \A i \in 1..Len(trail) : trail'[i] = trail[i]
        /\ trail'[Len(trail) + 1] = en
    BY <2>1, <2>4
  <2>6. QED
    BY <2>1, <2>2, <2>3, <2>5 DEF Positions
<1>3. /\ \A i \in Positions : i \in Positions' /\ trail'[i] = trail[i]
      /\ Len(trail) + 1 \in Positions'
      /\ \A i \in Positions' : i \in Positions \/ trail'[i].lit = l
  BY <1>2 DEF Positions
<1>4. \A t : KeptTo(t)
  <2>1. Len(trail') \in Nat /\ Len(trail) <= Len(trail')
    BY <1>2
  <2>2. \A i \in Positions : trail'[i] = trail[i]
    BY <1>2
  <2>3. QED
    BY <2>1, <2>2, ExtendedKept DEF IInv
<1>5. LongHavePairs' /\ StatedKept' /\ AllWatched' /\ ConflictWatched'
  BY <1>1, DatabaseStays, ListsStay DEF ConflictWatched
<1>6. UnitsAssigned'
  BY <1>1, <1>4, UnitsStay DEF CInv, UnitsAssigned
<1>7. PropagatedSatisfied'
  <2>1. \A i \in 1..propagated' : i \in Positions /\ trail'[i] = trail[i]
    BY <1>1, <1>2 DEF Positions
  <2>2. Alive' = Alive
    BY DEF Alive, Refs
  <2>3. QED
    BY <1>4, <2>1, <2>2, FixpointKept
<1>8. HeapComplete'
  <2>1. ASSUME NEW v \in heap \ heap' PROVE ~Unassigned(v)'
    <3>1. CASE ~Unassigned(v)
      BY <1>3, <3>1 DEF Unassigned, IsTrue, IsFalse
    <3>2. CASE v = VarOf(l)
      <4>1. l = v \/ l = -v
        BY <3>2, NumVarsAssumption DEF VarOf, Lits
      <4>2. QED
        BY <1>2, <1>3, <4>1 DEF Unassigned, IsTrue, IsFalse
    <3>3. QED
      BY <3>1, <3>2
  <2>2. QED
    BY <1>1, <1>3, <2>1, HeapStays
<1>9. AssumptionsOpen'
  <2>1. CASE mode # "search"
    BY <2>1 DEF AssumptionsOpen
  <2>2. CASE mode = "search"
    <3>1. ASSUME NEW k \in 1..Len(request.assumptions), k <= Level'
          PROVE  \E i \in Positions' : /\ trail'[i].lit = request.assumptions[k]
                                       /\ trail'[i].level <= k
      <4>1. CASE k <= Level
        <5>1. PICK i \in Positions : trail[i].lit = request.assumptions[k] /\ trail[i].level <= k
          BY <1>1, <2>2, <4>1 DEF CInv, AssumptionsOpen
        <5>2. QED
          BY <1>3, <5>1
      <4>2. CASE k = Level + 1
        <5>1. Len(request.assumptions) \in Nat
          BY LenProperties DEF IInv, TypeOK, SolveCalls
        <5>2. l = request.assumptions[k]
          BY <2>2, <4>2, <5>1
        <5>3. QED
          BY <1>2, <1>3, <4>2, <5>2
      <4>3. k <= Level \/ k = Level + 1
        <5>1. Len(request.assumptions) \in Nat
          BY LenProperties DEF IInv, TypeOK, SolveCalls
        <5>2. QED
          BY <1>2, <3>1, <5>1
      <4>4. QED
        BY <4>1, <4>2, <4>3
    <3>2. QED
      BY <3>1 DEF AssumptionsOpen
  <2>3. QED
    BY <2>1, <2>2
<1>10. InRange'
  <2>1. \A i \in Positions' : VarOf(trail'[i].lit) <= variable_count
    BY <1>1, <1>3 DEF CInv, InRange
  <2>2. Alive' = Alive /\ heap' \subseteq 1..variable_count
    BY <1>1 DEF Alive, Refs, CInv, InRange
  <2>3. QED
    BY <1>1, <2>1, <2>2, RangeStays
<1>11. QED
  BY <1>5, <1>6, <1>7, <1>8, <1>9, <1>10 DEF CInv

LEMMA LuckyDecideComplete ==
  ASSUME IInv, CInv, LuckyDecide
  PROVE  CInv'
<1>1. /\ Fixpoint /\ mode = "lucky" /\ Free # {} /\ NoteDecision
      /\ pc = "propagate" /\ pending = {} /\ propagated = Len(trail)
      /\ UNCHANGED <<problem, clauses, watches, units, pending,
                     variable_count, request>>
  BY DEF LuckyDecide, Fixpoint, callVars, dbVars, setupVars
<1>2. LimitsStop'
  BY <1>1, DecisionLimit
<1>3. CASE Backtrack(0) /\ StartUnits("search", units)
  <2>1. /\ trail' = TrailAt(0) /\ control' = ControlAt(0) /\ heap' = HeapAt(0)
        /\ propagated' = PropagatedAt(0)
    BY <1>3 DEF Backtrack
  <2>2. 0 \in 0..Level /\ Alive' = Alive
    BY <1>1, StateTypes DEF IInv, Alive, Refs
  <2>3. /\ Len(TrailAt(0)) \in Nat /\ Len(TrailAt(0)) <= Len(trail) /\ KeptTo(0)
        /\ \A i \in 1..Len(TrailAt(0)) :
             i \in Positions /\ trail'[i] = trail[i] /\ trail[i].level <= 0
    BY <2>1, <2>2, CutKept DEF IInv
  <2>4. propagated' = Len(TrailAt(0))
    BY <1>1, <2>1, <2>3, StateTypes DEF IInv, PropagatedAt
  <2>5. \A i \in 1..propagated' : /\ i \in Positions
                                  /\ trail'[i] = trail[i]
                                  /\ KeptTo(trail[i].level)
    <3>1. \A i \in 1..propagated' : i \in Positions /\ trail[i].level = 0
      BY <2>3, <2>4, StateTypes DEF IInv
    <3>2. QED
      BY <2>3, <2>4, <3>1
  <2>6. PropagatedSatisfied'
    BY <1>1, <2>2, <2>5, FixpointKept
  <2>7. QED
    BY <1>1, <1>2, <1>3, <2>1, <2>6, HandOverComplete
<1>4. CASE /\ control' = Append(control, Frame(LuckyLit))
           /\ trail' = Append(trail, Entry(LuckyLit, Level + 1, 0))
           /\ UNCHANGED <<heap, propagated, mode, pc, unit_queue>>
  <2>1. LuckyVar \in Free
    <3>1. variable_count \in Nat
      BY NumVarsAssumption DEF IInv, TypeOK
    <3>2. Free \in SUBSET Nat /\ Free \in SUBSET (0..variable_count)
      BY <3>1 DEF Free
    <3>3. CASE strategy < 2
      <4>1. \E v \in Free : \A u \in Free : v <= u
        BY <1>1, <3>2, Least
      <4>2. QED
        BY <3>3, <4>1 DEF LuckyVar
    <3>4. CASE ~(strategy < 2)
      <4>1. \E v \in Free : \A u \in Free : u <= v
        BY <1>1, <3>1, <3>2, Greatest
      <4>2. \E v \in Free : \A u \in Free : v >= u
        BY <3>2, <4>1
      <4>3. QED
        BY <3>4, <4>2 DEF LuckyVar
    <3>5. QED
      BY <3>3, <3>4
  <2>2. LuckyVar \in Vars /\ LuckyVar <= variable_count /\ Unassigned(LuckyVar)
    BY <2>1, NumVarsAssumption DEF Free, IInv, TypeOK, Vars
  <2>3. LuckyLit \in Lits
    BY <2>2, UnassignedLit DEF IInv, LuckyLit
  <2>4. VarOf(LuckyLit) <= variable_count
    <3>1. LuckyVar \in Nat /\ LuckyVar > 0
      BY <2>2, NumVarsAssumption DEF Vars
    <3>2. VarOf(LuckyLit) = LuckyVar
      BY <3>1 DEF VarOf, LuckyLit
    <3>3. QED
      BY <2>2, <3>2
  <2>5. pc' = "propagate" /\ heap' = heap /\ ~(mode = "search")
    BY <1>1, <1>4
  <2>6. QED
    BY <1>1, <1>2, <1>4, <2>3, <2>4, <2>5, DecisionComplete
<1>5. QED
  BY <1>3, <1>4 DEF LuckyDecide

\* An assumption that holds already: its level is opened, and it was assigned
\* no later than the level before.
LEMMA OpenPlaceholderComplete ==
  ASSUME IInv, CInv, OpenPlaceholder
  PROVE  CInv'
<1>1. /\ Fixpoint /\ pc = "propagate" /\ pc' = "propagate"
      /\ mode = "search" /\ mode' = "search" /\ Level < Len(request.assumptions)
      /\ IsTrue(NextAssumption)
      /\ control' = Append(control, Frame(0))
      /\ UNCHANGED <<problem, clauses, watches, units, trail, heap, propagated,
                     pending, variable_count, request, mode, unit_queue, terminated>>
  BY DEF OpenPlaceholder, AssumptionDue, SearchFixpoint, Fixpoint, OpenFrame,
         callVars, dbVars, propVars, setupVars, countVars
<1>2. /\ Positions' = Positions /\ Alive' = Alive /\ propagated' = Len(trail)
      /\ Len(trail) \in Nat /\ Level \in Nat /\ Level' = Level + 1
  <2>1. control \in Seq(ControlFrame) /\ Level \in Nat /\ Len(trail) \in Nat
    BY StateTypes DEF IInv, TypeOK
  <2>2. Level' = Level + 1
    BY <1>1, <2>1 DEF Level
  <2>3. QED
    BY <1>1, <2>1, <2>2 DEF Positions, Alive, Refs, Fixpoint
<1>3. \A t : KeptTo(t)
  BY <1>1, <1>2 DEF KeptTo
<1>4. LongHavePairs' /\ StatedKept' /\ AllWatched' /\ ConflictWatched'
  BY <1>1, DatabaseStays, ListsStay DEF ConflictWatched
<1>5. UnitsAssigned'
  BY <1>1, <1>3, UnitsStay DEF CInv, UnitsAssigned
<1>6. PropagatedSatisfied'
  <2>1. \A i \in 1..propagated' : i \in Positions /\ trail'[i] = trail[i]
    BY <1>1, <1>2 DEF Positions
  <2>2. QED
    BY <1>1, <1>2, <1>3, <2>1, FixpointKept
<1>7. HeapComplete' /\ InRange' /\ LimitsStop'
  BY <1>1, <1>2 DEF CInv, HeapComplete, InRange, LimitsStop, Unassigned, IsTrue, IsFalse
<1>8. AssumptionsOpen'
  <2>1. ASSUME NEW k \in 1..Len(request.assumptions), k <= Level'
        PROVE  \E i \in Positions : /\ trail[i].lit = request.assumptions[k]
                                    /\ trail[i].level <= k
    <3>1. CASE k <= Level
      BY <1>1, <2>1, <3>1 DEF CInv, AssumptionsOpen
    <3>2. CASE k = Level + 1
      <4>1. PICK i \in Positions : trail[i].lit = NextAssumption
        BY <1>1 DEF IsTrue
      <4>2. trail[i].level \in 0..Level
        BY TrailLevels DEF IInv
      <4>3. trail[i].lit = request.assumptions[k] /\ trail[i].level <= k
        BY <1>2, <3>2, <4>1, <4>2 DEF NextAssumption
      <4>4. QED
        BY <4>3
    <3>3. k <= Level \/ k = Level + 1
      <4>1. Len(request.assumptions) \in Nat
        BY LenProperties DEF IInv, TypeOK, SolveCalls
      <4>2. QED
        BY <1>2, <2>1, <4>1
    <3>4. QED
      BY <3>1, <3>2, <3>3
  <2>2. QED
    BY <1>1, <1>2, <2>1 DEF AssumptionsOpen
<1>9. QED
  BY <1>4, <1>5, <1>6, <1>7, <1>8 DEF CInv

LEMMA OpenAssumptionComplete ==
  ASSUME IInv, CInv, OpenAssumption
  PROVE  CInv'
<1>1. /\ Fixpoint /\ pc' = "propagate"
      /\ mode = "search" /\ Level < Len(request.assumptions)
      /\ control' = Append(control, Frame(NextAssumption))
      /\ trail' = Append(trail, Entry(NextAssumption, Level + 1, 0))
      /\ UNCHANGED <<problem, clauses, watches, units, heap, propagated,
                     variable_count, request, mode, unit_queue, terminated>>
  BY DEF OpenAssumption, AssumptionDue, SearchFixpoint, Fixpoint, OpenFrame,
         callVars, dbVars, propVars, setupVars, countVars
<1>2. NextAssumption \in Lits
  BY <1>1, NextAssumptionIsLit DEF IInv
<1>3. VarOf(NextAssumption) <= variable_count
  <2>1. Level + 1 \in 1..Len(request.assumptions)
    <3>1. Len(request.assumptions) \in Nat /\ Level \in Nat
      BY LenProperties, StateTypes DEF IInv, TypeOK, SolveCalls
    <3>2. QED
      BY <1>1, <3>1
  <2>2. QED
    BY <1>1, <2>1 DEF CInv, InRange, NextAssumption, Fixpoint
<1>4. LimitsStop'
  BY <1>1 DEF CInv, LimitsStop, Fixpoint
<1>5. heap' \subseteq heap /\ heap \ heap' = {}
  BY <1>1
<1>6. NextAssumption = request.assumptions[Level + 1]
  BY DEF NextAssumption
<1>7. QED
  BY <1>1, <1>2, <1>3, <1>4, <1>5, <1>6, DecisionComplete

LEMMA DecideComplete ==
  ASSUME IInv, CInv, Decide
  PROVE  CInv'
<1>0. PICK v \in {u \in heap : Unassigned(u)},
           popped \in SUBSET {u \in heap : ~Unassigned(u)} :
             /\ heap' = heap \ (popped \cup {v})
             /\ \E l \in {v, -v} :
                  /\ control' = Append(control, Frame(l))
                  /\ trail' = Append(trail, Entry(l, Level + 1, 0))
  BY DEF Decide
<1>1. PICK l \in {v, -v} :
        /\ control' = Append(control, Frame(l))
        /\ trail' = Append(trail, Entry(l, Level + 1, 0))
  BY <1>0
<1>2. /\ Fixpoint /\ pc = "propagate" /\ NoteDecision
      /\ Level >= Len(request.assumptions)
      /\ UNCHANGED <<problem, clauses, watches, units, propagated,
                     variable_count, request, mode, unit_queue>>
  BY DEF Decide, DecisionDue, SearchOn, SearchFixpoint, Fixpoint,
         callVars, dbVars, propVars, setupVars
<1>3. pc' = "propagate" \/ pc' = "idle"
  BY <1>2 DEF Decide, Finish
<1>4. CASE pc' = "idle"
  BY <1>2, <1>4, EndKeeps
<1>5. CASE pc' = "propagate"
  <2>1. v \in Vars /\ Unassigned(v) /\ v <= variable_count /\ v \in Nat /\ v > 0
    <3>1. v \in 1..variable_count /\ v \in Vars
      BY <1>2 DEF IInv, TypeOK, CInv, InRange
    <3>2. QED
      BY <3>1, NumVarsAssumption DEF Vars, IInv, TypeOK
  <2>2. l \in Lits
    BY <2>1, UnassignedLit DEF IInv
  <2>3. VarOf(l) = v
    BY <2>1 DEF VarOf
  <2>4. ~(Level + 1 <= Len(request.assumptions))
    <3>1. Len(request.assumptions) \in Nat /\ Level \in Nat
      BY LenProperties, StateTypes DEF IInv, TypeOK, SolveCalls
    <3>2. QED
      BY <1>2, <3>1
  <2>5. LimitsStop'
    BY <1>2, DecisionLimit
  <2>6. heap' \subseteq heap /\ \A u \in heap \ heap' : ~Unassigned(u) \/ u = VarOf(l)
    BY <1>0, <2>3
  <2>7. QED
    BY <1>1, <1>2, <1>5, <2>1, <2>2, <2>3, <2>4, <2>5, <2>6, DecisionComplete
<1>6. QED
  BY <1>3, <1>4, <1>5

\* A restart keeps the assumption levels, and a decision level only as a whole.
LEMMA RestartComplete ==
  ASSUME IInv, CInv, Restart
  PROVE  CInv'
<1>0. PICK reuse \in Len(request.assumptions)..Level,
           popped \in SUBSET {v \in heap : ~Unassigned(v)} :
             /\ trail' = TrailAt(reuse)
             /\ control' = ControlAt(reuse)
             /\ propagated' = PropagatedAt(reuse)
             /\ heap' = (heap \ popped) \cup
                  {VarOf(trail[i].lit) : i \in Len(TrailAt(reuse)) + 1 .. Len(trail)}
  BY DEF Restart
<1>1. /\ Fixpoint /\ pc = "propagate" /\ pc' = "propagate" /\ propagated = Len(trail)
      /\ mode = "search"
      /\ UNCHANGED <<problem, clauses, watches, units, pending, variable_count,
                     request, mode, unit_queue, terminated>>
  BY DEF Restart, SearchOn, SearchFixpoint, Fixpoint, RestartFrame,
         callVars, dbVars, setupVars
<1>2. reuse \in 0..Level /\ Level' = reuse /\ Len(request.assumptions) \in Nat
      /\ Level \in Nat
  <2>1. Len(request.assumptions) \in Nat /\ Level \in Nat
    BY LenProperties, StateTypes DEF IInv, TypeOK, SolveCalls
  <2>2. reuse \in 0..Level
    BY <2>1
  <2>3. QED
    BY <1>0, <2>1, <2>2, Backtracked DEF IInv, Level
<1>3. /\ \A u \in 0..reuse : KeptTo(u)
      /\ Len(TrailAt(reuse)) \in Nat /\ Len(TrailAt(reuse)) <= Len(trail)
      /\ \A i \in 1..Len(TrailAt(reuse)) :
           i \in Positions /\ trail'[i] = trail[i] /\ trail[i].level <= reuse
  BY <1>0, <1>2, CutKept DEF IInv
<1>4. propagated' = Len(TrailAt(reuse)) /\ Positions' = 1..Len(TrailAt(reuse))
  BY <1>0, <1>1, <1>3, StateTypes DEF IInv, PropagatedAt, Positions
<1>5. LongHavePairs' /\ StatedKept' /\ AllWatched' /\ ConflictWatched'
  BY <1>1, DatabaseStays, ListsStay DEF ConflictWatched
<1>6. UnitsAssigned'
  <2>1. KeptTo(0)
    BY <1>2, <1>3
  <2>2. QED
    BY <1>1, <2>1, UnitsStay DEF CInv, UnitsAssigned
<1>7. PropagatedSatisfied'
  <2>1. ASSUME NEW i \in 1..propagated'
        PROVE  i \in Positions /\ trail'[i] = trail[i] /\ KeptTo(trail[i].level)
    <3>1. i \in Positions /\ trail'[i] = trail[i] /\ trail[i].level <= reuse
      BY <1>3, <1>4, <2>1
    <3>2. trail[i].level \in 0..reuse
      BY <1>2, <3>1, StateTypes DEF IInv
    <3>3. QED
      BY <1>3, <3>1, <3>2
  <2>2. Alive' = Alive
    BY <1>1 DEF Alive, Refs
  <2>3. QED
    BY <1>1, <2>1, <2>2, FixpointKept
<1>8. HeapComplete' /\ heap' \subseteq 1..variable_count
  BY <1>0, <1>1, <1>2, HandedBack
<1>9. AssumptionsOpen'
  <2>1. \A t \in 0..Level' : KeptTo(t)
    BY <1>2, <1>3
  <2>2. \A k \in 1..Len(request.assumptions) : k <= Level' => k <= Level
    BY <1>2
  <2>3. QED
    BY <1>1, <2>1, <2>2, AssumptionsStay
<1>10. InRange'
  <2>1. \A i \in Positions' : VarOf(trail'[i].lit) <= variable_count
    BY <1>1, <1>3, <1>4 DEF CInv, InRange
  <2>2. Alive' = Alive
    BY <1>1 DEF Alive, Refs
  <2>3. QED
    BY <1>1, <1>8, <2>1, <2>2, RangeStays
<1>11. LimitsStop'
  BY <1>1 DEF CInv, LimitsStop
<1>12. QED
  BY <1>5, <1>6, <1>7, <1>8, <1>9, <1>10, <1>11 DEF CInv

\* A reduction takes learned clauses only, each with its entries.
LEMMA ReduceComplete ==
  ASSUME IInv, CInv, Reduce
  PROVE  CInv'
<1>0. PICK victims \in SUBSET Reducible :
        /\ clauses' = [r \in Refs |-> [clauses[r] EXCEPT !.alive = @ /\ r \notin victims]]
        /\ watches' = Flushed(victims)
        /\ units' = units \ victims
  BY DEF Reduce
<1>1. /\ Fixpoint /\ pc = "propagate" /\ pc' = "propagate" /\ propagated = Len(trail)
      /\ UNCHANGED <<problem, trail, control, heap, propagated, pending,
                     variable_count, request, mode, unit_queue, terminated>>
  BY DEF Reduce, SearchOn, SearchFixpoint, Fixpoint,
         callVars, trailVars, propVars, setupVars
<1>2. Len(clauses) \in Nat /\ \A r \in Refs : clauses[r] \in Clause
  BY StateTypes DEF IInv
<1>3. \A r \in Refs : /\ clauses'[r].lits = clauses[r].lits
                      /\ clauses'[r].head = clauses[r].head
                      /\ clauses'[r].redundant = clauses[r].redundant
                      /\ clauses'[r].alive = (clauses[r].alive /\ r \notin victims)
  <2>1. ASSUME NEW r \in Refs, NEW c \in Clause, c = clauses[r]
        PROVE  LET c2 == [c EXCEPT !.alive = @ /\ r \notin victims] IN
               /\ c2.lits = c.lits /\ c2.head = c.head
               /\ c2.redundant = c.redundant
               /\ c2.alive = (c.alive /\ r \notin victims)
    BY DEF Clause
  <2>2. QED
    BY <1>0, <1>2, <2>1
<1>4. Refs' = Refs /\ Alive' = Alive \ victims
  <2>1. DOMAIN clauses' = 1..Len(clauses)
    BY <1>0 DEF Refs
  <2>2. clauses' \in [1..Len(clauses) -> {clauses'[r] : r \in Refs}]
    BY <1>0 DEF Refs
  <2>3. Len(clauses') = Len(clauses)
    BY <1>2, <2>2, SeqDef, LenProperties
  <2>4. QED
    BY <1>3, <2>3 DEF Refs, Alive
<1>5. \A l \in Lits : watches'[l] = {e \in watches[l] : e.ref \notin victims}
  BY <1>0 DEF Flushed
<1>6. LongHavePairs'
  BY <1>3, <1>4 DEF CInv, LongHavePairs
<1>7. AllWatched'
  <2>1. ASSUME NEW r \in Alive', NEW l \in clauses'[r].head
        PROVE  \E e \in watches'[l] : e.ref = r
    <3>1. r \in Alive /\ r \notin victims /\ r \in Refs /\ l \in clauses[r].head
      BY <1>3, <1>4, <2>1 DEF Alive
    <3>2. PICK e \in watches[l] : e.ref = r
      BY <1>1, <3>1 DEF CInv, AllWatched
    <3>3. l \in Lits
      BY <3>1, StateTypes DEF IInv
    <3>4. QED
      BY <1>5, <3>1, <3>2, <3>3
  <2>2. ASSUME NEW r \in Alive', clauses'[r].head = {} PROVE r \in units'
    <3>1. r \in Alive /\ r \notin victims /\ clauses[r].head = {}
      BY <1>3, <1>4, <2>2 DEF Alive
    <3>2. QED
      BY <1>0, <1>1, <3>1 DEF CInv, AllWatched
  <2>3. QED
    BY <2>1, <2>2 DEF AllWatched
<1>8. \A t : KeptTo(t)
  BY <1>1 DEF KeptTo, Positions
<1>9. UnitsAssigned'
  <2>1. \A r \in units' : r \in units /\ r \in Refs
    BY <1>0 DEF IInv, TypeOK
  <2>2. QED
    BY <1>1, <1>3, <1>8, <2>1, UnitsStay DEF CInv, UnitsAssigned
<1>10. ConflictWatched'
  BY <1>1 DEF ConflictWatched
<1>11. PropagatedSatisfied'
  <2>1. \A i \in 1..propagated' : i \in Positions /\ trail'[i] = trail[i]
    BY <1>1 DEF Positions
  <2>2. \A r \in Alive' : /\ r \in Alive
                          /\ clauses'[r].lits = clauses[r].lits
                          /\ clauses'[r].head = clauses[r].head
    BY <1>3, <1>4 DEF Alive
  <2>3. QED
    BY <1>1, <1>8, <2>1, <2>2, FixpointKept
<1>12. HeapComplete' /\ AssumptionsOpen' /\ LimitsStop'
  BY <1>1 DEF CInv, HeapComplete, AssumptionsOpen, LimitsStop, Unassigned, IsTrue,
              IsFalse, Positions, Level
<1>13. StatedKept'
  <2>1. ASSUME NEW c \in problem, NEW r \in Alive, clauses[r].lits = c, ~clauses[r].redundant
        PROVE  r \in Alive' /\ clauses'[r].lits = c /\ ~clauses'[r].redundant
    <3>1. r \notin victims /\ r \in Refs
      BY <1>0, <2>1 DEF Reducible, Alive
    <3>2. QED
      BY <1>3, <1>4, <2>1, <3>1
  <2>2. QED
    BY <1>1, <2>1 DEF CInv, StatedKept
<1>14. InRange'
  <2>1. \A r \in Alive' : r \in Alive /\ clauses'[r].lits = clauses[r].lits
    BY <1>3, <1>4 DEF Alive
  <2>2. /\ heap' \subseteq 1..variable_count
        /\ \A i \in Positions' : VarOf(trail'[i].lit) <= variable_count
    BY <1>1 DEF CInv, InRange, Positions
  <2>3. QED
    BY <1>1, <2>1, <2>2, RangeStays
<1>15. QED
  BY <1>6, <1>7, <1>9, <1>10, <1>11, <1>12, <1>13, <1>14 DEF CInv

-----------------------------------------------------------------------------
(* Conflict analysis.                                                      *)

LEMMA StartAnalysisComplete ==
  ASSUME IInv, CInv, StartAnalysis
  PROVE  CInv'
<1>1. /\ pc = "conflict" /\ pc' = "analyze" /\ Level > 0
      /\ UNCHANGED <<problem, clauses, watches, units, trail, control, propagated,
                     pending, heap, variable_count, request, mode, unit_queue,
                     terminated>>
  BY DEF StartAnalysis, callVars, dbVars, trailVars, propVars, setupVars, countVars
<1>2. QED
  BY <1>1, StillKeeps

LEMMA ResolveComplete ==
  ASSUME IInv, CInv, Resolve
  PROVE  CInv'
<1>1. /\ pc = "analyze" /\ pc' \in {"analyze", "learn"}
      /\ UNCHANGED <<problem, clauses, watches, units, trail, control, propagated,
                     pending, heap, variable_count, request, mode, unit_queue,
                     terminated>>
  BY DEF Resolve, callVars, dbVars, trailVars, propVars, setupVars, countVars
<1>2. Level > 0
  BY <1>1 DEF IInv, AnalysisSound
<1>3. QED
  BY <1>1, <1>2, StillKeeps

LEMMA SkipRestartComplete ==
  ASSUME IInv, CInv, SkipRestart
  PROVE  CInv'
<1>1. /\ pc = "propagate" /\ pc' = "propagate"
      /\ UNCHANGED <<problem, clauses, watches, units, trail, control, propagated,
                     pending, heap, variable_count, request, mode, unit_queue,
                     terminated>>
  BY DEF SkipRestart, SearchOn, SearchFixpoint, Fixpoint, RestartFrame,
         callVars, dbVars, trailVars, setupVars
<1>2. QED
  BY <1>1, StillKeeps

\* The steps that end an episode.
LEMMA EndingsComplete ==
  ASSUME IInv, CInv,
         LuckySucceeds \/ RefuteAtRoot \/ AssumptionFailed \/ ModelFound
  PROVE  CInv'
<1>1. pc' = "idle" /\ UNCHANGED <<problem, clauses>>
  BY DEF LuckySucceeds, RefuteAtRoot, AssumptionFailed, ModelFound, RootConflict, Finish,
         callVars, dbVars
<1>2. QED
  BY <1>1, EndKeeps

\* What NoteConflict counts ends an episode only under a limit.
LEMMA ConflictLimit ==
  ASSUME CInv, pc # "idle", NoteConflict, UNCHANGED request
  PROVE  LimitsStop'
BY DEF CInv, LimitsStop, NoteConflict

\* Where the literals of a learned clause lie before the backjump.
LEMMA LearnedLits ==
  ASSUME IInv, pc = "learn"
  PROVE  /\ \A k \in Kept : k \in Lits /\ \E i \in Positions :
               /\ trail[i].lit = -k /\ VarOf(k) = VarOf(trail[i].lit)
               /\ LevelOf(k) = trail[i].level
         /\ \E p \in Positions : /\ trail[p].lit = analysis.uip
                                 /\ trail[p].level = Level
                                 /\ VarOf(-analysis.uip) = VarOf(trail[p].lit)
<1>1. Kept \subseteq analysis.learned
  BY DEF Kept
<1>2. PICK p \in Positions : trail[p].lit = analysis.uip /\ trail[p].level = Level
  BY AnalysisEnds
<1>3. VarOf(-analysis.uip) = VarOf(trail[p].lit)
  BY <1>2, AnalysisEnds, Literals
<1>4. QED
  BY <1>1, <1>2, <1>3, AnalysisEnds

\* The clause learned is unit below its backjump: the literal asserted there
\* satisfies it as soon as its other watch is false.
LEMMA LearnedSatisfied ==
  ASSUME IInv, CInv, pc = "learn",
         NEW ref, ref = Len(clauses) + 1,
         NEW target \in 0..Level - 1,
         NEW pair,
         \/ pair = {}
         \/ /\ Kept # {}
            /\ pair = {-analysis.uip, Partner(Kept)}
            /\ target = LevelOf(Partner(Kept)),
         clauses'[ref].head = pair,
         -analysis.uip \in clauses'[ref].lits,
         trail' = Append(TrailAt(target), Entry(-analysis.uip, target, ref)),
         NEW i \in 1..Len(TrailAt(target)),
         -trail'[i].lit \in pair
  PROVE  SatisfiedAt(ref, i)'
<1> DEFINE tr == TrailAt(target)
           en == Entry(-analysis.uip, target, ref)
<1>1. target \in 0..Level /\ target \in Nat /\ Level \in Nat /\ target < Level
  BY StateTypes DEF IInv
<1>2. en.lit = -analysis.uip /\ en.level = target
  BY DEF Entry
<1>3. en \in TrailEntry
  BY <1>1, AnalysisEnds, StateTypes DEF IInv, Entry, TrailEntry
<1>4. trail' = Append(tr, en)
  OBVIOUS
<1> HIDE DEF en
<1>5. /\ Len(tr) \in Nat
      /\ \A j \in 1..Len(tr) : j \in Positions /\ trail'[j] = trail[j] /\ trail[j].level <= target
  BY <1>1, <1>3, <1>4, CutKept DEF IInv
<1>6. tr \in Seq(TrailEntry)
  BY <1>1, Backtracked DEF IInv, Trails
<1> HIDE DEF tr
<1>7. Len(tr) + 1 \in Positions' /\ trail'[Len(tr) + 1] = en
  <2>1. Len(trail') = Len(tr) + 1 /\ trail'[Len(tr) + 1] = en
    <3>1. trail' = Append(tr, en) /\ tr \in Seq(TrailEntry) /\ en \in TrailEntry
      BY <1>3, <1>4, <1>6
    <3>2. QED
      BY <3>1, AppendProperties
  <2>2. QED
    BY <1>5, <2>1 DEF Positions
<1>8. i \in Positions /\ trail'[i] = trail[i] /\ trail[i].level <= target
  BY <1>5 DEF tr
<1>9. -trail[i].lit # -analysis.uip
  <2>1. PICK p \in Positions : /\ trail[p].lit = analysis.uip /\ trail[p].level = Level
                               /\ VarOf(-analysis.uip) = VarOf(trail[p].lit)
    BY LearnedLits
  <2>2. VarOf(-trail[i].lit) = VarOf(trail[i].lit)
    BY <1>8, StateTypes, Literals DEF IInv
  <2>3. i # p
    BY <1>1, <1>8, <2>1
  <2>4. VarOf(trail[i].lit) # VarOf(trail[p].lit)
    BY <1>8, <2>1, <2>3 DEF IInv, TrailOrdered, OrderedTrail, Positions
  <2>5. QED
    BY <2>1, <2>2, <2>4
<1>10. -trail[i].lit = Partner(Kept) /\ Kept # {} /\ target = LevelOf(Partner(Kept))
  BY <1>8, <1>9
<1>11. trail[i].level = target
  <2>1. Partner(Kept) \in Lits /\ -Partner(Kept) = trail[i].lit
    BY <1>8, <1>10, StateTypes, Literals DEF IInv
  <2>2. LevelOf(Partner(Kept)) = trail[i].level
    BY <1>8, <2>1, FalseAt DEF IInv
  <2>3. QED
    BY <1>10, <2>2
<1>12. QED
  BY <1>1, <1>2, <1>7, <1>8, <1>11 DEF SatisfiedAt

LEMMA LearnClauseComplete ==
  ASSUME IInv, CInv, LearnClause
  PROVE  CInv'
<1>1. /\ pc = "learn" /\ NoteConflict
      /\ pc' \in {"idle", "propagate"}
      /\ UNCHANGED <<problem, variable_count, request, mode, unit_queue>>
  BY DEF LearnClause, Finish, callVars, setupVars
<1>2. PICK pair, target : /\ Learn(pair, target)
                          /\ \/ Kept = {} /\ pair = {} /\ target = 0
                             \/ /\ Kept # {}
                                /\ pair = {-analysis.uip, Partner(Kept)}
                                /\ target = LevelOf(Partner(Kept))
  BY DEF LearnClause
<1> DEFINE ref == Len(clauses) + 1
           first == -analysis.uip
           c == [lits |-> Kept \cup {first}, head |-> pair, redundant |-> TRUE,
                 alive |-> TRUE, core |-> Glue(Kept) <= CoreGlueLimit]
           en == Entry(first, target, ref)
           Fresh(l) == [ref |-> ref, blocking |-> OtherOf(pair, l)]
<1>3. /\ clauses' = Append(clauses, c)
      /\ watches' = [l \in Lits |-> IF l \in pair THEN watches[l] \cup {Fresh(l)} ELSE watches[l]]
      /\ units' = IF pair = {} THEN units \cup {ref} ELSE units
      /\ trail' = Append(TrailAt(target), en)
      /\ control' = ControlAt(target)
      /\ propagated' = PropagatedAt(target)
      /\ heap' = HeapAt(target)
  BY <1>2 DEF Learn
<1>4. /\ c.lits = Kept \cup {first} /\ c.head = pair /\ c.redundant /\ c.alive
      /\ en.lit = first /\ en.level = target /\ en.reason = ref
      /\ \A l : Fresh(l).ref = ref
  BY DEF Entry
<1> HIDE DEF c, Fresh
<1>5. /\ target \in 0..Level - 1 /\ target \in 0..Level /\ target \in Nat
      /\ Level \in Nat /\ target < Level /\ Level > 0
  <2>1. Level \in Nat /\ Level > 0
    BY <1>1, AnalysisEnds, StateTypes DEF IInv
  <2>2. CASE Kept = {}
    BY <1>2, <2>1, <2>2
  <2>3. CASE Kept # {}
    <3>1. Partner(Kept) \in Kept /\ 0 < target /\ target < Level
      BY <1>1, <1>2, <2>3, PartnerIs
    <3>2. target \in Nat
      BY <1>1, <1>2, <2>3, <3>1, LearnedLits, StateTypes DEF IInv
    <3>3. QED
      BY <2>1, <3>1, <3>2
  <2>4. QED
    BY <2>2, <2>3
<1>6. /\ Len(clauses) \in Nat /\ Refs' = Refs \cup {ref} /\ ref \notin Refs
      /\ \A r \in Refs : clauses'[r] = clauses[r]
      /\ clauses'[ref] = c
  <2>1. clauses \in Seq(Clause) /\ Len(clauses) \in Nat
    BY StateTypes DEF IInv, TypeOK
  <2>2. c \in Clause
    <3>1. pair \in SUBSET Lits /\ Kept \cup {first} \in SUBSET Lits
      BY <1>1, <1>2, AnalysisEnds, PartnerIs, LearnedLits
    <3>2. (Glue(Kept) <= CoreGlueLimit) \in BOOLEAN
      OBVIOUS
    <3>3. QED
      BY <3>1, <3>2 DEF c, Clause
  <2>3. QED
    BY <1>3, <2>1, <2>2, Appended DEF Refs
<1>7. Alive' = Alive \cup {ref} /\ Alive \subseteq Refs
  BY <1>4, <1>6 DEF Alive
<1>8. LongHavePairs'
  <2>1. ASSUME pair = {} PROVE Short(c.lits)
    <3>1. Kept = {}
      BY <1>2, <2>1
    <3>2. QED
      BY <1>4, <3>1 DEF Short
  <2>2. QED
    BY <1>4, <1>6, <2>1 DEF CInv, LongHavePairs
<1>9. StatedKept'
  BY <1>1, <1>6, <1>7 DEF CInv, StatedKept
<1>10. CASE pc' = "idle"
  BY <1>8, <1>9, <1>10 DEF CInv, AllWatched, UnitsAssigned, ConflictWatched,
     PropagatedSatisfied, HeapComplete, AssumptionsOpen, InRange, LimitsStop
<1>11. CASE pc' = "propagate"
  <2>1. en \in TrailEntry /\ first \in Lits
    BY <1>1, <1>5, <1>6, AnalysisEnds DEF Entry, TrailEntry
  <2>2. /\ KeptTo(target) /\ \A u \in 0..target : KeptTo(u)
        /\ Len(TrailAt(target)) \in Nat
        /\ \A i \in 1..Len(TrailAt(target)) :
             /\ i \in Positions /\ trail'[i] = trail[i]
             /\ trail[i].level <= target
    BY <1>3, <1>5, <2>1, CutKept DEF IInv
  <2>3. Len(trail') = Len(TrailAt(target)) + 1 /\ trail'[Len(TrailAt(target)) + 1] = en
    <3>1. TrailAt(target) \in Seq(TrailEntry)
      BY <1>5, Backtracked DEF IInv, Trails
    <3> HIDE DEF en
    <3>2. QED
      BY <1>3, <2>1, <3>1, AppendProperties
  <2> HIDE DEF en
  <2>4. /\ Len(TrailAt(target)) + 1 \in Positions'
        /\ \A i \in Positions' : i \in 1..Len(TrailAt(target)) \/ i = Len(TrailAt(target)) + 1
    BY <2>2, <2>3 DEF Positions
  <2>5. propagated' = Len(TrailAt(target))
    <3>1. propagated \in Positions /\ trail[propagated].level = Level
      BY <1>1 DEF IInv, QueueAtLevel
    <3>2. \A i \in Positions : i <= Len(TrailAt(target)) <=> trail[i].level <= target
      BY <1>5, Backtracked DEF IInv
    <3>3. propagated > Len(TrailAt(target))
      BY <1>5, <2>2, <3>1, <3>2 DEF Positions
    <3>4. QED
      BY <1>3, <3>3 DEF PropagatedAt
  <2>6. AllWatched'
    <3>1. ASSUME NEW r \in Alive', NEW l \in clauses'[r].head
          PROVE  \E e \in watches'[l] : e.ref = r
      <4>1. CASE r \in Alive
        <5>1. l \in clauses[r].head /\ l \in Lits
          BY <1>6, <1>7, <3>1, <4>1, StateTypes DEF IInv
        <5>2. PICK e \in watches[l] : e.ref = r
          BY <1>1, <4>1, <5>1 DEF CInv, AllWatched
        <5>3. e \in watches'[l]
          BY <1>3, <5>1, <5>2
        <5>4. QED
          BY <5>2, <5>3
      <4>2. CASE r = ref
        <5>1. l \in pair
          BY <1>4, <1>6, <3>1, <4>2
        <5>2. l \in Lits
          BY <1>1, <1>2, <2>1, <5>1, PartnerIs, LearnedLits
        <5>3. Fresh(l) \in watches'[l]
          BY <1>3, <5>1, <5>2
        <5>4. QED
          BY <1>4, <4>2, <5>3
      <4>3. QED
        BY <1>7, <3>1, <4>1, <4>2
    <3>2. ASSUME NEW r \in Alive', clauses'[r].head = {} PROVE r \in units'
      <4>1. CASE r \in Alive
        <5>1. clauses[r].head = {}
          BY <1>6, <1>7, <3>2, <4>1
        <5>2. r \in units
          BY <1>1, <4>1, <5>1 DEF CInv, AllWatched
        <5>3. QED
          BY <1>3, <5>2
      <4>2. CASE r = ref
        <5>1. pair = {}
          BY <1>4, <1>6, <3>2, <4>2
        <5>2. QED
          BY <1>3, <4>2, <5>1
      <4>3. QED
        BY <1>7, <3>2, <4>1, <4>2
    <3>3. QED
      BY <3>1, <3>2 DEF AllWatched
  <2>7. UnitsAssigned'
    <3>1. unit_queue' = {} /\ KeptTo(0)
      BY <1>1, <1>5, <2>2 DEF CInv, UnitsAssigned
    <3>2. ASSUME NEW r \in units'
          PROVE  \E i \in Positions' : trail'[i].lit \in clauses'[r].lits /\ trail'[i].level = 0
      <4>1. CASE r \in units
        <5>1. PICK i \in Positions : trail[i].lit \in clauses[r].lits /\ trail[i].level = 0
          BY <1>1, <3>1, <4>1 DEF CInv, UnitsAssigned
        <5>2. i \in Positions' /\ trail'[i] = trail[i]
          BY <3>1, <5>1 DEF KeptTo
        <5>3. clauses'[r] = clauses[r]
          BY <1>6, <4>1 DEF IInv, TypeOK
        <5>4. QED
          BY <5>1, <5>2, <5>3
      <4>2. CASE r = ref /\ pair = {}
        <5>1. target = 0 /\ clauses'[r].lits = Kept \cup {first}
          BY <1>2, <1>4, <1>6, <4>2
        <5>2. QED
          BY <1>4, <2>3, <2>4, <5>1
      <4>3. QED
        BY <1>3, <3>2, <4>1, <4>2
    <3>3. QED
      BY <3>1, <3>2 DEF UnitsAssigned
  <2>8. ConflictWatched'
    BY <1>11 DEF ConflictWatched
  <2>9. PropagatedSatisfied'
    <3>1. ~RefutationAhead
      BY <1>5 DEF RefutationAhead
    <3>2. ASSUME NEW i \in 1..propagated', NEW r \in Alive', -trail'[i].lit \in clauses'[r].head
          PROVE  SatisfiedAt(r, i)'
      <4>1. i \in Positions /\ trail'[i] = trail[i] /\ trail[i].level <= target
        BY <2>2, <2>5, <3>2
      <4>2. trail[i].level \in 0..target /\ trail[i].level < Level
        BY <1>5, <4>1, StateTypes DEF IInv
      <4>3. CASE r \in Alive
        <5>1. clauses'[r] = clauses[r]
          BY <1>6, <1>7, <4>3
        <5>2. SatisfiedAt(r, i)
          BY <1>1, <3>1, <3>2, <4>1, <4>2, <4>3, <5>1, BelowSatisfied
        <5>3. KeptTo(trail[i].level)
          BY <2>2, <4>2
        <5>4. QED
          BY <4>1, <5>1, <5>2, <5>3, SatisfiedStays
      <4>4. CASE r = ref
        <5>1. clauses'[r].head = pair /\ first \in clauses'[r].lits
          BY <1>4, <1>6, <4>4
        <5>2. i \in 1..Len(TrailAt(target)) /\ -trail'[i].lit \in pair
          BY <2>5, <3>2, <5>1
        <5>3. trail' = Append(TrailAt(target), Entry(first, target, r))
          BY <1>3, <4>4 DEF en
        <5>4. QED
          BY <1>1, <1>2, <1>5, <4>4, <5>1, <5>2, <5>3, LearnedSatisfied
      <4>5. QED
        BY <1>7, <3>2, <4>3, <4>4
    <3>3. QED
      BY <3>2 DEF PropagatedSatisfied
  <2>10. HeapComplete' /\ heap' \subseteq 1..variable_count
    <3>1. heap' = (heap \ {}) \cup
                   {VarOf(trail[i].lit) : i \in Len(TrailAt(target)) + 1 .. Len(trail)}
      BY <1>3 DEF HeapAt
    <3>2. {} \in SUBSET {v \in heap : ~Unassigned(v)}
      OBVIOUS
    <3>3. QED
      BY <1>1, <1>3, <1>5, <2>1, <3>1, <3>2, HandedBack
  <2>11. AssumptionsOpen'
    <3>1. CASE mode = "lucky"
      BY <1>1, <3>1, NothingAssumed
    <3>2. CASE mode = "search"
      <4>1. Level' = target
        BY <1>3, <1>5, Backtracked DEF IInv, Level
      <4>2. \A k \in 1..Len(request.assumptions) : k <= Level' => k <= Level
        <5>1. Len(request.assumptions) \in Nat
          BY LenProperties DEF IInv, TypeOK, SolveCalls
        <5>2. QED
          BY <1>5, <4>1, <5>1
      <4>3. QED
        BY <1>1, <2>2, <3>2, <4>1, <4>2, AssumptionsStay
    <3>3. QED
      BY <3>1, <3>2 DEF IInv, TypeOK
  <2>12. InRange'
    <3>1. \A i \in Positions : VarOf(trail[i].lit) <= variable_count
      BY <1>1 DEF CInv, InRange
    <3>2. \A k \in c.lits : VarOf(k) <= variable_count
      BY <1>1, <1>4, <3>1, LearnedLits
    <3>3. \A i \in Positions' : VarOf(trail'[i].lit) <= variable_count
      <4>1. VarOf(en.lit) <= variable_count
        BY <1>4, <3>2 DEF en
      <4>2. QED
        BY <2>2, <2>3, <2>4, <3>1, <4>1
    <3>4. \A r \in Alive' : \A l \in clauses'[r].lits : VarOf(l) <= variable_count
      BY <1>1, <1>6, <1>7, <3>2 DEF CInv, InRange
    <3>5. QED
      BY <1>1, <2>10, <3>3, <3>4 DEF CInv, InRange
  <2>13. LimitsStop'
    BY <1>1, ConflictLimit
  <2>14. QED
    BY <1>8, <1>9, <2>6, <2>7, <2>8, <2>9, <2>10, <2>11, <2>12, <2>13 DEF CInv
<1>12. QED
  BY <1>1, <1>10, <1>11

-----------------------------------------------------------------------------
(* Both strengthenings together.                                           *)

LEMMA InitCInv ==
  ASSUME Init
  PROVE  CInv
<1>1. pc = "idle" /\ problem = {} /\ Refs = {}
  BY DEF Init, Refs
<1>2. QED
  BY <1>1 DEF CInv, LongHavePairs, AllWatched, UnitsAssigned, ConflictWatched,
     PropagatedSatisfied, HeapComplete, AssumptionsOpen, StatedKept, InRange, LimitsStop

LEMMA StutterCInv ==
  ASSUME IInv, CInv, UNCHANGED vars
  PROVE  CInv'
<1> USE DEF vars, callVars, dbVars, trailVars, propVars, setupVars, countVars
<1>1. /\ Refs' = Refs /\ Alive' = Alive /\ Positions' = Positions /\ Level' = Level
      /\ \A k : IsFalse(k)' <=> IsFalse(k)
      /\ \A v : Unassigned(v)' <=> Unassigned(v)
      /\ \A r : Unread(r)' <=> Unread(r)
      /\ \A r, i : SatisfiedAt(r, i)' <=> SatisfiedAt(r, i)
  BY DEF Refs, Alive, Positions, Level, IsFalse, IsTrue, Unassigned, Unread, SatisfiedAt
<1>2. LongHavePairs' /\ AllWatched' /\ UnitsAssigned' /\ ConflictWatched'
  BY <1>1 DEF CInv, LongHavePairs, AllWatched, UnitsAssigned, ConflictWatched
<1>3. PropagatedSatisfied'
  BY <1>1 DEF CInv, PropagatedSatisfied, RefutationAhead
<1>4. HeapComplete' /\ AssumptionsOpen' /\ StatedKept' /\ InRange' /\ LimitsStop'
  BY <1>1 DEF CInv, HeapComplete, AssumptionsOpen, StatedKept, InRange, LimitsStop
<1>5. QED
  BY <1>2, <1>3, <1>4 DEF CInv

LEMMA NextCInv ==
  ASSUME IInv, CInv, [Next]_vars
  PROVE  CInv'
<1>1. CASE AddProblemClause
  BY <1>1, AddProblemClauseComplete
<1>2. CASE Solve
  BY <1>2, SolveComplete
<1>3. CASE Engine
  <2>1. CASE \E r \in unit_queue : AssignRootUnit(r)
    BY <2>1, AssignRootUnitComplete
  <2>2. CASE \E r \in unit_queue : RootUnitFalsified(r)
    BY <2>2, RootUnitFalsifiedComplete
  <2>3. CASE PropagateLiteral
    BY <2>3, PropagateLiteralComplete
  <2>4. CASE \E e \in pending : VisitWatch(e)
    BY <2>4, VisitWatchComplete
  <2>5. CASE LuckyDecide
    BY <2>5, LuckyDecideComplete
  <2>6. CASE LuckySucceeds \/ RefuteAtRoot \/ AssumptionFailed \/ ModelFound
    BY <2>6, EndingsComplete
  <2>7. CASE LuckyFails
    BY <2>7, LuckyFailsComplete
  <2>8. CASE StartAnalysis
    BY <2>8, StartAnalysisComplete
  <2>9. CASE Resolve
    BY <2>9, ResolveComplete
  <2>10. CASE LearnClause
    BY <2>10, LearnClauseComplete
  <2>11. CASE OpenPlaceholder
    BY <2>11, OpenPlaceholderComplete
  <2>12. CASE OpenAssumption
    BY <2>12, OpenAssumptionComplete
  <2>13. CASE Restart
    BY <2>13, RestartComplete
  <2>14. CASE SkipRestart
    BY <2>14, SkipRestartComplete
  <2>15. CASE Reduce
    BY <2>15, ReduceComplete
  <2>16. CASE Decide
    BY <2>16, DecideComplete
  <2>17. QED
    BY <1>3, <2>1, <2>2, <2>3, <2>4, <2>5, <2>6, <2>7, <2>8, <2>9, <2>10, <2>11,
       <2>12, <2>13, <2>14, <2>15, <2>16 DEF Engine
<1>4. CASE UNCHANGED vars
  BY <1>4, StutterCInv
<1>5. QED
  BY <1>1, <1>2, <1>3, <1>4 DEF Next

\* Both strengthenings hold in every state of the engine.
THEOREM EngineInductive == Spec => []EngineInv
<1>1. Init => EngineInv
  BY InitIInv, InitCInv DEF EngineInv
<1>2. EngineInv /\ [Next]_vars => EngineInv'
  BY NextIInv, NextCInv DEF EngineInv
<1>3. QED
  BY <1>1, <1>2, PTL DEF Spec

LEMMA WatchesSoundHere ==
  ASSUME IInv, CInv
  PROVE  WatchesSound
<1>1. WatchListsMatch
  <2> SUFFICES ASSUME pc # "idle", NEW l \in Lits
               PROVE  /\ \A e \in watches[l] :
                           /\ e.ref \in Alive
                           /\ l \in clauses[e.ref].head
                           /\ e.blocking \in clauses[e.ref].lits \ {l}
                      /\ \A r \in Alive : l \in clauses[r].head =>
                           Cardinality({e \in watches[l] : e.ref = r}) = 1
    BY DEF WatchListsMatch
  <2>1. \A e \in watches[l] : /\ e.ref \in Alive
                              /\ l \in clauses[e.ref].head
                              /\ e.blocking \in clauses[e.ref].lits \ {l}
    BY DEF IInv, WatchEntries
  <2>2. ASSUME NEW r \in Alive, l \in clauses[r].head
        PROVE  Cardinality({e \in watches[l] : e.ref = r}) = 1
    <3>1. PICK e \in watches[l] : e.ref = r
      BY <2>2 DEF CInv, AllWatched
    <3>2. {f \in watches[l] : f.ref = r} = {e}
      BY <3>1 DEF IInv, WatchEntries
    <3>3. QED
      BY <3>2, FS_Singleton
  <2>3. QED
    BY <2>1, <2>2
<1>2. BacktrackSafeWatches
  <2> SUFFICES ASSUME Fixpoint, NEW r \in Alive, NEW h \in clauses[r].head, IsFalse(h)
               PROVE  \E k \in clauses[r].lits : IsTrue(k) /\ LevelOf(k) <= LevelOf(h)
    BY DEF BacktrackSafeWatches
  <2>1. PICK i \in Positions : trail[i].lit = -h
    BY DEF IsFalse
  <2>2. r \in Refs /\ h \in Lits
    BY StateTypes DEF IInv, Alive
  <2>3. -trail[i].lit = h
    BY <2>1, <2>2, Literals
  <2>4. SatisfiedAt(r, i)
    BY <2>3, FixpointSatisfied
  <2>5. PICK j \in Positions : /\ trail[j].lit \in clauses[r].lits
                               /\ trail[j].level <= trail[i].level
    BY <2>4 DEF SatisfiedAt
  <2>6. LevelOf(h) = trail[i].level
    BY <2>1, <2>2, FalseAt DEF IInv
  <2>7. LevelOf(trail[j].lit) = trail[j].level
    BY OnTrail DEF IInv, LevelOf
  <2>8. IsTrue(trail[j].lit)
    BY DEF IsTrue
  <2>9. QED
    BY <2>5, <2>6, <2>7, <2>8
<1>3. QED
  BY <1>1, <1>2 DEF WatchesSound

\* The watch lists are exact, and a watched literal is false only under a true
\* literal assigned no later.
THEOREM WatchesStand == Spec => []WatchesSound
<1>1. EngineInv => WatchesSound
  BY WatchesSoundHere DEF EngineInv
<1>2. QED
  BY <1>1, EngineInductive, PTL

LEMMA PropagationEndsHere ==
  ASSUME IInv, CInv
  PROVE  PropagationEnds
<1>1. PropagationComplete
  <2> SUFFICES ASSUME Fixpoint, NEW r \in Alive, \A k \in clauses[r].lits : ~IsTrue(k)
               PROVE  \E k1, k2 \in clauses[r].lits : /\ k1 # k2
                                                      /\ ~IsFalse(k1) /\ ~IsFalse(k2)
    BY DEF PropagationComplete
  <2>1. pc = "propagate" /\ r \in Refs
    BY DEF Fixpoint, Alive
  <2>2. clauses[r].head # {}
    <3> SUFFICES ASSUME clauses[r].head = {} PROVE FALSE
      OBVIOUS
    <3>1. r \in units /\ unit_queue = {}
      BY <2>1 DEF CInv, AllWatched, UnitsAssigned
    <3>2. \E i \in Positions : trail[i].lit \in clauses[r].lits
      BY <2>1, <3>1 DEF CInv, UnitsAssigned
    <3>3. QED
      BY <3>2 DEF IsTrue
  <2>3. PICK a, b \in clauses[r].lits : a # b /\ clauses[r].head = {a, b}
    BY <2>1, <2>2 DEF IInv, PairsAndUnits
  <2>4. ASSUME NEW h \in clauses[r].head, IsFalse(h) PROVE FALSE
    <3>1. PICK i \in Positions : trail[i].lit = -h
      BY <2>4 DEF IsFalse
    <3>2. -trail[i].lit = h
      BY <2>1, <2>4, <3>1, StateTypes, Literals DEF IInv
    <3>3. SatisfiedAt(r, i)
      BY <2>4, <3>2, FixpointSatisfied
    <3>4. QED
      BY <3>3 DEF SatisfiedAt, IsTrue
  <2>5. QED
    BY <2>3, <2>4
<1>2. ConflictAtLevel
  <2> SUFFICES ASSUME pc = "conflict"
               PROVE  /\ \A l \in clauses[conflict].lits : IsFalse(l)
                      /\ Level > 0 => \E k1, k2 \in clauses[conflict].lits :
                           k1 # k2 /\ LevelOf(k1) = Level /\ LevelOf(k2) = Level
    BY DEF ConflictAtLevel
  <2>1. conflict \in Refs /\ \A l \in clauses[conflict].lits : IsFalse(l)
    BY DEF IInv, ConflictFalsified
  <2>2. ASSUME Level > 0
        PROVE  \E k1, k2 \in clauses[conflict].lits :
                 k1 # k2 /\ LevelOf(k1) = Level /\ LevelOf(k2) = Level
    <3>1. ~RefutationAhead
      BY <2>2 DEF RefutationAhead
    <3>2. PICK a, b \in clauses[conflict].lits, i, j \in Positions :
           /\ a # b /\ clauses[conflict].head = {a, b} /\ i # j
           /\ trail[i].lit = -a /\ trail[j].lit = -b
           /\ i >= propagated /\ j >= propagated
      BY <3>1, ConflictBeyond
    <3>3. \A p \in Positions : p >= propagated => trail[p].level = Level
      <4>1. /\ propagated \in Positions /\ trail[propagated].level = Level
            /\ \A p \in Positions : p > propagated => trail[p].level = Level
        BY DEF IInv, QueueAtLevel
      <4>2. QED
        BY <4>1 DEF Positions
    <3>4. a \in Lits /\ b \in Lits
      BY <2>1, StateTypes DEF IInv
    <3>5. LevelOf(a) = trail[i].level /\ LevelOf(b) = trail[j].level
      BY <3>2, <3>4, FalseAt DEF IInv
    <3>6. QED
      BY <3>2, <3>3, <3>5
  <2>3. QED
    BY <2>1, <2>2
<1>3. QED
  BY <1>1, <1>2 DEF PropagationEnds

\* Propagation ends at a real fixpoint, or at a conflict with two literals of
\* the conflict level.
THEOREM PropagationReaches == Spec => []PropagationEnds
<1>1. EngineInv => PropagationEnds
  BY PropagationEndsHere DEF EngineInv
<1>2. QED
  BY <1>1, EngineInductive, PTL

LEMMA DecisionsReadyHere ==
  ASSUME IInv, CInv
  PROVE  DecisionsReady
<1>1. HeapComplete
  BY DEF CInv
<1>2. AssumptionsHold
  <2> SUFFICES ASSUME mode = "search", pc # "idle",
                      NEW k \in 1..Len(request.assumptions), k <= Level
               PROVE  /\ IsTrue(request.assumptions[k])
                      /\ LevelOf(request.assumptions[k]) <= k
    BY DEF AssumptionsHold
  <2>1. PICK i \in Positions : trail[i].lit = request.assumptions[k] /\ trail[i].level <= k
    BY DEF CInv, AssumptionsOpen
  <2>2. LevelOf(trail[i].lit) = trail[i].level
    BY OnTrail DEF IInv, LevelOf
  <2>3. QED
    BY <2>1, <2>2 DEF IsTrue
<1>3. QED
  BY <1>1, <1>2 DEF DecisionsReady

\* The heap holds what is unassigned, and the assumption of every open
\* assumption level is true.
THEOREM DecisionsStand == Spec => []DecisionsReady
<1>1. EngineInv => DecisionsReady
  BY DecisionsReadyHere DEF EngineInv
<1>2. QED
  BY <1>1, EngineInductive, PTL

-----------------------------------------------------------------------------
(* Models, and what a conflict teaches.                                    *)

\* At a fixpoint that leaves no variable out, the trail is a model.
LEMMA TrailIsModel ==
  ASSUME IInv, CInv, Fixpoint, \A v \in 1..variable_count : ~Unassigned(v)
  PROVE  /\ \A c \in problem : TrailLits \cap c # {}
         /\ {VarOf(l) : l \in TrailLits} = 1..variable_count
<1>1. pc # "idle" /\ \A i \in Positions : trail[i].lit \in Lits
  BY StateTypes DEF Fixpoint, IInv
<1>2. \A k : IsTrue(k) <=> k \in TrailLits
  BY DEF IsTrue, TrailLits
<1>3. ASSUME NEW k \in Lits, VarOf(k) <= variable_count
      PROVE  k \in TrailLits \/ -k \in TrailLits
  <2>1. VarOf(k) \in 1..variable_count
    BY <1>3, Literals, NumVarsAssumption DEF Vars, IInv, TypeOK
  <2>2. k = VarOf(k) \/ -k = VarOf(k)
    BY <1>3, NumVarsAssumption DEF VarOf, Lits
  <2>3. -(-k) = k
    BY <1>3, Literals
  <2>4. IsTrue(VarOf(k)) \/ IsFalse(VarOf(k))
    BY <2>1 DEF Unassigned
  <2>5. IsTrue(VarOf(k)) \/ IsTrue(-VarOf(k))
    BY <2>4 DEF IsTrue, IsFalse
  <2>6. QED
    BY <1>2, <2>2, <2>3, <2>5
<1>4. ASSUME NEW c \in problem PROVE TrailLits \cap c # {}
  <2>1. c \subseteq Lits /\ \A l \in c : VarOf(l) <= variable_count
    BY <1>1 DEF IInv, TypeOK, CInv, InRange
  <2>2. CASE \E l \in c : -l \in c
    BY <1>3, <2>1, <2>2
  <2>3. CASE \E r \in Alive : clauses[r].lits = c
    <3>1. PICK r \in Alive : clauses[r].lits = c
      BY <2>3
    <3>2. \/ \E k \in c : IsTrue(k)
          \/ \E k \in c : ~IsFalse(k)
      BY <3>1, PropagationEndsHere DEF PropagationEnds, PropagationComplete
    <3>3. \A k \in c : ~IsFalse(k) => IsTrue(k)
      BY <1>2, <1>3, <2>1 DEF IsFalse, TrailLits
    <3>4. QED
      BY <1>2, <3>2, <3>3
  <2>4. QED
    BY <2>2, <2>3 DEF CInv, StatedKept
<1>5. ASSUME NEW i \in Positions PROVE VarOf(trail[i].lit) \in 1..variable_count
  <2>1. VarOf(trail[i].lit) \in Vars /\ VarOf(trail[i].lit) <= variable_count
    BY <1>1, Literals DEF CInv, InRange
  <2>2. QED
    BY <2>1, NumVarsAssumption DEF Vars, IInv, TypeOK
<1>6. ASSUME NEW v \in 1..variable_count PROVE \E l \in TrailLits : VarOf(l) = v
  <2>1. v \in Nat /\ v > 0
    BY NumVarsAssumption DEF IInv, TypeOK
  <2>2. VarOf(v) = v /\ VarOf(-v) = v
    BY <2>1 DEF VarOf
  <2>3. IsTrue(v) \/ IsTrue(-v)
    BY DEF Unassigned, IsTrue, IsFalse
  <2>4. QED
    BY <1>2, <2>2, <2>3
<1>7. QED
  BY <1>4, <1>5, <1>6 DEF TrailLits

\* The two steps that answer "satisfiable" hold a model of all that was asked.
LEMMA AnswerIsModel ==
  ASSUME IInv, CInv, LuckySucceeds \/ ModelFound
  PROVE  /\ \A c \in problem : TrailLits \cap c # {}
         /\ Range1(request.assumptions) \subseteq TrailLits
         /\ {VarOf(l) : l \in TrailLits} = 1..variable_count
<1>1. CASE LuckySucceeds
  <2>1. Fixpoint /\ mode = "lucky" /\ Free = {}
    BY <1>1 DEF LuckySucceeds
  <2>2. \A v \in 1..variable_count : ~Unassigned(v)
    BY <2>1 DEF Free
  <2>3. Range1(request.assumptions) = {}
    BY <2>1 DEF IInv, LuckyUnassumed, Range1
  <2>4. QED
    BY <2>1, <2>2, <2>3, TrailIsModel
<1>2. CASE ModelFound
  <2>1. /\ Fixpoint /\ mode = "search" /\ pc # "idle"
        /\ Level >= Len(request.assumptions)
        /\ \A v \in heap : ~Unassigned(v)
    BY <1>2 DEF ModelFound, DecisionDue, SearchOn, SearchFixpoint, Fixpoint
  <2>2. \A v \in 1..variable_count : ~Unassigned(v)
    BY <2>1 DEF CInv, HeapComplete
  <2>3. ASSUME NEW k \in 1..Len(request.assumptions)
        PROVE  request.assumptions[k] \in TrailLits
    <3>1. Len(request.assumptions) \in Nat /\ Level \in Nat
      BY LenProperties, StateTypes DEF IInv, TypeOK, SolveCalls
    <3>2. k <= Level
      BY <2>1, <3>1
    <3>3. QED
      BY <2>1, <3>2 DEF CInv, AssumptionsOpen, TrailLits
  <2>4. QED
    BY <2>1, <2>2, <2>3, TrailIsModel DEF Range1
<1>3. QED
  BY <1>1, <1>2

\* How a step of the engine leaves the episode: it goes on, or a model was
\* found, or the request was refuted, or a limit ended it.
LEMMA EngineAnswers ==
  ASSUME IInv, CInv, Engine
  PROVE  /\ pc # "idle" /\ UNCHANGED <<calls, problem, request>>
         /\ \/ pc' # "idle" /\ UNCHANGED <<status, failed_core>>
            \/ /\ pc' = "idle" /\ status' = "satisfiable" /\ failed_core' = {}
               /\ LuckySucceeds \/ ModelFound
            \/ /\ pc' = "idle" /\ status' \in {"unknown", "unsatisfiable"}
               /\ failed_core' \subseteq Range1(request.assumptions)
               /\ status' = "unknown" =>
                    request.conflict_limit # 0 \/ request.decision_limit # 0
<1> USE DEF callVars, setupVars, resultVars
<1>1. CASE \E r \in unit_queue : AssignRootUnit(r)
  BY <1>1 DEF AssignRootUnit, NextUnit
<1>2. CASE \E r \in unit_queue : RootUnitFalsified(r)
  <2>1. PICK r \in unit_queue : RootUnitFalsified(r)
    BY <1>2
  <2>2. /\ pc = "units" /\ UNCHANGED <<calls, problem, request>>
        /\ \/ StartUnits("search", units) /\ UNCHANGED <<status, failed_core>>
           \/ RootConflict({})
    BY <2>1 DEF RootUnitFalsified
  <2>3. QED
    BY <2>2 DEF StartUnits, RootConflict, Finish, CInv, LimitsStop
<1>3. CASE PropagateLiteral
  BY <1>3 DEF PropagateLiteral
<1>4. CASE \E e \in pending : VisitWatch(e)
  BY <1>4 DEF VisitWatch, VisitFrame, VisitSatisfied, VisitBinary, VisitLong, ReadOn, Falsified
<1>5. CASE LuckyDecide
  BY <1>5 DEF LuckyDecide, StartUnits, Fixpoint
<1>6. CASE LuckySucceeds
  BY <1>6 DEF LuckySucceeds, Fixpoint, Finish
<1>7. CASE LuckyFails
  BY <1>7 DEF LuckyFails, StartUnits
<1>8. CASE RefuteAtRoot
  BY <1>8 DEF RefuteAtRoot, RootConflict, Finish, CInv, LimitsStop
<1>9. CASE StartAnalysis
  BY <1>9 DEF StartAnalysis
<1>10. CASE Resolve
  BY <1>10 DEF Resolve
<1>11. CASE LearnClause
  <2>1. terminated' => request.conflict_limit # 0 \/ request.decision_limit # 0
    BY <1>11 DEF LearnClause, NoteConflict, CInv, LimitsStop
  <2>2. QED
    BY <1>11, <2>1 DEF LearnClause, Finish
<1>12. CASE OpenPlaceholder
  BY <1>12 DEF OpenPlaceholder, AssumptionDue, SearchFixpoint, Fixpoint, OpenFrame
<1>13. CASE OpenAssumption
  BY <1>13 DEF OpenAssumption, AssumptionDue, SearchFixpoint, Fixpoint, OpenFrame
<1>14. CASE AssumptionFailed
  <2>1. /\ pc = "propagate" /\ RootConflict(FinalCore(NextAssumption))
        /\ UNCHANGED <<calls, problem, request>>
    BY <1>14 DEF AssumptionFailed, AssumptionDue, SearchFixpoint, Fixpoint
  <2>2. FinalCore(NextAssumption) \subseteq Range1(request.assumptions)
    BY <1>14, CoreAssumed
  <2>3. QED
    BY <2>1, <2>2 DEF RootConflict, Finish, CInv, LimitsStop
<1>15. CASE Restart
  BY <1>15 DEF Restart, SearchOn, SearchFixpoint, Fixpoint, RestartFrame
<1>16. CASE SkipRestart
  BY <1>16 DEF SkipRestart, SearchOn, SearchFixpoint, Fixpoint, RestartFrame
<1>17. CASE Reduce
  BY <1>17 DEF Reduce, SearchOn, SearchFixpoint, Fixpoint
<1>18. CASE Decide
  <2>1. /\ pc = "propagate" /\ NoteDecision /\ UNCHANGED <<calls, problem, request>>
        /\ \/ terminated' /\ Finish("unknown", {})
           \/ ~terminated' /\ UNCHANGED <<pc, status, failed_core>>
    BY <1>18 DEF Decide, DecisionDue, SearchOn, SearchFixpoint, Fixpoint
  <2>2. terminated' => request.conflict_limit # 0 \/ request.decision_limit # 0
    BY <2>1 DEF NoteDecision, CInv, LimitsStop
  <2>3. QED
    BY <2>1, <2>2 DEF Finish
<1>19. CASE ModelFound
  BY <1>19 DEF ModelFound, DecisionDue, SearchOn, SearchFixpoint, Fixpoint, Finish
<1>20. QED
  BY <1>1, <1>2, <1>3, <1>4, <1>5, <1>6, <1>7, <1>8, <1>9, <1>10, <1>11, <1>12,
     <1>13, <1>14, <1>15, <1>16, <1>17, <1>18, <1>19 DEF Engine

\* "satisfiable" is answered only with an assignment of every variable of the
\* episode that satisfies what was stated and what was assumed.
THEOREM ModelsStand == Spec => ModelSound
<1>1. ASSUME EngineInv, [Next]_vars, pc # "idle", pc' = "idle", status' = "satisfiable"
      PROVE  /\ \A c \in problem : TrailLits \cap c # {}
             /\ Range1(request.assumptions) \subseteq TrailLits
             /\ {VarOf(l) : l \in TrailLits} = 1..variable_count
  <2>1. Engine
    BY <1>1 DEF Next, AddProblemClause, Solve, vars
  <2>2. LuckySucceeds \/ ModelFound
    BY <1>1, <2>1, EngineAnswers DEF EngineInv
  <2>3. QED
    BY <1>1, <2>2, AnswerIsModel DEF EngineInv
<1>2. EngineInv /\ [Next]_vars =>
        [pc # "idle" /\ pc' = "idle" /\ status' = "satisfiable" =>
           /\ \A c \in problem : TrailLits \cap c # {}
           /\ Range1(request.assumptions) \subseteq TrailLits
           /\ {VarOf(l) : l \in TrailLits} = 1..variable_count]_vars
  BY <1>1
<1>3. QED
  BY <1>2, EngineInductive, PTL DEF Spec, ModelSound

\* What is learned is unit after the backjump and subsumed by nothing the
\* database holds: a clause it contained would have been falsified earlier,
\* or satisfied.
LEMMA LearnedNew ==
  ASSUME IInv, CInv, LearnClause
  PROVE  /\ \A l \in clauses'[Len(clauses')].lits :
              \/ l = -analysis.uip
              \/ -l \in {trail'[i].lit : i \in 1..Len(trail') - 1}
         /\ {analysis.uip, -analysis.uip} \cap {trail'[i].lit : i \in 1..Len(trail') - 1} = {}
         /\ \A r \in Alive : ~(clauses[r].lits \subseteq clauses'[Len(clauses')].lits)
<1> DEFINE first == -analysis.uip
<1>1. pc = "learn"
  BY DEF LearnClause
<1>2. PICK pair, target : /\ Learn(pair, target)
                          /\ \/ Kept = {} /\ pair = {} /\ target = 0
                             \/ /\ Kept # {}
                                /\ pair = {first, Partner(Kept)}
                                /\ target = LevelOf(Partner(Kept))
  BY DEF LearnClause
<1>3. /\ target \in 0..Level - 1 /\ target \in 0..Level /\ target \in Nat
      /\ Level \in Nat /\ target < Level /\ Level > 0
      /\ \A k \in Kept : LevelOf(k) <= target /\ LevelOf(k) < Level
  <2>1. Level \in Nat /\ Level > 0
    BY <1>1, AnalysisEnds, StateTypes DEF IInv
  <2>2. CASE Kept = {}
    BY <1>2, <2>1, <2>2
  <2>3. CASE Kept # {}
    <3>1. /\ Partner(Kept) \in Kept /\ 0 < target /\ target < Level
          /\ \A k \in Kept : LevelOf(k) <= target
      BY <1>1, <1>2, <2>3, PartnerIs
    <3>2. target \in Nat /\ \A k \in Kept : LevelOf(k) \in Nat
      BY <1>1, <1>2, <2>3, <3>1, LearnedLits, StateTypes DEF IInv
    <3>3. QED
      BY <2>1, <3>1, <3>2
  <2>4. QED
    BY <2>2, <2>3
<1> DEFINE tr == TrailAt(target)
           en == Entry(first, target, Len(clauses) + 1)
<1>4. en \in TrailEntry
  BY <1>1, <1>3, AnalysisEnds, StateTypes DEF IInv, Entry, TrailEntry
<1>5. trail' = Append(tr, en)
  BY <1>2 DEF Learn
<1> HIDE DEF en
<1>6. /\ Len(tr) \in Nat
      /\ \A j \in 1..Len(tr) : j \in Positions /\ trail'[j] = trail[j] /\ trail[j].level <= target
      /\ \A j \in Positions : trail[j].level <= target => j \in 1..Len(tr)
  BY <1>3, <1>4, <1>5, CutKept DEF IInv
<1>7. tr \in Seq(TrailEntry)
  BY <1>3, Backtracked DEF IInv, Trails
<1> HIDE DEF tr
<1>8. Len(trail') = Len(tr) + 1
  BY <1>4, <1>5, <1>7, AppendProperties
<1>9. 1..Len(trail') - 1 = 1..Len(tr)
  BY <1>6, <1>8
<1>10. clauses'[Len(clauses')].lits = Kept \cup {first}
  <2> DEFINE c == [lits |-> Kept \cup {first}, head |-> pair, redundant |-> TRUE,
                   alive |-> TRUE, core |-> Glue(Kept) <= CoreGlueLimit]
  <2>1. clauses' = Append(clauses, c) /\ c.lits = Kept \cup {first}
    BY <1>2 DEF Learn
  <2>2. c \in Clause
    <3>1. pair \in SUBSET Lits /\ Kept \cup {first} \in SUBSET Lits
      BY <1>1, <1>2, AnalysisEnds, PartnerIs, LearnedLits
    <3>2. (Glue(Kept) <= CoreGlueLimit) \in BOOLEAN
      OBVIOUS
    <3>3. QED
      BY <3>1, <3>2 DEF Clause
  <2> HIDE DEF c
  <2>3. QED
    BY <2>1, <2>2, Appended DEF IInv, TypeOK
<1>11. PICK p \in Positions : /\ trail[p].lit = analysis.uip /\ trail[p].level = Level
                              /\ VarOf(first) = VarOf(trail[p].lit)
  BY <1>1, LearnedLits
<1>12. ASSUME NEW k \in Kept PROVE -k \in {trail'[i].lit : i \in 1..Len(tr)}
  <2>1. PICK i \in Positions : trail[i].lit = -k /\ LevelOf(k) = trail[i].level
    BY <1>1, LearnedLits
  <2>2. QED
    BY <1>3, <1>6, <2>1
<1>13. ASSUME NEW i \in 1..Len(tr), trail'[i].lit \in {analysis.uip, first} PROVE FALSE
  <2>1. i \in Positions /\ trail'[i] = trail[i] /\ i # p
    BY <1>3, <1>6, <1>11
  <2>2. VarOf(trail[i].lit) = VarOf(trail[p].lit)
    BY <1>11, <1>13, <2>1
  <2>3. QED
    BY <2>1, <2>2 DEF IInv, TrailOrdered, OrderedTrail, Positions
<1>14. ASSUME NEW r \in Alive, clauses[r].lits \subseteq Kept \cup {first} PROVE FALSE
  <2>1. \A k \in clauses[r].lits : IsFalse(k)
    <3>1. \A k \in Kept : IsFalse(k)
      BY <1>1, LearnedLits DEF IsFalse
    <3>2. IsFalse(first)
      <4>1. -first = analysis.uip
        BY <1>1, AnalysisEnds, Literals
      <4>2. QED
        BY <1>11, <4>1 DEF IsFalse
    <3>3. QED
      BY <1>14, <3>1, <3>2
  <2>2. r \in Refs /\ clauses[r].lits \subseteq Lits
    BY StateTypes DEF IInv, Alive
  <2>3. \A k \in clauses[r].lits : ~IsTrue(k)
    BY <2>1, <2>2, OneValue DEF IInv
  <2>4. CASE clauses[r].head = {}
    <3>1. r \in units /\ unit_queue = {}
      BY <1>1, <2>4 DEF CInv, AllWatched, UnitsAssigned
    <3>2. \E i \in Positions : trail[i].lit \in clauses[r].lits
      BY <1>1, <3>1 DEF CInv, UnitsAssigned
    <3>3. QED
      BY <2>3, <3>2 DEF IsTrue
  <2>5. CASE clauses[r].head # {}
    <3>1. PICK a, b \in clauses[r].lits : a # b /\ clauses[r].head = {a, b}
      BY <2>2, <2>5 DEF IInv, PairsAndUnits
    <3>2. PICK k \in clauses[r].head : k \in Kept
      BY <1>14, <3>1
    <3>3. PICK i \in Positions : trail[i].lit = -k /\ LevelOf(k) = trail[i].level
      BY <1>1, <3>2, LearnedLits
    <3>4. trail[i].level < Level /\ -trail[i].lit = k
      BY <1>1, <1>3, <3>2, <3>3, LearnedLits, Literals
    <3>5. ~RefutationAhead
      BY <1>3 DEF RefutationAhead
    <3>6. SatisfiedAt(r, i)
      BY <1>1, <3>2, <3>4, <3>5, BelowSatisfied
    <3>7. QED
      BY <2>1, <2>2, <3>6, SatisfiedNotFalse DEF IInv
  <2>6. QED
    BY <2>4, <2>5
<1>15. QED
  BY <1>9, <1>10, <1>12, <1>13, <1>14

\* Each conflict adds something propagation did not know.
THEOREM LearningProgress == Spec => LearnedIsNew
<1> DEFINE P == LET new == clauses'[Len(clauses')].lits
                    old == {trail'[i].lit : i \in 1..Len(trail') - 1}
                IN  /\ \A l \in new : l = -analysis.uip \/ -l \in old
                    /\ {analysis.uip, -analysis.uip} \cap old = {}
                    /\ \A r \in Alive : ~(clauses[r].lits \subseteq new)
<1>1. ASSUME EngineInv, Next, pc = "learn" PROVE P
  <2>1. LearnClause
    BY <1>1 DEF Next, Engine, AddProblemClause, Solve, AssignRootUnit, RootUnitFalsified,
       PropagateLiteral, VisitWatch, LuckyDecide, LuckySucceeds, LuckyFails, RefuteAtRoot,
       StartAnalysis, Resolve, OpenPlaceholder, OpenAssumption, AssumptionFailed, Restart,
       SkipRestart, Reduce, Decide, ModelFound, DecisionDue, SearchOn, AssumptionDue,
       SearchFixpoint, Fixpoint
  <2>2. QED
    BY <1>1, <2>1, LearnedNew DEF EngineInv
<1>2. EngineInv /\ [Next]_vars => [pc = "learn" => P]_vars
  BY <1>1
<1>3. QED
  BY <1>2, EngineInductive, PTL DEF Spec, LearnedIsNew

-----------------------------------------------------------------------------
(* The contract.                                                           *)

\* The literals of the trail extend to a total assignment.
LEMMA TrailExtends ==
  ASSUME IInv
  PROVE  \E m \in Assignments : TrailLits \subseteq m
<1> DEFINE m == {l \in Lits : IsTrue(l) \/ (l > 0 /\ ~IsFalse(l))}
<1>1. ASSUME NEW v \in Vars PROVE (v \in m) # (-v \in m)
  <2>1. v \in Lits /\ -v \in Lits /\ v > 0 /\ ~(-v > 0)
    BY NumVarsAssumption DEF Vars, Lits
  <2>2. IsTrue(-v) <=> IsFalse(v)
    BY DEF IsTrue, IsFalse
  <2>3. ~(IsTrue(v) /\ IsFalse(v))
    BY <2>1, OneValue DEF IInv
  <2>4. (-v \in m) <=> IsFalse(v)
    BY <2>1, <2>2
  <2>5. (v \in m) <=> ~IsFalse(v)
    BY <2>1, <2>3
  <2> HIDE DEF m
  <2>6. QED
    BY <2>4, <2>5
<1>2. m \in Assignments
  BY <1>1 DEF Assignments
<1>3. TrailLits \subseteq m
  BY StateTypes DEF IInv, TrailLits, IsTrue
<1>4. QED
  BY <1>2, <1>3

\* Every step is a step of the contract, or nothing the caller sees.
LEMMA StepIsContract ==
  ASSUME IInv, CInv, IInv', [Next]_vars
  PROVE  [Contract!Next]_(Contract!vars)
<1>1. CASE AddProblemClause
  <2>1. Contract!StateClause
    BY <1>1 DEF AddProblemClause, resultVars, setupVars, Range1,
       Contract!StateClause, Contract!Elements
  <2>2. QED
    BY <2>1 DEF Contract!Next
<1>2. CASE Solve
  <2>1. Contract!OpenEpisode
    BY <1>2 DEF Solve, StartUnits, Contract!OpenEpisode
  <2>2. QED
    BY <2>1 DEF Contract!Next
<1>3. CASE Engine
  <2>1. pc # "idle" /\ UNCHANGED <<calls, problem, request>>
    BY <1>3, EngineAnswers
  <2>2. CASE pc' # "idle" /\ UNCHANGED <<status, failed_core>>
    BY <2>1, <2>2 DEF Contract!vars
  <2>3. CASE /\ pc' = "idle" /\ status' = "satisfiable" /\ failed_core' = {}
             /\ LuckySucceeds \/ ModelFound
    <3>1. /\ \A c \in problem : TrailLits \cap c # {}
          /\ Range1(request.assumptions) \subseteq TrailLits
      BY <2>3, AnswerIsModel
    <3>2. PICK m \in Assignments : TrailLits \subseteq m
      BY TrailExtends
    <3>3. m \in Contract!Models
      BY <3>1, <3>2 DEF Contract!Models, Contract!Assignments, Contract!Lits, Contract!Vars,
         Assignments, Lits, Vars
    <3>4. Contract!Elements(request.assumptions) \subseteq m
      BY <3>1, <3>2 DEF Contract!Elements, Range1
    <3>5. Contract!CloseEpisode
      BY <2>1, <2>3, <3>3, <3>4 DEF Contract!CloseEpisode, Contract!AnswerSatisfiable
    <3>6. QED
      BY <3>5 DEF Contract!Next
  <2>4. CASE /\ pc' = "idle" /\ status' \in {"unknown", "unsatisfiable"}
             /\ failed_core' \subseteq Range1(request.assumptions)
             /\ status' = "unknown" =>
                  request.conflict_limit # 0 \/ request.decision_limit # 0
    <3>1. failed_core' \subseteq Contract!Elements(request.assumptions)
      BY <2>4 DEF Contract!Elements, Range1
    <3>2. status' = "unsatisfiable" =>
            \A m \in Contract!Models : ~(failed_core' \subseteq m)
      <4>1. Contract!Models = Models(problem)
        BY DEF Contract!Models, Contract!Assignments, Contract!Lits, Contract!Vars,
           Models, Assignments, Lits, Vars
      <4>2. Models(problem)' = Models(problem)
        BY <2>1 DEF Models
      <4>3. QED
        BY <2>4, <4>1, <4>2 DEF IInv, UnsatSound
    <3>3. Contract!CloseEpisode
      BY <2>1, <2>4, <3>1, <3>2
         DEF Contract!CloseEpisode, Contract!AnswerUnsatisfiable, Contract!AnswerUnknown
    <3>4. QED
      BY <3>3 DEF Contract!Next
  <2>5. QED
    BY <1>3, <2>2, <2>3, <2>4, EngineAnswers
<1>4. CASE UNCHANGED vars
  BY <1>4 DEF vars, callVars, setupVars, resultVars, Contract!vars
<1>5. QED
  BY <1>1, <1>2, <1>3, <1>4 DEF Next

\* The engine implements the contract its callers rely on.
THEOREM ContractImplemented == Spec => ImplementsContract
<1>1. Init => Contract!Init
  BY DEF Init, NoRequest, Contract!Init
<1>2. EngineInv /\ EngineInv' /\ [Next]_vars => [Contract!Next]_(Contract!vars)
  BY StepIsContract DEF EngineInv
<1>3. QED
  BY <1>1, <1>2, EngineInductive, PTL DEF Spec, ImplementsContract, Contract!Spec
=============================================================================
