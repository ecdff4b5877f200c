-------------------------- MODULE StandaloneProofs --------------------------
(*****************************************************************************)
(* Five of the components beside the engine.  The LRAT checker is sound for  *)
(* every set of variables, ids, clauses and chains: what it accepts follows  *)
(* from the antecedents it was given.  A variable that comes after any       *)
(* eliminations and compactions gets an index no variable has, for every set *)
(* of external variables and any number of compactions.  The runtime forgets *)
(* no request to stop and no clause offered to it, however calls and signals *)
(* alternate.  While clauses are flushed, slid down the arena or copied to   *)
(* its end, every reference still reaches its clause and every clause keeps  *)
(* its id, for any number of clauses, cells and moves.  And the program      *)
(* prints the models it has checked and no others, for every file and every  *)
(* list of arguments.                                                        *)
(*****************************************************************************)
EXTENDS LratChecker, VariableMap, Runtime, ProofPipeline, CommandLine, FiniteSetTheorems,
        FunctionTheorems, SequenceTheorems, Iterations, TLAPS

-----------------------------------------------------------------------------
(* The checker                                                             *)

LratInv == LratTypeOK /\ ReplayAgrees /\ AcceptedFollows

\* A literal of a recorded clause is a literal of the problem.
LEMMA RecordedLiteral ==
    ASSUME LratTypeOK, NEW id \in DOMAIN clauses, NEW k \in DOMAIN clauses[id]
    PROVE  /\ clauses[id] \in Seq(Literals)
           /\ clauses[id][k] \in Literals
           /\ clauses[id][k].var \in Variables
           /\ clauses[id][k].negated \in BOOLEAN
<1>1. clauses[id] \in Seq(Literals)
  BY BodiesAssumption DEF LratTypeOK
<1>2. clauses[id][k] \in Literals
  BY <1>1
<1> QED
  BY <1>1, <1>2 DEF Literals

\* Replaying an antecedent: where the assignment agrees with a model that
\* satisfies the antecedent, an antecedent that is not true under the
\* assignment has an open literal which the model makes true.
LEMMA ModelSatisfiesOpen ==
    ASSUME LratTypeOK,
           NEW m \in Models,
           NEW id \in DOMAIN clauses,
           \A v \in DOMAIN assigned : assigned[v] = m[v],
           Satisfies(m, clauses[id]),
           ~Satisfied(clauses[id])
    PROVE  \E j \in Open(clauses[id]) : m[clauses[id][j].var] # clauses[id][j].negated
<1> DEFINE c == clauses[id]
<1>1. PICK j \in DOMAIN c : m[c[j].var] # c[j].negated
  BY DEF Satisfies
<1>2. CASE c[j].var \in DOMAIN assigned
  <2>1. assigned[c[j].var] # c[j].negated
    BY <1>1, <1>2
  <2>2. j \in DOMAIN c \ Open(c)
    BY <1>1, <1>2 DEF Open
  <2> QED
    BY <2>1, <2>2 DEF Satisfied
<1>3. CASE c[j].var \notin DOMAIN assigned
  BY <1>1, <1>3 DEF Open
<1> QED
  BY <1>2, <1>3

\* The tables are empty and no check runs.
LEMMA LratInitInv == LratInit => LratInv
BY DEF LratInit, LratInv, LratTypeOK, ReplayAgrees, AcceptedFollows, Phases

\* Recording and forgetting happen between checks only.
LEMMA RecordingPreserves ==
    ASSUME LratInv, RecordClause \/ RecordAntecedents \/ ForgetClause
    PROVE  LratInv'
<1>1. phase = "idle" /\ phase' = "idle" /\ UNCHANGED checking
  BY DEF RecordClause, RecordAntecedents, ForgetClause, checking
<1>2. ReplayAgrees' /\ AcceptedFollows'
  BY <1>1 DEF ReplayAgrees, AcceptedFollows
<1>3. /\ DOMAIN clauses' \subseteq Ids
      /\ \A id \in DOMAIN clauses' : clauses'[id] \in Bodies
  <2>1. CASE RecordClause
    BY <2>1 DEF RecordClause, With, LratInv, LratTypeOK
  <2>2. CASE RecordAntecedents
    BY <2>2 DEF RecordAntecedents, LratInv, LratTypeOK
  <2>3. CASE ForgetClause
    BY <2>3 DEF ForgetClause, Without, LratInv, LratTypeOK
  <2> QED
    BY <2>1, <2>2, <2>3
<1>4. /\ DOMAIN antecedents' \subseteq Ids
      /\ \A id \in DOMAIN antecedents' : antecedents'[id] \in Chains
  <2>1. CASE RecordClause
    BY <2>1 DEF RecordClause, LratInv, LratTypeOK
  <2>2. CASE RecordAntecedents
    BY <2>2 DEF With, RecordAntecedents, LratInv, LratTypeOK
  <2>3. CASE ForgetClause
    BY <2>3 DEF ForgetClause, Without, LratInv, LratTypeOK
  <2> QED
    BY <2>1, <2>2, <2>3
<1>5. LratTypeOK'
  BY <1>1, <1>3, <1>4 DEF LratInv, LratTypeOK, checking, Phases
<1> QED
  BY <1>2, <1>5 DEF LratInv

\* The literals of the derived clause are assumed false one by one, which is
\* how a model that falsifies the clause has them.
LEMMA AssumingPreserves ==
    ASSUME LratInv, Verify \/ AssumeFalse \/ StartReplay
    PROVE  LratInv'
<1>1. CASE Verify
  <2>1. /\ phase' = "assume" /\ at' = 1 /\ assigned' = [v \in {} |-> FALSE]
        /\ clauses' = clauses /\ antecedents' = antecedents
        /\ subject' \in DOMAIN clauses \cap DOMAIN antecedents
    BY <1>1 DEF Verify, recorded
  <2>2. LratTypeOK'
    BY <2>1 DEF LratInv, LratTypeOK, Phases
  <2>3. ReplayAgrees' /\ AcceptedFollows'
    BY <2>1 DEF ReplayAgrees, AcceptedFollows
  <2> QED
    BY <2>2, <2>3 DEF LratInv
<1>2. CASE AssumeFalse
  <2> DEFINE lit == Derived[at]
  <2>1. /\ phase = "assume" /\ phase' = "assume" /\ at \in DOMAIN Derived
        /\ clauses' = clauses /\ antecedents' = antecedents /\ subject' = subject
        /\ assigned' = With(assigned, lit.var, lit.negated)
        /\ at' = at + 1 /\ Derived' = Derived
    BY <1>2 DEF AssumeFalse, recorded, Derived
  <2>2. subject \in DOMAIN clauses /\ LratTypeOK
    BY <2>1 DEF LratInv, LratTypeOK
  <2>3. lit.var \in Variables /\ lit.negated \in BOOLEAN
    BY <2>1, <2>2, RecordedLiteral DEF Derived
  <2>4. /\ DOMAIN assigned' = DOMAIN assigned \cup {lit.var}
        /\ assigned'[lit.var] = lit.negated
        /\ \A v \in DOMAIN assigned : v # lit.var => assigned'[v] = assigned[v]
    BY <2>1 DEF With
  <2>5. /\ DOMAIN assigned' \subseteq Variables
        /\ \A v \in DOMAIN assigned' : assigned'[v] \in BOOLEAN
    BY <2>2, <2>3, <2>4 DEF LratTypeOK
  <2>6. LratTypeOK'
    BY <2>1, <2>2, <2>5 DEF LratTypeOK, Phases
  <2>7. ReplayAgrees'
    <3> SUFFICES ASSUME NEW m \in Models, ~Satisfies(m, Derived), NEW v \in DOMAIN assigned'
                 PROVE  assigned'[v] = m[v]
      BY <2>1 DEF ReplayAgrees, Satisfies
    <3>1. m[lit.var] = lit.negated
      BY <2>1 DEF Satisfies
    <3>2. \A w \in DOMAIN assigned : assigned[w] = m[w]
      BY <2>1 DEF LratInv, ReplayAgrees
    <3> QED
      BY <2>4, <3>1, <3>2
  <2>8. AcceptedFollows'
    BY <2>1 DEF AcceptedFollows
  <2> QED
    BY <2>6, <2>7, <2>8 DEF LratInv
<1>3. CASE StartReplay
  <2>1. /\ phase = "assume" /\ phase' = "replay" /\ at' = 1
        /\ clauses' = clauses /\ antecedents' = antecedents
        /\ subject' = subject /\ assigned' = assigned /\ Derived' = Derived
    BY <1>3 DEF StartReplay, recorded, Derived
  <2>2. LratTypeOK'
    BY <2>1 DEF LratInv, LratTypeOK, Phases
  <2>3. ReplayAgrees'
    BY <2>1 DEF LratInv, ReplayAgrees, Satisfies
  <2>4. AcceptedFollows'
    BY <2>1 DEF AcceptedFollows
  <2> QED
    BY <2>2, <2>3, <2>4 DEF LratInv
<1> QED
  BY <1>1, <1>2, <1>3

\* A unit antecedent makes its open literal true, as every model of the
\* antecedents must.
LEMMA UnitPreserves ==
    ASSUME LratInv, ReplayUnit
    PROVE  LratInv'
<1> DEFINE id == Chain[at]
           c  == clauses[id]
<1>1. /\ phase = "replay" /\ phase' = "replay" /\ at' = at + 1
      /\ at \in DOMAIN Chain /\ id \in DOMAIN clauses /\ ~Satisfied(c)
      /\ clauses' = clauses /\ antecedents' = antecedents /\ subject' = subject
      /\ Derived' = Derived /\ Chain' = Chain
  BY DEF ReplayUnit, recorded, Derived, Chain
<1>2. PICK k \in DOMAIN c : /\ Open(c) = {k}
                            /\ assigned' = With(assigned, c[k].var, ~c[k].negated)
  BY DEF ReplayUnit
<1>3. LratTypeOK
  BY DEF LratInv
<1>4. c[k].var \in Variables /\ c[k].negated \in BOOLEAN
  BY <1>1, <1>3, RecordedLiteral
<1>5. /\ DOMAIN assigned' = DOMAIN assigned \cup {c[k].var}
      /\ assigned'[c[k].var] = ~c[k].negated
      /\ \A v \in DOMAIN assigned : v # c[k].var => assigned'[v] = assigned[v]
  BY <1>2 DEF With
<1>6. /\ DOMAIN assigned' \subseteq Variables
      /\ \A v \in DOMAIN assigned' : assigned'[v] \in BOOLEAN
  BY <1>3, <1>4, <1>5 DEF LratTypeOK
<1>7. LratTypeOK'
  BY <1>1, <1>3, <1>6 DEF LratTypeOK, Phases
<1>8. ReplayAgrees'
  <2> SUFFICES ASSUME NEW m \in Models,
                      ~Satisfies(m, Derived),
                      \A i \in DOMAIN Chain : Chain[i] \in DOMAIN clauses => Satisfies(m, clauses[Chain[i]]),
                      NEW v \in DOMAIN assigned'
               PROVE  assigned'[v] = m[v]
    BY <1>1 DEF ReplayAgrees, Satisfies
  <2>1. \A w \in DOMAIN assigned : assigned[w] = m[w]
    BY <1>1 DEF LratInv, ReplayAgrees
  <2>2. Satisfies(m, c)
    BY <1>1
  <2>3. m[c[k].var] # c[k].negated
    BY <1>1, <1>2, <1>3, <2>1, <2>2, ModelSatisfiesOpen
  <2>4. m[c[k].var] \in BOOLEAN
    BY <1>4 DEF Models
  <2>5. m[c[k].var] = ~c[k].negated
    BY <1>4, <2>3, <2>4
  <2> QED
    BY <1>5, <2>1, <2>5
<1>9. AcceptedFollows'
  BY <1>1 DEF AcceptedFollows
<1> QED
  BY <1>7, <1>8, <1>9 DEF LratInv

\* A falsified antecedent leaves no model of the antecedents that falsifies
\* the derived clause.
LEMMA ConflictPreserves ==
    ASSUME LratInv, ReplayConflict
    PROVE  LratInv'
<1> DEFINE id == Chain[at]
           c  == clauses[id]
<1>1. /\ phase = "replay" /\ phase' = "accepted" /\ at' = at
      /\ at \in DOMAIN Chain /\ id \in DOMAIN clauses /\ ~Satisfied(c) /\ Open(c) = {}
      /\ clauses' = clauses /\ antecedents' = antecedents /\ subject' = subject
      /\ assigned' = assigned /\ Derived' = Derived /\ Chain' = Chain
  BY DEF ReplayConflict, recorded, Derived, Chain, Open
<1>2. LratTypeOK'
  BY <1>1 DEF LratInv, LratTypeOK, Phases
<1>3. ReplayAgrees'
  BY <1>1 DEF ReplayAgrees
<1>4. AcceptedFollows'
  <2> SUFFICES ASSUME NEW m \in Models,
                      \A i \in DOMAIN Chain : Chain[i] \in DOMAIN clauses => Satisfies(m, clauses[Chain[i]]),
                      ~Satisfies(m, Derived)
               PROVE  FALSE
    BY <1>1 DEF AcceptedFollows, Satisfies
  <2>1. \A w \in DOMAIN assigned : assigned[w] = m[w]
    BY <1>1 DEF LratInv, ReplayAgrees
  <2>2. Satisfies(m, c)
    BY <1>1
  <2>3. \E j \in Open(c) : TRUE
    BY <1>1, <2>1, <2>2, ModelSatisfiesOpen DEF LratInv
  <2> QED
    BY <1>1, <2>3
<1> QED
  BY <1>2, <1>3, <1>4 DEF LratInv

\* Rejecting and returning claim nothing.
LEMMA EndingPreserves ==
    ASSUME LratInv, Reject \/ Return
    PROVE  LratInv'
<1>1. /\ phase' \in {"rejected", "idle"}
      /\ clauses' = clauses /\ antecedents' = antecedents /\ subject' = subject
      /\ phase # "idle"
  BY DEF Reject, Return, recorded
<1>2. \/ at' = at /\ assigned' = assigned
      \/ at' = 1 /\ assigned' = [v \in {} |-> FALSE]
  BY DEF Reject, Return
<1>3. LratTypeOK'
  BY <1>1, <1>2 DEF LratInv, LratTypeOK, Phases
<1> QED
  BY <1>1, <1>3 DEF LratInv, ReplayAgrees, AcceptedFollows

LEMMA LratStepInv == LratInv /\ [LratNext]_lratVars => LratInv'
<1> SUFFICES ASSUME LratInv, [LratNext]_lratVars PROVE LratInv'
  OBVIOUS
<1>1. CASE RecordClause \/ RecordAntecedents \/ ForgetClause
  BY <1>1, RecordingPreserves
<1>2. CASE Verify \/ AssumeFalse \/ StartReplay
  BY <1>2, AssumingPreserves
<1>3. CASE ReplayUnit
  BY <1>3, UnitPreserves
<1>4. CASE ReplayConflict
  BY <1>4, ConflictPreserves
<1>5. CASE Reject \/ Return
  BY <1>5, EndingPreserves
<1>6. CASE UNCHANGED lratVars
  BY <1>6 DEF LratInv, LratTypeOK, ReplayAgrees, AcceptedFollows, lratVars, recorded, checking,
              Derived, Chain, Satisfies
<1> QED
  BY <1>1, <1>2, <1>3, <1>4, <1>5, <1>6 DEF LratNext

\* What checker::lrat accepts follows from the antecedents it replayed, and
\* the replay agrees with every countermodel on the way (LRAT 71-112).
THEOREM CheckerSound == LratSpec => [](AcceptedFollows /\ ReplayAgrees)
<1>1. LratInit => LratInv
  BY LratInitInv
<1>2. LratInv /\ [LratNext]_lratVars => LratInv'
  BY LratStepInv
<1>3. LratInv => AcceptedFollows /\ ReplayAgrees
  BY DEF LratInv
<1> QED
  BY <1>1, <1>2, <1>3, PTL DEF LratSpec

\* The tables and the check in progress keep their types.
THEOREM CheckerTypeCorrect == LratSpec => []LratTypeOK
<1>1. LratInv => LratTypeOK
  BY DEF LratInv
<1> QED
  BY <1>1, LratInitInv, LratStepInv, PTL DEF LratSpec

-----------------------------------------------------------------------------
(* The variable map                                                        *)

\* Why it holds: a compaction moves an index down or leaves it where it is.
MapInv ==
    /\ next \in Nat
    /\ internalOf \in [DOMAIN internalOf -> Nat]
    /\ FreshIndexUnused
    /\ \A i \in DOMAIN permutation : permutation[i] \in 0..i

\* A set of naturals below a bound has a greatest element.
LEMMA GreatestExists ==
    ASSUME NEW S \in SUBSET Nat, S # {}, NEW n \in Nat, \A s \in S : s <= n
    PROVE  \E h \in S : \A s \in S : s <= h
<1>1. S \in SUBSET (0..n)
  OBVIOUS
<1> QED BY <1>1, Greatest

\* The rank of a live index is not above it.
LEMMA RankAtMost ==
    ASSUME MapInv, NEW i \in Live
    PROVE  Rank(i) \in 0..i
<1> DEFINE Below == {j \in Live : j < i}
<1>1. i \in Nat /\ Live \subseteq Nat
  BY DEF Live, Internals, MapInv
<1>2. Below \in SUBSET (0..(i - 1))
  <2>1. ASSUME NEW j \in Below PROVE j \in 0..(i - 1)
    <3>1. j \in Live /\ j < i
      OBVIOUS
    <3> QED BY <1>1, <3>1
  <2> QED BY <2>1
<1>3. IsFiniteSet(0..(i - 1)) /\ Cardinality(0..(i - 1)) = i
  BY <1>1, FS_Interval, SMT
<1>4. IsFiniteSet(Below) /\ Cardinality(Below) <= i
  BY <1>2, <1>3, FS_Subset
<1>5. Cardinality(Below) \in Nat
  BY <1>4, FS_CardinalityType
<1> QED BY <1>1, <1>4, <1>5, SMT DEF Rank

\* No index a compaction leaves is above the one it comes from.
LEMMA RenumberedAtMost ==
    ASSUME MapInv, NEW i \in Internals
    PROVE  Renumbered(i) \in 0..i
<1>1. i \in Nat
  BY DEF Internals, MapInv
<1> QED BY <1>1 DEF Renumbered, MapInv

\* The highest index after a compaction bounds them all.
LEMMA HighestBounds ==
    ASSUME MapInv, DOMAIN internalOf # {}
    PROVE  HighestIndex \in Nat /\ \A i \in Internals : Renumbered(i) <= HighestIndex
<1> DEFINE S == {Renumbered(i) : i \in Internals} \cup {0}
<1>1. S \in SUBSET Nat /\ S # {}
  BY RenumberedAtMost, SMT DEF Internals, MapInv
<1>2. \A s \in S : s <= next
  <2>1. ASSUME NEW i \in Internals PROVE Renumbered(i) <= next
    <3>1. i \in Nat /\ i < next /\ next \in Nat
      BY DEF Internals, MapInv, FreshIndexUnused
    <3>2. Renumbered(i) \in 0..i
      BY RenumberedAtMost
    <3> QED BY <3>1, <3>2, SMT
  <2> QED BY <2>1 DEF MapInv
<1>3. PICK h \in S : \A s \in S : s <= h
  BY <1>1, <1>2, GreatestExists DEF MapInv
<1>4. \A i \in Internals : Renumbered(i) <= h
  BY <1>3
<1>5. HighestIndex \in S /\ \A i \in Internals : Renumbered(i) <= HighestIndex
  BY <1>4 DEF HighestIndex
<1> QED BY <1>1, <1>5

\* The invariant holds with no variable mapped.
LEMMA MapInitInv == MapInit => MapInv
BY SMT DEF MapInit, MapInv, FreshIndexUnused, Internals

\* A new variable takes the next index and moves the next index past it.
LEMMA EnsurePreserves ==
    ASSUME MapInv, EnsureExternalVariable
    PROVE  MapInv'
<1>1. PICK x \in External :
         /\ ~Known(x)
         /\ internalOf' = [z \in DOMAIN internalOf \cup {x} |-> IF z = x THEN next ELSE internalOf[z]]
  BY DEF EnsureExternalVariable
<1>2. next' = next + 1 /\ permutation' = permutation
  BY DEF EnsureExternalVariable
<1>3. next' \in Nat /\ internalOf' \in [DOMAIN internalOf' -> Nat]
  BY <1>1, <1>2 DEF MapInv
<1>4. FreshIndexUnused'
  <2> SUFFICES ASSUME NEW z \in DOMAIN internalOf' PROVE internalOf'[z] < next'
    BY DEF FreshIndexUnused, Internals
  <2>1. z = x \/ (z \in DOMAIN internalOf /\ internalOf[z] \in Nat /\ internalOf[z] < next)
    BY <1>1 DEF MapInv, FreshIndexUnused, Internals
  <2> QED BY <1>1, <1>2, <2>1 DEF MapInv, Known
<1> QED BY <1>2, <1>3, <1>4 DEF MapInv

\* An elimination changes no mapping.
LEMMA EliminatePreserves ==
    ASSUME MapInv, MarkEliminated
    PROVE  MapInv'
BY DEF MarkEliminated, MapInv, FreshIndexUnused, Internals

\* The permutation ranks the live indices, which never moves one up.
LEMMA BuildPreserves ==
    ASSUME MapInv, BuildVariablePermutation
    PROVE  MapInv'
<1>1. permutation' = [i \in Live |-> Rank(i)]
  BY DEF BuildVariablePermutation
<1>2. \A i \in DOMAIN permutation' : permutation'[i] \in 0..i
  BY <1>1, RankAtMost
<1> QED BY <1>2 DEF BuildVariablePermutation, MapInv, FreshIndexUnused, Internals

\* The rewriting renumbers every index, and the next index follows the
\* highest of them.
LEMMA RewritePreserves ==
    ASSUME MapInv, RewriteExternalMapping
    PROVE  MapInv'
<1>1. /\ DOMAIN internalOf # {}
      /\ internalOf' = [x \in DOMAIN internalOf |-> Renumbered(internalOf[x])]
      /\ next' = 1 + HighestIndex
      /\ permutation' = permutation
  BY DEF RewriteExternalMapping
<1>2. HighestIndex \in Nat /\ \A i \in Internals : Renumbered(i) <= HighestIndex
  BY <1>1, HighestBounds
<1>3. \A z \in DOMAIN internalOf : internalOf[z] \in Nat /\ Renumbered(internalOf[z]) \in 0..internalOf[z]
  BY RenumberedAtMost DEF Internals, MapInv
<1>4. next' \in Nat /\ internalOf' \in [DOMAIN internalOf' -> Nat]
  BY <1>1, <1>2, <1>3, SMT
<1>5. FreshIndexUnused'
  <2> SUFFICES ASSUME NEW z \in DOMAIN internalOf' PROVE internalOf'[z] < next'
    BY DEF FreshIndexUnused, Internals
  <2>1. internalOf[z] \in Internals
    BY <1>1 DEF Internals
  <2> QED BY <1>1, <1>2, <1>3, <2>1, SMT
<1> QED BY <1>1, <1>4, <1>5 DEF MapInv

\* variable_mapper::rebuild_after_compaction sets the next index after the
\* highest kept one, eliminated variables included, so an index handed out by
\* ensure_external_variable is never one that is in use.
THEOREM FreshIndexes == MapSpec => []FreshIndexUnused
<1>1. MapInit => MapInv
  BY MapInitInv
<1>2. MapInv /\ [MapNext]_mapVars => MapInv'
  <2> SUFFICES ASSUME MapInv, [MapNext]_mapVars PROVE MapInv'
    OBVIOUS
  <2>1. CASE EnsureExternalVariable BY <2>1, EnsurePreserves
  <2>2. CASE MarkEliminated BY <2>2, EliminatePreserves
  <2>3. CASE BuildVariablePermutation BY <2>3, BuildPreserves
  <2>4. CASE RewriteExternalMapping BY <2>4, RewritePreserves
  <2>5. CASE UNCHANGED mapVars
    BY <2>5 DEF mapVars, MapInv, FreshIndexUnused, Internals
  <2> QED BY <2>1, <2>2, <2>3, <2>4, <2>5 DEF MapNext
<1>3. MapInv => FreshIndexUnused
  BY DEF MapInv
<1> QED BY <1>1, <1>2, <1>3, PTL DEF MapSpec

-----------------------------------------------------------------------------
(* The runtime                                                             *)

Requests == [Controllers -> [requested : BOOLEAN, installed : BOOLEAN]]
Portfolios == [launched : BOOLEAN, cancelled : BOOLEAN, collected : BOOLEAN,
               launches : Nat, cancels : Nat, collects : Nat, budget : Nat]

SignalTyped ==
    /\ pendingSignal \in BOOLEAN
    /\ signals \in Requests
    /\ wanted \subseteq Controllers
    /\ swept \subseteq Controllers

SignalInv ==
    /\ SignalTyped
    /\ \A c \in wanted \ swept : TerminationRequested(c)

\* Another controller's clear takes the process's flag away, so what a
\* cancelled portfolio is seen by is its own request; and a launch that has not
\* been cancelled or collected leaves room for one cancel and one collect.
PortfolioInv ==
    /\ portfolio \in Portfolios
    /\ portfolio.cancelled => signals["embedded"].requested
    /\ portfolio.cancels + (IF portfolio.launched /\ ~portfolio.cancelled THEN 1 ELSE 0) <= portfolio.launches
    /\ portfolio.collects + (IF portfolio.launched /\ ~portfolio.collected THEN 1 ELSE 0) <= portfolio.launches

Exchanges == [pending : Seq(Refs), attempts : Nat, invalid : Nat, duplicates : Nat, truncated : Nat,
              drained : Nat, limit : Nat]

ExchangeInv ==
    /\ exchange \in Exchanges
    /\ \A i, j \in 1..Len(exchange.pending) : exchange.pending[i] = exchange.pending[j] => i = j
    /\ exchange.attempts = exchange.invalid + exchange.duplicates + exchange.truncated
                             + exchange.drained + Len(exchange.pending)

Executors == [runs : Nat, merges : Nat, budget : Nat \ {0}, skipped : Nat, items : Nat, chunk : Nat,
              processed : Nat, ran : [items : Nat, budget : Nat \ {0}]]

ExecutorInv ==
    /\ executor \in Executors
    /\ executor.merges <= executor.runs
    /\ executor.chunk = ChunkSize(executor.ran.items, executor.ran.budget)

AdapterInv ==
    /\ adapter \in [active : BOOLEAN, activations : Nat, deactivations : Nat, epoch : Nat, last : Nat]
    /\ adapter.epoch = adapter.activations + adapter.deactivations

RuntimeInv == SignalInv /\ PortfolioInv /\ ExchangeInv /\ ExecutorInv /\ AdapterInv

LEMMA ClampBetween ==
    ASSUME NEW n \in Nat, NEW high \in Nat \ {0}
    PROVE  Clamp(n, 1, high) \in Nat \ {0} /\ Clamp(n, 1, high) <= high
BY DEF Clamp

\* Chunks of the size computed cover the items, and one item less per chunk
\* would not: no instance is left idle without need.
LEMMA ChunksCover ==
    ASSUME NEW items \in Nat, NEW threads \in Nat \ {0}
    PROVE  LET size == ChunkSize(items, threads)
           IN /\ size \in Nat
              /\ size * threads >= items
              /\ (size - 1) * threads < items \/ size = 0
<1> DEFINE q == items \div threads
<1> DEFINE r == items % threads
<1>1. q \in Nat /\ r \in 0..(threads - 1) /\ items = q * threads + r
  OBVIOUS
<1>2. (q + 1) * threads = q * threads + threads /\ (q - 1) * threads = q * threads - threads
  BY <1>1
<1>3. q * threads \in Nat
  BY <1>1
<1>4. ChunkSize(items, threads) = q + (IF r # 0 THEN 1 ELSE 0)
  BY DEF ChunkSize
<1> HIDE DEF q, r
<1>5. CASE r = 0
  <2>1. ChunkSize(items, threads) = q
    BY <1>1, <1>4, <1>5
  <2>2. q * threads >= items
    BY <1>1, <1>3, <1>5
  <2>3. (q - 1) * threads < items
    BY <1>1, <1>2, <1>3, <1>5
  <2> QED
    BY <1>1, <2>1, <2>2, <2>3
<1>6. CASE r # 0
  <2>1. ChunkSize(items, threads) = q + 1
    BY <1>1, <1>4, <1>6
  <2>2. (q + 1) * threads >= items
    BY <1>1, <1>2, <1>3
  <2>3. (q + 1) - 1 = q
    BY <1>1
  <2>4. q * threads < items
    BY <1>1, <1>3, <1>6
  <2> QED
    BY <1>1, <2>1, <2>2, <2>3, <2>4
<1> QED
  BY <1>5, <1>6

LEMMA RuntimeInitInv == RuntimeInit => RuntimeInv
<1> SUFFICES ASSUME RuntimeInit PROVE RuntimeInv
  OBVIOUS
<1> USE DEF RuntimeInit
<1>1. SignalInv
  BY DEF SignalInv, SignalTyped, Requests, TerminationRequested
<1>5. PortfolioInv
  BY DEF PortfolioInv, Portfolios, NoPortfolio
<1>2. ExchangeInv
  <2>1. StartLimit \in Nat
    BY ClampBetween, RuntimeAssumption DEF StartLimit
  <2> QED
    BY <2>1 DEF ExchangeInv, NoExchange, Exchanges
<1>3. ExecutorInv
  BY DEF ExecutorInv, Executors, NoExecution, ChunkSize
<1>4. AdapterInv
  BY DEF AdapterInv, NoAdapter
<1> QED
  BY <1>1, <1>2, <1>3, <1>4, <1>5 DEF RuntimeInv

\* A signal, a stop or a clear, of either controller, loses no request that is
\* not noted as swept.
LEMMA SignalsPreserved ==
    ASSUME SignalInv, [RuntimeNext]_runtimeVars
    PROVE  SignalInv'
<1> USE DEF SignalInv, SignalTyped, Requests, TerminationRequested
<1>1. CASE UNCHANGED signalVars
  BY <1>1 DEF signalVars
<1>2. CASE InstallHandlers
  BY <1>2 DEF InstallHandlers
<1>3. CASE HandleSignal
  BY <1>3 DEF HandleSignal
<1>4. ASSUME NEW c \in Controllers, Stopping(c), pendingSignal' = pendingSignal
      PROVE  SignalInv'
  <2>1. /\ signals' = [signals EXCEPT ![c].requested = TRUE]
        /\ wanted' = wanted \cup {c} /\ swept' = swept \ {c}
    BY <1>4 DEF Stopping
  <2>2. signals' \in Requests
    BY <2>1
  <2>3. \A d \in wanted' \ swept' : signals'[d].requested \/ pendingSignal'
    BY <1>4, <2>1
  <2> QED
    BY <1>4, <2>1, <2>2, <2>3
<1>5. ASSUME NEW c \in Controllers,
             signals' \in Requests, \A d \in Others(c) : signals'[d] = signals[d],
             pendingSignal' = FALSE, wanted' = wanted \ {c},
             swept' = (swept \ {c}) \cup {d \in Others(c) : pendingSignal /\ ~signals[d].requested}
      PROVE  SignalInv'
  <2>1. swept' \subseteq Controllers /\ wanted' \subseteq Controllers
    BY <1>5 DEF Others
  <2>2. ASSUME NEW d \in wanted' \ swept' PROVE signals'[d].requested
    <3>1. d \in Others(c) /\ d \in wanted \ swept
      BY <1>5, <2>2 DEF Others
    <3>2. signals[d].requested
      BY <1>5, <2>2, <3>1
    <3> QED
      BY <1>5, <3>1, <3>2
  <2> QED
    BY <1>5, <2>1, <2>2
<1>6. ASSUME NEW c \in Controllers, Clearing(c)
      PROVE  SignalInv'
  <2>1. signals' = [signals EXCEPT ![c].requested = FALSE]
    BY <1>6 DEF Clearing
  <2>2. signals' \in Requests /\ \A d \in Others(c) : signals'[d] = signals[d]
    BY <2>1 DEF Others
  <2> QED
    BY <1>5, <1>6, <2>2 DEF Clearing
<1>7. CASE RequestStop \/ NotifyOsSignal
  BY <1>4, <1>7 DEF RequestStop, NotifyOsSignal, Controllers
<1>8. CASE Clear
  BY <1>6, <1>8 DEF Clear, Controllers
<1>9. CASE ResetSignals
  <2>1. signals' = [signals EXCEPT !["main"] = [requested |-> FALSE, installed |-> FALSE]]
    BY <1>9 DEF ResetSignals
  <2>2. signals' \in Requests /\ \A d \in Others("main") : signals'[d] = signals[d]
    BY <2>1 DEF Others
  <2>3. "main" \in Controllers /\ Others("main") = {"embedded"}
    BY DEF Others, Controllers
  <2> QED
    BY <1>5, <1>9, <2>2, <2>3 DEF ResetSignals
<1>10. CASE LaunchStrategies
  BY <1>6, <1>10 DEF LaunchStrategies, Controllers
<1>11. CASE CancelOthersOnResult
  BY <1>4, <1>11 DEF CancelOthersOnResult, Controllers
<1>12. CASE ResetLifecycle
  <2>1. signals' = [signals EXCEPT !["embedded"] = [requested |-> FALSE, installed |-> FALSE]]
    BY <1>12 DEF ResetLifecycle
  <2>2. signals' \in Requests /\ \A d \in Others("embedded") : signals'[d] = signals[d]
    BY <2>1 DEF Others
  <2>3. "embedded" \in Controllers /\ Others("embedded") = {"main"}
    BY DEF Others, Controllers
  <2> QED
    BY <1>5, <1>12, <2>2, <2>3 DEF ResetLifecycle
<1> HIDE DEF SignalInv, SignalTyped, Requests, TerminationRequested
<1>13. CASE \/ CollectWinner \/ SetStrategyBudget
            \/ PublishClause \/ DrainIncoming \/ ApplyExchangePolicy \/ SetMaxPending \/ ResetExchangeState
            \/ SetWork \/ RunParallelPass \/ MergeDeterministicResult \/ ResetExecution
            \/ SwitchAdapter \/ ResetAdapter
  BY <1>1, <1>13 DEF CollectWinner, SetStrategyBudget,
                     PublishClause, DrainIncoming, ApplyExchangePolicy, SetMaxPending, ResetExchangeState,
                     SetWork, RunParallelPass, MergeDeterministicResult, ResetExecution, SwitchAdapter, ResetAdapter
<1> QED
  BY <1>1, <1>2, <1>3, <1>7, <1>8, <1>9, <1>10, <1>11, <1>12, <1>13 DEF RuntimeNext, runtimeVars, signalVars

\* No controller but the portfolio's own takes back the request that a
\* cancelled portfolio made.
LEMMA PortfolioPreserved ==
    ASSUME SignalInv, PortfolioInv, [RuntimeNext]_runtimeVars
    PROVE  PortfolioInv'
<1> USE DEF PortfolioInv
<1>0. signals \in Requests
  BY DEF SignalInv, SignalTyped
<1>t. /\ portfolio \in Portfolios
      /\ portfolio.launches + 1 \in Nat /\ portfolio.cancels + 1 \in Nat /\ portfolio.collects + 1 \in Nat
  BY DEF Portfolios
<1>1. CASE UNCHANGED portfolio /\ signals'["embedded"].requested = signals["embedded"].requested
  BY <1>1
<1>2. CASE \/ InstallHandlers \/ HandleSignal \/ RequestStop \/ NotifyOsSignal \/ Clear \/ ResetSignals
  <2>1. UNCHANGED portfolio
    BY <1>2 DEF InstallHandlers, HandleSignal, RequestStop, NotifyOsSignal, Clear, ResetSignals
  <2>2. signals'["embedded"].requested = signals["embedded"].requested
    BY <1>0, <1>2 DEF InstallHandlers, HandleSignal, RequestStop, NotifyOsSignal, Clear, ResetSignals,
                      Stopping, Clearing, Requests, Controllers
  <2> QED
    BY <1>1, <2>1, <2>2
<1>3. CASE LaunchStrategies
  <2>1. portfolio' = [portfolio EXCEPT !.launched = TRUE, !.cancelled = FALSE, !.collected = FALSE, !.launches = @ + 1]
    BY <1>3 DEF LaunchStrategies
  <2>2. portfolio' \in Portfolios
    BY <1>t, <2>1, Zenon DEF Portfolios
  <2>3. /\ portfolio.cancels \in Nat /\ portfolio.collects \in Nat /\ portfolio.launches \in Nat
        /\ portfolio.cancels <= portfolio.launches /\ portfolio.collects <= portfolio.launches
    BY DEF Portfolios
  <2>4. /\ portfolio'.launched /\ ~portfolio'.cancelled /\ ~portfolio'.collected
        /\ portfolio'.launches = portfolio.launches + 1
        /\ portfolio'.cancels = portfolio.cancels /\ portfolio'.collects = portfolio.collects
    BY <2>1 DEF Portfolios
  <2> QED
    BY <2>2, <2>3, <2>4
<1>4. CASE CancelOthersOnResult
  <2>1. portfolio' = [portfolio EXCEPT !.cancelled = TRUE, !.cancels = @ + 1]
    BY <1>4 DEF CancelOthersOnResult
  <2>2. portfolio.launched /\ ~portfolio.cancelled
    BY <1>4 DEF CancelOthersOnResult
  <2>3. signals'["embedded"].requested
    BY <1>0, <1>4 DEF CancelOthersOnResult, Stopping, Requests, Controllers
  <2>4. portfolio' \in Portfolios
    BY <1>t, <2>1, Zenon DEF Portfolios
  <2>5. /\ portfolio'.cancelled /\ portfolio'.cancels = portfolio.cancels + 1
        /\ portfolio'.launched = portfolio.launched /\ portfolio'.collected = portfolio.collected
        /\ portfolio'.launches = portfolio.launches /\ portfolio'.collects = portfolio.collects
    BY <2>1 DEF Portfolios
  <2>6. portfolio.cancels + 1 <= portfolio.launches
    BY <2>2
  <2> QED
    BY <2>3, <2>4, <2>5, <2>6 DEF Portfolios
<1>5. CASE CollectWinner
  <2>1. portfolio' = [portfolio EXCEPT !.collected = TRUE, !.collects = @ + 1] /\ UNCHANGED signals
    BY <1>5 DEF CollectWinner, signalVars
  <2>2. portfolio.launched /\ ~portfolio.collected
    BY <1>5 DEF CollectWinner
  <2>3. portfolio' \in Portfolios
    BY <1>t, <2>1, Zenon DEF Portfolios
  <2>4. /\ portfolio'.collected /\ portfolio'.collects = portfolio.collects + 1
        /\ portfolio'.launched = portfolio.launched /\ portfolio'.cancelled = portfolio.cancelled
        /\ portfolio'.launches = portfolio.launches /\ portfolio'.cancels = portfolio.cancels
    BY <2>1 DEF Portfolios
  <2>5. portfolio.collects + 1 <= portfolio.launches
    BY <2>2
  <2> QED
    BY <2>1, <2>3, <2>4, <2>5 DEF Portfolios
<1>6. CASE SetStrategyBudget
  <2>1. PICK n \in Threads : portfolio' = [portfolio EXCEPT !.budget = Clamp(n, 1, HighestBudget)]
    BY <1>6 DEF SetStrategyBudget
  <2>2. Clamp(n, 1, HighestBudget) \in Nat
    BY ClampBetween, RuntimeAssumption
  <2>3. portfolio' \in Portfolios
    BY <2>1, <2>2 DEF Portfolios
  <2> QED
    BY <1>6, <2>1, <2>3 DEF SetStrategyBudget, signalVars, Portfolios
<1>7. CASE ResetLifecycle
  BY <1>7 DEF ResetLifecycle, NoPortfolio, Portfolios
<1> HIDE DEF PortfolioInv
<1>8. CASE \/ PublishClause \/ DrainIncoming \/ ApplyExchangePolicy \/ SetMaxPending \/ ResetExchangeState
           \/ SetWork \/ RunParallelPass \/ MergeDeterministicResult \/ ResetExecution
           \/ SwitchAdapter \/ ResetAdapter
  BY <1>1, <1>8 DEF signalVars, PublishClause, DrainIncoming, ApplyExchangePolicy, SetMaxPending, ResetExchangeState,
                    SetWork, RunParallelPass, MergeDeterministicResult, ResetExecution, SwitchAdapter, ResetAdapter
<1> QED
  BY <1>1, <1>2, <1>3, <1>4, <1>5, <1>6, <1>7, <1>8 DEF RuntimeNext, runtimeVars, signalVars

\* What is offered to the exchange is pending, drained or counted.
LEMMA ExchangePreserved ==
    ASSUME ExchangeInv, [RuntimeNext]_runtimeVars
    PROVE  ExchangeInv'
<1> DEFINE p == exchange.pending
<1>p. p \in Seq(Refs) /\ Len(p) \in Nat
  BY DEF ExchangeInv, Exchanges
<1>d. \A i, j \in 1..Len(p) : p[i] = p[j] => i = j
  BY DEF ExchangeInv
<1>s. exchange.attempts = exchange.invalid + exchange.duplicates + exchange.truncated + exchange.drained + Len(p)
  BY DEF ExchangeInv
<1>e. exchange \in Exchanges
  BY DEF ExchangeInv
<1>t. /\ exchange.attempts + 1 \in Nat /\ exchange.invalid + 1 \in Nat /\ exchange.duplicates + 1 \in Nat
      /\ exchange.drained + Len(p) \in Nat /\ exchange.limit \in Nat
      /\ exchange.attempts \in Nat /\ exchange.invalid \in Nat /\ exchange.duplicates \in Nat
      /\ exchange.truncated \in Nat /\ exchange.drained \in Nat
  BY <1>p DEF ExchangeInv, Exchanges
\* the account in plain numbers
<1>a. PICK n \in Nat, a \in Nat, b \in Nat, c \in Nat, d \in Nat, l \in Nat :
        /\ n = exchange.attempts /\ a = exchange.invalid /\ b = exchange.duplicates
        /\ c = exchange.truncated /\ d = exchange.drained /\ l = Len(p)
  BY <1>p, <1>t
<1>b. n = a + b + c + d + l
  BY <1>a, <1>s, Zenon
<1>c. /\ n + 1 = (a + 1) + b + c + d + l
      /\ n + 1 = a + (b + 1) + c + d + l
      /\ n + 1 = a + b + c + d + (l + 1)
      /\ n = a + b + c + (d + l) + 0
      /\ \A k \in Nat : k <= l => n = a + b + (c + l - k) + d + k
  BY <1>b
<1>1. CASE UNCHANGED exchange
  BY <1>1 DEF ExchangeInv
<1>2. CASE PublishClause
  <2>1. PICK ref \in Refs \cup {0} :
          exchange' = LET tried == [exchange EXCEPT !.attempts = @ + 1] IN
                      CASE ref = 0 -> [tried EXCEPT !.invalid = @ + 1]
                        [] ref # 0 /\ ref \in Pending -> [tried EXCEPT !.duplicates = @ + 1]
                        [] ref # 0 /\ ref \notin Pending -> [tried EXCEPT !.pending = Append(@, ref)]
    BY <1>2 DEF PublishClause
  <2>2. CASE ref = 0
    <3>1. exchange' = [exchange EXCEPT !.attempts = @ + 1, !.invalid = @ + 1]
      BY <2>1, <2>2
    <3>2. exchange' \in Exchanges
      BY <1>e, <1>t, <3>1, Zenon DEF Exchanges
    <3>3. /\ exchange'.attempts = exchange.attempts + 1 /\ exchange'.invalid = exchange.invalid + 1
          /\ exchange'.duplicates = exchange.duplicates /\ exchange'.truncated = exchange.truncated
          /\ exchange'.drained = exchange.drained /\ exchange'.pending = p
      BY <1>e, <3>1 DEF Exchanges
    <3>s. exchange.attempts + 1 = (exchange.invalid + 1) + exchange.duplicates + exchange.truncated + exchange.drained + Len(p)
      BY <1>a, <1>c, Zenon
    <3>4. exchange'.attempts = exchange'.invalid + exchange'.duplicates + exchange'.truncated
                                 + exchange'.drained + Len(exchange'.pending)
      BY <3>s, <3>3, Zenon
    <3> QED
      BY <1>d, <3>2, <3>3, <3>4 DEF ExchangeInv
  <2>3. CASE ref # 0 /\ ref \in Pending
    <3>1. exchange' = [exchange EXCEPT !.attempts = @ + 1, !.duplicates = @ + 1]
      BY <2>1, <2>3
    <3>2. exchange' \in Exchanges
      BY <1>e, <1>t, <3>1, Zenon DEF Exchanges
    <3>3. /\ exchange'.attempts = exchange.attempts + 1 /\ exchange'.invalid = exchange.invalid
          /\ exchange'.duplicates = exchange.duplicates + 1 /\ exchange'.truncated = exchange.truncated
          /\ exchange'.drained = exchange.drained /\ exchange'.pending = p
      BY <1>e, <3>1 DEF Exchanges
    <3>s. exchange.attempts + 1 = exchange.invalid + (exchange.duplicates + 1) + exchange.truncated + exchange.drained + Len(p)
      BY <1>a, <1>c, Zenon
    <3>4. exchange'.attempts = exchange'.invalid + exchange'.duplicates + exchange'.truncated
                                 + exchange'.drained + Len(exchange'.pending)
      BY <3>s, <3>3, Zenon
    <3> QED
      BY <1>d, <3>2, <3>3, <3>4 DEF ExchangeInv
  <2>4. CASE ref # 0 /\ ref \notin Pending
    <3>1. exchange' = [exchange EXCEPT !.attempts = @ + 1, !.pending = Append(@, ref)]
      BY <2>1, <2>4
    <3>2. ref \in Refs /\ \A i \in 1..Len(p) : p[i] # ref
      BY <2>4 DEF Pending
    <3>3. /\ Append(p, ref) \in Seq(Refs)
          /\ Len(Append(p, ref)) = Len(p) + 1
          /\ \A i \in 1..Len(p) : Append(p, ref)[i] = p[i]
          /\ Append(p, ref)[Len(p) + 1] = ref
      BY <3>2, <1>p
    <3>4. \A i, j \in 1..Len(p) + 1 : Append(p, ref)[i] = Append(p, ref)[j] => i = j
      BY <1>p, <1>d, <3>2, <3>3
    <3> DEFINE longer == Append(p, ref)
    <3>5. exchange' = [exchange EXCEPT !.attempts = @ + 1, !.pending = longer]
      BY <3>1
    <3> HIDE DEF longer
    <3>6. exchange' \in Exchanges
      BY <1>e, <1>t, <3>3, <3>5, Zenon DEF Exchanges, longer
    <3>7. /\ exchange'.attempts = exchange.attempts + 1 /\ exchange'.invalid = exchange.invalid
          /\ exchange'.duplicates = exchange.duplicates /\ exchange'.truncated = exchange.truncated
          /\ exchange'.drained = exchange.drained /\ exchange'.pending = longer
      BY <1>e, <3>5 DEF Exchanges
    <3>s. exchange.attempts + 1 = exchange.invalid + exchange.duplicates + exchange.truncated + exchange.drained
                                    + (Len(p) + 1)
      BY <1>a, <1>c, Zenon
    <3>8. exchange'.attempts = exchange'.invalid + exchange'.duplicates + exchange'.truncated
                                 + exchange'.drained + Len(exchange'.pending)
      BY <3>s, <3>3, <3>7, Zenon DEF longer
    <3> QED
      BY <3>3, <3>4, <3>6, <3>7, <3>8 DEF longer, ExchangeInv
  <2> QED
    BY <2>2, <2>3, <2>4
<1>3. CASE DrainIncoming
  <2>1. exchange' = [exchange EXCEPT !.drained = @ + Len(p), !.pending = <<>>]
    BY <1>3 DEF DrainIncoming
  <2>2. exchange' \in Exchanges
    <3>1. <<>> \in Seq(Refs)
      OBVIOUS
    <3> QED
      BY <1>e, <1>t, <2>1, <3>1, Zenon DEF Exchanges
  <2>3. /\ exchange'.attempts = exchange.attempts /\ exchange'.invalid = exchange.invalid
        /\ exchange'.duplicates = exchange.duplicates /\ exchange'.truncated = exchange.truncated
        /\ exchange'.drained = exchange.drained + Len(p) /\ exchange'.pending = <<>>
    BY <1>e, <2>1 DEF Exchanges
  <2>4. exchange'.attempts = exchange'.invalid + exchange'.duplicates + exchange'.truncated
                               + exchange'.drained + Len(exchange'.pending)
    <3>1. exchange.attempts = exchange.invalid + exchange.duplicates + exchange.truncated + (exchange.drained + Len(p)) + 0
      BY <1>a, <1>c, Zenon
    <3>2. Len(exchange'.pending) = 0
      BY <2>3
    <3> QED
      BY <3>1, <3>2, <2>3, Zenon
  <2> QED
    BY <2>2, <2>3, <2>4 DEF ExchangeInv
<1>4. CASE ApplyExchangePolicy
  <2>1. /\ Len(p) > exchange.limit
        /\ exchange' = [exchange EXCEPT !.truncated = @ + Len(p) - exchange.limit,
                                        !.pending = SubSeq(@, 1, exchange.limit)]
    BY <1>4 DEF ApplyExchangePolicy
  <2>0. exchange.limit \in Nat /\ exchange.limit < Len(p)
    <3>1. exchange.limit \in Nat /\ Len(p) > exchange.limit
      BY <2>1, <1>t
    <3> QED
      BY <3>1, <1>p
  <2>2. /\ SubSeq(p, 1, exchange.limit) \in Seq(Refs)
        /\ Len(SubSeq(p, 1, exchange.limit)) = exchange.limit
        /\ \A i \in 1..exchange.limit : SubSeq(p, 1, exchange.limit)[i] = p[i]
    BY <2>0, <1>p
  <2> DEFINE shorter == SubSeq(p, 1, exchange.limit)
  <2>3. exchange' = [exchange EXCEPT !.truncated = @ + Len(p) - exchange.limit, !.pending = shorter]
    BY <2>1
  <2>4. exchange.truncated + Len(p) - exchange.limit \in Nat
    <3>1. exchange.truncated \in Nat
      BY <1>t
    <3> QED
      BY <1>p, <2>0, <3>1
  <2> HIDE DEF shorter
  <2>5. exchange' \in Exchanges
    BY <1>e, <1>t, <2>2, <2>3, <2>4, Zenon DEF Exchanges, shorter
  <2>6. /\ exchange'.attempts = exchange.attempts /\ exchange'.invalid = exchange.invalid
        /\ exchange'.duplicates = exchange.duplicates
        /\ exchange'.truncated = exchange.truncated + Len(p) - exchange.limit
        /\ exchange'.drained = exchange.drained /\ exchange'.pending = shorter
    BY <1>e, <2>3 DEF Exchanges
  <2>7. exchange'.attempts = exchange'.invalid + exchange'.duplicates + exchange'.truncated
                               + exchange'.drained + Len(exchange'.pending)
    <3>1. exchange.attempts = exchange.invalid + exchange.duplicates
                                + (exchange.truncated + Len(p) - exchange.limit) + exchange.drained + exchange.limit
      <4>1. exchange.limit \in Nat /\ exchange.limit <= l
        BY <1>a, <1>p, <2>0
      <4> QED
        BY <4>1, <1>a, <1>c, Zenon
    <3> QED
      BY <3>1, <2>2, <2>6, Zenon DEF shorter
  <2>8. ASSUME NEW i \in 1..exchange.limit, NEW j \in 1..exchange.limit, shorter[i] = shorter[j]
        PROVE  i = j
    <3>1. p[i] = p[j]
      BY <2>2, <2>8 DEF shorter
    <3>2. i \in 1..Len(p) /\ j \in 1..Len(p)
      BY <1>p, <2>0
    <3> QED
      BY <1>d, <3>1, <3>2
  <2> QED
    BY <2>2, <2>5, <2>6, <2>7, <2>8 DEF shorter, ExchangeInv
<1>5. CASE SetMaxPending
  <2>1. PICK allowed \in PendingLimits : exchange' = [exchange EXCEPT !.limit = Clamp(allowed, 1, HighestLimit)]
    BY <1>5 DEF SetMaxPending
  <2>2. Clamp(allowed, 1, HighestLimit) \in Nat
    BY ClampBetween, RuntimeAssumption
  <2>3. exchange' \in Exchanges
    BY <1>e, <1>t, <2>1, <2>2, Zenon DEF Exchanges
  <2>4. /\ exchange'.attempts = exchange.attempts /\ exchange'.invalid = exchange.invalid
        /\ exchange'.duplicates = exchange.duplicates /\ exchange'.truncated = exchange.truncated
        /\ exchange'.drained = exchange.drained /\ exchange'.pending = p
    BY <1>e, <2>1 DEF Exchanges
  <2> QED
    BY <1>d, <1>s, <2>3, <2>4 DEF ExchangeInv
<1>6. CASE ResetExchangeState
  <2>1. StartLimit \in Nat
    BY ClampBetween, RuntimeAssumption DEF StartLimit
  <2> QED
    BY <1>6, <2>1 DEF ResetExchangeState, NoExchange, Exchanges, ExchangeInv
<1>7. CASE \/ InstallHandlers \/ HandleSignal \/ RequestStop \/ NotifyOsSignal \/ Clear \/ ResetSignals
           \/ LaunchStrategies \/ CancelOthersOnResult \/ CollectWinner \/ SetStrategyBudget \/ ResetLifecycle
           \/ SetWork \/ RunParallelPass \/ MergeDeterministicResult \/ ResetExecution
           \/ SwitchAdapter \/ ResetAdapter
  BY <1>1, <1>7 DEF InstallHandlers, HandleSignal, RequestStop, NotifyOsSignal, Clear, ResetSignals,
                    LaunchStrategies, CancelOthersOnResult, CollectWinner, SetStrategyBudget, ResetLifecycle,
                    SetWork, RunParallelPass, MergeDeterministicResult, ResetExecution, SwitchAdapter, ResetAdapter
<1> QED
  BY <1>1, <1>2, <1>3, <1>4, <1>5, <1>6, <1>7 DEF RuntimeNext, runtimeVars

\* A merge has a pass to merge, and the chunk is the last pass's.
LEMMA ExecutorPreserved ==
    ASSUME ExecutorInv, [RuntimeNext]_runtimeVars
    PROVE  ExecutorInv'
<1> USE DEF ExecutorInv
<1>1. CASE UNCHANGED executor
  BY <1>1
<1>2. CASE SetWork
  <2>1. CASE \E n \in Threads : executor' = [executor EXCEPT !.budget = Clamp(n, 1, HighestBudget)]
    <3>1. PICK n \in Threads : executor' = [executor EXCEPT !.budget = Clamp(n, 1, HighestBudget)]
      BY <2>1
    <3>2. Clamp(n, 1, HighestBudget) \in Nat \ {0}
      BY ClampBetween, RuntimeAssumption
    <3> QED
      BY <3>1, <3>2 DEF Executors
  <2>2. CASE \E n \in WorkItems : executor' = [executor EXCEPT !.items = n]
    BY <2>2, RuntimeAssumption DEF Executors
  <2> QED
    BY <1>2, <2>1, <2>2 DEF SetWork
<1>3. CASE RunParallelPass
  <2> DEFINE size == ChunkSize(executor.items, executor.budget)
  <2>1. size \in Nat
    BY ChunksCover DEF Executors
  <2>2. executor' = [executor EXCEPT !.runs = @ + 1, !.processed = @ + executor.items, !.chunk = size,
                                     !.ran = [items |-> executor.items, budget |-> executor.budget]]
    BY <1>3 DEF RunParallelPass
  <2>3. /\ executor'.ran = [items |-> executor.items, budget |-> executor.budget]
        /\ executor'.chunk = size
    BY <2>2
  <2>4. executor'.chunk = ChunkSize(executor'.ran.items, executor'.ran.budget)
    BY <2>3
  <2> HIDE DEF size
  <2>5. executor' \in Executors
    <3>1. /\ executor.runs + 1 \in Nat /\ executor.processed + executor.items \in Nat
          /\ executor.items \in Nat /\ executor.budget \in Nat \ {0}
      BY DEF Executors
    <3> QED
      BY <2>1, <2>2, <3>1, Zenon DEF Executors
  <2>6. executor'.merges <= executor'.runs
    BY <2>2 DEF Executors
  <2> QED
    BY <2>4, <2>5, <2>6
<1>4. CASE MergeDeterministicResult
  <2>1. CASE executor.merges < executor.runs
    <3>1. executor' = [executor EXCEPT !.merges = @ + 1]
      BY <1>4, <2>1 DEF MergeDeterministicResult
    <3> QED
      BY <2>1, <3>1 DEF Executors
  <2>2. CASE ~(executor.merges < executor.runs)
    <3>1. executor' = [executor EXCEPT !.skipped = @ + 1]
      BY <1>4, <2>2 DEF MergeDeterministicResult
    <3> QED
      BY <3>1 DEF Executors
  <2> QED
    BY <2>1, <2>2
<1>5. CASE ResetExecution
  BY <1>5 DEF ResetExecution, NoExecution, ChunkSize, Executors
<1>6. CASE \/ InstallHandlers \/ HandleSignal \/ RequestStop \/ NotifyOsSignal \/ Clear \/ ResetSignals
           \/ LaunchStrategies \/ CancelOthersOnResult \/ CollectWinner \/ SetStrategyBudget \/ ResetLifecycle
           \/ PublishClause \/ DrainIncoming \/ ApplyExchangePolicy \/ SetMaxPending \/ ResetExchangeState
           \/ SwitchAdapter \/ ResetAdapter
  BY <1>1, <1>6 DEF InstallHandlers, HandleSignal, RequestStop, NotifyOsSignal, Clear, ResetSignals,
                    LaunchStrategies, CancelOthersOnResult, CollectWinner, SetStrategyBudget, ResetLifecycle,
                    PublishClause, DrainIncoming, ApplyExchangePolicy, SetMaxPending, ResetExchangeState,
                    SwitchAdapter, ResetAdapter
<1> HIDE DEF ExecutorInv
<1> QED
  BY <1>1, <1>2, <1>3, <1>4, <1>5, <1>6 DEF RuntimeNext, runtimeVars

\* Every switch of the adapter is an activation or a deactivation.
LEMMA AdapterPreserved ==
    ASSUME AdapterInv, [RuntimeNext]_runtimeVars
    PROVE  AdapterInv'
<1> USE DEF AdapterInv
<1>1. CASE UNCHANGED adapter
  BY <1>1
<1>2. CASE SwitchAdapter
  BY <1>2 DEF SwitchAdapter
<1>3. CASE ResetAdapter
  BY <1>3 DEF ResetAdapter, NoAdapter
<1>4. CASE \/ InstallHandlers \/ HandleSignal \/ RequestStop \/ NotifyOsSignal \/ Clear \/ ResetSignals
           \/ LaunchStrategies \/ CancelOthersOnResult \/ CollectWinner \/ SetStrategyBudget \/ ResetLifecycle
           \/ PublishClause \/ DrainIncoming \/ ApplyExchangePolicy \/ SetMaxPending \/ ResetExchangeState
           \/ SetWork \/ RunParallelPass \/ MergeDeterministicResult \/ ResetExecution
  BY <1>1, <1>4 DEF InstallHandlers, HandleSignal, RequestStop, NotifyOsSignal, Clear, ResetSignals,
                    LaunchStrategies, CancelOthersOnResult, CollectWinner, SetStrategyBudget, ResetLifecycle,
                    PublishClause, DrainIncoming, ApplyExchangePolicy, SetMaxPending, ResetExchangeState,
                    SetWork, RunParallelPass, MergeDeterministicResult, ResetExecution
<1> HIDE DEF AdapterInv
<1> QED
  BY <1>1, <1>2, <1>3, <1>4 DEF RuntimeNext, runtimeVars

\* A queue without repetition is as long as the set of its clauses is large.
LEMMA PendingCounts ==
    ASSUME ExchangeInv
    PROVE  Cardinality(Pending) = Len(exchange.pending)
<1> DEFINE p == exchange.pending
<1> DEFINE n == Len(p)
<1>1. p \in Seq(Refs) /\ n \in Nat /\ DOMAIN p = 1..n
  BY DEF ExchangeInv, Exchanges
<1> DEFINE F == [i \in 1..n |-> p[i]]
<1>2. F \in [1..n -> Pending]
  BY <1>1 DEF Pending
<1>3. \A i, j \in 1..n : F[i] = F[j] => i = j
  BY DEF ExchangeInv
<1>4. \A t \in Pending : \E i \in 1..n : F[i] = t
  BY <1>1 DEF Pending
<1> HIDE DEF F, n
<1>5. F \in Bijection(1..n, Pending)
  BY <1>2, <1>3, <1>4, Fun_IsBij
<1>6. ExistsBijection(1..n, Pending)
  BY <1>5 DEF ExistsBijection
<1>7. IsFiniteSet(1..n) /\ Cardinality(1..n) = n
  <2>1. /\ IsFiniteSet(1..n)
        /\ Cardinality(1..n) = IF 1 > n THEN 0 ELSE n - 1 + 1
    BY <1>1, FS_Interval
  <2> QED
    BY <1>1, <2>1
<1>8. Cardinality(Pending) = Cardinality(1..n)
  BY <1>6, <1>7, FS_Bijection
<1> QED
  BY <1>7, <1>8 DEF n

\* What the invariant says is what the property asks for.
LEMMA RuntimeInvSuffices == RuntimeInv => RuntimeKept
<1> SUFFICES ASSUME RuntimeInv PROVE RuntimeKept
  OBVIOUS
<1>1. StopsAreSeen
  <2>1. \A c \in wanted \ swept : TerminationRequested(c)
    BY DEF RuntimeInv, SignalInv
  <2>2. portfolio.cancelled => TerminationRequested("embedded")
    BY DEF RuntimeInv, PortfolioInv, TerminationRequested
  <2>3. portfolio.cancels <= portfolio.launches /\ portfolio.collects <= portfolio.launches
    BY DEF RuntimeInv, PortfolioInv, Portfolios
  <2> QED
    BY <2>1, <2>2, <2>3 DEF StopsAreSeen
<1>2. Cardinality(Pending) = Len(exchange.pending)
  BY PendingCounts DEF RuntimeInv
<1>3. LET ran == executor.ran IN
        /\ executor.chunk * ran.budget >= ran.items
        /\ (executor.chunk - 1) * ran.budget < ran.items \/ executor.chunk = 0
  <2>1. /\ executor.ran.items \in Nat /\ executor.ran.budget \in Nat \ {0}
        /\ executor.chunk = ChunkSize(executor.ran.items, executor.ran.budget)
    BY DEF RuntimeInv, ExecutorInv, Executors
  <2> QED
    BY <2>1, ChunksCover
<1> QED
  BY <1>1, <1>2, <1>3 DEF RuntimeKept, NothingUncounted, RuntimeInv, ExchangeInv, ExecutorInv, AdapterInv

\* The runtime forgets no request to stop but those the process's one flag lost
\* to another controller's clear, and no clause offered to it, for every set of
\* clauses, limit and budget (controller::signal, controller::portfolio,
\* shared_clause_exchange, parallel_preprocess_executor, co_fsm_adapter).
THEOREM RuntimeForgetsNothing == RuntimeSpec => []RuntimeKept
<1>1. RuntimeInv /\ [RuntimeNext]_runtimeVars => RuntimeInv'
  BY SignalsPreserved, PortfolioPreserved, ExchangePreserved, ExecutorPreserved, AdapterPreserved DEF RuntimeInv
<1> QED
  BY <1>1, RuntimeInitInv, RuntimeInvSuffices, PTL DEF RuntimeSpec

-----------------------------------------------------------------------------
(* Clause identity while clauses move                                      *)

\* Where a clause lives.
Standing(cells) == {k \in DOMAIN cells : cells[k].alive}

\* A redirect leads up the arena, away from a cell that holds no clause.
LinksUp(links, cells) ==
  \A k \in DOMAIN links : /\ k \in DOMAIN cells /\ links[k] \in DOMAIN cells
                          /\ k < links[k] /\ ~cells[k].alive
\* The lists name every living clause, each under one offset.
Names(links, cells, listed) ==
  /\ listed \subseteq DOMAIN cells
  /\ \A r \in listed : Resolve(links, r) \in Standing(cells)
  /\ \A k \in Standing(cells) : \E r \in listed : Resolve(links, r) = k
  /\ \A q, r \in listed : Resolve(links, q) = Resolve(links, r) => q = r
CellsTell(cells, made) ==
  /\ \A k \in DOMAIN cells : cells[k].of \in 1..made
  /\ \A j, k \in Standing(cells) : cells[j].of = cells[k].of => j = k

Table(f) == f \in [DOMAIN f -> Nat] /\ DOMAIN f \subseteq Nat
Bound(a) ==
  /\ a = [of |-> a.of, at |-> a.at, next |-> a.next]
  /\ Table(a.of) /\ Table(a.at) /\ a.next \in Nat \ {0}
  /\ \A r \in DOMAIN a.of : a.of[r] \in 1..(a.next - 1) /\ a.of[r] \in DOMAIN a.at /\ a.at[a.of[r]] = r
  /\ \A id \in DOMAIN a.at : a.at[id] \in DOMAIN a.of /\ a.of[a.at[id]] = id
Tracked(on, a, cells) == Bound(a) /\ DOMAIN a.of = IF on THEN Standing(cells) ELSE {}
Managed(links, cells, listed, a, o, log) ==
  /\ Bound(a)
  /\ DOMAIN a.of = listed
  /\ o = [active |-> listed, errors |-> 0]
  /\ \A r \in listed, k \in DOMAIN log : cells[Resolve(links, r)].of = log[k].of => a.of[r] = log[k].id
Reaches(links, cells, holders) ==
  \A h \in holders : h.ref \in DOMAIN cells /\ cells[Resolve(links, h.ref)].of = h.of
Stands(links, cells, holders) == \A h \in holders : cells[Resolve(links, h.ref)].alive
Follows(links, cells, moves) ==
  \A k \in DOMAIN moves : /\ moves[k][1] \in DOMAIN cells /\ moves[k][2] \in DOMAIN cells
                          /\ Resolve(links, moves[k][1]) = Resolve(links, moves[k][2])

Cells == [of : Nat, alive : BOOLEAN, garbage : BOOLEAN]
Holders == [ref : Nat, of : Nat]
Kinds ==
  /\ wiring \in Wirings /\ created \in Nat /\ tracking \in BOOLEAN /\ listening \in BOOLEAN
  /\ arena \in Seq(Cells) /\ Len(arena) <= MaxCells /\ Table(redirect)
  /\ orig \in Seq(Nat) /\ learned \in Seq(Nat)
  /\ watches \subseteq Holders /\ reasons \subseteq Holders
  /\ events \in Seq(ToSet(events)) /\ \A k \in DOMAIN events : events[k].of \in 1..created
  /\ moving \in Seq(Nat) /\ ToSet(moving) \subseteq DOMAIN arena
  /\ moved \in [Movers -> Seq(Nat \X Nat)]
Located ==
  /\ LinksUp(redirect, arena)
  /\ Names(redirect, arena, Listed)
  /\ CellsTell(arena, created)
Held ==
  /\ Reaches(redirect, arena, watches) /\ Reaches(redirect, arena, reasons)
  /\ Stands(redirect, arena, reasons)
Unmoved == wiring = "core" =>
  /\ redirect = <<>> /\ moving = <<>>
  /\ \A m \in Movers : moved[m] = <<>>
Told == wiring = "collector" =>
  /\ tracking /\ listening /\ learned = <<>> /\ IsInjective(orig)
  /\ Managed(redirect, arena, Listed, mgr, online, events)

PipelineInv ==
  /\ Kinds /\ Located /\ Held /\ Unmoved /\ Told
  /\ Tracked(tracking, ids, arena)
  /\ \A m \in Movers : Follows(redirect, arena, moved[m])

-----------------------------------------------------------------------------
(* Redirects                                                               *)

Onward(links, x) == IF x \in DOMAIN links THEN links[x] ELSE x

\* Redirects among n cells, upwards only.
Linked(links, n) == \A k \in DOMAIN links : k \in 1..n /\ links[k] \in 1..n /\ k < links[k]

\* The walk of a reference along the redirects, step by step, within S.
Closed(links, S) == \A x \in S : Onward(links, x) \in S
Walk(f, S, links, r) ==
  /\ f \in [0..MaxCells -> S] /\ f[0] = r /\ Resolve(links, r) = f[MaxCells]
  /\ \A k \in 1..MaxCells : f[k] = Onward(links, f[k - 1])

\* Resolve is the end of such a walk.
LEMMA ResolveUnfolds ==
  ASSUME NEW S, NEW links, NEW r \in S, Closed(links, S)
  PROVE  \E f : Walk(f, S, links, r)
<1> DEFINE N == MaxCells
           advance == [p \in S \X (1..N) |-> Onward(links, p[1])]
           IsWalk(f) == f = [k \in 0..N |-> IF k = 0 THEN r
                                          ELSE IF f[k - 1] \in DOMAIN links THEN links[f[k - 1]] ELSE f[k - 1]]
<1>1. N \in Nat
  BY BoundsAssumption
<1>2. advance \in [S \X (1..N) -> S]
  BY DEF Closed
<1>3. \A x \in S, k \in 1..N : advance[<<x, k>>] = Onward(links, x)
  OBVIOUS
<1> HIDE DEF advance, N
<1>4. PICK f : Runs(f, N, S, r, advance)
  BY <1>1, <1>2, Iteration
<1>5. f \in [0..N -> S] /\ f[0] = r /\ \A k \in 1..N : f[k] = Onward(links, f[k - 1])
  <2>1. f \in [0..N -> S] /\ f[0] = r
    BY <1>4 DEF Runs
  <2>2. ASSUME NEW k \in 1..N PROVE f[k] = Onward(links, f[k - 1])
    <3>1. k - 1 \in 0..N
      BY <1>1
    <3>2. f[k - 1] \in S /\ f[k] = advance[<<f[k - 1], k>>]
      BY <1>4, <2>1, <3>1 DEF Runs
    <3> QED
      BY <1>3, <3>2
  <2> QED
    BY <2>1, <2>2
<1>6. IsWalk(f)
  BY <1>1, <1>5 DEF Onward
<1> DEFINE g == CHOOSE h : IsWalk(h)
<1>7. IsWalk(g)
  BY <1>6
<1>8. Resolve(links, r) = g[N]
  BY DEF Resolve, N
<1> HIDE DEF g
<1>9. g[0] = r /\ \A k \in 1..N : g[k] = Onward(links, g[k - 1])
  BY <1>1, <1>7 DEF Onward
<1>10. Alike(f, g, N)
  BY <1>5, <1>9 DEF Alike
<1>11. g[N] = f[N]
  BY <1>1, <1>10, SameIteration
<1> QED
  BY <1>5, <1>8, <1>11 DEF N, Walk

\* A reference no redirect is left at stays.
LEMMA ResolveStays ==
  ASSUME NEW links, NEW r, r \notin DOMAIN links
  PROVE  Resolve(links, r) = r
<1> DEFINE S == {r}
<1>0. r \in S /\ Closed(links, S)
  BY DEF Onward, Closed
<1> HIDE DEF S
<1>1. PICK f : Walk(f, S, links, r)
  BY <1>0, ResolveUnfolds
<1>2. MaxCells \in 0..MaxCells
  BY BoundsAssumption
<1> QED
  BY <1>1, <1>2 DEF S, Walk

\* The walk of a reference: it stays among the cells and ends off the redirects.
WalksTo(f, links, n, r) ==
  /\ f \in [0..MaxCells -> 1..n] /\ f[0] = r /\ Resolve(links, r) = f[MaxCells]
  /\ \A k \in 1..MaxCells : f[k] = Onward(links, f[k - 1])
  /\ f[MaxCells] \in 1..n /\ f[MaxCells] \notin DOMAIN links

\* Redirects only lead up, so a walk of as many steps as there are cells ends.
LEMMA ResolveWalks ==
  ASSUME NEW n \in 0..MaxCells, NEW links, Linked(links, n), NEW r \in 1..n
  PROVE  \E f : WalksTo(f, links, n, r)
<1>1. MaxCells \in Nat
  BY BoundsAssumption
<1>2. \A x \in 1..n : Onward(links, x) \in 1..n
  BY DEF Onward, Linked
<1>3. PICK f \in [0..MaxCells -> 1..n] :
            /\ f[0] = r /\ Resolve(links, r) = f[MaxCells]
            /\ \A k \in 1..MaxCells : f[k] = Onward(links, f[k - 1])
  <2> DEFINE S == 1..n
  <2>1. r \in S /\ Closed(links, S)
    BY <1>2 DEF Closed
  <2> HIDE DEF S
  <2>2. \E f : Walk(f, S, links, r)
    BY <2>1, ResolveUnfolds
  <2> QED
    BY <2>2 DEF S, Walk
<1> DEFINE Climbs(k) == f[k] \notin DOMAIN links \/ f[k] > k
           P == {k \in Nat : k \in 0..MaxCells => Climbs(k)}
<1>4. 0 \in P
  BY <1>3
<1>5. ASSUME NEW k \in Nat, k \in P PROVE k + 1 \in P
  <2>1. SUFFICES ASSUME k + 1 \in 0..MaxCells PROVE Climbs(k + 1)
    OBVIOUS
  <2>2. k \in 0..MaxCells /\ k + 1 \in 1..MaxCells /\ (k + 1) - 1 = k
    BY <1>1, <2>1
  <2>3. f[k] \in 1..n /\ f[k + 1] = Onward(links, f[k]) /\ Climbs(k)
    BY <1>3, <1>5, <2>2
  <2>4. CASE f[k] \in DOMAIN links
    BY <2>3, <2>4 DEF Onward, Linked
  <2>5. CASE f[k] \notin DOMAIN links
    BY <2>3, <2>5 DEF Onward
  <2> QED
    BY <2>4, <2>5
<1>6. MaxCells \in P
  <2> HIDE DEF P
  <2> QED
    BY <1>1, <1>4, <1>5, CountingUp
<1>7. f[MaxCells] \in 1..n /\ Climbs(MaxCells)
  BY <1>1, <1>3, <1>6
<1>8. f[MaxCells] \notin DOMAIN links
  BY <1>1, <1>7
<1> QED
  BY <1>3, <1>7, <1>8 DEF WalksTo

\* A redirect leads where the cell it names leads.
LEMMA ResolveOnward ==
  ASSUME NEW n \in 0..MaxCells, NEW links, Linked(links, n), NEW r \in DOMAIN links
  PROVE  Resolve(links, r) = Resolve(links, links[r])
<1>1. MaxCells \in Nat /\ r \in 1..n /\ links[r] \in 1..n
  BY BoundsAssumption DEF Linked
<1>2. PICK f : WalksTo(f, links, n, r)
  BY <1>1, ResolveWalks
<1>3. PICK g : WalksTo(g, links, n, links[r])
  BY <1>1, ResolveWalks
<1> DEFINE h == [k \in 0..MaxCells |-> Onward(links, f[k])]
<1>4. h[0] = g[0] /\ h[MaxCells] = f[MaxCells]
  BY <1>1, <1>2, <1>3 DEF WalksTo, Onward
<1>5. ASSUME NEW k \in 1..MaxCells, g[k - 1] = h[k - 1] PROVE g[k] = h[k]
  <2>1. k - 1 \in 0..MaxCells /\ k \in 0..MaxCells
    BY <1>1
  <2>2. h[k - 1] = f[k]
    BY <1>2, <2>1 DEF WalksTo
  <2> QED
    BY <1>3, <1>5, <2>1, <2>2 DEF WalksTo
<1> HIDE DEF h
<1>6. Alike(h, g, MaxCells)
  BY <1>4, <1>5 DEF Alike
<1>7. g[MaxCells] = h[MaxCells]
  BY <1>1, <1>6, SameIteration
<1> QED
  BY <1>2, <1>3, <1>4, <1>7 DEF WalksTo

\* Resolve is the only function of the cells that follows the redirects.
LEMMA ResolveUnique ==
  ASSUME NEW n \in 0..MaxCells, NEW links, Linked(links, n), NEW H,
         \A r \in 1..n : H[r] = IF r \in DOMAIN links THEN H[links[r]] ELSE r,
         NEW r \in 1..n
  PROVE  Resolve(links, r) = H[r]
<1>1. MaxCells \in Nat
  BY BoundsAssumption
<1>2. PICK f : WalksTo(f, links, n, r)
  BY ResolveWalks
<1> DEFINE same == [k \in 0..MaxCells |-> H[r]]
           along == [k \in 0..MaxCells |-> H[f[k]]]
<1>3. along[0] = same[0] /\ same[MaxCells] = H[r]
  BY <1>1, <1>2 DEF WalksTo
<1>4. ASSUME NEW k \in 1..MaxCells, along[k - 1] = same[k - 1] PROVE along[k] = same[k]
  <2>1. k - 1 \in 0..MaxCells /\ k \in 0..MaxCells
    BY <1>1
  <2>2. f[k - 1] \in 1..n /\ f[k] = Onward(links, f[k - 1])
    BY <1>2, <2>1 DEF WalksTo
  <2>3. H[f[k]] = H[f[k - 1]]
    BY <2>2 DEF Onward
  <2> QED
    BY <1>4, <2>1, <2>3
<1>5. along[MaxCells] = H[f[MaxCells]]
  BY <1>1
<1> HIDE DEF same, along
<1>6. Alike(same, along, MaxCells)
  BY <1>3, <1>4 DEF Alike
<1>7. along[MaxCells] = same[MaxCells]
  BY <1>1, <1>6, SameIteration
<1>8. H[f[MaxCells]] = f[MaxCells]
  BY <1>2 DEF WalksTo
<1> QED
  BY <1>2, <1>3, <1>5, <1>7, <1>8 DEF WalksTo

\* A new redirect takes along what ended where it is left.
LEMMA ResolveBound ==
  ASSUME NEW n \in 0..MaxCells, n + 1 <= MaxCells, NEW links, Linked(links, n),
         NEW from \in 1..n, from \notin DOMAIN links
  PROVE  /\ Linked(Bind(links, from, n + 1), n + 1)
         /\ Resolve(Bind(links, from, n + 1), n + 1) = n + 1
         /\ \A r \in 1..n : Resolve(Bind(links, from, n + 1), r) =
                              IF Resolve(links, r) = from THEN n + 1 ELSE Resolve(links, r)
<1> DEFINE longer == Bind(links, from, n + 1)
           H == [r \in 1..(n + 1) |-> IF r = n + 1 \/ Resolve(links, r) = from THEN n + 1 ELSE Resolve(links, r)]
<1>1. n \in Nat /\ n + 1 \in 0..MaxCells
  BY BoundsAssumption
<1>2. /\ DOMAIN longer = DOMAIN links \cup {from} /\ longer[from] = n + 1
      /\ \A k \in DOMAIN links : longer[k] = links[k] /\ k # from /\ k \in 1..n /\ links[k] \in 1..n /\ k < links[k]
  BY DEF Bind, Linked
<1>3. Linked(longer, n + 1)
  BY <1>1, <1>2 DEF Linked
<1>4. ASSUME NEW r \in 1..(n + 1) PROVE H[r] = IF r \in DOMAIN longer THEN H[longer[r]] ELSE r
  <2>1. CASE r = n + 1
    BY <1>1, <1>2, <2>1
  <2>2. CASE r = from
    <3>1. Resolve(links, r) = from
      BY <2>2, ResolveStays
    <3> QED
      BY <1>1, <1>2, <2>2, <3>1
  <2>3. CASE r \in DOMAIN links
    <3>1. Resolve(links, r) = Resolve(links, links[r])
      BY <2>3, ResolveOnward
    <3>2. links[r] \in 1..n /\ r \in 1..n /\ longer[r] = links[r]
      BY <1>2, <2>3
    <3>3. H[links[r]] = H[r]
      BY <1>1, <3>1, <3>2
    <3> QED
      BY <1>2, <2>3, <3>2, <3>3
  <2>4. CASE r # n + 1 /\ r # from /\ r \notin DOMAIN links
    <3>1. Resolve(links, r) = r
      BY <2>4, ResolveStays
    <3> QED
      BY <1>2, <2>4, <3>1
  <2> QED
    BY <2>1, <2>2, <2>3, <2>4
<1> HIDE DEF longer
<1>5. \A r \in 1..(n + 1) : Resolve(longer, r) = H[r]
  <2> HIDE DEF H
  <2> QED
    BY <1>1, <1>3, <1>4, ResolveUnique
<1>6. H[n + 1] = n + 1 /\ \A r \in 1..n : r \in 1..(n + 1) /\ r # n + 1
  BY <1>1
<1> QED
  BY <1>1, <1>3, <1>5, <1>6 DEF longer

-----------------------------------------------------------------------------
(* The loops                                                               *)

\* A selection whose turn k takes what is good before it to what is good after it
\* ends with what is good.
LEMMA SelectedGood ==
  ASSUME NEW refs, Len(refs) \in Nat, NEW picked, NEW S, NEW Good \in [0..Len(refs) -> SUBSET S], <<>> \in Good[0],
         \A k \in 1..Len(refs) : \A x \in Good[k - 1] : (IF refs[k] \in picked THEN Append(x, refs[k]) ELSE x) \in Good[k]
  PROVE  Selected(refs, picked) \in Good[Len(refs)]
<1> DEFINE N == Len(refs)
           start == <<>>
           Round(x, k) == (IF refs[k] \in picked THEN Append(x, refs[k]) ELSE x)
           round == [p \in S \X (1..N) |-> Round(p[1], p[2])]
           IsLoop(f) == f = [n \in 0..N |-> IF n = 0 THEN start ELSE Round(f[n - 1], n)]
<1>1. ASSUME NEW k \in 1..N, NEW x \in Good[k - 1]
      PROVE  x \in S /\ round[<<x, k>>] = Round(x, k) /\ round[<<x, k>>] \in Good[k]
  <2>1. k - 1 \in 0..N
    OBVIOUS
  <2>2. Good[k - 1] \subseteq S
    BY <2>1
  <2> QED
    BY <2>2
<1>2. N \in Nat /\ Good \in [0..N -> SUBSET S] /\ start \in Good[0]
  OBVIOUS
<1> HIDE DEF round, Round, N, start
<1>3. StaysGood(Good, N, round)
  BY <1>1 DEF StaysGood
<1>4. \E f : Runs(f, N, S, start, round) /\ \A k \in 0..N : f[k] \in Good[k]
  BY ONLY <1>2, <1>3, GoodLoop
<1>5. PICK f \in [0..N -> S] :
            /\ f[0] = start
            /\ \A k \in 0..N : f[k] \in Good[k]
            /\ \A k \in 1..N : f[k] = round[<<f[k - 1], k>>]
  BY <1>4 DEF Runs
<1>6. ASSUME NEW k \in 1..N PROVE f[k] = Round(f[k - 1], k)
  <2>1. k - 1 \in 0..N
    BY <1>2
  <2> QED
    BY <1>1, <1>5, <2>1
<1>7. IsLoop(f)
  <2>1. ASSUME NEW n \in 0..N PROVE f[n] = IF n = 0 THEN start ELSE Round(f[n - 1], n)
    BY <1>2, <1>5, <1>6
  <2> QED
    BY <1>5, <2>1
<1> DEFINE g == CHOOSE h : IsLoop(h)
<1>8. IsLoop(g)
  BY <1>7
<1>9. Selected(refs, picked) = g[N]
  BY DEF Selected, N, Round, start
<1> HIDE DEF g
<1>10. g[0] = start /\ \A k \in 1..N : g[k] = Round(g[k - 1], k)
  BY <1>2, <1>8
<1> HIDE DEF IsLoop
<1>11. Alike(f, g, N)
  BY <1>5, <1>6, <1>10 DEF Alike
<1>12. g[N] = f[N]
  BY <1>2, <1>11, SameIteration
<1> QED
  BY <1>2, <1>5, <1>9, <1>12 DEF N

\* The same of a series of allocations,
LEMMA AllocatedGood ==
  ASSUME NEW refs, Len(refs) \in Nat, NEW S, NEW Good \in [0..Len(refs) -> SUBSET S], NEW a \in Good[0],
         \A k \in 1..Len(refs) : \A x \in Good[k - 1] : AllocateId(x, refs[k]) \in Good[k]
  PROVE  AllocatedAll(a, refs) \in Good[Len(refs)]
<1> DEFINE N == Len(refs)
           start == a
           Round(x, k) == AllocateId(x, refs[k])
           round == [p \in S \X (1..N) |-> Round(p[1], p[2])]
           IsLoop(f) == f = [n \in 0..N |-> IF n = 0 THEN start ELSE Round(f[n - 1], n)]
<1>1. ASSUME NEW k \in 1..N, NEW x \in Good[k - 1]
      PROVE  x \in S /\ round[<<x, k>>] = Round(x, k) /\ round[<<x, k>>] \in Good[k]
  <2>1. k - 1 \in 0..N
    OBVIOUS
  <2>2. Good[k - 1] \subseteq S
    BY <2>1
  <2> QED
    BY <2>2
<1>2. N \in Nat /\ Good \in [0..N -> SUBSET S] /\ start \in Good[0]
  OBVIOUS
<1> HIDE DEF round, Round, N, start
<1>3. StaysGood(Good, N, round)
  BY <1>1 DEF StaysGood
<1>4. \E f : Runs(f, N, S, start, round) /\ \A k \in 0..N : f[k] \in Good[k]
  BY ONLY <1>2, <1>3, GoodLoop
<1>5. PICK f \in [0..N -> S] :
            /\ f[0] = start
            /\ \A k \in 0..N : f[k] \in Good[k]
            /\ \A k \in 1..N : f[k] = round[<<f[k - 1], k>>]
  BY <1>4 DEF Runs
<1>6. ASSUME NEW k \in 1..N PROVE f[k] = Round(f[k - 1], k)
  <2>1. k - 1 \in 0..N
    BY <1>2
  <2> QED
    BY <1>1, <1>5, <2>1
<1>7. IsLoop(f)
  <2>1. ASSUME NEW n \in 0..N PROVE f[n] = IF n = 0 THEN start ELSE Round(f[n - 1], n)
    BY <1>2, <1>5, <1>6
  <2> QED
    BY <1>5, <2>1
<1> DEFINE g == CHOOSE h : IsLoop(h)
<1>8. IsLoop(g)
  BY <1>7
<1>9. AllocatedAll(a, refs) = g[N]
  BY DEF AllocatedAll, N, Round, start
<1> HIDE DEF g
<1>10. g[0] = start /\ \A k \in 1..N : g[k] = Round(g[k - 1], k)
  BY <1>2, <1>8
<1> HIDE DEF IsLoop
<1>11. Alike(f, g, N)
  BY <1>5, <1>6, <1>10 DEF Alike
<1>12. g[N] = f[N]
  BY <1>2, <1>11, SameIteration
<1> QED
  BY <1>2, <1>5, <1>9, <1>12 DEF N

\* of retirements,
LEMMA RetiredGood ==
  ASSUME NEW refs, Len(refs) \in Nat, NEW S, NEW Good \in [0..Len(refs) -> SUBSET S], NEW a \in Good[0],
         \A k \in 1..Len(refs) : \A x \in Good[k - 1] : RetireId(x, refs[k]) \in Good[k]
  PROVE  RetiredAll(a, refs) \in Good[Len(refs)]
<1> DEFINE N == Len(refs)
           start == a
           Round(x, k) == RetireId(x, refs[k])
           round == [p \in S \X (1..N) |-> Round(p[1], p[2])]
           IsLoop(f) == f = [n \in 0..N |-> IF n = 0 THEN start ELSE Round(f[n - 1], n)]
<1>1. ASSUME NEW k \in 1..N, NEW x \in Good[k - 1]
      PROVE  x \in S /\ round[<<x, k>>] = Round(x, k) /\ round[<<x, k>>] \in Good[k]
  <2>1. k - 1 \in 0..N
    OBVIOUS
  <2>2. Good[k - 1] \subseteq S
    BY <2>1
  <2> QED
    BY <2>2
<1>2. N \in Nat /\ Good \in [0..N -> SUBSET S] /\ start \in Good[0]
  OBVIOUS
<1> HIDE DEF round, Round, N, start
<1>3. StaysGood(Good, N, round)
  BY <1>1 DEF StaysGood
<1>4. \E f : Runs(f, N, S, start, round) /\ \A k \in 0..N : f[k] \in Good[k]
  BY ONLY <1>2, <1>3, GoodLoop
<1>5. PICK f \in [0..N -> S] :
            /\ f[0] = start
            /\ \A k \in 0..N : f[k] \in Good[k]
            /\ \A k \in 1..N : f[k] = round[<<f[k - 1], k>>]
  BY <1>4 DEF Runs
<1>6. ASSUME NEW k \in 1..N PROVE f[k] = Round(f[k - 1], k)
  <2>1. k - 1 \in 0..N
    BY <1>2
  <2> QED
    BY <1>1, <1>5, <2>1
<1>7. IsLoop(f)
  <2>1. ASSUME NEW n \in 0..N PROVE f[n] = IF n = 0 THEN start ELSE Round(f[n - 1], n)
    BY <1>2, <1>5, <1>6
  <2> QED
    BY <1>5, <2>1
<1> DEFINE g == CHOOSE h : IsLoop(h)
<1>8. IsLoop(g)
  BY <1>7
<1>9. RetiredAll(a, refs) = g[N]
  BY DEF RetiredAll, N, Round, start
<1> HIDE DEF g
<1>10. g[0] = start /\ \A k \in 1..N : g[k] = Round(g[k - 1], k)
  BY <1>2, <1>8
<1> HIDE DEF IsLoop
<1>11. Alike(f, g, N)
  BY <1>5, <1>6, <1>10 DEF Alike
<1>12. g[N] = f[N]
  BY <1>2, <1>11, SameIteration
<1> QED
  BY <1>2, <1>5, <1>9, <1>12 DEF N

\* of ids that follow their clauses down,
LEMMA FollowedGood ==
  ASSUME NEW refs, Len(refs) \in Nat, NEW S, NEW Good \in [0..Len(refs) -> SUBSET S], NEW a \in Good[0],
         \A k \in 1..Len(refs) : \A x \in Good[k - 1] : PreserveId(x, refs[k], k) \in Good[k]
  PROVE  Followed(a, refs) \in Good[Len(refs)]
<1> DEFINE N == Len(refs)
           start == a
           Round(x, k) == PreserveId(x, refs[k], k)
           round == [p \in S \X (1..N) |-> Round(p[1], p[2])]
           IsLoop(f) == f = [n \in 0..N |-> IF n = 0 THEN start ELSE Round(f[n - 1], n)]
<1>1. ASSUME NEW k \in 1..N, NEW x \in Good[k - 1]
      PROVE  x \in S /\ round[<<x, k>>] = Round(x, k) /\ round[<<x, k>>] \in Good[k]
  <2>1. k - 1 \in 0..N
    OBVIOUS
  <2>2. Good[k - 1] \subseteq S
    BY <2>1
  <2> QED
    BY <2>2
<1>2. N \in Nat /\ Good \in [0..N -> SUBSET S] /\ start \in Good[0]
  OBVIOUS
<1> HIDE DEF round, Round, N, start
<1>3. StaysGood(Good, N, round)
  BY <1>1 DEF StaysGood
<1>4. \E f : Runs(f, N, S, start, round) /\ \A k \in 0..N : f[k] \in Good[k]
  BY ONLY <1>2, <1>3, GoodLoop
<1>5. PICK f \in [0..N -> S] :
            /\ f[0] = start
            /\ \A k \in 0..N : f[k] \in Good[k]
            /\ \A k \in 1..N : f[k] = round[<<f[k - 1], k>>]
  BY <1>4 DEF Runs
<1>6. ASSUME NEW k \in 1..N PROVE f[k] = Round(f[k - 1], k)
  <2>1. k - 1 \in 0..N
    BY <1>2
  <2> QED
    BY <1>1, <1>5, <2>1
<1>7. IsLoop(f)
  <2>1. ASSUME NEW n \in 0..N PROVE f[n] = IF n = 0 THEN start ELSE Round(f[n - 1], n)
    BY <1>2, <1>5, <1>6
  <2> QED
    BY <1>5, <2>1
<1> DEFINE g == CHOOSE h : IsLoop(h)
<1>8. IsLoop(g)
  BY <1>7
<1>9. Followed(a, refs) = g[N]
  BY DEF Followed, N, Round, start
<1> HIDE DEF g
<1>10. g[0] = start /\ \A k \in 1..N : g[k] = Round(g[k - 1], k)
  BY <1>2, <1>8
<1> HIDE DEF IsLoop
<1>11. Alike(f, g, N)
  BY <1>5, <1>6, <1>10 DEF Alike
<1>12. g[N] = f[N]
  BY <1>2, <1>11, SameIteration
<1> QED
  BY <1>2, <1>5, <1>9, <1>12 DEF N

\* of moves,
LEMMA MovedAllGood ==
  ASSUME NEW refs, Len(refs) \in Nat, NEW S, NEW Good \in [0..Len(refs) -> SUBSET S], MoveState \in Good[0],
         \A k \in 1..Len(refs) : \A x \in Good[k - 1] : Moved(x, refs[k]) \in Good[k]
  PROVE  MovedAll(refs) \in Good[Len(refs)]
<1> DEFINE N == Len(refs)
           start == MoveState
           Round(x, k) == Moved(x, refs[k])
           round == [p \in S \X (1..N) |-> Round(p[1], p[2])]
           IsLoop(f) == f = [n \in 0..N |-> IF n = 0 THEN start ELSE Round(f[n - 1], n)]
<1>1. ASSUME NEW k \in 1..N, NEW x \in Good[k - 1]
      PROVE  x \in S /\ round[<<x, k>>] = Round(x, k) /\ round[<<x, k>>] \in Good[k]
  <2>1. k - 1 \in 0..N
    OBVIOUS
  <2>2. Good[k - 1] \subseteq S
    BY <2>1
  <2> QED
    BY <2>2
<1>2. N \in Nat /\ Good \in [0..N -> SUBSET S] /\ start \in Good[0]
  OBVIOUS
<1> HIDE DEF round, Round, N, start
<1>3. StaysGood(Good, N, round)
  BY <1>1 DEF StaysGood
<1>4. \E f : Runs(f, N, S, start, round) /\ \A k \in 0..N : f[k] \in Good[k]
  BY ONLY <1>2, <1>3, GoodLoop
<1>5. PICK f \in [0..N -> S] :
            /\ f[0] = start
            /\ \A k \in 0..N : f[k] \in Good[k]
            /\ \A k \in 1..N : f[k] = round[<<f[k - 1], k>>]
  BY <1>4 DEF Runs
<1>6. ASSUME NEW k \in 1..N PROVE f[k] = Round(f[k - 1], k)
  <2>1. k - 1 \in 0..N
    BY <1>2
  <2> QED
    BY <1>1, <1>5, <2>1
<1>7. IsLoop(f)
  <2>1. ASSUME NEW n \in 0..N PROVE f[n] = IF n = 0 THEN start ELSE Round(f[n - 1], n)
    BY <1>2, <1>5, <1>6
  <2> QED
    BY <1>5, <2>1
<1> DEFINE g == CHOOSE h : IsLoop(h)
<1>8. IsLoop(g)
  BY <1>7
<1>9. MovedAll(refs) = g[N]
  BY DEF MovedAll, N, Round, start
<1> HIDE DEF g
<1>10. g[0] = start /\ \A k \in 1..N : g[k] = Round(g[k - 1], k)
  BY <1>2, <1>8
<1> HIDE DEF IsLoop
<1>11. Alike(f, g, N)
  BY <1>5, <1>6, <1>10 DEF Alike
<1>12. g[N] = f[N]
  BY <1>2, <1>11, SameIteration
<1> QED
  BY <1>2, <1>5, <1>9, <1>12 DEF N

\* and of renamings.
LEMMA RenamedGood ==
  ASSUME NEW refs, Len(refs) \in Nat, NEW S, NEW Good \in [0..Len(refs) -> SUBSET S], NEW a \in Good[0],
         \A k \in 1..Len(refs) : \A x \in Good[k - 1] : RenamedOnce(x, refs[k]) \in Good[k]
  PROVE  Renamed(a, refs) \in Good[Len(refs)]
<1> DEFINE N == Len(refs)
           start == a
           Round(x, k) == RenamedOnce(x, refs[k])
           round == [p \in S \X (1..N) |-> Round(p[1], p[2])]
           IsLoop(f) == f = [n \in 0..N |-> IF n = 0 THEN start ELSE Round(f[n - 1], n)]
<1>1. ASSUME NEW k \in 1..N, NEW x \in Good[k - 1]
      PROVE  x \in S /\ round[<<x, k>>] = Round(x, k) /\ round[<<x, k>>] \in Good[k]
  <2>1. k - 1 \in 0..N
    OBVIOUS
  <2>2. Good[k - 1] \subseteq S
    BY <2>1
  <2> QED
    BY <2>2
<1>2. N \in Nat /\ Good \in [0..N -> SUBSET S] /\ start \in Good[0]
  OBVIOUS
<1> HIDE DEF round, Round, N, start
<1>3. StaysGood(Good, N, round)
  BY <1>1 DEF StaysGood
<1>4. \E f : Runs(f, N, S, start, round) /\ \A k \in 0..N : f[k] \in Good[k]
  BY ONLY <1>2, <1>3, GoodLoop
<1>5. PICK f \in [0..N -> S] :
            /\ f[0] = start
            /\ \A k \in 0..N : f[k] \in Good[k]
            /\ \A k \in 1..N : f[k] = round[<<f[k - 1], k>>]
  BY <1>4 DEF Runs
<1>6. ASSUME NEW k \in 1..N PROVE f[k] = Round(f[k - 1], k)
  <2>1. k - 1 \in 0..N
    BY <1>2
  <2> QED
    BY <1>1, <1>5, <2>1
<1>7. IsLoop(f)
  <2>1. ASSUME NEW n \in 0..N PROVE f[n] = IF n = 0 THEN start ELSE Round(f[n - 1], n)
    BY <1>2, <1>5, <1>6
  <2> QED
    BY <1>5, <2>1
<1> DEFINE g == CHOOSE h : IsLoop(h)
<1>8. IsLoop(g)
  BY <1>7
<1>9. Renamed(a, refs) = g[N]
  BY DEF Renamed, N, Round, start
<1> HIDE DEF g
<1>10. g[0] = start /\ \A k \in 1..N : g[k] = Round(g[k - 1], k)
  BY <1>2, <1>8
<1> HIDE DEF IsLoop
<1>11. Alike(f, g, N)
  BY <1>5, <1>6, <1>10 DEF Alike
<1>12. g[N] = f[N]
  BY <1>2, <1>11, SameIteration
<1> QED
  BY <1>2, <1>5, <1>9, <1>12 DEF N

-----------------------------------------------------------------------------
(* Selections, and the two allocators                                      *)

Rising(q) == \A i, j \in DOMAIN q : i < j => q[i] < q[j]

\* What a selection has after n turns.
Chosen(q, refs, picked, n) ==
  /\ ToSet(q) = {refs[i] : i \in 1..n} \cap picked
  /\ IsInjective(refs) => IsInjective(q)
  /\ Rising(refs) => Rising(q)

\* One turn of a selection.
LEMMA ChosenNext ==
  ASSUME NEW T, T \subseteq Int, NEW refs \in Seq(T), NEW picked, NEW n \in 1..Len(refs),
         NEW q \in Seq(T), Chosen(q, refs, picked, n - 1)
  PROVE  LET r == IF refs[n] \in picked THEN Append(q, refs[n]) ELSE q
         IN r \in Seq(T) /\ Chosen(r, refs, picked, n)
<1> DEFINE Seen(m) == {refs[i] : i \in 1..m}
<1>1. n \in Nat /\ refs[n] \in T /\ n \in DOMAIN refs /\ \A i \in 1..(n - 1) : i \in DOMAIN refs /\ i < n /\ refs[i] \in T
  OBVIOUS
<1>2. Seen(n) = Seen(n - 1) \cup {refs[n]}
  <2>1. 1..n = 1..(n - 1) \cup {n}
    BY <1>1
  <2> QED
    BY <2>1
<1>3. ToSet(q) = Seen(n - 1) \cap picked
  BY DEF Chosen
<1>4. CASE refs[n] \notin picked
  BY <1>2, <1>3, <1>4 DEF Chosen
<1>5. CASE refs[n] \in picked
  <2> DEFINE r == Append(q, refs[n])
  <2>1. /\ r \in Seq(T) /\ DOMAIN r = DOMAIN q \cup {Len(q) + 1} /\ r[Len(q) + 1] = refs[n]
        /\ Len(q) \in Nat /\ \A i \in DOMAIN q : r[i] = q[i] /\ q[i] \in T /\ i < Len(q) + 1 /\ i \in Nat
    BY <1>1
  <2>2. \A i \in DOMAIN q : \E j \in 1..(n - 1) : q[i] = refs[j]
    <3>1. \A i \in DOMAIN q : q[i] \in Seen(n - 1)
      BY <1>3 DEF ToSet
    <3> QED
      BY <3>1
  <2> HIDE DEF r
  <2>3. ToSet(r) = Seen(n) \cap picked
    <3>1. ToSet(r) = ToSet(q) \cup {refs[n]}
      BY <2>1 DEF ToSet
    <3> HIDE DEF Seen
    <3> QED
      BY <1>2, <1>3, <1>5, <3>1
  <2>4. ASSUME IsInjective(refs) PROVE IsInjective(r)
    <3>1. \A i \in DOMAIN q : q[i] # refs[n]
      BY <1>1, <2>2, <2>4 DEF IsInjective
    <3>2. IsInjective(q)
      BY <2>4 DEF Chosen
    <3> QED
      BY <2>1, <3>1, <3>2 DEF IsInjective
  <2>5. ASSUME Rising(refs) PROVE Rising(r)
    <3>1. \A i \in DOMAIN q : q[i] < refs[n]
      BY <1>1, <2>2, <2>5 DEF Rising
    <3>2. Rising(q)
      BY <2>5 DEF Chosen
    <3>3. SUFFICES ASSUME NEW i \in DOMAIN r, NEW j \in DOMAIN r, i < j PROVE r[i] < r[j]
      BY DEF Rising
    <3>4. i \in DOMAIN q
      BY <2>1, <3>3
    <3>5. CASE j \in DOMAIN q
      BY <2>1, <3>2, <3>3, <3>4, <3>5 DEF Rising
    <3>6. CASE j = Len(q) + 1
      BY <2>1, <3>1, <3>4, <3>6
    <3> QED
      BY <2>1, <3>5, <3>6
  <2> QED
    BY <1>5, <2>1, <2>3, <2>4, <2>5 DEF Chosen, r
<1> QED
  BY <1>4, <1>5

\* A selection holds what the sequence holds of the set, in its order.
LEMMA SelectedIs ==
  ASSUME NEW T, T \subseteq Int, NEW refs \in Seq(T), NEW picked
  PROVE  /\ Selected(refs, picked) \in Seq(T)
         /\ ToSet(Selected(refs, picked)) = ToSet(refs) \cap picked
         /\ IsInjective(refs) => IsInjective(Selected(refs, picked))
         /\ Rising(refs) => Rising(Selected(refs, picked))
<1> DEFINE N == Len(refs)
           Good == [n \in 0..N |-> {q \in Seq(T) : Chosen(q, refs, picked, n)}]
           S == Seq(T)
<1>1. N \in Nat /\ Good \in [0..N -> SUBSET S]
  OBVIOUS
<1>2. <<>> \in Good[0]
  BY <1>1 DEF Chosen, ToSet, IsInjective, Rising
<1>3. ASSUME NEW k \in 1..N, NEW x \in Good[k - 1]
      PROVE  (IF refs[k] \in picked THEN Append(x, refs[k]) ELSE x) \in Good[k]
  <2>1. k - 1 \in 0..N /\ k \in 0..N
    BY <1>1
  <2>2. x \in Seq(T) /\ Chosen(x, refs, picked, k - 1)
    BY <2>1
  <2> QED
    BY <2>1, <2>2, ChosenNext
<1> HIDE DEF Good, S
<1>4. Selected(refs, picked) \in Good[N]
  BY <1>1, <1>2, <1>3, SelectedGood
<1>5. Selected(refs, picked) \in Seq(T) /\ Chosen(Selected(refs, picked), refs, picked, N)
  BY <1>1, <1>4 DEF Good
<1>6. {refs[i] : i \in 1..N} = ToSet(refs)
  BY DEF ToSet
<1> QED
  BY <1>5, <1>6 DEF Chosen

\* The tables of an allocator.
Tables == UNION {[D -> Nat] : D \in SUBSET Nat}
Allocators == [of : Tables, at : Tables, next : Nat]
\* What is bound is an allocator.
LEMMA BoundIsAllocator == ASSUME NEW a, Bound(a) PROVE a \in Allocators
<1>1. \A f : Table(f) => f \in Tables
  BY DEF Table, Tables
<1>2. a.of \in Tables /\ a.at \in Tables /\ a.next \in Nat
  BY <1>1 DEF Bound
<1>3. a = [of |-> a.of, at |-> a.at, next |-> a.next]
  BY DEF Bound
<1> QED
  BY <1>2, <1>3 DEF Allocators

\* b binds what a binds, and the added offsets.
Binds(a, b, added) == /\ Bound(b) /\ DOMAIN b.of = DOMAIN a.of \cup added
                      /\ \A x \in DOMAIN a.of : b.of[x] = a.of[x]
\* An allocation binds its offset and no other.
LEMMA AllocateIdBinds ==
  ASSUME NEW a, Bound(a), NEW r \in Nat
  PROVE  Binds(a, AllocateId(a, r), {r})
<1> DEFINE b == AllocateId(a, r)
<1>1. CASE r \in DOMAIN a.of
  BY <1>1 DEF AllocateId, Binds
<1>2. CASE r \notin DOMAIN a.of
  <2>1. a.next \in Nat /\ a.next \notin DOMAIN a.at
    BY DEF Bound
  <2>2. /\ b.of = Bind(a.of, r, a.next) /\ b.at = Bind(a.at, a.next, r) /\ b.next = a.next + 1
        /\ b = [of |-> b.of, at |-> b.at, next |-> b.next]
    BY <1>2 DEF AllocateId
  <2> HIDE DEF b
  <2>3. /\ DOMAIN b.of = DOMAIN a.of \cup {r} /\ b.of[r] = a.next
        /\ \A x \in DOMAIN a.of : b.of[x] = a.of[x] /\ x # r
    BY <1>2, <2>2 DEF Bind
  <2>4. /\ DOMAIN b.at = DOMAIN a.at \cup {a.next} /\ b.at[a.next] = r
        /\ \A x \in DOMAIN a.at : b.at[x] = a.at[x] /\ x # a.next
    BY <2>1, <2>2 DEF Bind
  <2>5. Table(b.of) /\ Table(b.at)
    BY <2>1, <2>2 DEF Table, Bind, Bound
  <2>6. \A x \in DOMAIN b.of : b.of[x] \in 1..(b.next - 1) /\ b.of[x] \in DOMAIN b.at /\ b.at[b.of[x]] = x
    <3>1. a.next >= 1
      BY DEF Bound
    <3>2. \A x \in DOMAIN a.of : a.of[x] \in 1..(a.next - 1) /\ a.of[x] \in DOMAIN a.at /\ a.at[a.of[x]] = x
      BY DEF Bound
    <3> QED
      BY <2>1, <2>2, <2>3, <2>4, <3>1, <3>2
  <2>7. \A id \in DOMAIN b.at : b.at[id] \in DOMAIN b.of /\ b.of[b.at[id]] = id
    <3>1. \A id \in DOMAIN a.at : a.at[id] \in DOMAIN a.of /\ a.of[a.at[id]] = id
      BY DEF Bound
    <3> QED
      BY <2>3, <2>4, <3>1
  <2>8. Bound(b)
    BY <2>1, <2>2, <2>5, <2>6, <2>7 DEF Bound
  <2> QED
    BY <2>3, <2>8 DEF Binds, b
<1> QED
  BY <1>1, <1>2

\* The binding of a bound offset moves to a free one.
Rebinds(a, b, old, new) ==
  /\ Bound(b) /\ DOMAIN b.of = (DOMAIN a.of \ {old}) \cup {new} /\ b.of[new] = a.of[old]
  /\ \A x \in DOMAIN a.of \ {old} : b.of[x] = a.of[x]
\* So does a move, unless the new offset belongs to another id.
LEMMA PreserveIdRebinds ==
  ASSUME NEW a, Bound(a), NEW old \in DOMAIN a.of, NEW new \in Nat, new = old \/ new \notin DOMAIN a.of
  PROVE  Rebinds(a, PreserveId(a, old, new), old, new)
<1> DEFINE b == PreserveId(a, old, new)
<1>1. CASE new = old
  BY <1>1 DEF PreserveId, Rebinds
<1>2. CASE new # old
  <2>0. new \notin DOMAIN a.of
    BY <1>2
  <2>1. a.of[old] \in DOMAIN a.at /\ a.at[a.of[old]] = old /\ a.of[old] \in Nat
    BY DEF Bound
  <2>2. /\ b.of = Bind(Unbind(a.of, old), new, a.of[old]) /\ b.at = Bind(a.at, a.of[old], new) /\ b.next = a.next
        /\ b = [of |-> b.of, at |-> b.at, next |-> b.next]
    <3>1. b = [a EXCEPT !.of = Bind(Unbind(a.of, old), new, a.of[old]), !.at = Bind(a.at, a.of[old], new)]
      BY <1>2, <2>0 DEF PreserveId
    <3>2. a = [of |-> a.of, at |-> a.at, next |-> a.next]
      BY DEF Bound
    <3> HIDE DEF b
    <3> QED
      BY <3>1, <3>2
  <2> HIDE DEF b
  <2>3. /\ DOMAIN b.of = (DOMAIN a.of \ {old}) \cup {new} /\ b.of[new] = a.of[old]
        /\ \A x \in DOMAIN a.of \ {old} : b.of[x] = a.of[x] /\ x # new
    BY <2>0, <2>2 DEF Bind, Unbind, Restrict
  <2>4. /\ DOMAIN b.at = DOMAIN a.at /\ b.at[a.of[old]] = new
        /\ \A x \in DOMAIN a.at \ {a.of[old]} : b.at[x] = a.at[x]
    BY <2>1, <2>2 DEF Bind
  <2>5. Table(b.of) /\ Table(b.at)
    BY <2>1, <2>2 DEF Table, Bind, Unbind, Restrict, Bound
  <2>6. \A x \in DOMAIN b.of : b.of[x] \in 1..(b.next - 1) /\ b.of[x] \in DOMAIN b.at /\ b.at[b.of[x]] = x
    <3>1. \A x \in DOMAIN a.of : a.of[x] \in 1..(a.next - 1) /\ a.of[x] \in DOMAIN a.at /\ a.at[a.of[x]] = x
      BY DEF Bound
    <3>2. \A x \in DOMAIN a.of \ {old} : a.of[x] # a.of[old]
      BY <2>1, <3>1
    <3> QED
      BY <2>1, <2>2, <2>3, <2>4, <3>1, <3>2
  <2>7. \A id \in DOMAIN b.at : b.at[id] \in DOMAIN b.of /\ b.of[b.at[id]] = id
    <3>1. \A id \in DOMAIN a.at : a.at[id] \in DOMAIN a.of /\ a.of[a.at[id]] = id
      BY DEF Bound
    <3>2. \A id \in DOMAIN a.at \ {a.of[old]} : a.at[id] # old
      BY <3>1
    <3> QED
      BY <2>1, <2>3, <2>4, <3>1, <3>2
  <2>8. Bound(b)
    BY <2>2, <2>5, <2>6, <2>7 DEF Bound
  <2> QED
    BY <2>3, <2>8 DEF Rebinds, b
<1> QED
  BY <1>1, <1>2

\* A retired offset is bound no more.
Unbinds(a, b, gone) == /\ Bound(b) /\ DOMAIN b.of = DOMAIN a.of \ gone
                       /\ \A x \in DOMAIN b.of : b.of[x] = a.of[x]
\* A retirement unbinds its offset and no other.
LEMMA RetireIdUnbinds ==
  ASSUME NEW a, Bound(a), NEW r
  PROVE  Unbinds(a, RetireId(a, r), {r})
<1> DEFINE b == RetireId(a, r)
<1>1. \A id \in DOMAIN a.at : id \in Nat /\ id # 0 /\ a.at[id] \in DOMAIN a.of /\ a.of[a.at[id]] = id
  BY DEF Bound
<1>2. CASE r \notin DOMAIN a.of
  <2>1. b = a
    BY <1>1, <1>2 DEF RetireId, IdFor
  <2> QED
    BY <1>2, <2>1 DEF Unbinds
<1>3. CASE r \in DOMAIN a.of
  <2> DEFINE id == a.of[r]
  <2>1. id \in DOMAIN a.at /\ a.at[id] = r
    BY <1>3 DEF Bound
  <2>2. /\ b.of = Unbind(a.of, r) /\ b.at = Unbind(a.at, id) /\ b.next = a.next
        /\ b = [of |-> b.of, at |-> b.at, next |-> b.next]
    <3>1. b = [a EXCEPT !.of = Unbind(a.of, r), !.at = Unbind(a.at, id)]
      BY <1>3, <2>1 DEF RetireId, IdFor
    <3>2. a = [of |-> a.of, at |-> a.at, next |-> a.next]
      BY DEF Bound
    <3> HIDE DEF b
    <3> QED
      BY <3>1, <3>2
  <2> HIDE DEF b
  <2>3. DOMAIN b.of = DOMAIN a.of \ {r} /\ \A x \in DOMAIN a.of \ {r} : b.of[x] = a.of[x]
    BY <2>2 DEF Unbind, Restrict
  <2>4. DOMAIN b.at = DOMAIN a.at \ {id} /\ \A x \in DOMAIN a.at \ {id} : b.at[x] = a.at[x]
    BY <2>2 DEF Unbind, Restrict
  <2>5. Table(b.of) /\ Table(b.at)
    BY <2>2 DEF Table, Unbind, Restrict, Bound
  <2>6. \A x \in DOMAIN b.of : b.of[x] \in 1..(b.next - 1) /\ b.of[x] \in DOMAIN b.at /\ b.at[b.of[x]] = x
    <3>1. \A x \in DOMAIN a.of : a.of[x] \in 1..(a.next - 1) /\ a.of[x] \in DOMAIN a.at /\ a.at[a.of[x]] = x
      BY DEF Bound
    <3> QED
      BY <2>1, <2>2, <2>3, <2>4, <3>1
  <2>7. \A x \in DOMAIN b.at : b.at[x] \in DOMAIN b.of /\ b.of[b.at[x]] = x
    BY <1>1, <2>3, <2>4
  <2>8. Bound(b)
    <3>1. a.next \in Nat
      BY DEF Bound
    <3> QED
      BY <2>2, <2>5, <2>6, <2>7, <3>1 DEF Bound
  <2> QED
    BY <2>3, <2>8 DEF Unbinds, b
<1> QED
  BY <1>2, <1>3

\* The offsets of a sequence, one after the other, are bound or retired.
Upto(refs, n) == {refs[i] : i \in 1..n}
\* One more offset.
LEMMA UptoNext ==
  ASSUME NEW refs, Len(refs) \in Nat, NEW n \in 1..Len(refs)
  PROVE  Upto(refs, n) = Upto(refs, n - 1) \cup {refs[n]}
<1>1. 1..n = 1..(n - 1) \cup {n}
  OBVIOUS
<1> QED
  BY <1>1 DEF Upto

\* A series of allocations binds its offsets.
LEMMA AllocatedIs ==
  ASSUME NEW a, Bound(a), NEW refs \in Seq(Nat)
  PROVE  Binds(a, AllocatedAll(a, refs), ToSet(refs))
<1> DEFINE N == Len(refs)
           Good == [n \in 0..N |-> {b \in Allocators : Binds(a, b, Upto(refs, n))}]
<1>1. N \in Nat /\ Good \in [0..N -> SUBSET Allocators] /\ \A k \in 1..N : refs[k] \in Nat
  OBVIOUS
<1>2. a \in Good[0]
  <2>1. Upto(refs, 0) = {}
    BY DEF Upto
  <2>2. a \in Allocators /\ Binds(a, a, Upto(refs, 0))
    BY <2>1, BoundIsAllocator DEF Binds
  <2> QED
    BY <1>1, <2>2
<1>3. ASSUME NEW k \in 1..N, NEW x \in Good[k - 1] PROVE AllocateId(x, refs[k]) \in Good[k]
  <2> DEFINE y == AllocateId(x, refs[k])
  <2>1. k - 1 \in 0..N /\ k \in 0..N
    BY <1>1
  <2>2. Binds(a, x, Upto(refs, k - 1))
    BY <2>1
  <2>3. Binds(x, y, {refs[k]})
    BY <1>1, <2>2, AllocateIdBinds DEF Binds
  <2>4. y \in Allocators
    BY <2>3, BoundIsAllocator DEF Binds
  <2> HIDE DEF y
  <2>5. Binds(a, y, Upto(refs, k))
    BY <1>1, <2>2, <2>3, UptoNext DEF Binds
  <2> QED
    BY <2>1, <2>4, <2>5 DEF y
<1> HIDE DEF Good
<1>4. AllocatedAll(a, refs) \in Good[N]
  BY <1>1, <1>2, <1>3, AllocatedGood
<1>5. Binds(a, AllocatedAll(a, refs), Upto(refs, N))
  BY <1>1, <1>4 DEF Good
<1>6. Upto(refs, N) = ToSet(refs)
  BY DEF ToSet, Upto
<1> QED
  BY <1>5, <1>6

\* A series of retirements unbinds them.
LEMMA RetiredIs ==
  ASSUME NEW a, Bound(a), NEW T, NEW refs \in Seq(T)
  PROVE  Unbinds(a, RetiredAll(a, refs), ToSet(refs))
<1> DEFINE N == Len(refs)
           Good == [n \in 0..N |-> {b \in Allocators : Unbinds(a, b, Upto(refs, n))}]
<1>1. N \in Nat /\ Good \in [0..N -> SUBSET Allocators]
  OBVIOUS
<1>2. a \in Good[0]
  <2>1. Upto(refs, 0) = {}
    BY DEF Upto
  <2>2. a \in Allocators /\ Unbinds(a, a, Upto(refs, 0))
    BY <2>1, BoundIsAllocator DEF Unbinds
  <2> QED
    BY <1>1, <2>2
<1>3. ASSUME NEW k \in 1..N, NEW x \in Good[k - 1] PROVE RetireId(x, refs[k]) \in Good[k]
  <2> DEFINE y == RetireId(x, refs[k])
  <2>1. k - 1 \in 0..N /\ k \in 0..N
    BY <1>1
  <2>2. Unbinds(a, x, Upto(refs, k - 1))
    BY <2>1
  <2>3. Unbinds(x, y, {refs[k]})
    BY <2>2, RetireIdUnbinds DEF Unbinds
  <2>4. y \in Allocators
    BY <2>3, BoundIsAllocator DEF Unbinds
  <2> HIDE DEF y
  <2>5. Unbinds(a, y, Upto(refs, k))
    BY <1>1, <2>2, <2>3, UptoNext DEF Unbinds
  <2> QED
    BY <2>1, <2>4, <2>5 DEF y
<1> HIDE DEF Good
<1>4. RetiredAll(a, refs) \in Good[N]
  BY <1>1, <1>2, <1>3, RetiredGood
<1>5. Unbinds(a, RetiredAll(a, refs), Upto(refs, N))
  BY <1>1, <1>4 DEF Good
<1>6. Upto(refs, N) = ToSet(refs)
  BY DEF ToSet, Upto
<1> QED
  BY <1>5, <1>6

\* A rising sequence of offsets is never below the count.
LEMMA RisingAtLeast ==
  ASSUME NEW order \in Seq(Nat \ {0}), Rising(order), NEW k \in DOMAIN order
  PROVE  order[k] >= k
<1> DEFINE P == {n \in Nat : n + 1 \in DOMAIN order => order[n + 1] >= n + 1}
<1>1. 0 \in P
  OBVIOUS
<1>2. ASSUME NEW n \in Nat, n \in P PROVE n + 1 \in P
  <2>1. SUFFICES ASSUME (n + 1) + 1 \in DOMAIN order PROVE order[(n + 1) + 1] >= (n + 1) + 1
    OBVIOUS
  <2>2. n + 1 \in DOMAIN order /\ n + 1 < (n + 1) + 1
    BY <2>1
  <2>3. order[n + 1] < order[(n + 1) + 1] /\ order[n + 1] >= n + 1
    BY <1>2, <2>1, <2>2 DEF Rising
  <2>4. order[n + 1] \in Nat /\ order[(n + 1) + 1] \in Nat
    BY <2>1, <2>2
  <2> QED
    BY <2>3, <2>4
<1>3. k - 1 \in P
  <2> HIDE DEF P
  <2>1. k - 1 \in Nat
    OBVIOUS
  <2> QED
    BY <1>1, <1>2, <2>1, CountingUp
<1> QED
  BY <1>3

\* Ids follow their clauses down: after n turns the n lowest have moved.
Slid(a, b, order, n) ==
  /\ Bound(b) /\ DOMAIN b.of = 1..n \cup {order[j] : j \in (n + 1)..Len(order)}
  /\ \A k \in 1..n : b.of[k] = a.of[order[k]]
  /\ \A j \in (n + 1)..Len(order) : b.of[order[j]] = a.of[order[j]]

\* One turn: the next lowest clause takes the next lowest offset, which is free.
LEMMA SlidNext ==
  ASSUME NEW a, NEW order \in Seq(Nat \ {0}), Rising(order), NEW n \in 1..Len(order), NEW b, Slid(a, b, order, n - 1)
  PROVE  Slid(a, PreserveId(b, order[n], n), order, n)
<1> DEFINE c == PreserveId(b, order[n], n)
           Above(m) == {order[j] : j \in (m + 1)..Len(order)}
           L == Len(order)
<1>1. /\ n \in Nat /\ L \in Nat /\ n <= L /\ n >= 1 /\ (n - 1) + 1 = n /\ n \in DOMAIN order
      /\ \A j \in n..L : j \in DOMAIN order /\ order[j] \in Nat /\ order[j] >= j
  BY RisingAtLeast
<1>2. \A j \in (n + 1)..L : order[j] > order[n] /\ order[j] > n
  <2>1. ASSUME NEW j \in (n + 1)..L PROVE order[j] > order[n] /\ order[j] > n
    <3>1. j \in DOMAIN order /\ n < j /\ j \in n..L /\ n \in n..L
      BY <1>1
    <3>2. order[n] < order[j]
      BY <1>1, <3>1 DEF Rising
    <3> QED
      BY <1>1, <3>1, <3>2
  <2> QED
    BY <2>1
<1>3. Above(n - 1) = Above(n) \cup {order[n]}
  <2>1. n..L = (n + 1)..L \cup {n}
    BY <1>1
  <2> QED
    BY <1>1, <2>1
<1>4. DOMAIN b.of = 1..(n - 1) \cup Above(n) \cup {order[n]}
  BY <1>3 DEF Slid
<1>5. order[n] \in DOMAIN b.of /\ (n = order[n] \/ n \notin DOMAIN b.of)
  <2>1. n \notin Above(n) /\ n \notin 1..(n - 1)
    BY <1>1, <1>2
  <2> HIDE DEF Above
  <2> QED
    BY <1>4, <2>1
<1>6. Rebinds(b, c, order[n], n)
  BY <1>1, <1>5, PreserveIdRebinds DEF Slid
<1> HIDE DEF c
<1>7. DOMAIN c.of = 1..n \cup Above(n)
  <2>1. order[n] \notin Above(n) /\ order[n] \notin 1..(n - 1)
    <3>1. order[n] \in Nat /\ order[n] >= n
      BY <1>1
    <3> QED
      BY <1>1, <1>2, <3>1
  <2>2. 1..n = 1..(n - 1) \cup {n}
    BY <1>1
  <2> HIDE DEF Above
  <2> QED
    BY <1>4, <1>6, <2>1, <2>2 DEF Rebinds
<1>8. ASSUME NEW k \in 1..n PROVE c.of[k] = a.of[order[k]]
  <2>1. CASE k = n
    <3>1. b.of[order[n]] = a.of[order[n]]
      BY <1>1 DEF Slid
    <3> QED
      BY <1>6, <2>1, <3>1 DEF Rebinds
  <2>2. CASE k # n
    <3>1. k \in 1..(n - 1) /\ k # order[n]
      <4>1. order[n] \in Nat /\ order[n] >= n
        BY <1>1
      <4> QED
        BY <1>1, <2>2, <4>1
    <3>2. b.of[k] = a.of[order[k]] /\ k \in DOMAIN b.of \ {order[n]}
      BY <1>4, <3>1 DEF Slid
    <3> QED
      BY <1>6, <3>2 DEF Rebinds
  <2> QED
    BY <2>1, <2>2
<1>9. ASSUME NEW j \in (n + 1)..L PROVE c.of[order[j]] = a.of[order[j]]
  <2>1. j \in n..L /\ order[j] # order[n] /\ order[j] \in Above(n)
    BY <1>1, <1>2
  <2>2. b.of[order[j]] = a.of[order[j]]
    BY <1>1, <2>1 DEF Slid
  <2> HIDE DEF Above
  <2>3. order[j] \in DOMAIN b.of \ {order[n]}
    BY <1>4, <2>1
  <2> QED
    BY <1>6, <2>2, <2>3 DEF Rebinds
<1>10. Bound(c)
  BY <1>6 DEF Rebinds
<1> QED
  BY <1>7, <1>8, <1>9, <1>10 DEF Slid, c

\* After the slide clause k has the id of the k-th in order.
LEMMA FollowedIs ==
  ASSUME NEW a, Bound(a), NEW order \in Seq(Nat \ {0}), Rising(order), DOMAIN a.of = ToSet(order)
  PROVE  /\ Bound(Followed(a, order)) /\ DOMAIN Followed(a, order).of = 1..Len(order)
         /\ \A k \in 1..Len(order) : Followed(a, order).of[k] = a.of[order[k]]
<1> DEFINE N == Len(order)
           Good == [n \in 0..N |-> {b \in Allocators : Slid(a, b, order, n)}]
<1>1. N \in Nat /\ Good \in [0..N -> SUBSET Allocators]
  OBVIOUS
<1>2. a \in Good[0]
  <2>1. DOMAIN order = (0 + 1)..N /\ 1..0 = {}
    OBVIOUS
  <2>2. DOMAIN a.of = {order[j] : j \in (0 + 1)..N}
    BY <2>1 DEF ToSet
  <2>3. a \in Allocators /\ Slid(a, a, order, 0)
    BY <2>1, <2>2, BoundIsAllocator DEF Slid
  <2> QED
    BY <1>1, <2>3
<1>3. ASSUME NEW k \in 1..N, NEW x \in Good[k - 1] PROVE PreserveId(x, order[k], k) \in Good[k]
  <2> DEFINE y == PreserveId(x, order[k], k)
  <2>1. k - 1 \in 0..N /\ k \in 0..N
    BY <1>1
  <2>2. Slid(a, x, order, k - 1)
    BY <2>1
  <2>3. Slid(a, y, order, k)
    BY <2>2, SlidNext
  <2>4. y \in Allocators
    BY <2>3, BoundIsAllocator DEF Slid
  <2> QED
    BY <2>1, <2>3, <2>4
<1> HIDE DEF Good
<1>4. Followed(a, order) \in Good[N]
  BY <1>1, <1>2, <1>3, FollowedGood
<1>5. Slid(a, Followed(a, order), order, N)
  BY <1>1, <1>4 DEF Good
<1>6. (N + 1)..N = {}
  BY <1>1
<1> QED
  BY <1>5, <1>6 DEF Slid

\* A renaming keeps holders at their clauses.
Holding(links, cells, hs) == hs \subseteq Holders /\ Reaches(links, cells, hs)
\* Renaming along the moves leaves every holder at its clause.
LEMMA RenamedHold ==
  ASSUME NEW links, NEW cells, NEW hs, Holding(links, cells, hs),
         NEW moves \in Seq(Nat \X Nat), Follows(links, cells, moves)
  PROVE  Holding(links, cells, Renamed(hs, moves))
<1> DEFINE N == Len(moves)
           S == {xs \in SUBSET Holders : Holding(links, cells, xs)}
           Good == [n \in 0..N |-> S]
<1>1. N \in Nat /\ Good \in [0..N -> SUBSET S] /\ hs \in Good[0]
  BY DEF Holding
<1>2. ASSUME NEW xs \in S, NEW k \in 1..N PROVE RenamedOnce(xs, moves[k]) \in S
  <2> DEFINE To(h) == IF h.ref = moves[k][1] THEN [h EXCEPT !.ref = moves[k][2]] ELSE h
  <2>1. /\ moves[k] \in Nat \X Nat /\ k \in DOMAIN moves
        /\ moves[k][1] \in DOMAIN cells /\ moves[k][2] \in DOMAIN cells /\ moves[k][2] \in Nat
        /\ Resolve(links, moves[k][1]) = Resolve(links, moves[k][2])
    <3>1. moves[k] \in Nat \X Nat /\ k \in DOMAIN moves
      OBVIOUS
    <3>2. moves[k][2] \in Nat
      BY <3>1
    <3> QED
      BY <3>1, <3>2 DEF Follows
  <2>2. ASSUME NEW h \in xs PROVE To(h) \in Holders /\ To(h).ref \in DOMAIN cells /\ cells[Resolve(links, To(h).ref)].of = To(h).of
    <3>1. h \in Holders /\ h.ref \in DOMAIN cells /\ cells[Resolve(links, h.ref)].of = h.of
      BY DEF Holding, Reaches
    <3> QED
      BY <2>1, <3>1 DEF Holders
  <2>3. RenamedOnce(xs, moves[k]) = {To(h) : h \in xs}
    BY DEF RenamedOnce
  <2> HIDE DEF To
  <2> QED
    BY <2>2, <2>3 DEF Holding, Reaches
<1>3. ASSUME NEW k \in 1..N, NEW x \in Good[k - 1] PROVE RenamedOnce(x, moves[k]) \in Good[k]
  <2>1. k - 1 \in 0..N /\ k \in 0..N
    BY <1>1
  <2>2. x \in S
    BY <2>1
  <2> HIDE DEF S
  <2> QED
    BY <1>2, <2>1, <2>2
<1> HIDE DEF Good, S
<1>4. Renamed(hs, moves) \in Good[N]
  BY <1>1, <1>3, RenamedGood
<1> QED
  BY <1>1, <1>4 DEF Good, S

-----------------------------------------------------------------------------
(* Moving one clause to the arena's end                                    *)

\* Redirects that lead up an arena lead up among its cells.
LEMMA LinksUpLinked ==
  ASSUME NEW links, NEW cells \in Seq(Cells), LinksUp(links, cells)
  PROVE  Linked(links, Len(cells))
BY DEF LinksUp, Linked

\* A reference that is a cell resolves to a cell.
LEMMA ResolveInside ==
  ASSUME NEW links, NEW cells \in Seq(Cells), Len(cells) <= MaxCells, LinksUp(links, cells), NEW r \in DOMAIN cells
  PROVE  Resolve(links, r) \in DOMAIN cells /\ Resolve(links, r) \notin DOMAIN links
<1>1. Len(cells) \in 0..MaxCells /\ r \in 1..Len(cells) /\ Linked(links, Len(cells))
  BY BoundsAssumption, LinksUpLinked
<1>2. PICK f : WalksTo(f, links, Len(cells), r)
  BY <1>1, ResolveWalks
<1> QED
  BY <1>2 DEF WalksTo

\* Where things are after the clause in the cell `from` has gone to a new one.
Shift(k, from, new) == IF k = from THEN new ELSE k
Vacated(cells, from) == Append([cells EXCEPT ![from].alive = FALSE], cells[from])

\* The arena after a move is an arena with one cell more.
LEMMA VacatedIs ==
  ASSUME NEW cells \in Seq(Cells), NEW from \in DOMAIN cells
  PROVE  Vacated(cells, from) \in Seq(Cells) /\ Len(Vacated(cells, from)) = Len(cells) + 1
<1> DEFINE n == Len(cells)
           emptied == [cells EXCEPT ![from].alive = FALSE]
           gone == [cells[from] EXCEPT !.alive = FALSE]
<1>1. n \in Nat /\ DOMAIN cells = 1..n /\ from \in 1..n /\ \A k \in 1..n : cells[k] \in Cells
  OBVIOUS
<1>2. gone \in Cells /\ cells[from] \in Cells
  <2>1. cells[from] \in Cells
    BY <1>1
  <2> QED
    BY <2>1 DEF Cells
<1>3. emptied = [k \in 1..n |-> IF k = from THEN gone ELSE cells[k]]
  BY <1>1
<1>4. Vacated(cells, from) = Append(emptied, cells[from])
  BY DEF Vacated
<1> HIDE DEF emptied, gone
<1>5. emptied \in [1..n -> Cells]
  BY <1>1, <1>2, <1>3
<1>6. emptied \in Seq(Cells) /\ Len(emptied) = n
  BY <1>1, <1>5
<1> QED
  BY <1>2, <1>4, <1>6

\* What the move does to cells and redirects.
Carried(cells, links, cells2, links2, from, new) ==
  /\ new = Len(cells) + 1 /\ from \in Standing(cells)
  /\ cells2 \in Seq(Cells) /\ Len(cells2) = new /\ DOMAIN cells2 = DOMAIN cells \cup {new} /\ new \notin DOMAIN cells
  /\ LinksUp(links2, cells2)
  /\ Standing(cells2) = {Shift(k, from, new) : k \in Standing(cells)}
  /\ \A k \in DOMAIN cells : /\ cells2[k].of = cells[k].of /\ cells2[Shift(k, from, new)].of = cells[k].of
                             /\ cells2[Shift(k, from, new)].alive = cells[k].alive
  /\ Resolve(links2, new) = new
  /\ \A r \in DOMAIN cells : /\ Resolve(links, r) \in DOMAIN cells
                             /\ Resolve(links2, r) = Shift(Resolve(links, r), from, new)

\* A move does that: what resolved to the old cell resolves to the new one.
LEMMA MoveCarries ==
  ASSUME NEW cells \in Seq(Cells), Len(cells) + 1 <= MaxCells, NEW links, LinksUp(links, cells),
         NEW from \in Standing(cells)
  PROVE  Carried(cells, links, Vacated(cells, from), Bind(links, from, Len(cells) + 1), from, Len(cells) + 1)
<1> DEFINE n == Len(cells)
           new == n + 1
           cells2 == Vacated(cells, from)
           links2 == Bind(links, from, new)
           emptied == [cells EXCEPT ![from].alive = FALSE]
<1>1. n \in Nat /\ DOMAIN cells = 1..n /\ from \in 1..n /\ cells[from].alive /\ new \notin 1..n
  BY DEF Standing
<1>2. /\ emptied \in Seq(Cells) /\ Len(emptied) = n
      /\ \A k \in 1..n : /\ emptied[k].of = cells[k].of /\ emptied[k] \in Cells
                         /\ emptied[k].alive = (k # from /\ cells[k].alive)
  <2> DEFINE gone == [cells[from] EXCEPT !.alive = FALSE]
  <2>1. \A k \in 1..n : cells[k] \in Cells
    BY <1>1
  <2>2. gone \in Cells /\ gone.of = cells[from].of /\ gone.alive = FALSE
    <3>1. cells[from] \in Cells
      BY <1>1, <2>1
    <3> QED
      BY <3>1 DEF Cells
  <2>3. emptied = [k \in 1..n |-> IF k = from THEN gone ELSE cells[k]]
    BY <1>1
  <2> HIDE DEF emptied, gone
  <2>4. emptied \in [1..n -> Cells]
    BY <2>1, <2>2, <2>3
  <2>5. emptied \in Seq(Cells) /\ Len(emptied) = n
    BY <1>1, <2>4
  <2>6. ASSUME NEW k \in 1..n
        PROVE  /\ emptied[k].of = cells[k].of /\ emptied[k] \in Cells
               /\ emptied[k].alive = (k # from /\ cells[k].alive)
    <3>1. cells[k].alive \in BOOLEAN
      BY <2>1 DEF Cells
    <3>2. CASE k = from
      BY <2>2, <2>3, <2>4, <3>2
    <3>3. CASE k # from
      <4>1. emptied[k] = cells[k]
        BY <2>3, <3>3
      <4> QED
        BY <2>1, <3>1, <3>3, <4>1
    <3> QED
      BY <3>2, <3>3
  <2> QED
    BY <2>5, <2>6
<1>3. /\ cells2 \in Seq(Cells) /\ Len(cells2) = new /\ DOMAIN cells2 = 1..n \cup {new}
      /\ cells2[new] = cells[from] /\ \A k \in 1..n : cells2[k] = emptied[k]
  <2>1. cells2 = Append(emptied, cells[from]) /\ cells[from] \in Cells
    BY <1>1 DEF Vacated
  <2> HIDE DEF cells2, emptied
  <2> QED
    BY <1>1, <1>2, <2>1
<1>4. n \in 0..MaxCells /\ Linked(links, n)
  BY <1>1, BoundsAssumption, LinksUpLinked
<1>5. from \notin DOMAIN links
  BY <1>1 DEF LinksUp
<1>6. /\ Linked(links2, new) /\ Resolve(links2, new) = new
      /\ \A r \in 1..n : Resolve(links2, r) = Shift(Resolve(links, r), from, new)
  BY <1>1, <1>4, <1>5, ResolveBound DEF Shift
<1> HIDE DEF cells2, emptied
<1>7. LinksUp(links2, cells2)
  <2>1. DOMAIN links2 = DOMAIN links \cup {from}
    BY DEF Bind
  <2>2. \A k \in DOMAIN links2 : k \in 1..n /\ ~cells2[k].alive
    BY <1>1, <1>2, <1>3, <2>1 DEF LinksUp
  <2>3. 1..new = 1..n \cup {new}
    BY <1>1
  <2> HIDE DEF links2
  <2> QED
    BY <1>3, <1>6, <2>2, <2>3 DEF LinksUp, Linked
<1>8. \A k \in 1..n : /\ cells2[k].of = cells[k].of /\ cells2[Shift(k, from, new)].of = cells[k].of
                      /\ cells2[Shift(k, from, new)].alive = cells[k].alive
  <2>1. \A k \in 1..n : cells[k].alive \in BOOLEAN
    <3>1. \A k \in 1..n : cells[k] \in Cells
      BY <1>1
    <3> QED
      BY <3>1 DEF Cells
  <2> QED
    BY <1>1, <1>2, <1>3, <2>1 DEF Shift
<1>9. Standing(cells2) = {Shift(k, from, new) : k \in Standing(cells)}
  <2>1. \A k : k \in Standing(cells2) <=> k = new \/ (k \in Standing(cells) /\ k # from)
    BY <1>1, <1>2, <1>3 DEF Standing
  <2>2. \A k : k \in {Shift(j, from, new) : j \in Standing(cells)} <=> k = new \/ (k \in Standing(cells) /\ k # from)
    BY DEF Shift
  <2> QED
    BY <2>1, <2>2
<1>10. \A r \in DOMAIN cells : Resolve(links, r) \in DOMAIN cells
  <2>1. Len(cells) <= MaxCells
    BY <1>1, BoundsAssumption
  <2> QED
    BY <2>1, ResolveInside
<1> HIDE DEF links2
<1>11. Carried(cells, links, cells2, links2, from, new)
  BY <1>1, <1>3, <1>6, <1>7, <1>8, <1>9, <1>10 DEF Carried
<1> QED
  BY <1>11 DEF cells2, links2

\* What is said of the cells is said of them still.
LEMMA CarriedTells ==
  ASSUME NEW cells, NEW links, NEW cells2, NEW links2, NEW from, NEW new,
         Carried(cells, links, cells2, links2, from, new), NEW made, CellsTell(cells, made)
  PROVE  CellsTell(cells2, made)
<1>1. \A k \in DOMAIN cells2 : cells2[k].of \in 1..made
  <2>1. \A k \in DOMAIN cells : cells2[k].of \in 1..made
    BY DEF Carried, CellsTell
  <2>2. from \in DOMAIN cells /\ Shift(from, from, new) = new
    BY DEF Carried, Standing, Shift
  <2>3. cells2[new].of \in 1..made
    BY <2>2 DEF Carried, CellsTell
  <2> QED
    BY <2>1, <2>3 DEF Carried
<1>2. ASSUME NEW j \in Standing(cells2), NEW k \in Standing(cells2), cells2[j].of = cells2[k].of PROVE j = k
  <2>1. PICK i \in Standing(cells) : j = Shift(i, from, new)
    BY DEF Carried
  <2>2. PICK l \in Standing(cells) : k = Shift(l, from, new)
    BY DEF Carried
  <2>3. cells[i].of = cells[l].of
    BY <1>2, <2>1, <2>2 DEF Carried, Standing
  <2>4. i = l
    BY <2>3 DEF CellsTell
  <2> QED
    BY <2>1, <2>2, <2>4
<1> QED
  BY <1>1, <1>2 DEF CellsTell

\* Holders still reach their clauses.
LEMMA CarriedReaches ==
  ASSUME NEW cells, NEW links, NEW cells2, NEW links2, NEW from, NEW new,
         Carried(cells, links, cells2, links2, from, new), NEW hs
  PROVE  /\ Reaches(links, cells, hs) => Reaches(links2, cells2, hs)
         /\ Reaches(links, cells, hs) /\ Stands(links, cells, hs) => Stands(links2, cells2, hs)
<1>1. \A r \in DOMAIN cells : /\ cells2[Resolve(links2, r)].of = cells[Resolve(links, r)].of
                              /\ cells2[Resolve(links2, r)].alive = cells[Resolve(links, r)].alive
                              /\ r \in DOMAIN cells2
  BY DEF Carried
<1> QED
  BY <1>1 DEF Reaches, Stands

\* Moves told before still lead where they led.
LEMMA CarriedFollows ==
  ASSUME NEW cells, NEW links, NEW cells2, NEW links2, NEW from, NEW new,
         Carried(cells, links, cells2, links2, from, new), NEW moves, Follows(links, cells, moves)
  PROVE  Follows(links2, cells2, moves)
BY DEF Carried, Follows

\* The lists name the moved clause by its new offset.
Relisted(listed, old, new) == {Shift(r, old, new) : r \in listed}
\* The lists name every standing clause once, as before.
LEMMA CarriedNames ==
  ASSUME NEW cells, NEW links, NEW cells2, NEW links2, NEW from, NEW new,
         Carried(cells, links, cells2, links2, from, new),
         NEW listed, Names(links, cells, listed), NEW old \in DOMAIN cells, Resolve(links, old) = from
  PROVE  /\ Names(links2, cells2, Relisted(listed, old, new))
         /\ \A r \in listed : Resolve(links2, Shift(r, old, new)) = Shift(Resolve(links, r), from, new)
<1>1. \A r \in listed : /\ r \in DOMAIN cells /\ r # new /\ Resolve(links, r) \in Standing(cells)
                        /\ Resolve(links2, r) = Shift(Resolve(links, r), from, new)
  BY DEF Names, Carried
<1>2. \A k \in Standing(cells) : k # new
  BY DEF Carried, Standing
<1>3. ASSUME NEW r \in listed PROVE Resolve(links2, Shift(r, old, new)) = Shift(Resolve(links, r), from, new)
  <2>1. CASE r = old
    BY <2>1 DEF Shift, Carried
  <2>2. CASE r # old
    BY <1>1, <2>2 DEF Shift
  <2> QED
    BY <2>1, <2>2
<1>4. Relisted(listed, old, new) \subseteq DOMAIN cells2
  BY <1>1 DEF Relisted, Shift, Carried
<1>5. ASSUME NEW q \in Relisted(listed, old, new) PROVE Resolve(links2, q) \in Standing(cells2)
  <2>1. PICK r \in listed : q = Shift(r, old, new)
    BY DEF Relisted
  <2>2. Resolve(links2, q) = Shift(Resolve(links, r), from, new) /\ Resolve(links, r) \in Standing(cells)
    BY <1>1, <1>3, <2>1
  <2> QED
    BY <2>2 DEF Carried
<1>6. ASSUME NEW k \in Standing(cells2) PROVE \E q \in Relisted(listed, old, new) : Resolve(links2, q) = k
  <2>1. PICK j \in Standing(cells) : k = Shift(j, from, new)
    BY DEF Carried
  <2>2. PICK r \in listed : Resolve(links, r) = j
    BY DEF Names
  <2>3. Resolve(links2, Shift(r, old, new)) = k /\ Shift(r, old, new) \in Relisted(listed, old, new)
    BY <1>3, <2>1, <2>2 DEF Relisted
  <2> QED
    BY <2>3
<1>7. ASSUME NEW p \in Relisted(listed, old, new), NEW q \in Relisted(listed, old, new),
             Resolve(links2, p) = Resolve(links2, q)
      PROVE  p = q
  <2>1. PICK r \in listed : p = Shift(r, old, new)
    BY DEF Relisted
  <2>2. PICK s \in listed : q = Shift(s, old, new)
    BY DEF Relisted
  <2>3. Shift(Resolve(links, r), from, new) = Shift(Resolve(links, s), from, new)
    BY <1>3, <1>7, <2>1, <2>2
  <2>4. Resolve(links, r) = Resolve(links, s)
    BY <1>1, <1>2, <2>3 DEF Shift
  <2>5. r = s
    BY <2>4 DEF Names
  <2> QED
    BY <2>1, <2>2, <2>5
<1> QED
  BY <1>3, <1>4, <1>5, <1>6, <1>7 DEF Names

\* The storage's ids go with the clauses.
Keeps(cells, a, cells2, b) ==
  \A j \in Standing(cells), k \in Standing(cells2) : cells[j].of = cells2[k].of => a.of[j] = b.of[k]
\* A move takes the id of its clause along.
LEMMA CarriedTracked ==
  ASSUME NEW cells, NEW links, NEW cells2, NEW links2, NEW from, NEW new,
         Carried(cells, links, cells2, links2, from, new), cells \in Seq(Cells),
         NEW a, Tracked(TRUE, a, cells), NEW cells0, NEW a0, Keeps(cells0, a0, cells, a)
  PROVE  Tracked(TRUE, PreserveId(a, from, new), cells2) /\ Keeps(cells0, a0, cells2, PreserveId(a, from, new))
<1> DEFINE b == PreserveId(a, from, new)
<1>1. DOMAIN a.of = Standing(cells) /\ from \in Standing(cells) /\ new \notin Standing(cells) /\ new \in Nat /\ Bound(a)
  BY DEF Tracked, Carried, Standing
<1>2. Rebinds(a, b, from, new)
  BY <1>1, PreserveIdRebinds
<1> HIDE DEF b
<1>3. Standing(cells2) = (Standing(cells) \ {from}) \cup {new}
  BY <1>1 DEF Carried, Shift
<1>4. Tracked(TRUE, b, cells2)
  BY <1>1, <1>2, <1>3 DEF Rebinds, Tracked
<1>5. \A k \in Standing(cells) : b.of[Shift(k, from, new)] = a.of[k]
  BY <1>1, <1>2 DEF Rebinds, Shift
<1>6. ASSUME NEW j \in Standing(cells0), NEW l \in Standing(cells2), cells0[j].of = cells2[l].of
      PROVE  a0.of[j] = b.of[l]
  <2>1. PICK k \in Standing(cells) : l = Shift(k, from, new)
    BY DEF Carried
  <2>2. cells2[l].of = cells[k].of
    BY <2>1 DEF Carried, Standing
  <2>3. a0.of[j] = a.of[k]
    BY <1>6, <2>2 DEF Keeps
  <2> QED
    BY <1>5, <2>1, <2>3
<1> QED
  BY <1>4, <1>6 DEF Keeps, b

\* So do the proof manager's, and the offsets its checker knows.
LEMMA CarriedManaged ==
  ASSUME NEW cells, NEW links, NEW cells2, NEW links2, NEW from, NEW new,
         Carried(cells, links, cells2, links2, from, new), cells \in Seq(Cells),
         NEW listed, Names(links, cells, listed), NEW old \in DOMAIN cells, Resolve(links, old) = from,
         NEW a, NEW o, NEW log, Managed(links, cells, listed, a, o, log)
  PROVE  Managed(links2, cells2, Relisted(listed, old, new), PreserveId(a, old, new),
                 OnlineRelocate(o, old, new), log)
<1> DEFINE b == PreserveId(a, old, new)
           u == OnlineRelocate(o, old, new)
<1>1. /\ DOMAIN a.of = listed /\ Bound(a) /\ o = [active |-> listed, errors |-> 0]
      /\ new \in Nat /\ new \notin listed /\ old # new
  BY DEF Managed, Carried, Names
<1>2. Bound(b) /\ DOMAIN b.of = Relisted(listed, old, new) /\ \A r \in listed : b.of[Shift(r, old, new)] = a.of[r]
  <2>1. CASE old \in listed
    <3>1. Rebinds(a, b, old, new)
      BY <1>1, <2>1, PreserveIdRebinds
    <3>2. Relisted(listed, old, new) = (listed \ {old}) \cup {new}
      BY <1>1, <2>1 DEF Relisted, Shift
    <3> HIDE DEF b
    <3> QED
      BY <1>1, <3>1, <3>2 DEF Rebinds, Shift
  <2>2. CASE old \notin listed
    <3>1. b = a
      BY <1>1, <2>2 DEF PreserveId
    <3>2. Relisted(listed, old, new) = listed /\ \A r \in listed : Shift(r, old, new) = r
      BY <2>2 DEF Relisted, Shift
    <3> HIDE DEF b
    <3> QED
      BY <1>1, <3>1, <3>2
  <2> QED
    BY <2>1, <2>2
<1>3. u = [active |-> Relisted(listed, old, new), errors |-> 0]
  <2>1. CASE old \in listed
    <3>1. Relisted(listed, old, new) = (listed \ {old}) \cup {new}
      BY <1>1, <2>1 DEF Relisted, Shift
    <3> QED
      BY <1>1, <2>1, <3>1 DEF OnlineRelocate
  <2>2. CASE old \notin listed
    <3>1. Relisted(listed, old, new) = listed
      BY <2>2 DEF Relisted, Shift
    <3> QED
      BY <1>1, <2>2, <3>1 DEF OnlineRelocate
  <2> QED
    BY <2>1, <2>2
<1> HIDE DEF b, u
<1>4. ASSUME NEW q \in Relisted(listed, old, new), NEW k \in DOMAIN log, cells2[Resolve(links2, q)].of = log[k].of
      PROVE  b.of[q] = log[k].id
  <2>1. PICK r \in listed : q = Shift(r, old, new)
    BY DEF Relisted
  <2>2. Resolve(links2, q) = Shift(Resolve(links, r), from, new)
    BY <2>1, CarriedNames
  <2>3. Resolve(links, r) \in DOMAIN cells
    BY DEF Names, Standing
  <2>4. cells[Resolve(links, r)].of = log[k].of
    BY <1>4, <2>2, <2>3 DEF Carried
  <2>5. a.of[r] = log[k].id
    BY <2>4 DEF Managed
  <2> QED
    BY <1>2, <2>1, <2>5
<1> QED
  BY <1>2, <1>3, <1>4 DEF Managed, b, u

\* What a move changes, as a record.
States == [arena : Seq(Cells), redirect : Tables, ids : Allocators, mgr : Allocators,
           online : [active : SUBSET Nat, errors : Nat], orig : Seq(Nat), learned : Seq(Nat),
           moves : Seq(Nat \X Nat)]

\* Replacing an offset in a list.
LEMMA ReplaceIs ==
  ASSUME NEW refs \in Seq(Nat), NEW old, NEW new \in Nat
  PROVE  /\ Replace(refs, old, new) \in Seq(Nat) /\ Len(Replace(refs, old, new)) = Len(refs)
         /\ ToSet(Replace(refs, old, new)) = Relisted(ToSet(refs), old, new)
         /\ IsInjective(refs) /\ new \notin ToSet(refs) => IsInjective(Replace(refs, old, new))
         /\ refs = <<>> => Replace(refs, old, new) = <<>>
<1> DEFINE q == Replace(refs, old, new)
<1>1. q = [k \in 1..Len(refs) |-> Shift(refs[k], old, new)] /\ \A k \in 1..Len(refs) : refs[k] \in Nat
  BY DEF Replace, Shift
<1>2. q \in [1..Len(refs) -> Nat] /\ DOMAIN q = 1..Len(refs) /\ Len(refs) \in Nat
  BY <1>1 DEF Shift
<1> HIDE DEF q
<1>3. q \in Seq(Nat) /\ Len(q) = Len(refs)
  BY <1>2
<1>4. ToSet(q) = Relisted(ToSet(refs), old, new)
  BY <1>1, <1>2 DEF ToSet, Relisted
<1>5. ASSUME IsInjective(refs), new \notin ToSet(refs) PROVE IsInjective(q)
  <2>1. \A k \in 1..Len(refs) : refs[k] # new /\ k \in DOMAIN refs
    BY <1>5 DEF ToSet
  <2> QED
    BY <1>1, <1>2, <1>5, <2>1 DEF IsInjective, Shift
<1>6. refs = <<>> => q = <<>>
  BY <1>3
<1> QED
  BY <1>3, <1>4, <1>5, <1>6 DEF q

\* A table with one entry more is a table.
LEMMA TablesBind ==
  ASSUME NEW f \in Tables, NEW k \in Nat, NEW v \in Nat
  PROVE  Bind(f, k, v) \in Tables
<1>1. PICK D \in SUBSET Nat : f \in [D -> Nat]
  BY DEF Tables
<1>2. Bind(f, k, v) \in [D \cup {k} -> Nat] /\ D \cup {k} \in SUBSET Nat
  BY <1>1 DEF Bind
<1> QED
  BY <1>2 DEF Tables

\* An allocator stays one, whatever moves.
LEMMA PreserveIdAllocator ==
  ASSUME NEW a \in Allocators, NEW old \in Nat, NEW new \in Nat
  PROVE  PreserveId(a, old, new) \in Allocators
<1>1. a.of \in Tables /\ a.at \in Tables /\ a.next \in Nat /\ a = [of |-> a.of, at |-> a.at, next |-> a.next]
  BY DEF Allocators
<1>2. CASE old \notin DOMAIN a.of
  BY <1>2 DEF PreserveId
<1>3. CASE old \in DOMAIN a.of
  <2>1. PICK D \in SUBSET Nat : a.of \in [D -> Nat]
    BY <1>1 DEF Tables
  <2>2. a.of[old] \in Nat
    BY <1>3, <2>1
  <2>3. Unbind(a.of, old) \in Tables
    <3>1. Unbind(a.of, old) \in [D \ {old} -> Nat] /\ D \ {old} \in SUBSET Nat
      BY <2>1 DEF Unbind, Restrict
    <3> QED
      BY <3>1 DEF Tables
  <2> DEFINE names == Bind(Unbind(a.of, old), new, a.of[old])
             offsets == Bind(a.at, a.of[old], new)
  <2>4. names \in Tables /\ offsets \in Tables
    BY <1>1, <2>2, <2>3, TablesBind
  <2>5. PreserveId(a, old, new) = a \/ PreserveId(a, old, new) = [a EXCEPT !.of = names, !.at = offsets]
    BY DEF PreserveId
  <2> HIDE DEF names, offsets
  <2> DEFINE b == [a EXCEPT !.of = names, !.at = offsets]
  <2>6. b.of = names /\ b.at = offsets /\ b.next = a.next /\ b = [of |-> b.of, at |-> b.at, next |-> b.next]
    <3>1. a = [of |-> a.of, at |-> a.at, next |-> a.next]
      BY <1>1
    <3>2. b = [a EXCEPT !.of = names, !.at = offsets]
      OBVIOUS
    <3> HIDE DEF b
    <3> QED
      BY ONLY <3>1, <3>2
  <2> HIDE DEF b
  <2>7. b \in Allocators
    BY <1>1, <2>4, <2>6 DEF Allocators
  <2> QED
    BY <2>5, <2>7 DEF b
<1> QED
  BY <1>2, <1>3

\* A move, when there is one.
Moving(s, old) == Resolve(s.redirect, old) \in Standing(s.arena)
\* What a move does, field by field.
LEMMA MovedIs ==
  ASSUME NEW s \in States, NEW old \in Nat, tracking = TRUE
  PROVE  LET from == Resolve(s.redirect, old)
             new == Len(s.arena) + 1
             t == Moved(s, old)
         IN /\ ~Moving(s, old) => t = s
            /\ Moving(s, old) =>
                 /\ t.arena = Vacated(s.arena, from)
                 /\ t.redirect = Bind(s.redirect, from, new)
                 /\ t.ids = PreserveId(s.ids, from, new)
                 /\ t.mgr = PreserveId(s.mgr, old, new)
                 /\ t.online = OnlineRelocate(s.online, old, new)
                 /\ t.orig = Replace(s.orig, old, new)
                 /\ t.learned = Replace(s.learned, old, new)
                 /\ t.moves = Append(s.moves, <<old, new>>)
            /\ t = [arena |-> t.arena, redirect |-> t.redirect, ids |-> t.ids, mgr |-> t.mgr, online |-> t.online,
                    orig |-> t.orig, learned |-> t.learned, moves |-> t.moves]
<1>1. CASE ~Moving(s, old)
  <2>1. Moved(s, old) = s
    BY <1>1 DEF Moved, Moving, Standing
  <2> QED
    BY <1>1, <2>1 DEF States
<1>2. CASE Moving(s, old)
  BY <1>2 DEF Moved, Moving, Standing, Vacated
<1> QED
  BY <1>1, <1>2

\* A move yields such a record, and the arena never shrinks.
LEMMA MovedStates ==
  ASSUME NEW s \in States, NEW old \in Nat, tracking = TRUE
  PROVE  Moved(s, old) \in States /\ Len(s.arena) <= Len(Moved(s, old).arena)
<1> DEFINE from == Resolve(s.redirect, old)
           new == Len(s.arena) + 1
           t == Moved(s, old)
<1>1. /\ s.arena \in Seq(Cells) /\ s.redirect \in Tables /\ s.ids \in Allocators /\ s.mgr \in Allocators
      /\ s.online \in [active : SUBSET Nat, errors : Nat] /\ s.orig \in Seq(Nat) /\ s.learned \in Seq(Nat)
      /\ s.moves \in Seq(Nat \X Nat) /\ Len(s.arena) \in Nat
  BY DEF States
<1>2. CASE ~Moving(s, old)
  BY <1>1, <1>2, MovedIs
<1>3. CASE Moving(s, old)
  <2>1. from \in 1..Len(s.arena) /\ from \in Nat /\ new \in Nat
    BY <1>1, <1>3 DEF Moving, Standing
  <2>2. /\ t.arena = Vacated(s.arena, from)
        /\ t.redirect = Bind(s.redirect, from, new)
        /\ t.ids = PreserveId(s.ids, from, new)
        /\ t.mgr = PreserveId(s.mgr, old, new)
        /\ t.online = OnlineRelocate(s.online, old, new)
        /\ t.orig = Replace(s.orig, old, new)
        /\ t.learned = Replace(s.learned, old, new)
        /\ t.moves = Append(s.moves, <<old, new>>)
        /\ t = [arena |-> t.arena, redirect |-> t.redirect, ids |-> t.ids, mgr |-> t.mgr, online |-> t.online,
                orig |-> t.orig, learned |-> t.learned, moves |-> t.moves]
    BY <1>3, MovedIs
  <2> HIDE DEF t
  <2>3. t.arena \in Seq(Cells) /\ Len(t.arena) = new
    <3>1. from \in DOMAIN s.arena
      BY <1>3 DEF Moving, Standing
    <3> HIDE DEF from
    <3> QED
      BY <1>1, <2>2, <3>1, VacatedIs
  <2>4. t.redirect \in Tables /\ t.ids \in Allocators /\ t.mgr \in Allocators
    BY <1>1, <2>1, <2>2, TablesBind, PreserveIdAllocator
  <2>5. t.online \in [active : SUBSET Nat, errors : Nat]
    BY <1>1, <2>1, <2>2 DEF OnlineRelocate
  <2>6. t.orig \in Seq(Nat) /\ t.learned \in Seq(Nat)
    BY <1>1, <2>1, <2>2, ReplaceIs
  <2>7. t.moves \in Seq(Nat \X Nat)
    BY <1>1, <2>1, <2>2
  <2>8. t \in States
    BY <2>2, <2>3, <2>4, <2>5, <2>6, <2>7 DEF States
  <2> QED
    BY <1>1, <2>3, <2>8 DEF t
<1> QED
  BY <1>2, <1>3

\* What is true between two moves.
Settled(s) ==
  /\ LinksUp(s.redirect, s.arena)
  /\ Names(s.redirect, s.arena, ToSet(s.orig))
  /\ CellsTell(s.arena, created)
  /\ Tracked(TRUE, s.ids, s.arena) /\ Keeps(arena, ids, s.arena, s.ids)
  /\ s.learned = <<>> /\ IsInjective(s.orig)
  /\ Managed(s.redirect, s.arena, ToSet(s.orig), s.mgr, s.online, events)
  /\ Reaches(s.redirect, s.arena, watches)
  /\ Reaches(s.redirect, s.arena, reasons) /\ Stands(s.redirect, s.arena, reasons)
  /\ Follows(s.redirect, s.arena, s.moves)
  /\ \A m \in Movers : Follows(s.redirect, s.arena, moved[m])

\* One move keeps it, as long as the arena has room.
LEMMA MovedSettled ==
  ASSUME NEW s \in States, tracking = TRUE, Settled(s), NEW old \in DOMAIN s.arena,
         Len(s.arena) <= MaxCells, Len(Moved(s, old).arena) <= MaxCells
  PROVE  Settled(Moved(s, old))
<1> DEFINE from == Resolve(s.redirect, old)
           new == Len(s.arena) + 1
           t == Moved(s, old)
<1>1. /\ s.arena \in Seq(Cells) /\ s.orig \in Seq(Nat) /\ s.learned \in Seq(Nat) /\ s.moves \in Seq(Nat \X Nat)
      /\ Len(s.arena) \in Nat /\ old \in Nat /\ DOMAIN s.arena = 1..Len(s.arena) /\ new \in Nat
  BY DEF States
<1>2. CASE ~Moving(s, old)
  BY <1>1, <1>2, MovedIs
<1>3. CASE Moving(s, old)
  <2>1. /\ t.arena = Vacated(s.arena, from)
        /\ t.redirect = Bind(s.redirect, from, new)
        /\ t.ids = PreserveId(s.ids, from, new)
        /\ t.mgr = PreserveId(s.mgr, old, new)
        /\ t.online = OnlineRelocate(s.online, old, new)
        /\ t.orig = Replace(s.orig, old, new)
        /\ t.learned = Replace(s.learned, old, new)
        /\ t.moves = Append(s.moves, <<old, new>>)
    BY <1>1, <1>3, MovedIs
  <2>2. Len(t.arena) = new
    <3>1. from \in DOMAIN s.arena
      BY <1>3 DEF Moving, Standing
    <3> HIDE DEF t, from
    <3> QED
      BY <1>1, <2>1, <3>1, VacatedIs
  <2> HIDE DEF t, from
  <2>3. from \in Standing(s.arena) /\ Resolve(s.redirect, old) = from
    BY <1>3 DEF Moving, from
  <2>4. Carried(s.arena, s.redirect, t.arena, t.redirect, from, new)
    <3>1. new <= MaxCells
      BY <2>2 DEF t
    <3> QED
      BY <1>1, <2>1, <2>3, <3>1, MoveCarries DEF Settled
  <2>5. LinksUp(t.redirect, t.arena) /\ CellsTell(t.arena, created)
    <3>1. LinksUp(t.redirect, t.arena)
      BY <2>4 DEF Carried
    <3>2. CellsTell(s.arena, created)
      BY DEF Settled
    <3> QED
      BY <2>4, <3>1, <3>2, CarriedTells
  <2>6. Tracked(TRUE, t.ids, t.arena) /\ Keeps(arena, ids, t.arena, t.ids)
    BY <1>1, <2>1, <2>4, CarriedTracked DEF Settled
  <2>7. /\ Reaches(t.redirect, t.arena, watches)
        /\ Reaches(t.redirect, t.arena, reasons) /\ Stands(t.redirect, t.arena, reasons)
    BY <2>4, CarriedReaches DEF Settled
  <2>8. \A m \in Movers : Follows(t.redirect, t.arena, moved[m])
    BY <2>4, CarriedFollows DEF Settled
  <2>9. ToSet(t.orig) = Relisted(ToSet(s.orig), old, new) /\ IsInjective(t.orig) /\ t.learned = <<>>
    <3>1. new \notin ToSet(s.orig)
      <4>1. ToSet(s.orig) \subseteq DOMAIN s.arena
        BY DEF Settled, Names
      <4> QED
        BY <1>1, <4>1
    <3>2. IsInjective(s.orig) /\ s.learned = <<>>
      BY DEF Settled
    <3>3. ToSet(t.orig) = Relisted(ToSet(s.orig), old, new) /\ IsInjective(t.orig)
      BY <1>1, <2>1, <3>1, <3>2, ReplaceIs
    <3>4. t.learned = <<>>
      BY <1>1, <2>1, <3>2, ReplaceIs
    <3> QED
      BY <3>3, <3>4
  <2>10. Names(t.redirect, t.arena, ToSet(t.orig))
    BY <2>3, <2>4, <2>9, CarriedNames DEF Settled
  <2>11. Managed(t.redirect, t.arena, ToSet(t.orig), t.mgr, t.online, events)
    <3>1. /\ Names(s.redirect, s.arena, ToSet(s.orig))
          /\ Managed(s.redirect, s.arena, ToSet(s.orig), s.mgr, s.online, events)
      BY DEF Settled
    <3>2. Managed(t.redirect, t.arena, Relisted(ToSet(s.orig), old, new), PreserveId(s.mgr, old, new),
                  OnlineRelocate(s.online, old, new), events)
      BY <1>1, <2>3, <2>4, <3>1, CarriedManaged
    <3> QED
      BY <2>1, <2>9, <3>2
  <2>12. Follows(t.redirect, t.arena, t.moves)
    <3>1. Follows(t.redirect, t.arena, s.moves)
      BY <2>4, CarriedFollows DEF Settled
    <3>2. /\ DOMAIN t.moves = DOMAIN s.moves \cup {Len(s.moves) + 1} /\ t.moves[Len(s.moves) + 1] = <<old, new>>
          /\ \A k \in DOMAIN s.moves : t.moves[k] = s.moves[k]
      <4> DEFINE p == <<old, new>>
      <4>1. t.moves = Append(s.moves, p) /\ p \in Nat \X Nat
        BY <1>1, <2>1
      <4> HIDE DEF p
      <4>2. /\ DOMAIN t.moves = DOMAIN s.moves \cup {Len(s.moves) + 1} /\ t.moves[Len(s.moves) + 1] = p
            /\ \A k \in DOMAIN s.moves : t.moves[k] = s.moves[k]
        <5> DEFINE T == Nat \X Nat
        <5>1. s.moves \in Seq(T) /\ p \in T
          BY <1>1, <4>1
        <5> HIDE DEF T
        <5> QED
          BY <4>1, <5>1
      <4> QED
        BY <4>2 DEF p
    <3>3. old \in DOMAIN t.arena /\ new \in DOMAIN t.arena /\ Resolve(t.redirect, old) = Resolve(t.redirect, new)
      BY <2>3, <2>4 DEF Carried, Shift
    <3> QED
      BY <3>1, <3>2, <3>3 DEF Follows
  <2> QED
    BY <2>5, <2>6, <2>7, <2>8, <2>9, <2>10, <2>11, <2>12 DEF Settled, t
<1> QED
  BY <1>2, <1>3

\* So do any number of moves.
LEMMA MovedAllSettled ==
  ASSUME tracking = TRUE, MoveState \in States, Settled(MoveState), Len(arena) <= MaxCells,
         NEW refs \in Seq(Nat), ToSet(refs) \subseteq DOMAIN arena
  PROVE  /\ MovedAll(refs) \in States /\ Len(arena) <= Len(MovedAll(refs).arena)
         /\ Len(MovedAll(refs).arena) <= MaxCells => Settled(MovedAll(refs))
<1> DEFINE N == Len(refs)
           Fine(s) == Len(arena) <= Len(s.arena) /\ (Len(s.arena) <= MaxCells => Settled(s))
           S == {s \in States : Fine(s)}
           Good == [n \in 0..N |-> S]
<1>1. /\ N \in Nat /\ Good \in [0..N -> SUBSET S] /\ arena \in Seq(Cells) /\ Len(arena) \in Nat
      /\ \A k \in 1..N : refs[k] \in 1..Len(arena)
  <2>1. MoveState.arena = arena /\ MoveState.arena \in Seq(Cells)
    BY DEF MoveState, States
  <2>2. \A k \in 1..N : refs[k] \in DOMAIN arena
    BY DEF ToSet
  <2> QED
    BY <2>1, <2>2
<1>2. MoveState \in Good[0]
  <2>1. MoveState.arena = arena
    BY DEF MoveState
  <2>2. Len(arena) <= Len(MoveState.arena)
    BY <1>1, <2>1
  <2>3. MoveState \in S
    BY <2>2
  <2> HIDE DEF S
  <2> QED
    BY <1>1, <2>3
<1>3. ASSUME NEW k \in 1..N, NEW s \in Good[k - 1] PROVE Moved(s, refs[k]) \in Good[k]
  <2> DEFINE t == Moved(s, refs[k])
  <2>1. k - 1 \in 0..N /\ k \in 0..N
    BY <1>1
  <2>2. s \in States /\ Fine(s)
    BY <2>1
  <2>3. t \in States /\ Len(s.arena) <= Len(t.arena) /\ s.arena \in Seq(Cells) /\ t.arena \in Seq(Cells)
    <3>1. refs[k] \in Nat
      BY <1>1
    <3>2. t \in States /\ Len(s.arena) <= Len(t.arena)
      BY <2>2, <3>1, MovedStates
    <3> HIDE DEF t
    <3> QED
      BY <2>2, <3>2 DEF States
  <2>4. Len(s.arena) \in Nat /\ Len(t.arena) \in Nat
    BY <2>3
  <2>5. ASSUME Len(t.arena) <= MaxCells PROVE Settled(t)
    <3>1. Len(s.arena) <= MaxCells
      BY <2>3, <2>4, <2>5, BoundsAssumption
    <3>2. refs[k] \in DOMAIN s.arena
      BY <1>1, <2>2, <2>3, <2>4
    <3> QED
      BY <2>2, <2>5, <3>1, <3>2, MovedSettled
  <2>6. Len(arena) <= Len(t.arena)
    BY <1>1, <2>2, <2>3, <2>4
  <2> HIDE DEF t
  <2>7. t \in S
    BY <2>3, <2>5, <2>6
  <2> HIDE DEF S
  <2> QED
    BY <2>1, <2>7 DEF t
<1> HIDE DEF Good, S
<1>4. MovedAll(refs) \in Good[N]
  BY <1>1, <1>2, <1>3, MovedAllGood
<1>5. MovedAll(refs) \in S
  BY <1>1, <1>4 DEF Good
<1> QED
  BY <1>5 DEF S

-----------------------------------------------------------------------------
(* Every action keeps the invariant and the ids                            *)

SameIds == tracking => tracking' /\ Keeps(arena, ids, arena', ids')

\* At the start there are no clauses.
LEMMA PipelineInit == Init => PipelineInv
<1>1. SUFFICES ASSUME Init PROVE PipelineInv
  OBVIOUS
<1>2. Kinds
  <2>1. /\ <<>> \in Seq(Cells) /\ <<>> \in Seq(Nat) /\ <<>> \in Seq(Nat \X Nat) /\ <<>> \in Seq(ToSet(<<>>))
        /\ Len(<<>>) = 0 /\ ToSet(<<>>) = {} /\ DOMAIN <<>> = {}
    BY DEF ToSet
  <2>2. Table(<<>>)
    BY DEF Table
  <2> QED
    BY <1>1, <2>1, <2>2, BoundsAssumption DEF Init, Kinds, Wirings
<1>3. Located /\ Held /\ Unmoved
  BY <1>1 DEF Init, Located, Held, Unmoved, LinksUp, Names, CellsTell, Standing, Listed, ToSet, Reaches, Stands
<1>4. Bound(NoIds) /\ DOMAIN NoIds.of = {}
  BY DEF Bound, NoIds, Table
<1>5. Told /\ Tracked(tracking, ids, arena)
  <2>1. Listed = {} /\ Standing(arena) = {} /\ DOMAIN orig = {} /\ DOMAIN events = {}
    BY <1>1 DEF Init, Listed, ToSet, Standing
  <2>2. Tracked(tracking, ids, arena)
    BY <1>1, <1>4, <2>1 DEF Init, Tracked
  <2>3. Managed(redirect, arena, Listed, mgr, online, events)
    BY <1>1, <1>4, <2>1 DEF Init, Managed
  <2>4. IsInjective(orig)
    BY <2>1 DEF IsInjective
  <2>5. wiring = "collector" => tracking /\ listening /\ learned = <<>>
    BY <1>1 DEF Init
  <2> QED
    BY <2>2, <2>3, <2>4, <2>5 DEF Told
<1>6. \A m \in Movers : Follows(redirect, arena, moved[m])
  BY <1>1 DEF Init, Follows
<1> QED
  BY <1>2, <1>3, <1>5, <1>6 DEF PipelineInv

\* A clause created at the arena's end.
Fresh(made) == [of |-> made + 1, alive |-> TRUE, garbage |-> FALSE]
Grown(cells, cells2, links, listed, made, r) ==
  /\ cells2 \in Seq(Cells) /\ Len(cells2) = r /\ DOMAIN cells2 = DOMAIN cells \cup {r} /\ r \notin DOMAIN cells
  /\ \A k \in DOMAIN cells : cells2[k] = cells[k] /\ cells[k].of # made + 1
  /\ cells2[r].of = made + 1 /\ cells2[r].alive /\ Resolve(links, r) = r
  /\ Standing(cells2) = Standing(cells) \cup {r} /\ r \notin Standing(cells)
  /\ LinksUp(links, cells2) /\ Names(links, cells2, listed \cup {r}) /\ CellsTell(cells2, made + 1)
  /\ \A k \in DOMAIN cells : Resolve(links, k) \in DOMAIN cells

\* A new clause disturbs none of the others.
LEMMA CreatedGrows ==
  ASSUME NEW cells \in Seq(Cells), Len(cells) <= MaxCells, NEW links, LinksUp(links, cells),
         NEW listed, Names(links, cells, listed), NEW made \in Nat, CellsTell(cells, made)
  PROVE  Grown(cells, Append(cells, Fresh(made)), links, listed, made, Len(cells) + 1)
<1> DEFINE r == Len(cells) + 1
           cells2 == Append(cells, Fresh(made))
<1>1. Fresh(made) \in Cells /\ Fresh(made).of = made + 1 /\ Fresh(made).alive = TRUE
  BY DEF Fresh, Cells
<1>2. /\ cells2 \in Seq(Cells) /\ Len(cells2) = r /\ DOMAIN cells2 = DOMAIN cells \cup {r} /\ r \notin DOMAIN cells
      /\ \A k \in DOMAIN cells : cells2[k] = cells[k]
      /\ cells2[r] = Fresh(made)
  BY <1>1
<1> HIDE DEF cells2, r
<1>3. \A k \in DOMAIN cells : cells[k].of \in 1..made /\ cells[k].of # made + 1
  BY DEF CellsTell
<1>4. Standing(cells2) = Standing(cells) \cup {r} /\ r \notin Standing(cells)
  BY <1>1, <1>2 DEF Standing
<1>5. Resolve(links, r) = r
  <2>1. r \notin DOMAIN links
    BY <1>2 DEF LinksUp
  <2> QED
    BY <2>1, ResolveStays
<1>6. LinksUp(links, cells2)
  BY <1>2 DEF LinksUp
<1>7. \A k \in DOMAIN cells : Resolve(links, k) \in DOMAIN cells
  BY ResolveInside
<1>8. Names(links, cells2, listed \cup {r})
  BY <1>2, <1>4, <1>5, <1>7 DEF Names
<1>9. CellsTell(cells2, made + 1)
  <2>1. \A k \in DOMAIN cells2 : cells2[k].of \in 1..(made + 1)
    BY <1>1, <1>2, <1>3
  <2>2. ASSUME NEW j \in Standing(cells2), NEW k \in Standing(cells2), cells2[j].of = cells2[k].of PROVE j = k
    BY <1>1, <1>2, <1>3, <1>4, <2>2 DEF CellsTell, Standing
  <2> QED
    BY <2>1, <2>2 DEF CellsTell
<1> QED
  BY <1>1, <1>2, <1>3, <1>4, <1>5, <1>6, <1>7, <1>8, <1>9 DEF Grown, cells2, r

\* Whoever holds a clause holds it still, and so with the moves.
LEMMA GrownKeeps ==
  ASSUME NEW cells, NEW cells2, NEW links, NEW listed, NEW made, NEW r, Grown(cells, cells2, links, listed, made, r)
  PROVE  /\ \A hs : Reaches(links, cells, hs) => Reaches(links, cells2, hs)
         /\ \A hs : Reaches(links, cells, hs) /\ Stands(links, cells, hs) => Stands(links, cells2, hs)
         /\ \A moves : Follows(links, cells, moves) => Follows(links, cells2, moves)
BY DEF Grown, Reaches, Stands, Follows

\* What create_clause and add_clause keep, whoever calls them.
LEMMA CreatePreserves ==
  ASSUME PipelineInv, NEW r, NEW learnt \in BOOLEAN, Create(r, learnt)
  PROVE  /\ Located' /\ SameIds /\ Tracked(tracking, ids, arena)' /\ Reaches(redirect, arena, watches)' /\ Unmoved'
         /\ \A m \in Movers : Follows(redirect, arena, moved[m])'
         /\ \A hs : Reaches(redirect, arena, hs) => Reaches(redirect', arena', hs)
         /\ \A hs : Reaches(redirect, arena, hs) /\ Stands(redirect, arena, hs) => Stands(redirect', arena', hs)
         /\ Grown(arena, arena', redirect, Listed, created, r) /\ Listed' = Listed \cup {r}
         /\ r = Len(arena) + 1 /\ r \in Nat /\ watches' \subseteq Holders /\ created' = created + 1
         /\ arena' \in Seq(Cells) /\ Len(arena') <= MaxCells
         /\ orig' \in Seq(Nat) /\ learned' \in Seq(Nat) /\ ToSet(moving') \subseteq DOMAIN arena'
<1>1. /\ arena \in Seq(Cells) /\ Len(arena) <= MaxCells /\ created \in Nat /\ orig \in Seq(Nat) /\ learned \in Seq(Nat)
      /\ tracking \in BOOLEAN /\ watches \subseteq Holders /\ ToSet(moving) \subseteq DOMAIN arena
  BY DEF PipelineInv, Kinds
<1>2. LinksUp(redirect, arena) /\ Names(redirect, arena, Listed) /\ CellsTell(arena, created)
  BY DEF PipelineInv, Located
<1>3. /\ r = Len(arena) + 1 /\ r \in Offsets /\ created' = created + 1 /\ arena' = Append(arena, Fresh(created))
      /\ orig' = IF learnt THEN orig ELSE Append(orig, r)
      /\ learned' = IF learnt THEN Append(learned, r) ELSE learned
      /\ ids' = IF tracking THEN AllocateId(ids, r) ELSE ids
      /\ watches' = watches \cup {[ref |-> r, of |-> created + 1]}
      /\ wiring' = wiring /\ redirect' = redirect /\ tracking' = tracking /\ moving' = moving /\ moved' = moved
  BY DEF Create, Fresh, cycleVars
<1>4. Grown(arena, arena', redirect, Listed, created, r)
  BY <1>1, <1>2, <1>3, CreatedGrows
<1>5. r \in Nat /\ r \notin DOMAIN arena /\ orig' \in Seq(Nat) /\ learned' \in Seq(Nat)
  BY <1>1, <1>3, <1>4 DEF Offsets, Grown
<1>6. Listed' = Listed \cup {r}
  <2>1. \A s \in Seq(Nat) : ToSet(Append(s, r)) = ToSet(s) \cup {r}
    <3>1. ASSUME NEW s \in Seq(Nat) PROVE ToSet(Append(s, r)) = ToSet(s) \cup {r}
      <4>1. /\ DOMAIN Append(s, r) = DOMAIN s \cup {Len(s) + 1} /\ Append(s, r)[Len(s) + 1] = r
            /\ \A k \in DOMAIN s : Append(s, r)[k] = s[k]
        BY <1>5
      <4> QED
        BY <4>1 DEF ToSet
    <3> QED
      BY <3>1
  <2>2. CASE learnt
    BY <1>1, <1>3, <2>1, <2>2 DEF Listed
  <2>3. CASE ~learnt
    BY <1>1, <1>3, <2>1, <2>3 DEF Listed
  <2> QED
    BY <2>2, <2>3
<1>7. Located'
  BY <1>3, <1>4, <1>6 DEF Located, Grown
<1>8. Tracked(tracking, ids, arena)' /\ SameIds
  <2>1. Tracked(tracking, ids, arena)
    BY DEF PipelineInv
  <2>2. CASE tracking
    <3>1. Binds(ids, ids', {r})
      BY <1>3, <1>5, <2>1, <2>2, AllocateIdBinds DEF Tracked
    <3>2. Tracked(tracking, ids, arena)'
      BY <1>3, <1>4, <2>1, <2>2, <3>1 DEF Tracked, Binds, Grown
    <3>3. ASSUME NEW j \in Standing(arena), NEW k \in Standing(arena'), arena[j].of = arena'[k].of
          PROVE  ids.of[j] = ids'.of[k]
      <4>1. k \in Standing(arena) /\ arena'[k] = arena[k]
        BY <1>4, <3>3 DEF Grown, Standing
      <4>2. j = k
        BY <1>2, <3>3, <4>1 DEF CellsTell
      <4> QED
        BY <2>1, <2>2, <3>1, <4>2 DEF Tracked, Binds
    <3> QED
      BY <1>3, <3>2, <3>3 DEF SameIds, Keeps
  <2>3. CASE ~tracking
    BY <1>1, <1>3, <2>1, <2>3 DEF Tracked, SameIds
  <2> QED
    BY <2>2, <2>3
<1>9. Reaches(redirect, arena, watches)'
  <2>1. Reaches(redirect, arena', watches)
    BY <1>4, GrownKeeps DEF PipelineInv, Held
  <2> QED
    BY <1>3, <1>4, <2>1 DEF Reaches, Grown
<1>10. \A m \in Movers : Follows(redirect, arena, moved[m])'
  BY <1>3, <1>4, GrownKeeps DEF PipelineInv
<1>11. watches' \subseteq Holders
  BY <1>1, <1>3, <1>5 DEF Holders
<1>12. Unmoved'
  BY <1>3 DEF PipelineInv, Unmoved
<1>13. /\ \A hs : Reaches(redirect, arena, hs) => Reaches(redirect', arena', hs)
       /\ \A hs : Reaches(redirect, arena, hs) /\ Stands(redirect, arena, hs) => Stands(redirect', arena', hs)
  BY <1>3, <1>4, GrownKeeps
<1>14. arena' \in Seq(Cells) /\ Len(arena') <= MaxCells /\ ToSet(moving') \subseteq DOMAIN arena'
  BY <1>1, <1>3, <1>4 DEF Grown, Offsets
<1> QED
  BY <1>3, <1>4, <1>5, <1>6, <1>7, <1>8, <1>9, <1>10, <1>11, <1>12, <1>13, <1>14

\* A sequence and one more.
OneMore(s, e, q) ==
  /\ DOMAIN q = DOMAIN s \cup {Len(s) + 1} /\ q[Len(s) + 1] = e /\ \A k \in DOMAIN s : q[k] = s[k]
  /\ ToSet(q) = ToSet(s) \cup {e} /\ q \in Seq(ToSet(q))

\* Appending yields that.
LEMMA AppendsOne ==
  ASSUME NEW T, NEW s \in Seq(T), NEW e
  PROVE  OneMore(s, e, Append(s, e))
<1> DEFINE U == T \cup {e}
           q == Append(s, e)
<1>1. s \in Seq(U) /\ e \in U /\ Len(s) \in Nat /\ DOMAIN s = 1..Len(s)
  BY SeqDef
<1> HIDE DEF U
<1>2. /\ q \in Seq(U) /\ DOMAIN q = DOMAIN s \cup {Len(s) + 1} /\ q[Len(s) + 1] = e
      /\ \A k \in DOMAIN s : q[k] = s[k] /\ Len(q) = Len(s) + 1 /\ DOMAIN q = 1..Len(q)
  BY <1>1
<1> HIDE DEF q
<1>3. ToSet(q) = ToSet(s) \cup {e}
  BY <1>1, <1>2 DEF ToSet
<1>4. q \in Seq(ToSet(q))
  <2>1. q \in [1..Len(q) -> U] /\ Len(q) \in Nat
    BY <1>2
  <2>2. \A k \in 1..Len(q) : q[k] \in ToSet(q)
    BY <1>2 DEF ToSet
  <2>3. q \in [1..Len(q) -> ToSet(q)]
    BY <2>1, <2>2
  <2> QED
    BY <2>1, <2>3
<1> QED
  BY <1>2, <1>3, <1>4 DEF q, OneMore

\* The event of a new clause.
LEMMA DispatchTells ==
  ASSUME Kinds, NEW r, NEW refs, DispatchAdd(r, refs), created' = created + 1
  PROVE  /\ events' \in Seq(ToSet(events')) /\ \A k \in DOMAIN events' : events'[k].of \in 1..created'
         /\ listening => /\ mgr' = AllocateId(mgr, r)
                         /\ \A k \in DOMAIN events' : \/ k \in DOMAIN events /\ events'[k] = events[k]
                                                      \/ events'[k].id = IdFor(mgr', r) /\ events'[k].of = created'
                         /\ online' = IF wiring = "collector" THEN OnlineAdd(online, r) ELSE online
<1>1. events \in Seq(ToSet(events)) /\ created \in Nat /\ \A k \in DOMAIN events : events[k].of \in 1..created
  BY DEF Kinds
<1>2. CASE ~listening
  BY <1>1, <1>2 DEF DispatchAdd
<1>3. CASE listening
  <2>1. mgr' = AllocateId(mgr, r) /\ online' = IF wiring = "collector" THEN OnlineAdd(online, r) ELSE online
    BY <1>3 DEF DispatchAdd
  <2>2. PICK e : events' = Append(events, e) /\ e.id = IdFor(mgr', r) /\ e.of = created'
    <3>1. /\ events' = Append(events, [id |-> IdFor(mgr', r), of |-> created', chain |-> ChainIds(refs)])
          /\ [id |-> IdFor(mgr', r), of |-> created', chain |-> ChainIds(refs)].id = IdFor(mgr', r)
          /\ [id |-> IdFor(mgr', r), of |-> created', chain |-> ChainIds(refs)].of = created'
      BY <1>3 DEF DispatchAdd
    <3> QED
      BY <3>1
  <2>3. /\ events' \in Seq(ToSet(events')) /\ DOMAIN events' = DOMAIN events \cup {Len(events) + 1}
        /\ events'[Len(events) + 1] = e /\ \A k \in DOMAIN events : events'[k] = events[k]
    <3> DEFINE T == ToSet(events)
    <3>1. events \in Seq(T)
      BY <1>1
    <3> HIDE DEF T
    <3>2. OneMore(events, e, Append(events, e))
      BY <3>1, AppendsOne
    <3> QED
      BY <2>2, <3>2 DEF OneMore
  <2>4. \A k \in DOMAIN events' : events'[k].of \in 1..created'
    BY <1>1, <2>2, <2>3
  <2> QED
    BY <1>3, <2>1, <2>2, <2>3, <2>4
<1> QED
  BY <1>2, <1>3

\* A problem clause: the manager and its checker learn of it by its offset.
LEMMA AddOriginalPreserves ==
  ASSUME PipelineInv, AddOriginal
  PROVE  PipelineInv' /\ SameIds
<1>1. PICK r \in Offsets : Create(r, FALSE) /\ DispatchAdd(r, <<>>) /\ reasons' = reasons
  BY DEF AddOriginal
<1>2. /\ Located' /\ SameIds /\ Tracked(tracking, ids, arena)' /\ Reaches(redirect, arena, watches)' /\ Unmoved'
      /\ \A m \in Movers : Follows(redirect, arena, moved[m])'
      /\ \A hs : Reaches(redirect, arena, hs) => Reaches(redirect', arena', hs)
      /\ \A hs : Reaches(redirect, arena, hs) /\ Stands(redirect, arena, hs) => Stands(redirect', arena', hs)
      /\ Grown(arena, arena', redirect, Listed, created, r) /\ Listed' = Listed \cup {r}
      /\ r = Len(arena) + 1 /\ r \in Nat /\ watches' \subseteq Holders /\ created' = created + 1
      /\ arena' \in Seq(Cells) /\ Len(arena') <= MaxCells
      /\ orig' \in Seq(Nat) /\ learned' \in Seq(Nat) /\ ToSet(moving') \subseteq DOMAIN arena'
  <2> DEFINE learnt == FALSE
  <2>1. learnt \in BOOLEAN /\ Create(r, learnt)
    BY <1>1
  <2> HIDE DEF learnt
  <2> QED
    BY <2>1, CreatePreserves
<1>3. Kinds
  BY DEF PipelineInv
<1>4. /\ wiring' = wiring /\ redirect' = redirect /\ tracking' = tracking /\ listening' = listening
      /\ moving' = moving /\ moved' = moved /\ orig' = Append(orig, r) /\ learned' = learned
  BY <1>1 DEF Create, cycleVars
<1>5. /\ events' \in Seq(ToSet(events')) /\ \A k \in DOMAIN events' : events'[k].of \in 1..created'
      /\ listening => /\ mgr' = AllocateId(mgr, r)
                      /\ \A k \in DOMAIN events' : \/ k \in DOMAIN events /\ events'[k] = events[k]
                                                   \/ events'[k].id = IdFor(mgr', r) /\ events'[k].of = created'
                      /\ online' = IF wiring = "collector" THEN OnlineAdd(online, r) ELSE online
  BY <1>1, <1>2, <1>3, DispatchTells
<1>6. Kinds'
  BY <1>1, <1>2, <1>3, <1>4, <1>5 DEF Kinds
<1>7. Held'
  BY <1>1, <1>2 DEF Held, PipelineInv
<1>8. Told'
  <2>1. SUFFICES ASSUME wiring = "collector"
                 PROVE  IsInjective(orig') /\ Managed(redirect', arena', Listed', mgr', online', events')
    BY <1>4 DEF Told, PipelineInv
  <2>2. /\ tracking /\ listening /\ IsInjective(orig) /\ learned = <<>> /\ Managed(redirect, arena, Listed, mgr, online, events)
    BY <2>1 DEF PipelineInv, Told
  <2>3. r \notin Listed /\ Listed \subseteq DOMAIN arena
    BY <1>2 DEF PipelineInv, Located, Names, Grown
  <2>4. IsInjective(orig')
    <3>1. \A k \in DOMAIN orig : orig[k] # r
      BY <2>3 DEF Listed, ToSet
    <3>2. /\ DOMAIN orig' = DOMAIN orig \cup {Len(orig) + 1} /\ orig'[Len(orig) + 1] = r
          /\ \A k \in DOMAIN orig : orig'[k] = orig[k]
      BY <1>3, <1>4, AppendsOne DEF Kinds, OneMore
    <3> QED
      BY <2>2, <3>1, <3>2 DEF IsInjective
  <2>5. Binds(mgr, mgr', {r}) /\ r \in DOMAIN mgr'.of
    <3>1. Bound(mgr)
      BY <2>2 DEF Managed
    <3>2. Binds(mgr, mgr', {r})
      BY <1>2, <1>5, <2>2, <3>1, AllocateIdBinds
    <3> QED
      BY <3>2 DEF Binds
  <2>6. online' = [active |-> Listed', errors |-> 0]
    BY <1>2, <1>5, <2>1, <2>2, <2>3 DEF Managed, OnlineAdd
  <2>7. Bound(mgr') /\ DOMAIN mgr'.of = Listed'
    BY <1>2, <2>2, <2>5 DEF Binds, Managed
  <2>8. ASSUME NEW q \in Listed', NEW k \in DOMAIN events', arena'[Resolve(redirect', q)].of = events'[k].of
        PROVE  mgr'.of[q] = events'[k].id
    <3>1. CASE q = r
      <4>1. arena'[Resolve(redirect', q)].of = created'
        BY <1>2, <1>4, <3>1 DEF Grown
      <4>2. ~(k \in DOMAIN events /\ events'[k] = events[k])
        <5>1. events'[k].of = created + 1
          BY <1>2, <2>8, <4>1
        <5>2. created \in Nat /\ \A i \in DOMAIN events : events[i].of \in 1..created
          BY <1>3 DEF Kinds
        <5> QED
          BY <5>1, <5>2
      <4>3. events'[k].id = IdFor(mgr', r)
        BY <1>5, <2>2, <4>2
      <4> QED
        BY <2>5, <3>1, <4>3 DEF IdFor
    <3>2. CASE q # r
      <4>1. q \in Listed /\ q \in DOMAIN arena
        BY <1>2, <2>3, <3>2
      <4>2. arena'[Resolve(redirect', q)] = arena[Resolve(redirect, q)] /\ arena[Resolve(redirect, q)].of # created'
        BY <1>2, <1>4, <4>1 DEF Grown
      <4>3. k \in DOMAIN events /\ events'[k] = events[k]
        BY <1>5, <2>2, <2>8, <4>2
      <4>4. mgr.of[q] = events[k].id
        BY <2>2, <2>8, <4>1, <4>2, <4>3 DEF Managed
      <4>5. mgr'.of[q] = mgr.of[q]
        BY <2>2, <2>5, <4>1 DEF Binds, Managed
      <4> QED
        BY <4>3, <4>4, <4>5
    <3> QED
      BY <3>1, <3>2
  <2> QED
    BY <2>4, <2>6, <2>7, <2>8 DEF Managed
<1> QED
  BY <1>2, <1>6, <1>7, <1>8 DEF PipelineInv

\* A learned clause is the reason of its first literal, and standing.
LEMMA LearnPreserves ==
  ASSUME PipelineInv, Learn
  PROVE  PipelineInv' /\ SameIds
<1>1. PICK r \in Offsets, refs \in SeqOf(Listed, 1) :
         Create(r, TRUE) /\ DispatchAdd(r, refs) /\ reasons' = {[ref |-> r, of |-> created']}
  BY DEF Learn
<1>0. wiring = "core"
  BY DEF Learn
<1>2. /\ Located' /\ SameIds /\ Tracked(tracking, ids, arena)' /\ Reaches(redirect, arena, watches)' /\ Unmoved'
      /\ \A m \in Movers : Follows(redirect, arena, moved[m])'
      /\ Grown(arena, arena', redirect, Listed, created, r)
      /\ r = Len(arena) + 1 /\ r \in Nat /\ watches' \subseteq Holders /\ created' = created + 1
      /\ arena' \in Seq(Cells) /\ Len(arena') <= MaxCells
      /\ orig' \in Seq(Nat) /\ learned' \in Seq(Nat) /\ ToSet(moving') \subseteq DOMAIN arena'
  <2> DEFINE learnt == TRUE
  <2>1. learnt \in BOOLEAN /\ Create(r, learnt)
    BY <1>1
  <2> HIDE DEF learnt
  <2> QED
    BY <2>1, CreatePreserves
<1>3. Kinds
  BY DEF PipelineInv
<1>4. /\ wiring' = wiring /\ redirect' = redirect /\ tracking' = tracking /\ listening' = listening
      /\ moving' = moving /\ moved' = moved
  BY <1>1 DEF Create, cycleVars
<1>5. events' \in Seq(ToSet(events')) /\ \A k \in DOMAIN events' : events'[k].of \in 1..created'
  BY <1>1, <1>2, <1>3, DispatchTells
<1>6. reasons' \subseteq Holders
  BY <1>1, <1>2, <1>3 DEF Holders, Kinds
<1>7. Kinds'
  BY <1>2, <1>3, <1>4, <1>5, <1>6 DEF Kinds
<1>8. Held'
  <2>1. r \in DOMAIN arena' /\ Resolve(redirect', r) = r /\ arena'[r].of = created' /\ arena'[r].alive
    BY <1>2, <1>4 DEF Grown
  <2> QED
    BY <1>1, <1>2, <2>1 DEF Held, Reaches, Stands
<1>9. Told'
  BY <1>0, <1>4 DEF Told
<1> QED
  BY <1>2, <1>7, <1>8, <1>9 DEF PipelineInv

\* A clause a pass adds.
LEMMA PassAddPreserves ==
  ASSUME PipelineInv, PassAdd
  PROVE  PipelineInv' /\ SameIds
<1>1. PICK r \in Offsets, learnt \in BOOLEAN : Create(r, learnt)
  BY DEF PassAdd
<1>2. /\ Located' /\ SameIds /\ Tracked(tracking, ids, arena)' /\ Reaches(redirect, arena, watches)' /\ Unmoved'
      /\ \A m \in Movers : Follows(redirect, arena, moved[m])'
      /\ \A hs : Reaches(redirect, arena, hs) => Reaches(redirect', arena', hs)
      /\ \A hs : Reaches(redirect, arena, hs) /\ Stands(redirect, arena, hs) => Stands(redirect', arena', hs)
      /\ watches' \subseteq Holders /\ created' = created + 1
      /\ arena' \in Seq(Cells) /\ Len(arena') <= MaxCells
      /\ orig' \in Seq(Nat) /\ learned' \in Seq(Nat) /\ ToSet(moving') \subseteq DOMAIN arena'
  BY <1>1, CreatePreserves
<1>3. Kinds
  BY DEF PipelineInv
<1>4. /\ wiring' = wiring /\ redirect' = redirect /\ tracking' = tracking /\ listening' = listening
      /\ moving' = moving /\ moved' = moved /\ wiring = "core" /\ events' = events /\ reasons' = reasons
  BY <1>1 DEF Create, cycleVars, PassAdd
<1>5. Kinds'
  BY <1>2, <1>3, <1>4 DEF Kinds
<1>6. Held'
  BY <1>2, <1>4 DEF Held, PipelineInv
<1>7. Told'
  BY <1>4 DEF Told
<1> QED
  BY <1>2, <1>5, <1>6, <1>7 DEF PipelineInv

\* Backtracking drops reasons only.
LEMMA BacktrackPreserves ==
  ASSUME PipelineInv, Backtrack
  PROVE  PipelineInv' /\ SameIds
<1>1. /\ wiring' = wiring /\ created' = created /\ arena' = arena /\ orig' = orig /\ learned' = learned
      /\ redirect' = redirect /\ tracking' = tracking /\ ids' = ids /\ mgr' = mgr /\ listening' = listening
      /\ events' = events /\ online' = online /\ watches' = watches /\ moving' = moving /\ moved' = moved
      /\ reasons' = {}
  BY DEF Backtrack, clauseVars, proofVars, cycleVars
<1>2. Kinds' /\ Located' /\ Unmoved' /\ Told' /\ Tracked(tracking, ids, arena)'
      /\ \A m \in Movers : Follows(redirect, arena, moved[m])'
  BY <1>1 DEF PipelineInv, Kinds, Located, Unmoved, Told, Listed
<1>3. Held'
  BY <1>1 DEF PipelineInv, Held, Reaches, Stands
<1>4. SameIds
  BY <1>1 DEF PipelineInv, Located, CellsTell, SameIds, Keeps
<1> QED
  BY <1>2, <1>3, <1>4 DEF PipelineInv

\* Clauses go, others stay where they are.
Thinned(cells, cells2, links, gone) ==
  /\ cells2 \in Seq(Cells) /\ DOMAIN cells2 = DOMAIN cells
  /\ \A k \in DOMAIN cells : cells2[k].of = cells[k].of
  /\ Standing(cells2) = Standing(cells) \ {Resolve(links, g) : g \in gone}

\* The lists without those clauses name what stands.
LEMMA ThinnedLocated ==
  ASSUME NEW cells, NEW cells2, NEW links, NEW listed, NEW gone \in SUBSET listed, Thinned(cells, cells2, links, gone),
         LinksUp(links, cells), Names(links, cells, listed), NEW made, CellsTell(cells, made)
  PROVE  LinksUp(links, cells2) /\ Names(links, cells2, listed \ gone) /\ CellsTell(cells2, made)
<1>1. Standing(cells2) \subseteq Standing(cells)
  BY DEF Thinned
<1>2. LinksUp(links, cells2)
  BY <1>1 DEF Thinned, LinksUp, Standing
<1>3. CellsTell(cells2, made)
  <2>1. \A k \in Standing(cells2) : k \in Standing(cells) /\ cells2[k].of = cells[k].of
    BY <1>1 DEF Thinned, Standing
  <2> QED
    BY <2>1 DEF Thinned, CellsTell
<1>4. \A r \in listed : r \in gone <=> Resolve(links, r) \in {Resolve(links, g) : g \in gone}
  BY DEF Names
<1>5. Names(links, cells2, listed \ gone)
  BY <1>4 DEF Names, Thinned
<1> QED
  BY <1>2, <1>3, <1>5

\* The ids left are those of the clauses left, unchanged.
LEMMA ThinnedIds ==
  ASSUME NEW cells, NEW cells2, NEW links, NEW gone, Thinned(cells, cells2, links, gone), NEW made, CellsTell(cells, made),
         NEW a, Tracked(TRUE, a, cells), NEW b, Unbinds(a, b, {Resolve(links, g) : g \in gone})
  PROVE  Tracked(TRUE, b, cells2) /\ Keeps(cells, a, cells2, b)
<1>1. Tracked(TRUE, b, cells2)
  BY DEF Thinned, Tracked, Unbinds
<1>2. \A k \in Standing(cells2) : k \in Standing(cells) /\ cells2[k].of = cells[k].of /\ b.of[k] = a.of[k]
  BY <1>1 DEF Thinned, Tracked, Unbinds, Standing
<1> QED
  BY <1>1, <1>2 DEF Keeps, CellsTell

\* What a list still yields is listed.
LEMMA IteratedIs ==
  ASSUME NEW refs \in Seq(Nat)
  PROVE  Iterated(refs) \in Seq(Nat) /\ ToSet(Iterated(refs)) \subseteq ToSet(refs)
BY SelectedIs DEF Iterated

\* What a concatenation holds.
LEMMA ConcatIs ==
  ASSUME NEW T, NEW s \in Seq(T), NEW q \in Seq(T)
  PROVE  /\ s \o q \in Seq(T) /\ ToSet(s \o q) = ToSet(s) \cup ToSet(q)
         /\ q = <<>> => s \o q = s
<1> DEFINE c == s \o q
<1>1. /\ c \in Seq(T) /\ Len(c) = Len(s) + Len(q) /\ Len(s) \in Nat /\ Len(q) \in Nat
      /\ DOMAIN c = 1..Len(c) /\ DOMAIN s = 1..Len(s) /\ DOMAIN q = 1..Len(q)
      /\ \A k \in 1..Len(c) : c[k] = IF k <= Len(s) THEN s[k] ELSE q[k - Len(s)]
  OBVIOUS
<1>2. q = <<>> => c = s
  OBVIOUS
<1> HIDE DEF c
<1>3. ASSUME NEW x \in ToSet(c) PROVE x \in ToSet(s) \cup ToSet(q)
  <2>1. PICK k \in 1..Len(c) : x = c[k]
    BY <1>1 DEF ToSet
  <2>2. CASE k <= Len(s)
    BY <1>1, <2>1, <2>2 DEF ToSet
  <2>3. CASE k > Len(s)
    <3>1. k - Len(s) \in 1..Len(q) /\ x = q[k - Len(s)]
      BY <1>1, <2>1, <2>3
    <3> QED
      BY <3>1 DEF ToSet
  <2> QED
    BY <1>1, <2>2, <2>3
<1>4. ASSUME NEW x \in ToSet(s) \cup ToSet(q) PROVE x \in ToSet(c)
  <2>1. CASE x \in ToSet(s)
    <3>1. PICK k \in 1..Len(s) : x = s[k]
      BY <2>1 DEF ToSet
    <3>2. k \in 1..Len(c) /\ c[k] = x
      BY <1>1, <3>1
    <3> QED
      BY <1>1, <3>2 DEF ToSet
  <2>2. CASE x \in ToSet(q)
    <3>1. PICK k \in 1..Len(q) : x = q[k]
      BY <2>2 DEF ToSet
    <3>2. k + Len(s) \in 1..Len(c) /\ ~(k + Len(s) <= Len(s)) /\ (k + Len(s)) - Len(s) = k
      BY <1>1, <3>1
    <3>3. c[k + Len(s)] = x
      BY <1>1, <3>1, <3>2
    <3> QED
      BY <1>1, <3>2, <3>3 DEF ToSet
  <2> QED
    BY <2>1, <2>2
<1> QED
  BY <1>1, <1>2, <1>3, <1>4 DEF c

\* Marking moves nothing.
LEMMA MarkGarbagePreserves ==
  ASSUME PipelineInv, MarkGarbage
  PROVE  PipelineInv' /\ SameIds
<1>1. PICK r \in Listed : arena' = [arena EXCEPT ![Home(r)].garbage = TRUE]
  BY DEF MarkGarbage
<1>2. /\ wiring' = wiring /\ created' = created /\ orig' = orig /\ learned' = learned
      /\ redirect' = redirect /\ tracking' = tracking /\ ids' = ids /\ mgr' = mgr /\ listening' = listening
      /\ events' = events /\ online' = online /\ watches' = watches /\ reasons' = reasons
      /\ moving' = moving /\ moved' = moved /\ wiring = "collector"
  BY DEF MarkGarbage, proofVars, cycleVars, holderVars
<1>3. arena \in Seq(Cells) /\ Kinds
  BY DEF PipelineInv, Kinds
<1>4. Home(r) \in DOMAIN arena
  BY DEF PipelineInv, Located, Names, Standing, Home
<1>5. /\ arena' \in Seq(Cells) /\ Len(arena') = Len(arena) /\ DOMAIN arena' = DOMAIN arena
      /\ \A k \in DOMAIN arena : arena'[k].of = arena[k].of /\ arena'[k].alive = arena[k].alive
  <2> DEFINE n == Len(arena)
             marked == [arena[Home(r)] EXCEPT !.garbage = TRUE]
  <2>1. n \in Nat /\ DOMAIN arena = 1..n /\ \A k \in 1..n : arena[k] \in Cells
    BY <1>3
  <2>2. marked \in Cells /\ marked.of = arena[Home(r)].of /\ marked.alive = arena[Home(r)].alive
    <3>1. arena[Home(r)] \in Cells
      BY <1>4, <2>1
    <3> QED
      BY <3>1 DEF Cells
  <2>3. arena' = [k \in 1..n |-> IF k = Home(r) THEN marked ELSE arena[k]]
    BY <1>1, <1>4, <2>1
  <2> HIDE DEF marked, n
  <2>4. arena' \in [1..n -> Cells]
    BY <2>1, <2>2, <2>3
  <2>5. arena' \in Seq(Cells) /\ Len(arena') = n
    BY <2>1, <2>4
  <2>6. \A k \in 1..n : arena'[k].of = arena[k].of /\ arena'[k].alive = arena[k].alive
    BY <2>2, <2>3
  <2> QED
    BY <2>1, <2>4, <2>5, <2>6 DEF n
<1>6. Standing(arena') = Standing(arena)
  BY <1>5 DEF Standing
<1>7. Thinned(arena, arena', redirect, {})
  BY <1>5, <1>6 DEF Thinned
<1>8. Listed' = Listed /\ Listed \ {} = Listed
  BY <1>2 DEF Listed
<1>9. Located'
  <2>0. LinksUp(redirect, arena) /\ Names(redirect, arena, Listed) /\ CellsTell(arena, created) /\ {} \in SUBSET Listed
    BY DEF PipelineInv, Located
  <2>1. LinksUp(redirect, arena') /\ Names(redirect, arena', Listed \ {}) /\ CellsTell(arena', created)
    BY <1>7, <2>0, ThinnedLocated
  <2> QED
    BY <1>2, <1>8, <2>1 DEF Located
<1>10. Kinds'
  BY <1>2, <1>3, <1>5 DEF Kinds
<1>11. \A q \in DOMAIN arena : Resolve(redirect, q) \in DOMAIN arena
  BY <1>3, ResolveInside DEF PipelineInv, Kinds, Located
<1>12. Held'
  BY <1>2, <1>5, <1>11 DEF PipelineInv, Held, Reaches, Stands
<1>13. Unmoved' /\ \A m \in Movers : Follows(redirect, arena, moved[m])'
  BY <1>2, <1>5 DEF PipelineInv, Unmoved, Follows
<1>14. Told'
  <2>1. \A q \in Listed : Resolve(redirect, q) \in DOMAIN arena
    BY DEF PipelineInv, Located, Names, Standing
  <2>2. Told
    BY DEF PipelineInv
  <2>3. Managed(redirect', arena', Listed', mgr', online', events')
    BY <1>2, <1>5, <1>8, <2>1, <2>2 DEF Told, Managed
  <2> QED
    BY <1>2, <2>2, <2>3 DEF Told
<1>15. Tracked(tracking, ids, arena)' /\ SameIds
  <2>1. Tracked(tracking, ids, arena) /\ \A j, k \in Standing(arena) : arena[j].of = arena[k].of => j = k
    BY DEF PipelineInv, Located, CellsTell
  <2>2. \A k \in Standing(arena) : arena'[k].of = arena[k].of
    BY <1>5 DEF Standing
  <2> QED
    BY <1>2, <1>6, <2>1, <2>2 DEF Tracked, SameIds, Keeps
<1> QED
  BY <1>9, <1>10, <1>12, <1>13, <1>14, <1>15 DEF PipelineInv

\* A reason is a listed clause, and standing.
LEMMA ImplyPreserves ==
  ASSUME PipelineInv, Imply
  PROVE  PipelineInv' /\ SameIds
<1>1. PICK r \in Listed : Alive(r) /\ reasons' = {[ref |-> r, of |-> ClauseAt(r)]}
  BY DEF Imply
<1>2. /\ wiring' = wiring /\ created' = created /\ arena' = arena /\ orig' = orig /\ learned' = learned
      /\ redirect' = redirect /\ tracking' = tracking /\ ids' = ids /\ mgr' = mgr /\ listening' = listening
      /\ events' = events /\ online' = online /\ watches' = watches /\ moving' = moving /\ moved' = moved
  BY DEF Imply, clauseVars, proofVars, cycleVars
<1>3. r \in DOMAIN arena /\ r \in Nat /\ Home(r) \in DOMAIN arena /\ arena[Home(r)] \in Cells
  <2>1. r \in DOMAIN arena /\ Home(r) \in DOMAIN arena
    BY DEF PipelineInv, Located, Names, Standing, Home
  <2>2. arena \in Seq(Cells)
    BY DEF PipelineInv, Kinds
  <2> QED
    BY <2>1, <2>2
<1>4. reasons' \subseteq Holders
  BY <1>1, <1>3 DEF Holders, Cells, ClauseAt
<1>5. Kinds' /\ Located' /\ Unmoved' /\ Told' /\ Tracked(tracking, ids, arena)'
      /\ \A m \in Movers : Follows(redirect, arena, moved[m])'
  BY <1>2, <1>4 DEF PipelineInv, Kinds, Located, Unmoved, Told, Listed
<1>6. Held'
  BY <1>1, <1>2, <1>3 DEF PipelineInv, Held, Reaches, Stands, Alive, ClauseAt, Home
<1>7. SameIds
  BY <1>2 DEF PipelineInv, Located, CellsTell, SameIds, Keeps
<1> QED
  BY <1>5, <1>6, <1>7 DEF PipelineInv

\* A cycle starts with offsets that are cells, and without moves.
LEMMA CollectPreserves ==
  ASSUME PipelineInv, Collect
  PROVE  PipelineInv' /\ SameIds
<1>1. /\ wiring' = wiring /\ created' = created /\ arena' = arena /\ orig' = orig /\ learned' = learned
      /\ redirect' = redirect /\ tracking' = tracking /\ ids' = ids /\ mgr' = mgr /\ listening' = listening
      /\ events' = events /\ online' = online /\ watches' = watches /\ reasons' = reasons
      /\ moving' = Iterated(orig) \o Iterated(learned) /\ wiring = "collector"
      /\ moved' = [moved EXCEPT !["collector"] = <<>>]
  BY DEF Collect, clauseVars, proofVars, holderVars
<1>2. Kinds /\ orig \in Seq(Nat) /\ learned \in Seq(Nat)
  BY DEF PipelineInv, Kinds
<1>3. moving' \in Seq(Nat) /\ ToSet(moving') \subseteq DOMAIN arena
  <2>1. /\ Iterated(orig) \in Seq(Nat) /\ ToSet(Iterated(orig)) \subseteq ToSet(orig)
        /\ Iterated(learned) \in Seq(Nat) /\ ToSet(Iterated(learned)) \subseteq ToSet(learned)
    BY <1>2, IteratedIs
  <2>2. /\ Iterated(orig) \o Iterated(learned) \in Seq(Nat)
        /\ ToSet(Iterated(orig) \o Iterated(learned)) = ToSet(Iterated(orig)) \cup ToSet(Iterated(learned))
    BY <2>1, ConcatIs
  <2>3. Listed \subseteq DOMAIN arena
    BY DEF PipelineInv, Located, Names
  <2> QED
    BY <1>1, <2>1, <2>2, <2>3 DEF Listed
<1>4. moved' \in [Movers -> Seq(Nat \X Nat)] /\ \A m \in Movers : moved'[m] = <<>> \/ moved'[m] = moved[m]
  <2>1. moved \in [Movers -> Seq(Nat \X Nat)] /\ <<>> \in Seq(Nat \X Nat)
    BY <1>2 DEF Kinds
  <2> QED
    BY <1>1, <2>1 DEF Movers
<1>5. Kinds'
  BY <1>1, <1>2, <1>3, <1>4 DEF Kinds
<1>6. Located' /\ Held' /\ Told' /\ Tracked(tracking, ids, arena)'
  BY <1>1 DEF PipelineInv, Located, Held, Told, Listed
<1>7. Unmoved'
  BY <1>1 DEF Unmoved
<1>8. \A m \in Movers : Follows(redirect, arena, moved[m])'
  <2>1. Follows(redirect, arena, <<>>)
    BY DEF Follows
  <2> QED
    BY <1>1, <1>4, <2>1 DEF PipelineInv
<1>9. SameIds
  BY <1>1 DEF PipelineInv, Located, CellsTell, SameIds, Keeps
<1> QED
  BY <1>5, <1>6, <1>7, <1>8, <1>9 DEF PipelineInv

\* In the shipped solver no redirect is ever left: a clause is where its offset says.
LEMMA CoreIs ==
  ASSUME PipelineInv, wiring = "core"
  PROVE  Listed = Standing(arena) /\ \A r : Home(r) = r /\ Resolve(redirect, r) = r
<1>1. redirect = <<>>
  BY DEF PipelineInv, Unmoved
<1>2. \A r : Home(r) = r /\ Resolve(redirect, r) = r
  <2>1. ASSUME NEW r PROVE Home(r) = r /\ Resolve(redirect, r) = r
    <3>1. r \notin DOMAIN redirect
      BY <1>1
    <3> QED
      BY <3>1, ResolveStays DEF Home
  <2> QED
    BY <2>1
<1>3. Listed = Standing(arena)
  BY <1>2 DEF PipelineInv, Located, Names
<1> QED
  BY <1>2, <1>3

\* Attaching a tracer gives every listed clause an id, and changes none.
LEMMA AttachTracerPreserves ==
  ASSUME PipelineInv, AttachTracer
  PROVE  PipelineInv' /\ SameIds
<1> DEFINE living(refs) == Selected(refs, {r \in ToSet(refs) : Alive(r)})
           first == (IF tracking THEN <<>> ELSE living(orig)) \o living(learned)
<1>1. /\ wiring' = wiring /\ created' = created /\ arena' = arena /\ orig' = orig /\ learned' = learned
      /\ redirect' = redirect /\ tracking' = TRUE /\ listening' = TRUE
      /\ events' = events /\ online' = online /\ watches' = watches /\ reasons' = reasons
      /\ moving' = moving /\ moved' = moved /\ wiring = "core" /\ ids' = AllocatedAll(ids, first)
  BY DEF AttachTracer, clauseVars, holderVars, cycleVars
<1>2. Listed = Standing(arena) /\ \A r : Home(r) = r
  BY <1>1, CoreIs
<1>3. orig \in Seq(Nat) /\ learned \in Seq(Nat) /\ tracking \in BOOLEAN
  BY DEF PipelineInv, Kinds
<1>4. \A r \in Listed : Alive(r)
  BY <1>2 DEF Alive, Standing
<1>5. ASSUME NEW refs \in Seq(Nat), ToSet(refs) \subseteq Listed PROVE living(refs) \in Seq(Nat) /\ ToSet(living(refs)) = ToSet(refs)
  <2> DEFINE picked == {r \in ToSet(refs) : Alive(r)}
  <2>1. picked = ToSet(refs)
    BY <1>4, <1>5
  <2>2. living(refs) = Selected(refs, picked)
    OBVIOUS
  <2> HIDE DEF picked, living
  <2>3. Selected(refs, picked) \in Seq(Nat) /\ ToSet(Selected(refs, picked)) = ToSet(refs) \cap picked
    BY SelectedIs
  <2> QED
    BY <2>1, <2>2, <2>3
<1>6. /\ living(orig) \in Seq(Nat) /\ ToSet(living(orig)) = ToSet(orig)
      /\ living(learned) \in Seq(Nat) /\ ToSet(living(learned)) = ToSet(learned)
  <2>1. ToSet(orig) \subseteq Listed /\ ToSet(learned) \subseteq Listed
    BY DEF Listed
  <2> HIDE DEF living
  <2> QED
    BY <1>3, <1>5, <2>1
<1> HIDE DEF living
<1>7. first \in Seq(Nat) /\ ToSet(first) = IF tracking THEN ToSet(learned) ELSE Listed
  <2> DEFINE s == IF tracking THEN <<>> ELSE living(orig)
  <2>1. s \in Seq(Nat) /\ ToSet(s) = IF tracking THEN {} ELSE ToSet(orig)
    <3>1. CASE tracking
      BY <3>1 DEF ToSet
    <3>2. CASE ~tracking
      BY <1>6, <3>2
    <3> QED
      BY <3>1, <3>2
  <2> HIDE DEF s
  <2>2. s \o living(learned) \in Seq(Nat) /\ ToSet(s \o living(learned)) = ToSet(s) \cup ToSet(living(learned))
    BY <1>6, <2>1, ConcatIs
  <2>3. first = s \o living(learned)
    BY DEF s
  <2> HIDE DEF first
  <2> QED
    BY <1>6, <2>1, <2>2, <2>3 DEF Listed
<1> HIDE DEF first
<1>8. Tracked(tracking, ids, arena)
  BY DEF PipelineInv
<1>9. Binds(ids, ids', ToSet(first))
  BY <1>1, <1>7, <1>8, AllocatedIs DEF Tracked
<1>10. Tracked(tracking, ids, arena)'
  <2>1. DOMAIN ids'.of = Standing(arena)
    <3>1. CASE tracking
      BY <1>2, <1>7, <1>8, <1>9, <3>1 DEF Binds, Tracked, Listed
    <3>2. CASE ~tracking
      BY <1>2, <1>7, <1>8, <1>9, <3>2 DEF Binds, Tracked
    <3> QED
      BY <3>1, <3>2
  <2> QED
    BY <1>1, <1>9, <2>1 DEF Tracked, Binds
<1>11. SameIds
  <2>1. tracking => \A k \in Standing(arena) : ids'.of[k] = ids.of[k]
    BY <1>8, <1>9 DEF Tracked, Binds
  <2>2. \A j, k \in Standing(arena) : arena[j].of = arena[k].of => j = k
    BY DEF PipelineInv, Located, CellsTell
  <2> QED
    BY <1>1, <2>1, <2>2 DEF SameIds, Keeps
<1>12. Kinds' /\ Located' /\ Held' /\ Unmoved' /\ Told' /\ \A m \in Movers : Follows(redirect, arena, moved[m])'
  BY <1>1 DEF PipelineInv, Kinds, Located, Held, Unmoved, Told, Listed
<1> QED
  BY <1>10, <1>11, <1>12 DEF PipelineInv

\* A sequence that holds nothing is empty.
LEMMA EmptyIs == ASSUME NEW T, NEW s \in Seq(T), ToSet(s) = {} PROVE s = <<>>
<1>1. DOMAIN s = {} /\ DOMAIN s = 1..Len(s) /\ Len(s) \in Nat
  <2>1. DOMAIN s = 1..Len(s) /\ Len(s) \in Nat
    OBVIOUS
  <2>2. \A k \in DOMAIN s : s[k] \in ToSet(s)
    BY DEF ToSet
  <2> QED
    BY <2>1, <2>2
<1>2. Len(s) = 0
  <2>1. ASSUME Len(s) # 0 PROVE FALSE
    <3>1. 1 \in 1..Len(s)
      BY <1>1, <2>1
    <3> QED
      BY <1>1, <3>1
  <2> QED
    BY <2>1
<1> QED
  BY <1>2

\* The clauses of gone leave the arena; what a sweep clears is not garbage any more.
SweptCells(cells, gone, cleared) ==
  [r \in DOMAIN cells |->
     CASE r \in gone -> [cells[r] EXCEPT !.alive = FALSE, !.garbage = FALSE]
       [] r \in cleared -> [cells[r] EXCEPT !.garbage = FALSE]
       [] OTHER -> cells[r]]
\* A sweep leaves the other clauses where they are.
LEMMA SweptIs ==
  ASSUME NEW cells \in Seq(Cells), NEW gone, NEW cleared, gone \cap cleared = {}
  PROVE  /\ SweptCells(cells, gone, cleared) \in Seq(Cells) /\ DOMAIN SweptCells(cells, gone, cleared) = DOMAIN cells
         /\ Len(SweptCells(cells, gone, cleared)) = Len(cells)
         /\ \A k \in DOMAIN cells : SweptCells(cells, gone, cleared)[k].of = cells[k].of
         /\ Standing(SweptCells(cells, gone, cleared)) = Standing(cells) \ gone
<1> DEFINE n == Len(cells)
           q == SweptCells(cells, gone, cleared)
           Dead(c) == [c EXCEPT !.alive = FALSE, !.garbage = FALSE]
           Tidy(c) == [c EXCEPT !.garbage = FALSE]
<1>1. n \in Nat /\ DOMAIN cells = 1..n /\ \A k \in 1..n : cells[k] \in Cells
  OBVIOUS
<1>2. \A c \in Cells : /\ Dead(c) \in Cells /\ Dead(c).of = c.of /\ Dead(c).alive = FALSE
                       /\ Tidy(c) \in Cells /\ Tidy(c).of = c.of /\ Tidy(c).alive = c.alive
  BY DEF Cells
<1>3. DOMAIN q = 1..n
  BY <1>1 DEF SweptCells
<1>4. ASSUME NEW k \in 1..n
      PROVE  /\ k \in gone => q[k] = Dead(cells[k])
             /\ k \in cleared => q[k] = Tidy(cells[k])
             /\ k \notin gone \cup cleared => q[k] = cells[k]
  <2>1. q[k] = CASE k \in gone -> Dead(cells[k]) [] k \in cleared -> Tidy(cells[k]) [] OTHER -> cells[k]
    BY <1>1 DEF SweptCells
  <2>2. k \in gone => k \notin cleared
    OBVIOUS
  <2> HIDE DEF q, Dead, Tidy
  <2> QED
    BY <2>1, <2>2
<1>5. q = [k \in 1..n |-> q[k]]
  BY <1>1 DEF SweptCells
<1> HIDE DEF q, Dead, Tidy
<1>6. ASSUME NEW k \in 1..n
      PROVE  q[k] \in Cells /\ q[k].of = cells[k].of /\ (q[k].alive <=> cells[k].alive /\ k \notin gone)
  <2>1. cells[k] \in Cells
    BY <1>1
  <2>2. cells[k].alive \in BOOLEAN
    BY <2>1 DEF Cells
  <2>3. CASE k \in gone
    BY <1>2, <1>4, <2>1, <2>3
  <2>4. CASE k \in cleared
    <3>1. k \notin gone
      BY <2>4
    <3> QED
      BY <1>2, <1>4, <2>1, <2>4, <3>1
  <2>5. CASE k \notin gone \cup cleared
    BY <1>4, <2>1, <2>5
  <2> QED
    BY <2>3, <2>4, <2>5
<1>7. q \in [1..n -> Cells]
  BY <1>5, <1>6
<1>8. q \in Seq(Cells) /\ Len(q) = n
  BY <1>1, <1>7
<1>9. Standing(q) = Standing(cells) \ gone
  BY <1>1, <1>3, <1>6 DEF Standing
<1> QED
  BY <1>1, <1>3, <1>6, <1>8, <1>9 DEF q

\* A flush spares reasons, and retires what it destroys, once each.
LEMMA FlushPreserves ==
  ASSUME PipelineInv, Flush
  PROVE  PipelineInv' /\ SameIds
<1> DEFINE needed == {h.of : h \in reasons}
           Gone(S) == {r \in S : ClauseAt(r) \notin needed}
           Swept(S) == Selected(orig \o learned, Gone(S))
<1>1. PICK S \in SUBSET Listed :
        /\ arena' = [r \in DOMAIN arena |->
                       CASE r \in {Home(g) : g \in Gone(S)} ->
                              [arena[r] EXCEPT !.alive = FALSE, !.garbage = FALSE]
                         [] r \in {Home(g) : g \in S \ Gone(S)} -> [arena[r] EXCEPT !.garbage = FALSE]
                         [] OTHER -> arena[r]]
        /\ orig' = Selected(orig, ToSet(orig) \ Gone(S))
        /\ learned' = Selected(learned, ToSet(learned) \ Gone(S))
        /\ ids' = IF tracking THEN RetiredAll(ids, [k \in DOMAIN Swept(S) |-> Home(Swept(S)[k])]) ELSE ids
        /\ wiring = "collector" => mgr' = RetiredAll(mgr, Swept(S)) /\ online' = OnlineDeleted(online, Swept(S))
  BY DEF Flush
<1>2. /\ wiring' = wiring /\ created' = created /\ redirect' = redirect /\ tracking' = tracking
      /\ listening' = listening /\ events' = events /\ watches' = watches /\ reasons' = reasons
      /\ moving' = moving /\ moved' = moved
  BY DEF Flush, holderVars, cycleVars
<1> DEFINE gone == Gone(S)
           leaving == Swept(S)
           homes == {Home(g) : g \in gone}
           cleared == {Home(g) : g \in S \ gone}
<1>3. Kinds /\ arena \in Seq(Cells) /\ orig \in Seq(Nat) /\ learned \in Seq(Nat) /\ tracking \in BOOLEAN
  BY DEF PipelineInv, Kinds
<1>4. LinksUp(redirect, arena) /\ Names(redirect, arena, Listed) /\ CellsTell(arena, created) /\ gone \in SUBSET Listed
  BY DEF PipelineInv, Located
<1>5. arena' = SweptCells(arena, homes, cleared)
  BY <1>1 DEF SweptCells
<1>6. homes \cap cleared = {}
  <2>1. \A g, h \in Listed : Home(g) = Home(h) => g = h
    BY <1>4 DEF Names, Home
  <2> QED
    BY <1>4, <2>1
<1>7. /\ arena' \in Seq(Cells) /\ DOMAIN arena' = DOMAIN arena /\ Len(arena') = Len(arena)
      /\ \A k \in DOMAIN arena : arena'[k].of = arena[k].of
      /\ Standing(arena') = Standing(arena) \ homes
  <2> HIDE DEF homes, cleared
  <2> QED
    BY <1>3, <1>5, <1>6, SweptIs
<1>8. Thinned(arena, arena', redirect, gone)
  BY <1>7 DEF Thinned, Home
<1>9. /\ orig' \in Seq(Nat) /\ ToSet(orig') = ToSet(orig) \ gone /\ (IsInjective(orig) => IsInjective(orig'))
      /\ learned' \in Seq(Nat) /\ ToSet(learned') = ToSet(learned) \ gone
  <2> HIDE DEF Gone
  <2>1. \A q \in Seq(Nat) : LET r == Selected(q, ToSet(q) \ gone) IN
           r \in Seq(Nat) /\ ToSet(r) = ToSet(q) \ gone /\ (IsInjective(q) => IsInjective(r))
    <3>1. ASSUME NEW q \in Seq(Nat)
          PROVE  LET r == Selected(q, ToSet(q) \ gone) IN
                   r \in Seq(Nat) /\ ToSet(r) = ToSet(q) \ gone /\ (IsInjective(q) => IsInjective(r))
      <4> DEFINE picked == ToSet(q) \ gone
      <4>1. ToSet(q) \cap picked = ToSet(q) \ gone
        OBVIOUS
      <4> HIDE DEF picked
      <4>2. /\ Selected(q, picked) \in Seq(Nat) /\ ToSet(Selected(q, picked)) = ToSet(q) \cap picked
            /\ IsInjective(q) => IsInjective(Selected(q, picked))
        BY SelectedIs
      <4> QED
        BY <4>1, <4>2 DEF picked
    <3> QED
      BY <3>1
  <2> QED
    BY <1>1, <1>3, <2>1
<1>10. Listed' = Listed \ gone
  BY <1>9 DEF Listed
<1>11. Located'
  <2>1. LinksUp(redirect, arena') /\ Names(redirect, arena', Listed \ gone) /\ CellsTell(arena', created)
    <3> HIDE DEF gone
    <3> QED
      BY <1>4, <1>8, ThinnedLocated
  <2> QED
    BY <1>2, <1>10, <2>1 DEF Located
<1>12. leaving \in Seq(Nat) /\ ToSet(leaving) = gone
       /\ (IsInjective(orig) /\ learned = <<>> => IsInjective(leaving))
  <2>1. /\ orig \o learned \in Seq(Nat) /\ ToSet(orig \o learned) = Listed /\ (learned = <<>> => orig \o learned = orig)
    BY <1>3, ConcatIs DEF Listed
  <2> DEFINE q == orig \o learned
  <2>0. leaving = Selected(q, gone)
    OBVIOUS
  <2> HIDE DEF gone, Gone, leaving, Swept, q
  <2>2. /\ leaving \in Seq(Nat) /\ ToSet(leaving) = ToSet(orig \o learned) \cap gone
        /\ IsInjective(orig \o learned) => IsInjective(leaving)
    <3>1. q \in Seq(Nat)
      BY <2>1 DEF q
    <3>2. /\ Selected(q, gone) \in Seq(Nat) /\ ToSet(Selected(q, gone)) = ToSet(q) \cap gone
          /\ IsInjective(q) => IsInjective(Selected(q, gone))
      BY <3>1, SelectedIs
    <3> QED
      BY <2>0, <3>2 DEF q
  <2> HIDE DEF leaving
  <2> QED
    BY <1>4, <2>1, <2>2
<1> HIDE DEF leaving
<1>13. Tracked(tracking, ids, arena)' /\ SameIds
  <2>1. Tracked(tracking, ids, arena)
    BY DEF PipelineInv
  <2>2. CASE tracking
    <3> DEFINE there == [k \in DOMAIN leaving |-> Home(leaving[k])]
               T == {Home(leaving[k]) : k \in DOMAIN leaving}
    <3>1. DOMAIN leaving = 1..Len(leaving) /\ Len(leaving) \in Nat
      BY <1>12
    <3>2. there \in [1..Len(leaving) -> T]
      BY <3>1
    <3>3. ToSet(there) = {Resolve(redirect, g) : g \in gone}
      <4>1. ToSet(there) = {Home(leaving[k]) : k \in DOMAIN leaving}
        BY DEF ToSet
      <4>2. ToSet(there) = {Home(g) : g \in ToSet(leaving)}
        BY <4>1 DEF ToSet
      <4> HIDE DEF there, gone
      <4> QED
        BY <1>12, <4>2 DEF Home
    <3>4. ids' = RetiredAll(ids, there)
      BY <1>1, <2>2 DEF leaving
    <3> HIDE DEF there, T, gone
    <3>5. there \in Seq(T)
      BY <3>1, <3>2
    <3>6. Unbinds(ids, ids', {Resolve(redirect, g) : g \in gone})
      BY <2>1, <3>3, <3>4, <3>5, RetiredIs DEF Tracked
    <3>7. Tracked(TRUE, ids', arena') /\ Keeps(arena, ids, arena', ids')
      <4>1. Tracked(TRUE, ids, arena)
        BY <2>1, <2>2 DEF Tracked
      <4> QED
        BY <1>4, <1>8, <3>6, <4>1, ThinnedIds
    <3> QED
      BY <1>2, <2>2, <3>7 DEF SameIds, Tracked
  <2>3. CASE ~tracking
    BY <1>1, <1>2, <2>1, <2>3 DEF Tracked, SameIds
  <2> QED
    BY <1>3, <2>2, <2>3
<1>14. Kinds'
  BY <1>2, <1>3, <1>7, <1>9 DEF Kinds
<1>15. \A q \in DOMAIN arena : Resolve(redirect, q) \in DOMAIN arena
  BY <1>3, <1>4, ResolveInside DEF Kinds
<1>16. Held'
  <2>1. Reaches(redirect, arena', watches) /\ Reaches(redirect, arena', reasons)
    BY <1>7, <1>15 DEF PipelineInv, Held, Reaches
  <2>2. ASSUME NEW h \in reasons PROVE arena'[Resolve(redirect, h.ref)].alive
    <3>1. /\ h.ref \in DOMAIN arena /\ arena[Resolve(redirect, h.ref)].of = h.of /\ arena[Resolve(redirect, h.ref)].alive
      BY DEF PipelineInv, Held, Reaches, Stands
    <3>2. Resolve(redirect, h.ref) \notin homes
      <4>1. ASSUME NEW g \in gone, Resolve(redirect, h.ref) = Home(g) PROVE FALSE
        <5>1. ClauseAt(g) = h.of
          BY <3>1, <4>1 DEF ClauseAt
        <5> QED
          BY <5>1
      <4> QED
        BY <4>1
    <3>3. Resolve(redirect, h.ref) \in Standing(arena')
      <4> HIDE DEF homes
      <4> QED
        BY <1>7, <1>15, <3>1, <3>2 DEF Standing
    <3> QED
      BY <3>3 DEF Standing
  <2> QED
    BY <1>2, <2>1, <2>2 DEF Held, Stands
<1>17. Unmoved' /\ \A m \in Movers : Follows(redirect, arena, moved[m])'
  BY <1>2, <1>7 DEF PipelineInv, Unmoved, Follows
<1>18. Told'
  <2>1. SUFFICES ASSUME wiring = "collector"
                 PROVE  learned' = <<>> /\ IsInjective(orig') /\ Managed(redirect', arena', Listed', mgr', online', events')
    BY <1>2 DEF Told, PipelineInv
  <2>2. tracking /\ listening /\ learned = <<>> /\ IsInjective(orig) /\ Managed(redirect, arena, Listed, mgr, online, events)
    BY <2>1 DEF PipelineInv, Told
  <2>3. learned' = <<>>
    <3>1. ToSet(learned) = {}
      BY <2>2 DEF ToSet
    <3>2. ToSet(learned') = {}
      BY <1>9, <3>1
    <3> QED
      BY <1>9, <3>2, EmptyIs
  <2>4. Unbinds(mgr, mgr', gone)
    <3>1. mgr' = RetiredAll(mgr, leaving) /\ Bound(mgr)
      BY <1>1, <2>1, <2>2 DEF leaving, Managed
    <3> HIDE DEF gone
    <3> QED
      BY <1>12, <3>1, RetiredIs
  <2> HIDE DEF gone
  <2>5. online' = [active |-> Listed', errors |-> 0]
    <3>1. online' = OnlineDeleted(online, leaving) /\ online = [active |-> Listed, errors |-> 0]
      BY <1>1, <2>1, <2>2 DEF leaving, gone, Managed
    <3>2. ToSet(leaving) \subseteq Listed /\ IsInjective(leaving)
      BY <1>4, <1>12, <2>2
    <3> QED
      BY <1>10, <1>12, <3>1, <3>2 DEF OnlineDeleted
  <2>6. Bound(mgr') /\ DOMAIN mgr'.of = Listed' /\ \A r \in Listed' : mgr'.of[r] = mgr.of[r]
    BY <1>10, <2>2, <2>4 DEF Unbinds, Managed
  <2>7. \A r \in Listed' : r \in Listed /\ arena'[Resolve(redirect, r)].of = arena[Resolve(redirect, r)].of
    <3>1. \A r \in Listed : Resolve(redirect, r) \in DOMAIN arena
      BY <1>4 DEF Names, Standing
    <3> QED
      BY <1>7, <1>10, <3>1
  <2>8. Managed(redirect', arena', Listed', mgr', online', events')
    BY <1>2, <2>2, <2>5, <2>6, <2>7 DEF Managed
  <2> QED
    BY <1>9, <2>2, <2>3, <2>8
<1> QED
  BY <1>11, <1>13, <1>14, <1>16, <1>17, <1>18 DEF PipelineInv

\* What the slide leaves: the standing clauses, in their order, from the bottom.
Packed(cells, order) ==
  /\ order \in Seq(Nat \ {0}) /\ Rising(order) /\ IsInjective(order) /\ ToSet(order) = Standing(cells)
  /\ Len(order) <= Len(cells) /\ \A k \in DOMAIN order : order[k] \in Standing(cells)

\* The listed clauses in the order of their offsets are that.
LEMMA SlideOrderPacks ==
  ASSUME PipelineInv, wiring = "core"
  PROVE  Packed(arena, SlideOrder)
<1> DEFINE base == [k \in 1..Len(arena) |-> k]
           T == Nat \ {0}
           order == SlideOrder
<1>1. arena \in Seq(Cells) /\ Len(arena) \in Nat /\ DOMAIN arena = 1..Len(arena)
  <2>1. arena \in Seq(Cells)
    BY DEF PipelineInv, Kinds
  <2> QED
    BY <2>1
<1>2. order = Selected(base, Standing(arena))
  <2>1. {Home(r) : r \in Listed} = Standing(arena)
    BY CoreIs
  <2> QED
    BY <2>1 DEF SlideOrder
<1>3. base \in Seq(T) /\ ToSet(base) = DOMAIN arena /\ Rising(base) /\ IsInjective(base) /\ T \subseteq Int
  BY <1>1 DEF ToSet, Rising, IsInjective
<1> HIDE DEF base, T, order
<1>4. order \in Seq(T) /\ ToSet(order) = Standing(arena) /\ Rising(order) /\ IsInjective(order)
  <2> DEFINE picked == Standing(arena)
  <2>1. DOMAIN arena \cap picked = picked
    BY DEF Standing
  <2>2. order = Selected(base, picked)
    BY <1>2
  <2> HIDE DEF picked
  <2>3. /\ Selected(base, picked) \in Seq(T) /\ ToSet(Selected(base, picked)) = ToSet(base) \cap picked
        /\ Rising(Selected(base, picked)) /\ IsInjective(Selected(base, picked))
    BY <1>3, SelectedIs
  <2>4. order \in Seq(T) /\ ToSet(order) = picked /\ Rising(order) /\ IsInjective(order)
    BY <1>3, <2>1, <2>2, <2>3
  <2> QED
    BY <2>4 DEF picked
<1>5. \A k \in DOMAIN order : order[k] \in Standing(arena)
  BY <1>4 DEF ToSet
<1>6. Len(order) <= Len(arena)
  <2>1. Len(order) \in Nat /\ DOMAIN order = 1..Len(order)
    BY <1>4
  <2>2. CASE Len(order) = 0
    BY <1>1, <2>2
  <2>3. CASE Len(order) # 0
    <3>1. Len(order) \in DOMAIN order
      BY <2>1, <2>3
    <3>2. order[Len(order)] >= Len(order)
      BY <1>4, <3>1, RisingAtLeast DEF T
    <3>3. order[Len(order)] \in 1..Len(arena)
      BY <1>1, <1>5, <3>1 DEF Standing
    <3> QED
      BY <1>1, <2>1, <3>2, <3>3
  <2> QED
    BY <2>2, <2>3
<1> QED
  BY <1>4, <1>5, <1>6 DEF Packed, order, T

\* A slide takes lists, watches, reasons and ids along.
LEMMA CollectGarbagePreserves ==
  ASSUME PipelineInv, CollectGarbage
  PROVE  PipelineInv' /\ SameIds
<1> DEFINE order == SlideOrder
           to(r) == CHOOSE k \in DOMAIN order : order[k] = Home(r)
<1>1. /\ wiring = "core"
      /\ arena' = [k \in DOMAIN order |-> arena[order[k]]]
      /\ orig' = [k \in DOMAIN orig |-> to(orig[k])]
      /\ learned' = [k \in DOMAIN learned |-> to(learned[k])]
      /\ redirect' = <<>>
      /\ ids' = IF tracking THEN Followed(ids, order) ELSE ids
      /\ watches' = {[h EXCEPT !.ref = to(h.ref)] : h \in {w \in watches : Home(w.ref) \in ToSet(order)}}
      /\ reasons' = {[h EXCEPT !.ref = to(h.ref)] : h \in reasons}
  BY DEF CollectGarbage
<1>2. /\ wiring' = wiring /\ created' = created /\ tracking' = tracking /\ mgr' = mgr /\ listening' = listening
      /\ events' = events /\ online' = online /\ moving' = moving /\ moved' = moved
  BY DEF CollectGarbage, cycleVars
<1>3. Packed(arena, order)
  BY <1>1, SlideOrderPacks
<1>4. Listed = Standing(arena) /\ \A r : Home(r) = r /\ Resolve(redirect, r) = r
  BY <1>1, CoreIs
<1> HIDE DEF order
<1>5. \A r \in Listed : to(r) \in DOMAIN order /\ order[to(r)] = r
  <2>1. ASSUME NEW r \in Listed PROVE to(r) \in DOMAIN order /\ order[to(r)] = r
    <3>1. \E k \in DOMAIN order : order[k] = Home(r)
      BY <1>3, <1>4 DEF Packed, ToSet
    <3>2. to(r) \in DOMAIN order /\ order[to(r)] = Home(r)
      BY <3>1
    <3> HIDE DEF to
    <3> QED
      BY <1>4, <3>2
  <2> QED
    BY <2>1
<1> HIDE DEF to
<1>6. /\ Len(order) \in Nat /\ DOMAIN order = 1..Len(order) /\ Kinds /\ Len(arena) \in Nat /\ DOMAIN arena = 1..Len(arena)
      /\ arena \in Seq(Cells)
  <2>1. order \in Seq(Nat \ {0})
    BY <1>3 DEF Packed
  <2>2. arena \in Seq(Cells) /\ Kinds
    BY DEF PipelineInv, Kinds
  <2> QED
    BY <2>1, <2>2
<1>7. \A k \in DOMAIN order : order[k] \in Standing(arena) /\ order[k] \in DOMAIN arena /\ to(order[k]) = k
  BY <1>3, <1>4, <1>5 DEF Packed, Standing, IsInjective
<1>8. /\ arena' \in Seq(Cells) /\ Len(arena') = Len(order) /\ Len(arena') <= MaxCells
      /\ DOMAIN arena' = DOMAIN order /\ Standing(arena') = DOMAIN order
      /\ \A k \in DOMAIN order : arena'[k] = arena[order[k]]
  <2>1. \A k \in DOMAIN arena : arena[k] \in Cells
    BY <1>6
  <2>2. arena' \in [1..Len(order) -> Cells]
    BY <1>1, <1>6, <1>7, <2>1
  <2>3. arena' \in Seq(Cells) /\ Len(arena') = Len(order)
    BY <1>6, <2>2
  <2>4. Len(arena') <= MaxCells
    <3>1. Len(order) <= Len(arena) /\ Len(arena) <= MaxCells
      BY <1>3, <1>6 DEF Packed, Kinds
    <3> QED
      BY <1>6, <2>3, <3>1, BoundsAssumption
  <2>5. DOMAIN arena' = DOMAIN order /\ \A k \in DOMAIN order : arena'[k] = arena[order[k]]
    BY <1>1
  <2> QED
    BY <1>7, <2>3, <2>4, <2>5 DEF Standing
<1>9. /\ orig' \in Seq(Nat) /\ ToSet(orig') = {to(r) : r \in ToSet(orig)}
      /\ learned' \in Seq(Nat) /\ ToSet(learned') = {to(r) : r \in ToSet(learned)}
  <2>1. ASSUME NEW q \in Seq(Nat), ToSet(q) \subseteq Listed, NEW p, p = [k \in DOMAIN q |-> to(q[k])]
        PROVE  p \in Seq(Nat) /\ ToSet(p) = {to(r) : r \in ToSet(q)}
    <3>1. \A k \in DOMAIN q : to(q[k]) \in Nat
      BY <1>5, <1>6, <2>1 DEF ToSet
    <3>2. DOMAIN q = 1..Len(q) /\ Len(q) \in Nat
      OBVIOUS
    <3>3. p \in [1..Len(q) -> Nat]
      BY <2>1, <3>1, <3>2
    <3>4. p \in Seq(Nat)
      BY <3>2, <3>3
    <3> QED
      BY <2>1, <3>4 DEF ToSet
  <2>2. orig \in Seq(Nat) /\ learned \in Seq(Nat) /\ ToSet(orig) \subseteq Listed /\ ToSet(learned) \subseteq Listed
    BY <1>6 DEF Kinds, Listed
  <2> QED
    BY <1>1, <2>1, <2>2
<1>10. Listed' = DOMAIN order
  <2>1. Listed' = {to(r) : r \in Listed}
    BY <1>9 DEF Listed
  <2>2. \A k \in DOMAIN order : k = to(order[k]) /\ order[k] \in Listed
    BY <1>4, <1>7
  <2> QED
    BY <1>5, <2>1, <2>2
<1>11. \A r : Resolve(redirect', r) = r
  <2>1. \A r : r \notin DOMAIN redirect'
    BY <1>1
  <2> QED
    BY <2>1, ResolveStays
<1>12. Located'
  <2>1. LinksUp(redirect', arena')
    BY <1>1 DEF LinksUp
  <2>2. Names(redirect', arena', Listed')
    BY <1>8, <1>10, <1>11 DEF Names
  <2>3. CellsTell(arena, created)
    BY DEF PipelineInv, Located
  <2>4. CellsTell(arena', created')
    <3>1. \A j, k \in DOMAIN order : order[j] = order[k] => j = k
      BY <1>7
    <3> QED
      BY <1>2, <1>7, <1>8, <2>3, <3>1 DEF CellsTell
  <2> QED
    BY <2>1, <2>2, <2>4 DEF Located
<1>13. ASSUME NEW h \in watches \cup reasons, h.ref \in Listed, NEW g, g = [h EXCEPT !.ref = to(h.ref)]
       PROVE  g \in Holders /\ g.ref \in DOMAIN arena' /\ arena'[g.ref].of = g.of /\ arena'[g.ref].alive
  <2>1. h \in Holders /\ arena[h.ref].of = h.of
    BY <1>4, <1>6 DEF PipelineInv, Kinds, Held, Reaches
  <2>2. to(h.ref) \in DOMAIN order /\ order[to(h.ref)] = h.ref /\ to(h.ref) \in Nat
    BY <1>5, <1>6, <1>13
  <2>3. g.ref = to(h.ref) /\ g.of = h.of /\ g \in Holders
    BY <1>13, <2>1, <2>2 DEF Holders
  <2>4. arena'[g.ref] = arena[h.ref] /\ g.ref \in DOMAIN arena' /\ g.ref \in Standing(arena')
    BY <1>8, <2>2, <2>3
  <2> QED
    BY <2>1, <2>3, <2>4 DEF Standing
<1>14. \A h \in reasons : h.ref \in Listed
  BY <1>4 DEF PipelineInv, Held, Reaches, Stands, Standing
<1>15. \A g \in watches' \cup reasons' : \E h \in watches \cup reasons : h.ref \in Listed /\ g = [h EXCEPT !.ref = to(h.ref)]
  <2>1. ASSUME NEW g \in watches' PROVE \E h \in watches \cup reasons : h.ref \in Listed /\ g = [h EXCEPT !.ref = to(h.ref)]
    <3>1. PICK h \in watches : Home(h.ref) \in ToSet(order) /\ g = [h EXCEPT !.ref = to(h.ref)]
      BY <1>1
    <3> QED
      BY <1>3, <1>4, <3>1 DEF Packed
  <2>2. ASSUME NEW g \in reasons' PROVE \E h \in watches \cup reasons : h.ref \in Listed /\ g = [h EXCEPT !.ref = to(h.ref)]
    <3>1. PICK h \in reasons : g = [h EXCEPT !.ref = to(h.ref)]
      BY <1>1
    <3> QED
      BY <1>14, <3>1
  <2> QED
    BY <2>1, <2>2
<1>16. \A g \in watches' \cup reasons' : g \in Holders /\ g.ref \in DOMAIN arena' /\ arena'[g.ref].of = g.of /\ arena'[g.ref].alive
  BY <1>13, <1>15
<1>17. Held'
  BY <1>11, <1>16 DEF Held, Reaches, Stands
<1>18. Unmoved' /\ Told' /\ \A m \in Movers : Follows(redirect, arena, moved[m])'
  BY <1>1, <1>2 DEF PipelineInv, Unmoved, Told, Follows
<1>19. Kinds'
  <2>1. ToSet(moving) = {}
    BY <1>1 DEF PipelineInv, Unmoved, ToSet
  <2>2. Table(redirect')
    BY <1>1 DEF Table
  <2> QED
    BY <1>2, <1>6, <1>8, <1>9, <1>16, <2>1, <2>2 DEF Kinds
<1>20. Tracked(tracking, ids, arena)' /\ SameIds
  <2>1. Tracked(tracking, ids, arena) /\ tracking \in BOOLEAN
    BY <1>6 DEF PipelineInv, Kinds
  <2>2. CASE tracking
    <3>1. Bound(ids) /\ DOMAIN ids.of = ToSet(order) /\ order \in Seq(Nat \ {0}) /\ Rising(order)
      BY <1>3, <2>1, <2>2 DEF Tracked, Packed
    <3>2. /\ Bound(ids') /\ DOMAIN ids'.of = 1..Len(order)
          /\ \A k \in 1..Len(order) : ids'.of[k] = ids.of[order[k]]
      BY <1>1, <2>2, <3>1, FollowedIs
    <3>3. Tracked(tracking, ids, arena)'
      BY <1>2, <1>6, <1>8, <2>2, <3>2 DEF Tracked
    <3>4. ASSUME NEW j \in Standing(arena), NEW k \in Standing(arena'), arena[j].of = arena'[k].of
          PROVE  ids.of[j] = ids'.of[k]
      <4>1. k \in DOMAIN order /\ arena[j].of = arena[order[k]].of /\ order[k] \in Standing(arena)
        BY <1>7, <1>8, <3>4
      <4>2. j = order[k]
        BY <4>1 DEF PipelineInv, Located, CellsTell
      <4> QED
        BY <1>6, <3>2, <4>1, <4>2
    <3> QED
      BY <1>2, <2>2, <3>3, <3>4 DEF SameIds, Keeps
  <2>3. CASE ~tracking
    BY <1>1, <1>2, <2>1, <2>3 DEF Tracked, SameIds
  <2> QED
    BY <2>1, <2>2, <2>3
<1> QED
  BY <1>12, <1>17, <1>18, <1>19, <1>20 DEF PipelineInv

\* Before the first move of a step, that holds.
LEMMA MoveStateIs ==
  ASSUME PipelineInv, wiring = "collector"
  PROVE  MoveState \in States /\ Settled(MoveState) /\ MoveState.arena = arena /\ tracking = TRUE /\ Len(arena) <= MaxCells
<1> DEFINE s == MoveState
<1>1. /\ s.arena = arena /\ s.redirect = redirect /\ s.ids = ids /\ s.mgr = mgr /\ s.online = online
      /\ s.orig = orig /\ s.learned = learned /\ s.moves = <<>>
      /\ s = [arena |-> s.arena, redirect |-> s.redirect, ids |-> s.ids, mgr |-> s.mgr, online |-> s.online,
              orig |-> s.orig, learned |-> s.learned, moves |-> s.moves]
  BY DEF MoveState
<1> HIDE DEF s
<1>2. Kinds /\ Located /\ Held /\ Tracked(tracking, ids, arena) /\ \A m \in Movers : Follows(redirect, arena, moved[m])
  BY DEF PipelineInv
<1>3. tracking = TRUE /\ learned = <<>> /\ IsInjective(orig) /\ Managed(redirect, arena, Listed, mgr, online, events)
  BY DEF PipelineInv, Told
<1>4. Listed = ToSet(orig) /\ Listed \subseteq Nat
  <2>1. ToSet(learned) = {}
    BY <1>3 DEF ToSet
  <2>2. ToSet(orig) \subseteq Nat
    BY <1>2 DEF Kinds, ToSet
  <2> QED
    BY <2>1, <2>2 DEF Listed
<1>5. s \in States
  <2>1. redirect \in Tables
    BY <1>2 DEF Kinds, Table, Tables
  <2>2. ids \in Allocators /\ mgr \in Allocators
    BY <1>2, <1>3, BoundIsAllocator DEF Tracked, Managed
  <2>3. online \in [active : SUBSET Nat, errors : Nat]
    BY <1>3, <1>4 DEF Managed
  <2>4. s.moves \in Seq(Nat \X Nat)
    BY <1>1
  <2>5. arena \in Seq(Cells) /\ orig \in Seq(Nat) /\ learned \in Seq(Nat)
    BY <1>2 DEF Kinds
  <2> QED
    BY <1>1, <2>1, <2>2, <2>3, <2>4, <2>5 DEF States
<1>6. Settled(s)
  <2>1. Follows(redirect, arena, s.moves)
    BY <1>1 DEF Follows
  <2>2. Keeps(arena, ids, arena, ids)
    BY <1>2 DEF Located, CellsTell, Keeps
  <2>3. Tracked(TRUE, ids, arena)
    BY <1>2, <1>3
  <2> QED
    BY <1>1, <1>2, <1>3, <1>4, <2>1, <2>2, <2>3 DEF Settled, Located, Held
<1> QED
  BY <1>1, <1>2, <1>3, <1>5, <1>6 DEF s, Kinds

\* The state between two moves is one the invariant allows.
LEMMA SettledBecomes ==
  ASSUME PipelineInv, wiring = "collector", NEW s \in States, Settled(s), Len(arena) <= Len(s.arena), Become(s),
         moving' \in Seq(Nat), ToSet(moving') \subseteq DOMAIN arena,
         moved' \in [Movers -> Seq(Nat \X Nat)], \A m \in Movers : Follows(s.redirect, s.arena, moved'[m])
  PROVE  PipelineInv' /\ SameIds
<1>1. /\ arena' = s.arena /\ redirect' = s.redirect /\ ids' = s.ids /\ mgr' = s.mgr /\ online' = s.online
      /\ orig' = s.orig /\ learned' = s.learned /\ Len(s.arena) <= MaxCells
      /\ wiring' = wiring /\ created' = created /\ tracking' = tracking /\ listening' = listening
      /\ events' = events /\ watches' = watches /\ reasons' = reasons
  BY DEF Become, holderVars
<1>2. s.arena \in Seq(Cells) /\ s.orig \in Seq(Nat) /\ s.learned \in Seq(Nat) /\ s.redirect \in Tables
  BY DEF States
<1>3. Kinds /\ tracking = TRUE /\ listening /\ arena \in Seq(Cells)
  BY DEF PipelineInv, Told, Kinds
<1>4. Listed' = ToSet(s.orig)
  <2>1. ToSet(learned') = {}
    BY <1>1 DEF Settled, ToSet
  <2> QED
    BY <1>1, <2>1 DEF Listed
<1>5. DOMAIN arena \subseteq DOMAIN arena'
  <2>1. DOMAIN arena = 1..Len(arena) /\ DOMAIN s.arena = 1..Len(s.arena) /\ Len(arena) \in Nat /\ Len(s.arena) \in Nat
    BY <1>2, <1>3
  <2> QED
    BY <1>1, <2>1
<1>6. Table(redirect')
  <2>1. PICK D \in SUBSET Nat : s.redirect \in [D -> Nat]
    BY <1>2 DEF Tables
  <2> QED
    BY <1>1, <2>1 DEF Table
<1>7. Kinds'
  BY <1>1, <1>2, <1>3, <1>5, <1>6 DEF Kinds
<1>8. Located' /\ Held'
  BY <1>1, <1>4 DEF Settled, Located, Held
<1>9. Told'
  BY <1>1, <1>3, <1>4 DEF Settled, Told
<1>10. Unmoved'
  BY <1>1 DEF Unmoved
<1>11. Tracked(tracking, ids, arena)' /\ SameIds
  BY <1>1, <1>3 DEF Settled, SameIds
<1>12. \A m \in Movers : Follows(redirect, arena, moved[m])'
  BY <1>1
<1> QED
  BY <1>7, <1>8, <1>9, <1>10, <1>11, <1>12 DEF PipelineInv

\* Moves and further moves.
LEMMA FollowsConcat ==
  ASSUME NEW links, NEW cells, NEW p \in Seq(Nat \X Nat), NEW q \in Seq(Nat \X Nat),
         Follows(links, cells, p), Follows(links, cells, q)
  PROVE  p \o q \in Seq(Nat \X Nat) /\ Follows(links, cells, p \o q)
<1> DEFINE T == Nat \X Nat
           c == p \o q
<1>1. p \in Seq(T) /\ q \in Seq(T)
  OBVIOUS
<1> HIDE DEF T
<1>2. /\ c \in Seq(T) /\ DOMAIN c = 1..(Len(p) + Len(q)) /\ Len(p) \in Nat /\ Len(q) \in Nat
      /\ DOMAIN p = 1..Len(p) /\ DOMAIN q = 1..Len(q)
      /\ \A k \in DOMAIN c : c[k] = IF k <= Len(p) THEN p[k] ELSE q[k - Len(p)]
  BY <1>1
<1> HIDE DEF c
<1>3. ASSUME NEW k \in DOMAIN c PROVE (k \in DOMAIN p /\ c[k] = p[k]) \/ \E j \in DOMAIN q : c[k] = q[j]
  <2>1. CASE k <= Len(p)
    BY <1>2, <2>1
  <2>2. CASE k > Len(p)
    <3>1. k - Len(p) \in DOMAIN q /\ c[k] = q[k - Len(p)]
      BY <1>2, <2>2
    <3> QED
      BY <3>1
  <2> QED
    BY <1>2, <2>1, <2>2
<1>4. Follows(links, cells, c)
  BY <1>3 DEF Follows
<1> QED
  BY <1>2, <1>4 DEF T, c

\* The collector moves one clause.
LEMMA RelocateLiveClausePreserves ==
  ASSUME PipelineInv, RelocateLiveClause
  PROVE  PipelineInv' /\ SameIds
<1> DEFINE old == Head(moving)
           s == Moved(MoveState, old)
<1>1. /\ moving # <<>> /\ Become(s) /\ moving' = Tail(moving)
      /\ moved' = [moved EXCEPT !["collector"] = @ \o s.moves]
  BY DEF RelocateLiveClause
<1>2. /\ moving \in Seq(Nat) /\ ToSet(moving) \subseteq DOMAIN arena /\ moved \in [Movers -> Seq(Nat \X Nat)]
      /\ wiring \in Wirings
  BY DEF PipelineInv, Kinds
<1>3. wiring = "collector"
  BY <1>1, <1>2 DEF PipelineInv, Unmoved, Wirings
<1>4. MoveState \in States /\ Settled(MoveState) /\ MoveState.arena = arena /\ tracking = TRUE /\ Len(arena) <= MaxCells
  BY <1>3, MoveStateIs
<1>5. old \in DOMAIN arena /\ old \in Nat
  <2>1. 1 \in DOMAIN moving /\ old = moving[1] /\ old \in Nat
    BY <1>1, <1>2
  <2> QED
    BY <1>2, <2>1 DEF ToSet
<1>6. moving' \in Seq(Nat) /\ ToSet(moving') \subseteq DOMAIN arena
  <2>1. /\ moving' \in Seq(Nat) /\ DOMAIN moving = 1..Len(moving) /\ Len(moving) \in Nat
        /\ \A k \in DOMAIN moving' : k + 1 \in DOMAIN moving /\ moving'[k] = moving[k + 1]
    BY <1>1, <1>2
  <2> QED
    BY <1>2, <2>1 DEF ToSet
<1> HIDE DEF old
<1>7. s \in States /\ Len(arena) <= Len(s.arena)
  BY <1>4, <1>5, MovedStates
<1>8. Settled(s)
  <2>1. Len(s.arena) <= MaxCells
    BY <1>1 DEF Become
  <2> QED
    BY <1>4, <1>5, <2>1, MovedSettled
<1> HIDE DEF s
<1>9. moved' \in [Movers -> Seq(Nat \X Nat)] /\ \A m \in Movers : Follows(s.redirect, s.arena, moved'[m])
  <2> DEFINE c == moved["collector"] \o s.moves
  <2>1. "collector" \in Movers /\ moved' = [moved EXCEPT !["collector"] = c]
    BY <1>1 DEF Movers
  <2>2. c \in Seq(Nat \X Nat) /\ Follows(s.redirect, s.arena, c)
    <3>1. s.moves \in Seq(Nat \X Nat) /\ moved["collector"] \in Seq(Nat \X Nat)
      BY <1>2, <1>7, <2>1 DEF States
    <3>2. Follows(s.redirect, s.arena, s.moves) /\ Follows(s.redirect, s.arena, moved["collector"])
      BY <1>8, <2>1 DEF Settled
    <3> QED
      BY <3>1, <3>2, FollowsConcat
  <2> HIDE DEF c
  <2>3. \A m \in Movers : Follows(s.redirect, s.arena, moved[m])
    BY <1>8 DEF Settled
  <2> QED
    BY <1>2, <2>1, <2>2, <2>3
<1> QED
  BY <1>1, <1>3, <1>6, <1>7, <1>8, <1>9, SettledBecomes

\* The compactor moves every clause that is not garbage.
LEMMA RewriteLiteralsPreserves ==
  ASSUME PipelineInv, RewriteLiterals
  PROVE  PipelineInv' /\ SameIds
<1> DEFINE refs == Iterated(orig \o learned)
           s == MovedAll(refs)
<1>1. /\ wiring = "collector" /\ Become(s) /\ moving' = moving
      /\ moved' = [moved EXCEPT !["compactor"] = s.moves]
  BY DEF RewriteLiterals
<1>2. /\ moving \in Seq(Nat) /\ ToSet(moving) \subseteq DOMAIN arena /\ moved \in [Movers -> Seq(Nat \X Nat)]
      /\ orig \in Seq(Nat) /\ learned \in Seq(Nat)
  BY DEF PipelineInv, Kinds
<1>3. MoveState \in States /\ Settled(MoveState) /\ MoveState.arena = arena /\ tracking = TRUE /\ Len(arena) <= MaxCells
  BY <1>1, MoveStateIs
<1>4. refs \in Seq(Nat) /\ ToSet(refs) \subseteq DOMAIN arena
  <2>1. orig \o learned \in Seq(Nat) /\ ToSet(orig \o learned) = Listed
    BY <1>2, ConcatIs DEF Listed
  <2>2. refs \in Seq(Nat) /\ ToSet(refs) \subseteq Listed
    BY <2>1, IteratedIs
  <2> QED
    BY <2>2 DEF PipelineInv, Located, Names
<1> HIDE DEF refs
<1>5. s \in States /\ Len(arena) <= Len(s.arena) /\ Settled(s)
  <2>1. Len(s.arena) <= MaxCells
    BY <1>1 DEF Become
  <2> QED
    BY <1>3, <1>4, <2>1, MovedAllSettled
<1> HIDE DEF s
<1>6. moved' \in [Movers -> Seq(Nat \X Nat)] /\ \A m \in Movers : Follows(s.redirect, s.arena, moved'[m])
  <2>1. "compactor" \in Movers
    BY DEF Movers
  <2>2. s.moves \in Seq(Nat \X Nat) /\ Follows(s.redirect, s.arena, s.moves)
    BY <1>5 DEF Settled, States
  <2>3. \A m \in Movers : Follows(s.redirect, s.arena, moved[m])
    BY <1>5 DEF Settled
  <2> QED
    BY <1>1, <1>2, <2>1, <2>2, <2>3
<1> QED
  BY <1>1, <1>2, <1>5, <1>6, SettledBecomes

\* Watches are renamed along all the moves told.
LEMMA RewriteWatchesPreserves ==
  ASSUME PipelineInv, RewriteWatches
  PROVE  PipelineInv' /\ SameIds
<1>1. PICK m \in Movers : watches' = Renamed(watches, moved[m])
  BY DEF RewriteWatches
<1>2. /\ wiring' = wiring /\ created' = created /\ arena' = arena /\ orig' = orig /\ learned' = learned
      /\ redirect' = redirect /\ tracking' = tracking /\ ids' = ids /\ mgr' = mgr /\ listening' = listening
      /\ events' = events /\ online' = online /\ reasons' = reasons /\ moving' = moving /\ moved' = moved
  BY DEF RewriteWatches, clauseVars, proofVars, cycleVars
<1>3. moved[m] \in Seq(Nat \X Nat) /\ Follows(redirect, arena, moved[m]) /\ Holding(redirect, arena, watches)
  BY DEF PipelineInv, Kinds, Held, Holding
<1>4. watches' \subseteq Holders /\ Reaches(redirect, arena, watches')
  BY <1>1, <1>3, RenamedHold DEF Holding
<1>5. Kinds' /\ Located' /\ Held' /\ Unmoved' /\ Told' /\ Tracked(tracking, ids, arena)'
      /\ \A k \in Movers : Follows(redirect, arena, moved[k])'
  BY <1>2, <1>4 DEF PipelineInv, Kinds, Located, Held, Unmoved, Told, Listed
<1>6. SameIds
  BY <1>2 DEF PipelineInv, Located, CellsTell, SameIds, Keeps
<1> QED
  BY <1>5, <1>6 DEF PipelineInv

\* A reason is renamed by the last move told of its offset.
LEMMA RewriteReasonsPreserves ==
  ASSUME PipelineInv, RewriteReasons
  PROVE  PipelineInv' /\ SameIds
<1> DEFINE Hits(m, h) == {k \in DOMAIN moved[m] : moved[m][k][1] = h.ref}
           Latest(m, h) == CHOOSE k \in Hits(m, h) : \A j \in Hits(m, h) : j <= k
<1>1. PICK m \in Movers :
         reasons' = {IF Hits(m, h) = {} THEN h ELSE [h EXCEPT !.ref = moved[m][Latest(m, h)][2]] : h \in reasons}
  BY DEF RewriteReasons
<1>2. /\ wiring' = wiring /\ created' = created /\ arena' = arena /\ orig' = orig /\ learned' = learned
      /\ redirect' = redirect /\ tracking' = tracking /\ ids' = ids /\ mgr' = mgr /\ listening' = listening
      /\ events' = events /\ online' = online /\ watches' = watches /\ moving' = moving /\ moved' = moved
  BY DEF RewriteReasons, clauseVars, proofVars, cycleVars
<1>3. moved[m] \in Seq(Nat \X Nat) /\ Follows(redirect, arena, moved[m])
  BY DEF PipelineInv, Kinds
<1>4. \A h \in reasons : Hits(m, h) # {} => Latest(m, h) \in Hits(m, h)
  <2>1. ASSUME NEW h \in reasons, Hits(m, h) # {} PROVE Latest(m, h) \in Hits(m, h)
    <3> DEFINE S == Hits(m, h)
               N == Len(moved[m])
    <3>1. N \in Nat /\ DOMAIN moved[m] = 1..N
      BY <1>3
    <3>2. S \in SUBSET (0..N) /\ S # {}
      BY <2>1, <3>1
    <3>3. Latest(m, h) = CHOOSE k \in S : \A j \in S : j <= k
      OBVIOUS
    <3> HIDE DEF S, N, Latest
    <3>4. \E k \in S : \A j \in S : j <= k
      BY <3>1, <3>2, Greatest
    <3>5. Latest(m, h) \in S
      BY <3>3, <3>4
    <3> QED
      BY <3>5 DEF S
  <2> QED
    BY <2>1
<1> HIDE DEF Latest
<1>5. ASSUME NEW h \in reasons, NEW g, g = IF Hits(m, h) = {} THEN h ELSE [h EXCEPT !.ref = moved[m][Latest(m, h)][2]]
      PROVE  /\ g \in Holders /\ g.ref \in DOMAIN arena /\ arena[Resolve(redirect, g.ref)].of = g.of
             /\ arena[Resolve(redirect, g.ref)].alive
  <2>1. /\ h \in Holders /\ h.ref \in DOMAIN arena /\ arena[Resolve(redirect, h.ref)].of = h.of
        /\ arena[Resolve(redirect, h.ref)].alive
    BY DEF PipelineInv, Kinds, Held, Reaches, Stands
  <2>2. CASE Hits(m, h) = {}
    BY <1>5, <2>1, <2>2
  <2>3. CASE Hits(m, h) # {}
    <3> DEFINE k == Latest(m, h)
    <3>1. k \in DOMAIN moved[m] /\ moved[m][k][1] = h.ref
      BY <1>4, <2>3
    <3> HIDE DEF k
    <3>2. moved[m][k][2] \in DOMAIN arena /\ Resolve(redirect, moved[m][k][2]) = Resolve(redirect, h.ref)
      BY <1>3, <3>1 DEF Follows
    <3>3. moved[m][k][2] \in Nat
      <4>1. moved[m][k] \in Nat \X Nat
        BY <1>3, <3>1
      <4> QED
        BY <4>1
    <3>4. g = [h EXCEPT !.ref = moved[m][k][2]]
      BY <1>5, <2>3 DEF k
    <3>5. g.ref = moved[m][k][2] /\ g.of = h.of /\ g \in Holders
      BY <2>1, <3>3, <3>4 DEF Holders
    <3> QED
      BY <2>1, <3>2, <3>5
  <2> QED
    BY <2>2, <2>3
<1> HIDE DEF Hits
<1>6. /\ reasons' \subseteq Holders /\ Reaches(redirect, arena, reasons') /\ Stands(redirect, arena, reasons')
  BY <1>1, <1>5 DEF Reaches, Stands
<1>7. Kinds' /\ Located' /\ Held' /\ Unmoved' /\ Told' /\ Tracked(tracking, ids, arena)'
      /\ \A k \in Movers : Follows(redirect, arena, moved[k])'
  BY <1>2, <1>6 DEF PipelineInv, Kinds, Located, Held, Unmoved, Told, Listed
<1>8. SameIds
  BY <1>2 DEF PipelineInv, Located, CellsTell, SameIds, Keeps
<1> QED
  BY <1>7, <1>8 DEF PipelineInv

\* Every step keeps the invariant, and the ids of the clauses.
LEMMA PipelineStep ==
  ASSUME PipelineInv, [Next]_vars
  PROVE  PipelineInv' /\ SameIds
<1>1. CASE AddOriginal
  BY <1>1, AddOriginalPreserves
<1>2. CASE Learn
  BY <1>2, LearnPreserves
<1>3. CASE PassAdd
  BY <1>3, PassAddPreserves
<1>4. CASE Backtrack
  BY <1>4, BacktrackPreserves
<1>5. CASE AttachTracer
  BY <1>5, AttachTracerPreserves
<1>6. CASE Flush
  BY <1>6, FlushPreserves
<1>7. CASE CollectGarbage
  BY <1>7, CollectGarbagePreserves
<1>8. CASE MarkGarbage
  BY <1>8, MarkGarbagePreserves
<1>9. CASE Imply
  BY <1>9, ImplyPreserves
<1>10. CASE Collect
  BY <1>10, CollectPreserves
<1>11. CASE RelocateLiveClause
  BY <1>11, RelocateLiveClausePreserves
<1>12. CASE RewriteLiterals
  BY <1>12, RewriteLiteralsPreserves
<1>13. CASE RewriteWatches
  BY <1>13, RewriteWatchesPreserves
<1>14. CASE RewriteReasons
  BY <1>14, RewriteReasonsPreserves
<1>15. CASE UNCHANGED vars
  <2>1. /\ wiring' = wiring /\ created' = created /\ arena' = arena /\ orig' = orig /\ learned' = learned
        /\ redirect' = redirect /\ tracking' = tracking /\ ids' = ids /\ mgr' = mgr /\ listening' = listening
        /\ events' = events /\ online' = online /\ watches' = watches /\ reasons' = reasons
        /\ moving' = moving /\ moved' = moved
    BY <1>15 DEF vars, clauseVars, proofVars, holderVars, cycleVars
  <2>2. PipelineInv'
    BY <2>1 DEF PipelineInv, Kinds, Located, Held, Unmoved, Told, Listed
  <2>3. SameIds
    BY <2>1 DEF PipelineInv, Located, CellsTell, SameIds, Keeps
  <2> QED
    BY <2>2, <2>3
<1> QED
  BY <1>1, <1>2, <1>3, <1>4, <1>5, <1>6, <1>7, <1>8, <1>9, <1>10, <1>11, <1>12, <1>13, <1>14, <1>15 DEF Next

\* Whoever holds a reference, and the proof manager too, ends at the clause it
\* was given for, for every number of clauses, cells and events.
THEOREM ReferencesAlwaysResolve == Spec => []ReferencesResolve
<1>1. PipelineInv => ReferencesResolve
  <2>1. SUFFICES ASSUME PipelineInv PROVE ReferencesResolve
    OBVIOUS
  <2>2. \A r \in DOMAIN arena : Resolve(redirect, r) \in DOMAIN arena
    BY <2>1, ResolveInside DEF PipelineInv, Kinds, Located
  <2>3. HoldersReachTheirClause
    BY <2>1, <2>2 DEF HoldersReachTheirClause, PipelineInv, Held, Reaches, Stands, Alive, ClauseAt, Home
  <2>4. ManagerFollowsMoves
    BY <2>1 DEF ManagerFollowsMoves, PipelineInv, Told, Managed, ClauseAt, Home, IdFor
  <2> QED
    BY <2>3, <2>4 DEF ReferencesResolve
<1>2. PipelineInv /\ [Next]_vars => PipelineInv'
  BY PipelineStep
<1> QED
  BY <1>1, <1>2, PipelineInit, PTL DEF Spec

\* The id storage gives a clause never changes while the clause is listed, and
\* tells it from every other listed clause.
THEOREM IdentityAlwaysSurvives == Spec => IdentitySurvivesMoves
<1>1. PipelineInv => IdsTellClausesApart
  <2>1. SUFFICES ASSUME PipelineInv, tracking
                 PROVE  /\ \A r \in Listed : IdFor(ids, Home(r)) # 0
                        /\ \A r, s \in Listed : IdFor(ids, Home(r)) = IdFor(ids, Home(s)) => Home(r) = Home(s)
    BY DEF IdsTellClausesApart
  <2>2. Bound(ids) /\ DOMAIN ids.of = Standing(arena)
    BY <2>1 DEF PipelineInv, Tracked
  <2>3. \A r \in Listed : Home(r) \in DOMAIN ids.of
    BY <2>1, <2>2 DEF PipelineInv, Located, Names, Home
  <2>4. \A k \in DOMAIN ids.of : ids.of[k] # 0 /\ ids.at[ids.of[k]] = k
    BY <2>2 DEF Bound
  <2> QED
    BY <2>3, <2>4 DEF IdFor
<1>2. PipelineInv /\ [Next]_vars => PipelineInv' /\ SameIds
  BY PipelineStep
<1> DEFINE Same == \A old \in Identified, new \in Identified' : old[1] = new[1] => old[2] = new[2]
<1>3. PipelineInv /\ PipelineInv' /\ SameIds => (tracking => Same)
  <2>1. SUFFICES ASSUME PipelineInv, PipelineInv', SameIds, tracking, NEW old \in Identified, NEW new \in Identified',
                        old[1] = new[1]
                 PROVE  old[2] = new[2]
    OBVIOUS
  <2>2. PICK r \in Listed : old = <<ClauseAt(r), IdFor(ids, Home(r))>>
    BY <2>1 DEF Identified
  <2>3. PICK q \in Listed' : new = <<ClauseAt(q)', IdFor(ids', Home(q)')>>
    BY <2>1 DEF Identified
  <2>4. Home(r) \in Standing(arena) /\ Home(q)' \in Standing(arena')
    BY <2>1 DEF PipelineInv, Located, Names, Home
  <2>5. arena[Home(r)].of = arena'[Home(q)'].of
    BY <2>1, <2>2, <2>3 DEF ClauseAt
  <2>6. ids.of[Home(r)] = ids'.of[Home(q)']
    BY <2>1, <2>4, <2>5 DEF SameIds, Keeps
  <2>7. Home(r) \in DOMAIN ids.of /\ Home(q)' \in DOMAIN ids'.of
    BY <2>1, <2>4 DEF PipelineInv, Tracked, SameIds
  <2> QED
    BY <2>2, <2>3, <2>6, <2>7 DEF IdFor
<1>4. PipelineInv /\ [Next]_vars => [tracking => Same]_vars
  BY <1>2, <1>3
<1> QED
  BY <1>1, <1>2, <1>4, PipelineInit, PTL DEF Spec, IdentitySurvivesMoves

-----------------------------------------------------------------------------
(* The command-line program                                                *)

\* What the scan of the copy has come to.
Scans == [clause : Nat \ {0}, satisfied : BOOLEAN, found : Nat]
Unscanned == [clause |-> 1, satisfied |-> FALSE, found |-> 0]
Scanned(values, lits) ==
    LET check[n \in 0..Len(lits)] == IF n = 0 THEN Unscanned ELSE CheckLiteral(values, check[n - 1], lits[n])
    IN check[Len(lits)]
\* The turns of such a scan, and what every turn keeps.
IsScan(f, values, lits) ==
    /\ f[0] = Unscanned
    /\ \A k \in 1..Len(lits) : f[k] = CheckLiteral(values, f[k - 1], lits[k])
    /\ Scanned(values, lits) = f[Len(lits)]
KeptByScan(Good, values, lits) ==
    \A k \in 1..Len(lits) : \A x \in Good[k - 1] : CheckLiteral(values, x, lits[k]) \in Good[k]

\* What is read agrees with what a scan of its copy says: no closed clause has
\* failed exactly if all hold, and the open one holds if the scan says so.
Readings == [clause : Seq(Int), clauses : Seq(Seq(Int)), literals : Seq(Int), declared : Nat,
             skips : BOOLEAN, stopped : BOOLEAN]
Faithful(values, s) ==
    LET c == Scanned(values, s.literals) IN
    /\ c \in Scans
    /\ c.found = 0 <=> \A d \in ToSet(s.clauses) : Holds(values, d)
    /\ c.found = 0 => (c.satisfied <=> Holds(values, s.clause))

OptionReads == [request : [assumptions : Seq(Int), settings : Seq(STRING \X Int)], at : Nat \ {0}, ok : BOOLEAN]

\* A line whose token k takes what is good before it to what is good after it
\* leaves what is good, with nothing skipped any more.
LEMMA LineGood ==
  ASSUME NEW line, Len(line) \in Nat, NEW S, NEW Good \in [0..Len(line) -> SUBSET S], NEW s \in Good[0],
         \A k \in 1..Len(line) : \A x \in Good[k - 1] : ReadCommandToken(x, line[k]) \in Good[k]
  PROVE  \E x \in Good[Len(line)] : ReadCommandLine(s, line) = [x EXCEPT !.skips = FALSE]
<1> DEFINE N == Len(line)
           start == s
           Round(x, k) == ReadCommandToken(x, line[k])
           round == [p \in S \X (1..N) |-> Round(p[1], p[2])]
           IsLoop(f) == f = [n \in 0..N |-> IF n = 0 THEN start ELSE Round(f[n - 1], n)]
<1>1. ASSUME NEW k \in 1..N, NEW x \in Good[k - 1]
      PROVE  x \in S /\ round[<<x, k>>] = Round(x, k) /\ round[<<x, k>>] \in Good[k]
  <2>1. k - 1 \in 0..N
    OBVIOUS
  <2>2. Good[k - 1] \subseteq S
    BY <2>1
  <2> QED
    BY <2>2
<1>2. N \in Nat /\ Good \in [0..N -> SUBSET S] /\ start \in Good[0]
  OBVIOUS
<1> HIDE DEF round, Round, N, start
<1>3. StaysGood(Good, N, round)
  BY <1>1 DEF StaysGood
<1>4. \E f : Runs(f, N, S, start, round) /\ \A k \in 0..N : f[k] \in Good[k]
  BY ONLY <1>2, <1>3, GoodLoop
<1>5. PICK f \in [0..N -> S] :
            /\ f[0] = start
            /\ \A k \in 0..N : f[k] \in Good[k]
            /\ \A k \in 1..N : f[k] = round[<<f[k - 1], k>>]
  BY <1>4 DEF Runs
<1>6. ASSUME NEW k \in 1..N PROVE f[k] = Round(f[k - 1], k)
  <2>1. k - 1 \in 0..N
    BY <1>2
  <2> QED
    BY <1>1, <1>5, <2>1
<1>7. IsLoop(f)
  <2>1. ASSUME NEW n \in 0..N PROVE f[n] = IF n = 0 THEN start ELSE Round(f[n - 1], n)
    BY <1>2, <1>5, <1>6
  <2> QED
    BY <1>5, <2>1
<1> DEFINE g == CHOOSE h : IsLoop(h)
<1>8. IsLoop(g)
  BY <1>7
<1>9. ReadCommandLine(s, line) = [g[N] EXCEPT !.skips = FALSE]
  BY DEF ReadCommandLine, N, Round, start
<1> HIDE DEF g
<1>10. g[0] = start /\ \A k \in 1..N : g[k] = Round(g[k - 1], k)
  BY <1>2, <1>8
<1> HIDE DEF IsLoop
<1>11. Alike(f, g, N)
  BY <1>5, <1>6, <1>10 DEF Alike
<1>12. g[N] = f[N]
  BY <1>2, <1>11, SameIteration
<1>13. f[N] \in Good[Len(line)] /\ ReadCommandLine(s, line) = [f[N] EXCEPT !.skips = FALSE]
  BY <1>2, <1>5, <1>9, <1>12 DEF N
<1> QED
  BY <1>13

\* The same of a file and its lines,
LEMMA FileGood ==
  ASSUME Len(dimacs) \in Nat, NEW S, NEW Good \in [0..Len(dimacs) -> SUBSET S], NewReading \in Good[0],
         \A k \in 1..Len(dimacs) : \A x \in Good[k - 1] : ReadCommandLine(x, dimacs[k]) \in Good[k]
  PROVE  ReadFile \in Good[Len(dimacs)]
<1> DEFINE N == Len(dimacs)
           start == NewReading
           Round(x, k) == ReadCommandLine(x, dimacs[k])
           round == [p \in S \X (1..N) |-> Round(p[1], p[2])]
           IsLoop(f) == f = [n \in 0..N |-> IF n = 0 THEN start ELSE Round(f[n - 1], n)]
<1>1. ASSUME NEW k \in 1..N, NEW x \in Good[k - 1]
      PROVE  x \in S /\ round[<<x, k>>] = Round(x, k) /\ round[<<x, k>>] \in Good[k]
  <2>1. k - 1 \in 0..N
    OBVIOUS
  <2>2. Good[k - 1] \subseteq S
    BY <2>1
  <2> QED
    BY <2>2
<1>2. N \in Nat /\ Good \in [0..N -> SUBSET S] /\ start \in Good[0]
  OBVIOUS
<1> HIDE DEF round, Round, N, start
<1>3. StaysGood(Good, N, round)
  BY <1>1 DEF StaysGood
<1>4. \E f : Runs(f, N, S, start, round) /\ \A k \in 0..N : f[k] \in Good[k]
  BY ONLY <1>2, <1>3, GoodLoop
<1>5. PICK f \in [0..N -> S] :
            /\ f[0] = start
            /\ \A k \in 0..N : f[k] \in Good[k]
            /\ \A k \in 1..N : f[k] = round[<<f[k - 1], k>>]
  BY <1>4 DEF Runs
<1>6. ASSUME NEW k \in 1..N PROVE f[k] = Round(f[k - 1], k)
  <2>1. k - 1 \in 0..N
    BY <1>2
  <2> QED
    BY <1>1, <1>5, <2>1
<1>7. IsLoop(f)
  <2>1. ASSUME NEW n \in 0..N PROVE f[n] = IF n = 0 THEN start ELSE Round(f[n - 1], n)
    BY <1>2, <1>5, <1>6
  <2> QED
    BY <1>5, <2>1
<1> DEFINE g == CHOOSE h : IsLoop(h)
<1>8. IsLoop(g)
  BY <1>7
<1>9. ReadFile = g[N]
  BY DEF ReadFile, N, Round, start
<1> HIDE DEF g
<1>10. g[0] = start /\ \A k \in 1..N : g[k] = Round(g[k - 1], k)
  BY <1>2, <1>8
<1> HIDE DEF IsLoop
<1>11. Alike(f, g, N)
  BY <1>5, <1>6, <1>10 DEF Alike
<1>12. g[N] = f[N]
  BY <1>2, <1>11, SameIteration
<1> QED
  BY <1>2, <1>5, <1>9, <1>12 DEF N

\* of the options,
LEMMA OptionsGood ==
  ASSUME Len(argv) \in Nat, NEW S, NEW Good \in [0..Len(argv) -> SUBSET S],
         [request |-> NoRequest, at |-> 2, ok |-> TRUE] \in Good[0],
         \A k \in 1..Len(argv) : \A x \in Good[k - 1] : ReadOption(x) \in Good[k]
  PROVE  ReadOptions \in Good[Len(argv)]
<1> DEFINE N == Len(argv)
           start == [request |-> NoRequest, at |-> 2, ok |-> TRUE]
           Round(x, k) == ReadOption(x)
           round == [p \in S \X (1..N) |-> Round(p[1], p[2])]
           IsLoop(f) == f = [n \in 0..N |-> IF n = 0 THEN start ELSE Round(f[n - 1], n)]
<1>1. ASSUME NEW k \in 1..N, NEW x \in Good[k - 1]
      PROVE  x \in S /\ round[<<x, k>>] = Round(x, k) /\ round[<<x, k>>] \in Good[k]
  <2>1. k - 1 \in 0..N
    OBVIOUS
  <2>2. Good[k - 1] \subseteq S
    BY <2>1
  <2> QED
    BY <2>2
<1>2. N \in Nat /\ Good \in [0..N -> SUBSET S] /\ start \in Good[0]
  OBVIOUS
<1> HIDE DEF round, Round, N, start
<1>3. StaysGood(Good, N, round)
  BY <1>1 DEF StaysGood
<1>4. \E f : Runs(f, N, S, start, round) /\ \A k \in 0..N : f[k] \in Good[k]
  BY ONLY <1>2, <1>3, GoodLoop
<1>5. PICK f \in [0..N -> S] :
            /\ f[0] = start
            /\ \A k \in 0..N : f[k] \in Good[k]
            /\ \A k \in 1..N : f[k] = round[<<f[k - 1], k>>]
  BY <1>4 DEF Runs
<1>6. ASSUME NEW k \in 1..N PROVE f[k] = Round(f[k - 1], k)
  <2>1. k - 1 \in 0..N
    BY <1>2
  <2> QED
    BY <1>1, <1>5, <2>1
<1>7. IsLoop(f)
  <2>1. ASSUME NEW n \in 0..N PROVE f[n] = IF n = 0 THEN start ELSE Round(f[n - 1], n)
    BY <1>2, <1>5, <1>6
  <2> QED
    BY <1>5, <2>1
<1> DEFINE g == CHOOSE h : IsLoop(h)
<1>8. IsLoop(g)
  BY <1>7
<1>9. ReadOptions = g[N]
  BY DEF ReadOptions, N, Round, start
<1> HIDE DEF g
<1>10. g[0] = start /\ \A k \in 1..N : g[k] = Round(g[k - 1], k)
  BY <1>2, <1>8
<1> HIDE DEF IsLoop
<1>11. Alike(f, g, N)
  BY <1>5, <1>6, <1>10 DEF Alike
<1>12. g[N] = f[N]
  BY <1>2, <1>11, SameIteration
<1> QED
  BY <1>2, <1>5, <1>9, <1>12 DEF N

\* and of a check of the copy; it is also determined by its turns.
LEMMA ScannedGood ==
  ASSUME NEW values, NEW lits, Len(lits) \in Nat, NEW S, NEW Good \in [0..Len(lits) -> SUBSET S], Unscanned \in Good[0],
         KeptByScan(Good, values, lits)
  PROVE  Scanned(values, lits) \in Good[Len(lits)] /\ \E f : IsScan(f, values, lits)
<1>0. \A k \in 1..Len(lits) : \A x \in Good[k - 1] : CheckLiteral(values, x, lits[k]) \in Good[k]
  BY DEF KeptByScan
<1> DEFINE N == Len(lits)
           start == Unscanned
           Round(x, k) == CheckLiteral(values, x, lits[k])
           round == [p \in S \X (1..N) |-> Round(p[1], p[2])]
           IsLoop(f) == f = [n \in 0..N |-> IF n = 0 THEN start ELSE Round(f[n - 1], n)]
<1>1. ASSUME NEW k \in 1..N, NEW x \in Good[k - 1]
      PROVE  x \in S /\ round[<<x, k>>] = Round(x, k) /\ round[<<x, k>>] \in Good[k]
  <2>1. k - 1 \in 0..N
    OBVIOUS
  <2>2. Good[k - 1] \subseteq S
    BY <2>1
  <2> QED
    BY <1>0, <2>2
<1>2. N \in Nat /\ Good \in [0..N -> SUBSET S] /\ start \in Good[0]
  OBVIOUS
<1> HIDE DEF round, Round, N, start
<1>3. StaysGood(Good, N, round)
  BY <1>1 DEF StaysGood
<1>4. \E f : Runs(f, N, S, start, round) /\ \A k \in 0..N : f[k] \in Good[k]
  BY ONLY <1>2, <1>3, GoodLoop
<1>5. PICK f \in [0..N -> S] :
            /\ f[0] = start
            /\ \A k \in 0..N : f[k] \in Good[k]
            /\ \A k \in 1..N : f[k] = round[<<f[k - 1], k>>]
  BY <1>4 DEF Runs
<1>6. ASSUME NEW k \in 1..N PROVE f[k] = Round(f[k - 1], k)
  <2>1. k - 1 \in 0..N
    BY <1>2
  <2> QED
    BY <1>1, <1>5, <2>1
<1>7. IsLoop(f)
  <2>1. ASSUME NEW n \in 0..N PROVE f[n] = IF n = 0 THEN start ELSE Round(f[n - 1], n)
    BY <1>2, <1>5, <1>6
  <2> QED
    BY <1>5, <2>1
<1> DEFINE g == CHOOSE h : IsLoop(h)
<1>8. IsLoop(g)
  BY <1>7
<1>9. Scanned(values, lits) = g[N]
  BY DEF Scanned, N, Round, start
<1> HIDE DEF g
<1>10. g[0] = start /\ \A k \in 1..N : g[k] = Round(g[k - 1], k)
  BY <1>2, <1>8
<1> HIDE DEF IsLoop
<1>11. Alike(f, g, N)
  BY <1>5, <1>6, <1>10 DEF Alike
<1>12. g[N] = f[N]
  BY <1>2, <1>11, SameIteration
<1>13. Scanned(values, lits) \in Good[N]
  BY <1>2, <1>5, <1>9, <1>12
<1>14. IsScan(g, values, lits)
  BY <1>9, <1>10 DEF IsScan, N, Round, start
<1> QED
  BY <1>13, <1>14 DEF N

\* One more literal is one more turn of the scan.
LEMMA ScannedAppend ==
  ASSUME NEW values \in Seq(BOOLEAN), NEW lits \in Seq(Int), NEW l \in Int
  PROVE  /\ Scanned(values, lits) \in Scans
         /\ Scanned(values, <<>>) = Unscanned
         /\ Scanned(values, Append(lits, l)) = CheckLiteral(values, Scanned(values, lits), l)
<1>0. Unscanned \in Scans
  <2>1. 1 \in Nat \ {0} /\ 0 \in Nat
    OBVIOUS
  <2> QED
    BY <2>1, Zenon DEF Unscanned, Scans
<1>1. ASSUME NEW c \in Scans, NEW k \in Int PROVE CheckLiteral(values, c, k) \in Scans
  <2>1. c.clause \in Nat \ {0} /\ c.clause \in Nat
    BY DEF Scans
  <2>2. c.clause + 1 \in Nat \ {0}
    BY <2>1
  <2>3. (c.satisfied \/ ValueSays(values, k)) \in BOOLEAN
    OBVIOUS
  <2>4. [c EXCEPT !.satisfied = @ \/ ValueSays(values, k)] \in Scans
    BY <2>3, Zenon DEF Scans
  <2>5. [c EXCEPT !.clause = @ + 1, !.satisfied = FALSE] \in Scans
    BY <2>2, Zenon DEF Scans
  <2>6. [c EXCEPT !.found = c.clause] \in Scans
    BY <2>1, Zenon DEF Scans
  <2> QED
    BY <2>4, <2>5, <2>6, Zenon DEF CheckLiteral
<1>2. ASSUME NEW some \in Seq(Int)
      PROVE  Scanned(values, some) \in Scans /\ \E f : IsScan(f, values, some)
  <2> DEFINE Good == [n \in 0..Len(some) |-> Scans]
  <2>1. Len(some) \in Nat /\ Good \in [0..Len(some) -> SUBSET Scans] /\ Unscanned \in Good[0]
    BY <1>0
  <2>2. KeptByScan(Good, values, some)
    BY <1>1 DEF KeptByScan
  <2>3. Good[Len(some)] = Scans
    BY <2>1
  <2> HIDE DEF Good
  <2>4. Scanned(values, some) \in Good[Len(some)] /\ \E f : IsScan(f, values, some)
    BY ONLY <2>1, <2>2, ScannedGood
  <2> QED
    BY <2>3, <2>4
<1> DEFINE more == Append(lits, l)
           n == Len(lits)
<1>3. more \in Seq(Int) /\ Len(more) = n + 1 /\ n \in Nat /\ more[n + 1] = l /\ \A k \in 1..n : more[k] = lits[k]
  OBVIOUS
<1> HIDE DEF more
<1>4. PICK f : /\ f[0] = Unscanned
               /\ \A k \in 1..n : f[k] = CheckLiteral(values, f[k - 1], lits[k])
               /\ Scanned(values, lits) = f[n]
  BY <1>2 DEF IsScan
<1>5. PICK g : /\ g[0] = Unscanned
               /\ \A k \in 1..(n + 1) : g[k] = CheckLiteral(values, g[k - 1], more[k])
               /\ Scanned(values, more) = g[n + 1]
  BY <1>2, <1>3 DEF IsScan
<1>6. Alike(f, g, n)
  BY <1>3, <1>4, <1>5 DEF Alike
<1>7. g[n] = f[n]
  BY <1>3, <1>6, SameIteration
<1>8. g[n + 1] = CheckLiteral(values, g[n], l)
  <2>1. n + 1 \in 1..(n + 1) /\ (n + 1) - 1 = n
    BY <1>3
  <2> QED
    BY <1>3, <1>5, <2>1
<1>9. Scanned(values, <<>>) = Unscanned
  <2>1. <<>> \in Seq(Int) /\ Len(<<>>) = 0
    OBVIOUS
  <2> QED
    BY <1>2, <2>1 DEF IsScan
<1> QED
  BY <1>2, <1>4, <1>5, <1>7, <1>8, <1>9 DEF more

\* A number read keeps the copy and the clauses together.
LEMMA ReadNumberFaithful ==
  ASSUME NEW values \in Seq(BOOLEAN), NEW s \in Readings, Faithful(values, s), NEW value \in Int
  PROVE  ReadNumber(s, value) \in Readings /\ Faithful(values, ReadNumber(s, value))
<1> DEFINE t == ReadNumber(s, value)
           c == Scanned(values, s.literals)
<1>1. s.literals \in Seq(Int) /\ s.clause \in Seq(Int) /\ s.clauses \in Seq(Seq(Int))
  BY DEF Readings
<1>2. t.literals = Append(s.literals, value)
  BY DEF ReadNumber, Readings
<1>3. Scanned(values, t.literals) = CheckLiteral(values, c, value)
  BY <1>1, <1>2, ScannedAppend
<1>4. Scanned(values, t.literals) \in Scans
  <2>1. Append(s.literals, value) \in Seq(Int)
    BY <1>1
  <2> QED
    BY <1>2, <2>1, ScannedAppend
<1>5. t \in Readings
  <2>1. CASE value = 0
    <3>1. <<>> \in Seq(Int) /\ Append(s.literals, 0) \in Seq(Int)
      BY <1>1
    <3>2. Append(s.clauses, s.clause) \in Seq(Seq(Int))
      BY <1>1, AppendProperties
    <3>3. t = [s EXCEPT !.clauses = Append(@, s.clause), !.clause = <<>>, !.literals = Append(@, 0)]
      BY <2>1 DEF ReadNumber
    <3> QED
      BY <3>1, <3>2, <3>3, Zenon DEF Readings
  <2>2. CASE value # 0
    <3>1. Append(s.clause, value) \in Seq(Int) /\ Append(s.literals, value) \in Seq(Int)
      BY <1>1
    <3>2. t = [s EXCEPT !.clause = Append(@, value), !.literals = Append(@, value)]
      BY <2>2 DEF ReadNumber
    <3> QED
      BY <3>1, <3>2, Zenon DEF Readings
  <2> QED
    BY <2>1, <2>2
<1>6. /\ c \in Scans
      /\ c.found = 0 <=> \A d \in ToSet(s.clauses) : Holds(values, d)
      /\ c.found = 0 => (c.satisfied <=> Holds(values, s.clause))
  BY DEF Faithful
<1>7. c.clause # 0 /\ c.satisfied \in BOOLEAN /\ c = [clause |-> c.clause, satisfied |-> c.satisfied, found |-> c.found]
  BY <1>6 DEF Scans
<1> HIDE DEF c
<1>8. ASSUME value = 0 PROVE Faithful(values, t)
  <2>1. t.clauses = Append(s.clauses, s.clause) /\ t.clause = <<>>
    BY <1>8 DEF ReadNumber, Readings
  <2>2. ToSet(t.clauses) = ToSet(s.clauses) \cup {s.clause}
    BY <1>1, <2>1, AppendsOne DEF OneMore
  <2>3. ~Holds(values, t.clause)
    BY <2>1 DEF Holds, ToSet
  <2> DEFINE e == CheckLiteral(values, c, value)
  <2>4. e = IF c.found # 0 THEN c
            ELSE IF c.satisfied THEN [c EXCEPT !.clause = @ + 1, !.satisfied = FALSE]
            ELSE [c EXCEPT !.found = c.clause]
    BY <1>8 DEF CheckLiteral
  <2>5. /\ e.found = 0 <=> c.found = 0 /\ c.satisfied
        /\ e.found = 0 => ~e.satisfied
    BY <1>7, <2>4
  <2> HIDE DEF e
  <2>6. e.found = 0 <=> \A d \in ToSet(t.clauses) : Holds(values, d)
    BY <1>6, <2>2, <2>5
  <2> QED
    BY <1>3, <1>4, <2>3, <2>5, <2>6 DEF Faithful, e
<1>9. ASSUME value # 0 PROVE Faithful(values, t)
  <2>1. t.clauses = s.clauses /\ t.clause = Append(s.clause, value)
    BY <1>9 DEF ReadNumber, Readings
  <2>2. ToSet(t.clause) = ToSet(s.clause) \cup {value}
    BY <1>1, <2>1, AppendsOne DEF OneMore
  <2>3. Holds(values, t.clause) <=> Holds(values, s.clause) \/ ValueSays(values, value)
    BY <2>2 DEF Holds
  <2> DEFINE e == CheckLiteral(values, c, value)
  <2>4. e = IF c.found # 0 THEN c ELSE [c EXCEPT !.satisfied = @ \/ ValueSays(values, value)]
    BY <1>9 DEF CheckLiteral
  <2>5. /\ e.found = c.found
        /\ e.found = 0 => (e.satisfied <=> c.satisfied \/ ValueSays(values, value))
    BY <1>7, <2>4
  <2> HIDE DEF e
  <2> QED
    BY <1>3, <1>4, <1>6, <2>1, <2>3, <2>5 DEF Faithful, e
<1> QED
  BY <1>5, <1>8, <1>9

\* So does any token,
LEMMA ReadTokenFaithful ==
  ASSUME NEW values \in Seq(BOOLEAN), NEW s \in Readings, Faithful(values, s), NEW token \in FileTokens
  PROVE  ReadCommandToken(s, token) \in Readings /\ Faithful(values, ReadCommandToken(s, token))
<1> DEFINE t == ReadCommandToken(s, token)
<1>1. token.kind \in TokenKinds /\ token.value \in Int
  BY DEF FileTokens
<1>2. CASE s.stopped \/ s.skips
  <2>1. t = s
    BY <1>2, Zenon DEF ReadCommandToken
  <2> QED
    BY <2>1
<1>3. CASE ~(s.stopped \/ s.skips) /\ token.kind = "number"
  <2>1. t = ReadNumber(s, token.value)
    BY <1>3 DEF ReadCommandToken
  <2> QED
    BY <1>1, <2>1, ReadNumberFaithful
<1>4. CASE ~(s.stopped \/ s.skips) /\ token.kind # "number"
  <2> DEFINE stated == IF token.value > 0 THEN token.value ELSE s.declared
  <2>1. t \in {s, [s EXCEPT !.skips = TRUE], [s EXCEPT !.stopped = TRUE], [s EXCEPT !.skips = TRUE, !.declared = stated]}
    BY <1>1, <1>4, Zenon DEF ReadCommandToken, TokenKinds
  <2>2. stated \in Nat
    BY <1>1 DEF Readings
  <2> HIDE DEF t, stated
  <2>3. t \in Readings
    BY <2>1, <2>2, Zenon DEF Readings
  <2>4. t.literals = s.literals /\ t.clauses = s.clauses /\ t.clause = s.clause
    BY <2>1, Zenon DEF Readings
  <2> QED
    BY <2>3, <2>4 DEF Faithful, t
<1> QED
  BY <1>2, <1>3, <1>4

\* and so the whole file.
LEMMA ReadFileFaithful ==
  ASSUME dimacs \in Files, NEW values \in Seq(BOOLEAN)
  PROVE  ReadFile \in Readings /\ Faithful(values, ReadFile)
<1> DEFINE S == {s \in Readings : Faithful(values, s)}
<1>1. dimacs \in Seq(Seq(FileTokens)) /\ Len(dimacs) \in Nat
  BY CommandAssumption
<1>2. NewReading \in S
  <2>1. NewReading \in Readings
    BY DEF NewReading, Readings
  <2>2. Scanned(values, <<>>) = Unscanned
    <3>1. <<>> \in Seq(Int) /\ 0 \in Int
      OBVIOUS
    <3> QED
      BY <3>1, ScannedAppend
  <2>3. /\ NewReading.literals = <<>> /\ NewReading.clauses = <<>> /\ NewReading.clause = <<>>
        /\ ToSet(<<>>) = {}
    BY DEF NewReading, ToSet
  <2>4. Unscanned \in Scans /\ Unscanned.found = 0 /\ ~Unscanned.satisfied
    BY DEF Unscanned, Scans
  <2>5. ~Holds(values, <<>>)
    BY <2>3 DEF Holds
  <2>6. Faithful(values, NewReading)
    BY <2>2, <2>3, <2>4, <2>5 DEF Faithful
  <2> QED
    BY <2>1, <2>6
<1>3. ASSUME NEW s \in S, NEW line \in Seq(FileTokens) PROVE ReadCommandLine(s, line) \in S
  <2> DEFINE Good == [n \in 0..Len(line) |-> S]
  <2>1. Len(line) \in Nat /\ Good \in [0..Len(line) -> SUBSET S] /\ s \in Good[0] /\ Good[Len(line)] = S
    OBVIOUS
  <2>2. \A k \in 1..Len(line) : \A x \in Good[k - 1] : ReadCommandToken(x, line[k]) \in Good[k]
    <3>1. ASSUME NEW k \in 1..Len(line), NEW x \in S PROVE ReadCommandToken(x, line[k]) \in S
      <4>1. line[k] \in FileTokens
        OBVIOUS
      <4> QED
        BY <4>1, ReadTokenFaithful
    <3> QED
      BY <3>1
  <2> HIDE DEF Good, S
  <2>3. PICK x \in S : ReadCommandLine(s, line) = [x EXCEPT !.skips = FALSE]
    BY <2>1, <2>2, LineGood
  <2> DEFINE t == [x EXCEPT !.skips = FALSE]
  <2>4. t \in Readings /\ t.literals = x.literals /\ t.clauses = x.clauses /\ t.clause = x.clause /\ Faithful(values, x)
    BY DEF Readings, S
  <2> HIDE DEF t
  <2>5. Faithful(values, t)
    BY <2>4 DEF Faithful
  <2> QED
    BY <2>3, <2>4, <2>5 DEF S, t
<1> DEFINE Good == [n \in 0..Len(dimacs) |-> S]
<1>4. Good \in [0..Len(dimacs) -> SUBSET S] /\ NewReading \in Good[0] /\ Good[Len(dimacs)] = S
  BY <1>1, <1>2
<1>5. \A k \in 1..Len(dimacs) : \A x \in Good[k - 1] : ReadCommandLine(x, dimacs[k]) \in Good[k]
  <2>1. ASSUME NEW k \in 1..Len(dimacs), NEW x \in S PROVE ReadCommandLine(x, dimacs[k]) \in S
    <3>1. dimacs[k] \in Seq(FileTokens)
      BY <1>1
    <3> QED
      BY <1>3, <3>1
  <2> HIDE DEF S
  <2> QED
    BY <2>1
<1>6. ReadFile \in S
  <2> HIDE DEF Good, S
  <2> QED
    BY <1>1, <1>4, <1>5, FileGood
<1> QED
  BY <1>6

\* The assumptions the options ask for are numbers.
LEMMA ReadOptionsTyped ==
  ASSUME argv \in ArgumentLists
  PROVE  ReadOptions \in OptionReads
<1>1. argv \in Seq(STRING) /\ Len(argv) \in Nat /\ \A i \in 1..Len(argv) : Numeral(argv[i]) \in Int
  BY CommandAssumption
<1>2. ASSUME NEW o \in OptionReads PROVE ReadOption(o) \in OptionReads
  <2>1. o.at \in Nat \ {0} /\ o.request.assumptions \in Seq(Int) /\ o.request.settings \in Seq(STRING \X Int)
    BY DEF OptionReads
  <2>2. Passed(o, 1) \in OptionReads /\ Passed(o, 2) \in OptionReads
    <3>1. o.at + 1 \in Nat \ {0} /\ o.at + 2 \in Nat \ {0}
      BY <2>1
    <3> QED
      BY <3>1, Zenon DEF OptionReads, Passed
  <2>3. [o EXCEPT !.ok = FALSE] \in OptionReads
    BY Zenon DEF OptionReads
  <2>4. ASSUME o.at < Len(argv)
        PROVE  /\ [Passed(o, 2) EXCEPT !.request.assumptions = Append(@, Numeral(argv[o.at + 1]))] \in OptionReads
               /\ [Passed(o, 2) EXCEPT !.request.settings = Append(@, <<argv[o.at], Numeral(argv[o.at + 1])>>)] \in OptionReads
    <3>1. o.at \in 1..Len(argv) /\ o.at + 1 \in 1..Len(argv)
      BY <1>1, <2>1, <2>4
    <3>2. Numeral(argv[o.at + 1]) \in Int /\ argv[o.at] \in STRING
      BY <1>1, <3>1
    <3>3. Append(o.request.assumptions, Numeral(argv[o.at + 1])) \in Seq(Int)
      BY <2>1, <3>2
    <3>4. Append(o.request.settings, <<argv[o.at], Numeral(argv[o.at + 1])>>) \in Seq(STRING \X Int)
      BY <2>1, <3>2
    <3> DEFINE p == Passed(o, 2)
    <3>5. p \in OptionReads /\ p.request = o.request
      BY <2>2 DEF Passed, OptionReads
    <3> HIDE DEF p
    <3> QED
      BY <3>3, <3>4, <3>5, Zenon DEF OptionReads, p
  <2> QED
    BY <2>2, <2>3, <2>4 DEF ReadOption
<1> DEFINE start == [request |-> NoRequest, at |-> 2, ok |-> TRUE]
           Good == [n \in 0..Len(argv) |-> OptionReads]
<1>3. start \in OptionReads
  <2>1. <<>> \in Seq(Int) /\ <<>> \in Seq(STRING \X Int)
    OBVIOUS
  <2> QED
    BY <2>1 DEF OptionReads, NoRequest
<1>4. Good \in [0..Len(argv) -> SUBSET OptionReads] /\ start \in Good[0] /\ Good[Len(argv)] = OptionReads
  BY <1>1, <1>3
<1>5. \A k \in 1..Len(argv) : \A x \in Good[k - 1] : ReadOption(x) \in Good[k]
  BY <1>2
<1> HIDE DEF Good
<1> QED
  BY <1>1, <1>4, <1>5, OptionsGood

\* The numbers of a sequence have a bound,
LEMMA NumbersBounded ==
  ASSUME NEW s \in Seq(Nat)
  PROVE  \E n \in Nat : \A i \in DOMAIN s : s[i] <= n
<1> DEFINE P == {k \in Nat : k <= Len(s) => \E n \in Nat : \A i \in 1..k : s[i] <= n}
<1>1. 0 \in P
  <2>1. \A i \in 1..0 : s[i] <= 0
    OBVIOUS
  <2> QED
    BY <2>1
<1>2. ASSUME NEW k \in Nat, k \in P PROVE k + 1 \in P
  <2>1. SUFFICES ASSUME k + 1 <= Len(s) PROVE \E n \in Nat : \A i \in 1..(k + 1) : s[i] <= n
    OBVIOUS
  <2>2. PICK n \in Nat : \A i \in 1..k : s[i] <= n
    BY <1>2, <2>1
  <2>3. s[k + 1] \in Nat
    BY <2>1
  <2> DEFINE m == n + s[k + 1]
  <2>4. m \in Nat /\ n <= m /\ s[k + 1] <= m
    BY <2>3
  <2>5. ASSUME NEW i \in 1..(k + 1) PROVE s[i] <= m
    <3>1. CASE i = k + 1
      BY <2>4, <3>1
    <3>2. CASE i # k + 1
      <4>1. i \in 1..k /\ s[i] \in Nat /\ s[i] <= n
        BY <2>1, <2>2, <3>2
      <4> QED
        BY <2>4, <4>1
    <3> QED
      BY <3>1, <3>2
  <2> HIDE DEF m
  <2> QED
    BY <2>4, <2>5
<1>3. Len(s) \in P
  <2>1. Nat \subseteq P
    <3> HIDE DEF P
    <3> QED
      BY <1>1, <1>2, CountingUp
  <2> QED
    BY LenProperties, <2>1
<1>4. Len(s) <= Len(s) /\ DOMAIN s = 1..Len(s)
  BY LenProperties
<1>5. \E n \in Nat : \A i \in 1..Len(s) : s[i] <= n
  BY <1>3, <1>4
<1> QED
  BY <1>4, <1>5, Zenon

\* so that a model is a sequence, whatever was stated and assumed.
VarOfNumber(l) == IF l < 0 THEN -l ELSE l
LEMMA ModelSizeNatural ==
  ASSUME loaded.clauses \in Seq(Seq(Int)), loaded.pending \in Seq(Int), request.assumptions \in Seq(Int)
  PROVE  ModelSize \in Nat
<1>1. ASSUME NEW s \in Seq(Int)
      PROVE  \E n \in Nat : \A l \in ToSet(s) : VarOfNumber(l) <= n
  <2> DEFINE t == [i \in 1..Len(s) |-> VarOfNumber(s[i])]
  <2>1. \A i \in 1..Len(s) : VarOfNumber(s[i]) \in Nat
    BY DEF VarOfNumber
  <2>2. t \in Seq(Nat) /\ DOMAIN t = DOMAIN s
    BY <2>1
  <2>3. \A i \in DOMAIN s : t[i] = VarOfNumber(s[i])
    OBVIOUS
  <2> HIDE DEF t
  <2>4. PICK n \in Nat : \A i \in DOMAIN t : t[i] <= n
    BY <2>2, NumbersBounded
  <2> QED
    BY <2>2, <2>3, <2>4 DEF ToSet
<1> DEFINE Highest(c) == CHOOSE n \in Nat : \A l \in ToSet(c) : VarOfNumber(l) <= n
<1>2. ASSUME NEW c \in Seq(Int)
      PROVE  Highest(c) \in Nat /\ \A l \in ToSet(c) : VarOfNumber(l) <= Highest(c)
  BY <1>1
<1> HIDE DEF Highest
<1> DEFINE given == GivenToSolve
<1>3. given \in Seq(Seq(Int))
  BY DEF GivenToSolve
<1> HIDE DEF given
<1> DEFINE bounds == [i \in 1..Len(given) |-> Highest(given[i])]
<1>4. bounds \in Seq(Nat) /\ DOMAIN bounds = DOMAIN given /\ \A i \in DOMAIN given : bounds[i] = Highest(given[i])
  BY <1>2, <1>3
<1> HIDE DEF bounds
<1>5. PICK n \in Nat : \A i \in DOMAIN bounds : bounds[i] <= n
  BY <1>4, NumbersBounded
<1>6. PICK m \in Nat : \A l \in ToSet(request.assumptions) : VarOfNumber(l) <= m
  BY <1>1
<1> DEFINE N == n + m
           sizes == {VarOfNumber(l) : l \in Mentioned} \cup {0}
<1>7. ASSUME NEW l \in Mentioned PROVE VarOfNumber(l) \in 0..N
  <2>1. CASE l \in ToSet(request.assumptions)
    <3>1. l \in Int
      BY <2>1 DEF ToSet
    <3>2. VarOfNumber(l) \in Nat /\ VarOfNumber(l) <= m /\ m \in Nat /\ n \in Nat
      BY <1>6, <2>1, <3>1 DEF VarOfNumber
    <3> QED
      BY <3>2
  <2>2. CASE \E c \in ToSet(given) : l \in ToSet(c)
    <3>1. PICK i \in DOMAIN given : l \in ToSet(given[i])
      BY <2>2 DEF ToSet
    <3>2. given[i] \in Seq(Int)
      BY <1>3
    <3>3. l \in Int
      BY <3>1, <3>2 DEF ToSet
    <3>4. VarOfNumber(l) <= Highest(given[i]) /\ Highest(given[i]) \in Nat
      BY <1>2, <3>1, <3>2
    <3>5. Highest(given[i]) <= n
      BY <1>4, <1>5
    <3>6. VarOfNumber(l) \in Nat
      BY <3>3 DEF VarOfNumber
    <3>7. VarOfNumber(l) <= n /\ n \in Nat /\ m \in Nat
      BY <3>4, <3>5, <3>6
    <3> QED
      BY <3>6, <3>7
  <2>3. l \in ToSet(request.assumptions) \/ \E c \in ToSet(given) : l \in ToSet(c)
    <3>1. l \in (UNION {ToSet(c) : c \in ToSet(given)}) \cup ToSet(request.assumptions)
      BY <1>7 DEF Mentioned, given
    <3> HIDE DEF given
    <3>2. \A s : s \in {ToSet(c) : c \in ToSet(given)} => \E c \in ToSet(given) : s = ToSet(c)
      OBVIOUS
    <3> QED
      BY <3>1, <3>2
  <2> QED
    BY <2>1, <2>2, <2>3
<1>8. N \in Nat /\ sizes \in SUBSET (0..N) /\ sizes # {}
  BY <1>7
<1>9. ModelSize = Max(sizes)
  BY DEF ModelSize, VarOfNumber
<1> HIDE DEF N, sizes
<1>10. Max(sizes) \in 0..N
  BY <1>8, MaxIs
<1> QED
  BY <1>8, <1>9, <1>10

\* The greatest of three.
LEMMA MaxOfThree ==
  ASSUME NEW a \in Nat, NEW b \in Nat
  PROVE  Max({a, b, 0}) \in Nat /\ a <= Max({a, b, 0}) /\ b <= Max({a, b, 0})
<1> DEFINE S == {a, b, 0}
<1>1. a + b \in Nat /\ S \in SUBSET (0..(a + b)) /\ S # {} /\ a \in S /\ b \in S
  OBVIOUS
<1> HIDE DEF S
<1>2. Max(S) \in S /\ \A k \in S : k <= Max(S)
  BY <1>1, MaxIs
<1> QED
  BY <1>1, <1>2 DEF S

-----------------------------------------------------------------------------
\* What holds of the program at every point: once the file is read, the clauses
\* are those of the file, and so is the copy unless no check is wanted; once
\* the solver has answered, its model is one over what was stated; and an
\* answer that was printed is the one the check allows.
Loaded == /\ dimacs \in Files
          /\ loaded = [clauses |-> ReadFile.clauses, pending |-> ReadFile.clause]
          /\ copy = IF VerifyModel THEN [literals |-> ReadFile.literals, declared |-> ReadFile.declared] ELSE NoCopy
Requested == request.assumptions \in Seq(Int)
Answered == /\ Loaded
            /\ ModelSize \in Nat
            /\ answer.status \in {"satisfiable", "unsatisfiable", "unknown", "terminated"}
            /\ answer.status = "satisfiable" => answer.model \in [1..ModelSize -> BOOLEAN]
Refused == VerifyModel /\ FirstUnsatisfiedClause(ModelValues(answer.model)) # 0
PrintedRightly ==
    /\ Refused => output.line = "UNKNOWN"
    /\ ~Refused => /\ output.line = "SATISFIABLE"
                   /\ output.values = IF EmitModel THEN SignedValues(ModelValues(answer.model)) ELSE <<>>

CommandInv ==
    /\ argv \in ArgumentLists /\ dimacs \in Files \cup {NoFile}
    /\ turn \in {"arguments", "read", "options", "solve", "report", "ended"}
    /\ turn \in {"arguments", "read", "options", "solve"} => answer.status = "none"
    /\ turn = "read" => dimacs \in Files
    /\ turn \in {"options", "solve"} => Loaded
    /\ turn = "solve" => Requested
    /\ turn = "report" => Answered
    /\ turn = "ended" /\ answer.status = "satisfiable" => Answered /\ PrintedRightly
    /\ turn = "ended" /\ output.line = "SATISFIABLE" => answer.status = "satisfiable"

\* None of it changes while what it is read from does not.
LEMMA Steady ==
  ASSUME UNCHANGED <<argv, dimacs, copy, loaded>>
  PROVE  /\ (Loaded' <=> Loaded) /\ (EmitModel' <=> EmitModel) /\ (VerifyModel' <=> VerifyModel)
         /\ \A model : ModelValues(model)' = ModelValues(model)
         /\ \A values : FirstUnsatisfiedClause(values)' = FirstUnsatisfiedClause(values)
<1>1. ReadFile' = ReadFile
  BY DEF ReadFile
<1>2. (EmitModel' <=> EmitModel) /\ (VerifyModel' <=> VerifyModel)
  BY DEF EmitModel, VerifyModel, Asks, Options
<1>3. Loaded' <=> Loaded
  BY <1>1, <1>2 DEF Loaded
<1>4. \A model : ModelValues(model)' = ModelValues(model)
  BY DEF ModelValues
<1>5. \A values : FirstUnsatisfiedClause(values)' = FirstUnsatisfiedClause(values)
  BY DEF FirstUnsatisfiedClause
<1> QED
  BY <1>2, <1>3, <1>4, <1>5

\* The size of a model is that of what was stated and assumed.
LEMMA SizeSteady ==
  ASSUME UNCHANGED <<loaded, request>>
  PROVE  ModelSize' = ModelSize
  BY DEF ModelSize, Mentioned, GivenToSolve

\* What was read is a formula.
LEMMA LoadedTyped ==
  ASSUME Loaded
  PROVE  /\ loaded.clauses \in Seq(Seq(Int)) /\ loaded.pending \in Seq(Int)
         /\ copy.declared \in Nat /\ copy.literals \in Seq(Int)
         /\ VerifyModel => copy.declared = ReadFile.declared
<1>1. <<>> \in Seq(BOOLEAN)
  OBVIOUS
<1>2. ReadFile \in Readings
  BY <1>1, ReadFileFaithful DEF Loaded
<1>3. /\ ReadFile.clauses \in Seq(Seq(Int)) /\ ReadFile.clause \in Seq(Int)
      /\ ReadFile.literals \in Seq(Int) /\ ReadFile.declared \in Nat
  BY <1>2 DEF Readings
<1>4. loaded.clauses = ReadFile.clauses /\ loaded.pending = ReadFile.clause
  BY DEF Loaded
<1>5. CASE VerifyModel
  <2>1. copy = [literals |-> ReadFile.literals, declared |-> ReadFile.declared]
    BY <1>5 DEF Loaded
  <2> QED
    BY <1>3, <1>4, <2>1
<1>6. CASE ~VerifyModel
  <2>1. copy = [literals |-> <<>>, declared |-> 0]
    BY <1>6 DEF Loaded, NoCopy
  <2>2. <<>> \in Seq(Int) /\ 0 \in Nat
    OBVIOUS
  <2> QED
    BY <1>3, <1>4, <1>6, <2>1, <2>2
<1> QED
  BY <1>5, <1>6

\* The table of values is total and agrees with the model.
LEMMA ValuesTotal ==
  ASSUME Loaded, ModelSize \in Nat, NEW model \in [1..ModelSize -> BOOLEAN]
  PROVE  LET values == ModelValues(model) IN
         /\ values \in Seq(BOOLEAN)
         /\ Len(values) >= ModelSize /\ Len(values) >= copy.declared
         /\ \A v \in 1..ModelSize : values[v] = model[v]
<1>1. copy.declared \in Nat
  BY LoadedTyped
<1>2. Len(model) = ModelSize
  OBVIOUS
<1> DEFINE bound == Max({Len(model), copy.declared, 0})
           values == ModelValues(model)
<1>3. bound \in Nat /\ ModelSize <= bound /\ copy.declared <= bound
  BY <1>1, <1>2, MaxOfThree
<1>4. values = [v \in 1..bound |-> IF v <= Len(model) THEN model[v] ELSE TRUE]
  BY DEF ModelValues
<1> HIDE DEF bound, values
<1>5. values \in [1..bound -> BOOLEAN]
  <2>1. ASSUME NEW v \in 1..bound PROVE (IF v <= Len(model) THEN model[v] ELSE TRUE) \in BOOLEAN
    <3>1. CASE v <= Len(model)
      <4>1. v \in 1..ModelSize
        BY <1>2, <1>3, <3>1
      <4>2. model[v] \in BOOLEAN
        BY <4>1
      <4> QED
        BY <3>1, <4>2
    <3>2. CASE ~(v <= Len(model))
      BY <3>2
    <3> QED
      BY <3>1, <3>2
  <2> QED
    BY <1>4, <2>1, Zenon
<1>6. values \in Seq(BOOLEAN) /\ Len(values) = bound
  BY <1>3, <1>5
<1>7. ASSUME NEW v \in 1..ModelSize PROVE values[v] = model[v]
  <2>1. v \in 1..bound /\ v <= Len(model)
    BY <1>2, <1>3
  <2> QED
    BY <1>4, <2>1, Zenon
<1> QED
  BY <1>1, <1>3, <1>6, <1>7 DEF values

\* The program's start is as the invariant says,
LEMMA CommandInitInv == CommandInit => CommandInv
<1> SUFFICES ASSUME CommandInit PROVE CommandInv
  OBVIOUS
<1>1. argv \in ArgumentLists /\ dimacs \in Files \cup {NoFile} /\ turn = "arguments" /\ answer.status = "none"
  BY DEF CommandInit, NoAnswer
<1>2. turn \notin {"read", "solve", "options", "report", "ended"}
  BY <1>1
<1> QED
  BY <1>1, <1>2 DEF CommandInv

\* and every step keeps it: the arguments,
LEMMA CheckArgumentsPreserves == CommandInv /\ CheckArguments => CommandInv'
<1> SUFFICES ASSUME CommandInv, CheckArguments PROVE CommandInv'
  OBVIOUS
<1>1. /\ UNCHANGED <<argv, dimacs, copy, loaded, request, answer>>
      /\ turn = "arguments" /\ answer.status = "none" /\ argv \in ArgumentLists
      /\ dimacs \in Files \cup {NoFile} /\ NoFile' = NoFile
  BY DEF CheckArguments, CommandInv, NoFile
<1>2. \/ turn' = "ended" /\ output'.line \in {"usage", "error"}
      \/ turn' = "read" /\ dimacs # NoFile
  BY DEF CheckArguments, Exit
<1> QED
  BY <1>1, <1>2 DEF CommandInv

\* the file,
LEMMA ReadDimacsPreserves == CommandInv /\ ReadDimacsCnf => CommandInv'
<1> SUFFICES ASSUME CommandInv, ReadDimacsCnf PROVE CommandInv'
  OBVIOUS
<1>1. /\ UNCHANGED <<argv, dimacs, request, answer>>
      /\ turn = "read" /\ answer.status = "none" /\ argv \in ArgumentLists /\ dimacs \in Files
  BY DEF ReadDimacsCnf, CommandInv
<1>2. CASE Exit("error", <<>>, 1)
  <2>1. turn' = "ended" /\ output'.line = "error"
    BY <1>2 DEF Exit
  <2> QED
    BY <1>1, <2>1 DEF CommandInv
<1>3. CASE /\ loaded' = [clauses |-> ReadFile.clauses, pending |-> ReadFile.clause]
           /\ copy' = IF VerifyModel THEN [literals |-> ReadFile.literals, declared |-> ReadFile.declared] ELSE NoCopy
           /\ turn' = "options"
  <2>1. ReadFile' = ReadFile /\ (VerifyModel' <=> VerifyModel) /\ NoCopy' = NoCopy
    BY <1>1 DEF ReadFile, VerifyModel, Asks, Options, NoCopy
  <2>2. Loaded'
    BY <1>1, <1>3, <2>1 DEF Loaded
  <2> QED
    BY <1>1, <1>3, <2>2 DEF CommandInv
<1> QED
  BY <1>2, <1>3 DEF ReadDimacsCnf

\* the options,
LEMMA ParseOptionsPreserves == CommandInv /\ ParseOptions => CommandInv'
<1> SUFFICES ASSUME CommandInv, ParseOptions PROVE CommandInv'
  OBVIOUS
<1>1. /\ UNCHANGED <<argv, dimacs, copy, loaded, answer>>
      /\ turn = "options" /\ answer.status = "none" /\ argv \in ArgumentLists /\ Loaded
  BY DEF ParseOptions, CommandInv
<1>2. Loaded'
  BY <1>1, Steady
<1>3. \/ turn' = "solve" /\ request' = ReadOptions.request
      \/ turn' = "ended" /\ output'.line = "error"
  BY DEF ParseOptions, Exit
<1>4. ReadOptions.request.assumptions \in Seq(Int)
  BY <1>1, ReadOptionsTyped DEF OptionReads
<1>5. turn' = "solve" => Requested'
  BY <1>3, <1>4 DEF Requested
<1> QED
  BY <1>1, <1>2, <1>3, <1>5 DEF CommandInv

\* the answer
LEMMA SolveRequestPreserves == CommandInv /\ SolveRequest => CommandInv'
<1> SUFFICES ASSUME CommandInv, SolveRequest PROVE CommandInv'
  OBVIOUS
<1>1. /\ UNCHANGED <<argv, dimacs, copy, loaded, request, output>>
      /\ turn = "solve" /\ turn' = "report" /\ argv \in ArgumentLists /\ Loaded /\ Requested
  BY DEF SolveRequest, CommandInv
<1>2. Loaded'
  BY <1>1, Steady
<1>3. ModelSize \in Nat /\ ModelSize' = ModelSize
  BY <1>1, LoadedTyped, ModelSizeNatural, SizeSteady DEF Requested
<1>4. PICK status \in {"satisfiable", "unsatisfiable", "unknown", "terminated"}, model \in [1..ModelSize -> BOOLEAN] :
         answer' = [status |-> status, model |-> IF status = "satisfiable" THEN model ELSE <<>>]
  BY DEF SolveRequest
<1>5. answer'.status = status /\ (status = "satisfiable" => answer'.model = model)
  BY <1>4
<1>6. Answered'
  BY <1>2, <1>3, <1>5 DEF Answered
<1> QED
  BY <1>1, <1>6 DEF CommandInv

\* and the report.
LEMMA ReportAnswerPreserves == CommandInv /\ ReportAnswer => CommandInv'
<1> SUFFICES ASSUME CommandInv, ReportAnswer PROVE CommandInv'
  OBVIOUS
<1>1. /\ UNCHANGED <<argv, dimacs, copy, loaded, request, answer>>
      /\ turn = "report" /\ argv \in ArgumentLists /\ Answered
  BY DEF ReportAnswer, CommandInv
<1> DEFINE values == ModelValues(answer.model)
           shown == IF EmitModel THEN SignedValues(values) ELSE <<>>
           refused == VerifyModel /\ FirstUnsatisfiedClause(values) # 0
<1>2. Answered'
  <2>1. Loaded' /\ ModelSize' = ModelSize
    BY <1>1, Steady, SizeSteady DEF Answered
  <2> QED
    BY <1>1, <2>1 DEF Answered
<1>3. answer.status \in {"satisfiable", "unsatisfiable", "unknown", "terminated"}
  BY <1>1 DEF Answered
<1>4. /\ turn' = "ended"
      /\ answer.status = "satisfiable" =>
           /\ refused => output'.line = "UNKNOWN"
           /\ ~refused => output'.line = "SATISFIABLE" /\ output'.values = shown
      /\ answer.status # "satisfiable" => output'.line # "SATISFIABLE"
  <2>1. CASE answer.status = "satisfiable" /\ refused
    <3>1. Exit("UNKNOWN", <<>>, 1)
      BY <2>1, Zenon DEF ReportAnswer
    <3> QED
      BY <2>1, <3>1 DEF Exit
  <2>2. CASE answer.status = "satisfiable" /\ ~refused
    <3>1. Exit("SATISFIABLE", shown, 10)
      BY <2>2, Zenon DEF ReportAnswer
    <3> QED
      BY <2>2, <3>1 DEF Exit
  <2>3. CASE answer.status # "satisfiable"
    <3>1. Exit("UNSATISFIABLE", <<>>, 20) \/ Exit("UNKNOWN", <<>>, 0)
      BY <1>3, <2>3, Zenon DEF ReportAnswer
    <3> QED
      BY <2>3, <3>1 DEF Exit
  <2> QED
    BY <2>1, <2>2, <2>3
<1>5. (Refused' <=> refused) /\ (IF EmitModel THEN SignedValues(ModelValues(answer.model)) ELSE <<>>)' = shown
  <2>1. /\ EmitModel' <=> EmitModel
        /\ VerifyModel' <=> VerifyModel
        /\ ModelValues(answer.model)' = values
    BY <1>1 DEF EmitModel, VerifyModel, Asks, Options, ModelValues
  <2>2. FirstUnsatisfiedClause(ModelValues(answer.model))' = FirstUnsatisfiedClause(values)
    BY <1>1, <2>1 DEF FirstUnsatisfiedClause
  <2>3. SignedValues(ModelValues(answer.model))' = SignedValues(values)
    BY <2>1 DEF SignedValues
  <2> HIDE DEF values
  <2> QED
    BY <2>1, <2>2, <2>3 DEF Refused
<1> HIDE DEF values, shown, refused
<1>6. answer.status = "satisfiable" => PrintedRightly'
  BY <1>4, <1>5 DEF PrintedRightly
<1> QED
  BY <1>1, <1>2, <1>4, <1>6 DEF CommandInv

LEMMA CommandStepInv == CommandInv /\ [CommandNext]_commandVars => CommandInv'
<1> SUFFICES ASSUME CommandInv, [CommandNext]_commandVars PROVE CommandInv'
  OBVIOUS
<1>1. CASE UNCHANGED commandVars
  <2>1. UNCHANGED <<argv, dimacs, copy, loaded, request, answer, output, turn>>
    BY <1>1 DEF commandVars
  <2>2. (Loaded' <=> Loaded) /\ ModelSize' = ModelSize
    BY <2>1, Steady, SizeSteady
  <2>3. (Answered' <=> Answered) /\ (Requested' <=> Requested)
    BY <2>1, <2>2 DEF Answered, Requested
  <2>4. PrintedRightly' <=> PrintedRightly
    BY <2>1 DEF PrintedRightly, Refused, EmitModel, VerifyModel, Asks, Options, ModelValues, SignedValues,
                FirstUnsatisfiedClause
  <2> QED
    BY <2>1, <2>2, <2>3, <2>4 DEF CommandInv
<1> QED
  BY <1>1, CheckArgumentsPreserves, ReadDimacsPreserves, ParseOptionsPreserves, SolveRequestPreserves,
     ReportAnswerPreserves DEF CommandNext

\* A check that finds nothing is one that every clause passed.
LEMMA CheckIsRight ==
  ASSUME Answered, VerifyModel, answer.status = "satisfiable"
  PROVE  FirstUnsatisfiedClause(ModelValues(answer.model)) = 0 <=> ClosedHold
<1> DEFINE values == ModelValues(answer.model)
<1>1. Loaded /\ answer.model \in [1..ModelSize -> BOOLEAN] /\ ModelSize \in Nat
  BY DEF Answered
<1>2. values \in Seq(BOOLEAN)
  BY <1>1, ValuesTotal
<1>3. ClosedHold <=> \A c \in ToSet(loaded.clauses) : Holds(values, c)
  BY DEF ClosedHold
<1>4. FirstUnsatisfiedClause(values) = Scanned(values, copy.literals).found
  BY DEF FirstUnsatisfiedClause, Scanned, Unscanned
<1> HIDE DEF values
<1>5. loaded.clauses = ReadFile.clauses /\ copy.literals = ReadFile.literals
  BY <1>1 DEF Loaded
<1>6. Faithful(values, ReadFile)
  BY <1>1, <1>2, ReadFileFaithful DEF Loaded
<1>7. Scanned(values, copy.literals).found = 0 <=> \A c \in ToSet(loaded.clauses) : Holds(values, c)
  BY <1>5, <1>6 DEF Faithful
<1> QED
  BY <1>3, <1>4, <1>7 DEF values

\* The invariant is as much as the property asks for.
LEMMA CommandInvSuffices == CommandInv => ProgramReports
<1> SUFFICES ASSUME CommandInv PROVE ProgramReports
  OBVIOUS
<1>1. CheckedBeforePrinted
  <2>1. SUFFICES ASSUME turn = "ended", answer.status = "satisfiable", VerifyModel
                 PROVE  output.line = "SATISFIABLE" <=> ClosedHold
    BY DEF CheckedBeforePrinted
  <2>2. Answered /\ PrintedRightly
    BY <2>1 DEF CommandInv
  <2>3. Refused <=> ~ClosedHold
    BY <2>1, <2>2, CheckIsRight DEF Refused
  <2> QED
    BY <2>2, <2>3 DEF PrintedRightly
<1>2. LineTotal
  <2>1. SUFFICES ASSUME turn = "ended", output.line = "SATISFIABLE", EmitModel
                 PROVE  /\ \A v \in 1..Len(output.values) : output.values[v] \in {v, -v}
                        /\ \A v \in 1..ModelSize : output.values[v] = IF answer.model[v] THEN v ELSE -v
                        /\ VerifyModel => Len(output.values) >= ReadFile.declared
    BY DEF LineTotal
  <2>2. Answered /\ PrintedRightly /\ answer.status = "satisfiable"
    BY <2>1 DEF CommandInv
  <2>3. Loaded /\ answer.model \in [1..ModelSize -> BOOLEAN] /\ ModelSize \in Nat
    BY <2>2 DEF Answered
  <2> DEFINE values == ModelValues(answer.model)
  <2>4. /\ values \in Seq(BOOLEAN)
        /\ Len(values) >= ModelSize /\ Len(values) >= copy.declared
        /\ \A v \in 1..ModelSize : values[v] = answer.model[v]
    BY <2>3, ValuesTotal
  <2>5. ~Refused
    BY <2>1, <2>2 DEF PrintedRightly
  <2>6. output.values = SignedValues(values)
    BY <2>1, <2>2, <2>5 DEF PrintedRightly
  <2> HIDE DEF values
  <2>7. output.values = [v \in 1..Len(values) |-> IF values[v] THEN v ELSE -v]
    BY <2>4, <2>6, LenProperties DEF SignedValues
  <2>8. Len(output.values) = Len(values) /\ Len(values) \in Nat
    BY <2>4, <2>7
  <2>9. \A v \in 1..Len(values) : output.values[v] = IF values[v] THEN v ELSE -v
    BY <2>7
  <2>10. \A v \in 1..ModelSize : v \in 1..Len(values)
    BY <2>3, <2>4, <2>8
  <2>11. VerifyModel => Len(output.values) >= ReadFile.declared
    BY <2>3, <2>4, <2>8, LoadedTyped
  <2> QED
    BY <2>4, <2>8, <2>9, <2>10, <2>11
<1> QED
  BY <1>1, <1>2 DEF ProgramReports

\* Where the check is asked for, a model is printed exactly when it satisfies
\* every closed clause of the file; and the line printed is total; for every
\* file and every list of arguments, whatever the solver answers
\* (kmx-sat-main.cpp: read_dimacs_cnf, first_unsatisfied_clause, print_model).
THEOREM ProgramAlwaysReports == CommandSpec => []ProgramReports
  BY CommandInitInv, CommandStepInv, CommandInvSuffices, PTL DEF CommandSpec

=============================================================================
