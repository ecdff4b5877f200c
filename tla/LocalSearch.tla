----------------------------- MODULE LocalSearch -----------------------------
(***************************************************************************)
(* The local search that seeds the saved phases: a walk that flips one      *)
(* variable of an unsatisfied clause at a time and keeps its counts by      *)
(* difference, and the driver that runs it in rounds after the search's     *)
(* first conflicts and again now and then.  Random choices are choices.     *)
(***************************************************************************)
EXTENDS Integers, Sequences, FiniteSets, SequencesExt, FiniteSetsExt, Folds

CONSTANTS
    WalkFormulas,       \* sequences of clauses, a clause a sequence of literals
    WalkVariables,      \* 1..n
    FlipBudgets,        \* what a round of the opening walk may flip
    OpeningRounds,      \* local_search_opening_rounds
    NearMiss,           \* local_search_near_miss_limit
    FirstRewalk,        \* local_search_initial_interval
    MaxMoves,           \* bound: conflicts of the search around the walks
    Nowhere             \* npos, and more than any count

\* A clause names a variable once: clauses are normalized when they are added.
NamesOnce(clause) == \A i, j \in 1..Len(clause) : clause[i] = clause[j] \/ clause[i] = -clause[j] => i = j

ASSUME WalkAssumption ==
    /\ WalkVariables \subseteq Nat \ {0}
    /\ NearMiss \in Nat /\ Nowhere \in Nat
    /\ \A formula \in WalkFormulas :
         /\ formula \in Seq(Seq(Int)) /\ Len(formula) < Nowhere
         /\ \A c \in 1..Len(formula) :
              /\ NamesOnce(formula[c])
              /\ \A i \in 1..Len(formula[c]) : formula[c][i] \in WalkVariables \/ -formula[c][i] \in WalkVariables

VARIABLES
    walked,         \* clause_literals_, clause_offsets_
    walker,         \* assignment_ and the counts kept by difference
    best,           \* best_assignment_, best_unsatisfied_count_
    savedPhase,     \* saved_phase_: the literals the search would decide
    asidePhases,    \* opening_phase_snapshot_, probe_phase_scratch_
    walkState,      \* best walk, its rule, next rule, scale, next re-walk
    walkRound,      \* the strategy, round, stalls and budget of the walk that runs
    moves,          \* conflicts of the search, at most MaxMoves
    walkStage       \* "start", "search", "walk", "flip"

walkVars == <<walked, walker, best, savedPhase, asidePhases, walkState, walkRound, moves, walkStage>>

Rules == <<"probsat", "walksat", "probsat", "walksat">>     \* local_search_portfolio
Phases == [WalkVariables -> {1, -1}]
TrueIn(value, l) == IF l > 0 THEN value[l] = 1 ELSE value[-l] = -1
Trues(value, clause) == {i \in 1..Len(clause) : TrueIn(value, clause[i])}
VariableAt(clause, i) == IF clause[i] < 0 THEN -clause[i] ELSE clause[i]
Unsatisfied(value) == {c \in 1..Len(walked) : Trues(value, walked[c]) = {}}
Smaller(a, b) == IF a <= b THEN a ELSE b
Larger(a, b) == IF a <= b THEN b ELSE a

-----------------------------------------------------------------------------
\* The walk.
MaximumClauseSize == FoldLeft(LAMBDA m, clause : Larger(m, Len(clause)), 0, walked)
NoCounts == [value |-> [v \in WalkVariables |-> 1], trueCounts |-> <<>>, critical |-> <<>>,
             breaks |-> [v \in WalkVariables |-> 0], unsatisfied |-> <<>>, position |-> <<>>]

\* initialize_assignment, recompute_state
Recomputed(value) ==
    LET counts == [c \in 1..Len(walked) |-> Cardinality(Trues(value, walked[c]))]
        critical == [c \in 1..Len(walked) |-> IF counts[c] = 0 THEN 0
                                              ELSE VariableAt(walked[c], Max(Trues(value, walked[c])))]
        listed[c \in 0..Len(walked)] == IF c = 0 THEN <<>>
                                        ELSE IF counts[c] = 0 THEN Append(listed[c - 1], c) ELSE listed[c - 1]
    IN [value |-> value, trueCounts |-> counts, critical |-> critical, unsatisfied |-> listed[Len(walked)],
        breaks |-> [v \in WalkVariables |-> Cardinality({c \in 1..Len(walked) : counts[c] = 1 /\ critical[c] = v})],
        position |-> [c \in 1..Len(walked) |-> IF counts[c] = 0 THEN Len(listed[c]) ELSE Nowhere]]

\* is c among the occurrences of l?
OccursIn(l, c) == \E i \in 1..Len(walked[c]) : walked[c][i] = l

\* a clause that loses the literal of v that was true; the value is flipped already
Loses(w, c, v) ==
    LET remaining == w.trueCounts[c] - 1
        counted == [w EXCEPT !.trueCounts[c] = remaining]
        survivor == VariableAt(walked[c], Min(Trues(w.value, walked[c])))
    IN IF remaining = 0
       THEN [counted EXCEPT !.position[c] = Len(w.unsatisfied) + 1, !.unsatisfied = Append(@, c), !.breaks[v] = @ - 1]
       ELSE IF remaining = 1 THEN [counted EXCEPT !.critical[c] = survivor, !.breaks[survivor] = @ + 1] ELSE counted

RemovedUnmoved(w, c) ==
    [w EXCEPT !.unsatisfied = Front([@ EXCEPT ![w.position[c]] = Last(w.unsatisfied)]), !.position[c] = Nowhere]
\* the last of the list takes the place of a clause that leaves it
Removed(w, c) ==
    LET slot == w.position[c]
        moved == Last(w.unsatisfied)
    IN [w EXCEPT !.unsatisfied = Front([@ EXCEPT ![slot] = moved]), !.position = [@ EXCEPT ![moved] = slot, ![c] = Nowhere]]

Gains(w, c, v) ==
    LET counted == [w EXCEPT !.trueCounts[c] = @ + 1] IN
    IF w.trueCounts[c] = 0 THEN [Removed(counted, c) EXCEPT !.critical[c] = v, !.breaks[v] = @ + 1]
    ELSE IF w.trueCounts[c] = 1 THEN [counted EXCEPT !.breaks[w.critical[c]] = @ - 1] ELSE counted

Turned(w, c, v, gains) == IF gains THEN Gains(w, c, v) ELSE Loses(w, c, v)

\* a sweep of flip_variable over the occurrences of a literal, in their order
Swept(w, l, v, gains) ==
    LET sweep[c \in 0..Len(walked)] == IF c = 0 THEN w
                                       ELSE IF OccursIn(l, c) THEN Turned(sweep[c - 1], c, v, gains) ELSE sweep[c - 1]
    IN sweep[Len(walked)]

Flipped(w, v) ==
    LET losing == w.value[v] * v
    IN Swept(Swept([w EXCEPT !.value[v] = -@], losing, v, FALSE), -losing, v, TRUE)

\* select_probsat draws any variable of the clause, select_walksat one that
\* breaks least, or by noise any when each breaks some clause
Drawn(rule, w, c) ==
    LET clause == walked[c]
        all == {VariableAt(clause, i) : i \in 1..Len(clause)}
        least == {v \in all : \A u \in all : w.breaks[v] <= w.breaks[u]}
    IN IF rule = "walksat" /\ \E v \in least : w.breaks[v] = 0 THEN least ELSE all

BestOf(w, kept) == IF Len(w.unsatisfied) < kept.count THEN [value |-> w.value, count |-> Len(w.unsatisfied)] ELSE kept

-----------------------------------------------------------------------------
\* What surrounds the walk.
LocalSearchInit ==
    /\ walked \in WalkFormulas
    /\ savedPhase = [v \in WalkVariables |-> 1]
    /\ walker = NoCounts
    /\ best = [value |-> savedPhase, count |-> Nowhere]
    /\ asidePhases = [opening |-> savedPhase, probe |-> savedPhase]
    /\ walkState = [enabled |-> FALSE, pending |-> FALSE, count |-> Nowhere, config |-> Len(Rules), next |-> 0,
                    scale |-> 8, rewalkAt |-> FirstRewalk, adopted |-> "none"]
    /\ walkRound = [kind |-> "none", config |-> 0, round |-> 0, stalled |-> 0, before |-> 0, force |-> FALSE,
                    budget |-> 0, left |-> 0, formerConfig |-> 0, formerCount |-> 0]
    /\ moves = 0 /\ walkStage = "start"

\* prepare_opening_walk, on phases an earlier episode may have left; units found
\* by probing cancel every walk, and a budget out of range the opening one
PrepareOpeningWalk(phases, units, inRange) ==
    /\ walkStage = "start" /\ walkStage' = "search"
    /\ savedPhase' = phases
    /\ asidePhases' = [opening |-> phases, probe |-> phases]
    /\ walkState' = [walkState EXCEPT !.enabled = walked # <<>> /\ ~units,
                                      !.pending = walked # <<>> /\ ~units /\ inRange,
                                      !.next = IF MaximumClauseSize > 3 THEN 1 ELSE 0]
    /\ UNCHANGED <<walked, walker, best, walkRound, moves>>

\* the search assigns v and meets a conflict
SearchOn(v, value) ==
    /\ walkStage = "search" /\ moves < MaxMoves
    /\ savedPhase' = [savedPhase EXCEPT ![v] = value]
    /\ moves' = moves + 1
    /\ walkState' = [walkState EXCEPT !.adopted = "none"]
    /\ UNCHANGED <<walked, walker, best, asidePhases, walkRound, walkStage>>

\* walk_in_rounds begins with the next rule
Rounds(kind, force, budget, formerConfig, formerCount) ==
    walkRound' = [kind |-> kind, config |-> walkState.next % Len(Rules), round |-> 0, stalled |-> 0,
                  before |-> walkState.count, force |-> force, budget |-> budget, left |-> 0,
                  formerConfig |-> formerConfig, formerCount |-> formerCount]

\* run_opening_walk, once the first conflicts are spent
RunOpeningWalk(budget) ==
    /\ walkStage = "search" /\ walkState.pending /\ moves >= 1
    /\ asidePhases' = [asidePhases EXCEPT !.probe = savedPhase]
    /\ savedPhase' = asidePhases.opening
    /\ walkState' = [walkState EXCEPT !.pending = FALSE, !.next = walkState.next % Len(Rules), !.adopted = "none"]
    /\ Rounds("first", TRUE, budget, 0, 0)
    /\ walkStage' = "walk"
    /\ UNCHANGED <<walked, walker, best, moves>>

\* rewalk_if_due, at a restart; `visits` is the propagation work since the last one
RewalkIfDue(visits) ==
    /\ walkStage = "search" /\ walkState.enabled /\ ~walkState.pending /\ moves >= walkState.rewalkAt
    /\ walkState' = [walkState EXCEPT !.rewalkAt = moves + walkState.rewalkAt * 2, !.adopted = "none"]
    /\ Rounds("again", FALSE, Larger(1, (visits * walkState.scale) \div 8), 0, 0)
    /\ walkStage' = "walk"
    /\ UNCHANGED <<walked, walker, best, savedPhase, asidePhases, moves>>

\* the rule of a walk: the best one so far, or the next of the portfolio
Config == IF walkState.config < Len(Rules) THEN walkState.config ELSE walkState.next % Len(Rules)
Rule == Rules[Config + 1]

\* local_search::walk up to its first flip
BeginWalk ==
    /\ walkStage = "walk" /\ walkStage' = "flip"
    /\ walker' = Recomputed(savedPhase)
    /\ best' = BestOf(walker', best)
    /\ walkRound' = [walkRound EXCEPT !.left = walkRound.budget]
    /\ UNCHANGED <<walked, savedPhase, asidePhases, walkState, moves>>

Flip ==
    /\ walkStage = "flip" /\ walkRound.left > 0 /\ walker.unsatisfied # <<>>
    /\ \E c \in Range(walker.unsatisfied) : \E v \in Drawn(Rule, walker, c) : walker' = Flipped(walker, v)
    /\ best' = BestOf(walker', best)
    /\ walkRound' = [walkRound EXCEPT !.left = @ - 1]
    /\ UNCHANGED <<walked, savedPhase, asidePhases, walkState, moves, walkStage>>

-----------------------------------------------------------------------------
\* walk_and_seed_phases after the walk
Solved == walker.unsatisfied = <<>>
Improved == best.count < walkState.count /\ (best.count <= NearMiss \/ best.count * 4 <= walkState.count * 3)
Seeds == walkRound.force \/ Solved \/ Improved
Reseeded == [walkState EXCEPT !.count = IF Seeds THEN best.count ELSE @, !.config = IF Seeds THEN Config ELSE @,
                            !.next = @ + 1]
SeededPhase == IF Seeds THEN best.value ELSE savedPhase

\* walk_in_rounds after a walk: the phases of a model end it, and so do two
\* rounds without a gain, a second round far from one, and the last round
Stalled == IF Reseeded.count < walkRound.before THEN 0 ELSE walkRound.stalled + 1
FoundModel == Seeds /\ Reseeded.count = 0
LastRound == \/ FoundModel \/ Stalled >= 2
             \/ walkRound.round >= 1 /\ Reseeded.count > NearMiss
             \/ walkRound.round = OpeningRounds - 1
NextRound ==
    /\ walkRound.kind # "again" /\ ~LastRound
    /\ savedPhase' = SeededPhase
    /\ walkState' = [Reseeded EXCEPT !.next = walkRound.config]
    /\ walkRound' = [walkRound EXCEPT !.round = @ + 1, !.stalled = Stalled, !.before = Reseeded.count, !.force = FALSE]
    /\ walkStage' = "walk"
    /\ UNCHANGED <<walked, walker, best, asidePhases, moves>>

\* the strategy ended: a model, or too far from one, or the second strategy's turn
AfterStrategy == [Reseeded EXCEPT !.next = walkRound.config + 1]
FirstStrategyEnds ==
    /\ walkRound.kind = "first" /\ LastRound
    /\ IF FoundModel \/ Reseeded.count > NearMiss
       THEN /\ savedPhase' = IF FoundModel THEN SeededPhase ELSE asidePhases.probe
            /\ walkState' = [AfterStrategy EXCEPT !.adopted = "opening"]
            /\ walkStage' = "search" /\ UNCHANGED walkRound
       ELSE /\ savedPhase' = SeededPhase
            /\ walkState' = [AfterStrategy EXCEPT !.config = Len(Rules)]
            /\ walkRound' = [walkRound EXCEPT !.kind = "second", !.config = AfterStrategy.next % Len(Rules), !.round = 0,
                                              !.stalled = 0, !.before = Reseeded.count,
                                              !.formerConfig = Reseeded.config, !.formerCount = Reseeded.count]
            /\ walkStage' = "walk"
    /\ UNCHANGED <<walked, walker, best, asidePhases, moves>>

SecondStrategyEnds ==
    /\ walkRound.kind = "second" /\ LastRound
    /\ savedPhase' = IF ~FoundModel /\ Reseeded.count > NearMiss THEN asidePhases.probe ELSE SeededPhase
    /\ walkState' = [AfterStrategy EXCEPT !.adopted = "opening",
                        !.config = IF ~FoundModel /\ Reseeded.count >= walkRound.formerCount THEN walkRound.formerConfig ELSE @]
    /\ walkStage' = "search"
    /\ UNCHANGED <<walked, walker, best, asidePhases, walkRound, moves>>

\* the scale doubles, at most fourfold, or halves, at most to an eighth
RewalkEnds ==
    /\ walkRound.kind = "again"
    /\ savedPhase' = SeededPhase
    /\ walkState' = [Reseeded EXCEPT !.scale = IF Seeds THEN Smaller(@ * 2, 32) ELSE Larger(@ \div 2, 1),
                                   !.adopted = IF Seeds THEN "rewalk" ELSE "none"]
    /\ walkStage' = "search"
    /\ UNCHANGED <<walked, walker, best, asidePhases, walkRound, moves>>

WalkEnds ==
    /\ walkStage = "flip" /\ (walkRound.left = 0 \/ Solved)
    /\ NextRound \/ FirstStrategyEnds \/ SecondStrategyEnds \/ RewalkEnds

LocalSearchNext ==
    \/ \E phases \in Phases, units, inRange \in BOOLEAN : PrepareOpeningWalk(phases, units, inRange)
    \/ \E v \in WalkVariables, value \in {1, -1} : SearchOn(v, value)
    \/ \E budget \in FlipBudgets : RunOpeningWalk(budget)
    \/ \E visits \in FlipBudgets : RewalkIfDue(visits)
    \/ BeginWalk \/ Flip \/ WalkEnds

LocalSearchSpec == LocalSearchInit /\ [][LocalSearchNext]_walkVars

-----------------------------------------------------------------------------
\* The counts kept by difference are those a recount would give, however many
\* flips were made: the true literals of every clause, the variable a clause
\* hangs on, what each flip would break, and the list with its positions.
CountsAgree ==
    walkStage = "flip" =>
        LET Only(c) == CHOOSE i \in Trues(walker.value, walked[c]) : TRUE
            single == {c \in 1..Len(walked) : Cardinality(Trues(walker.value, walked[c])) = 1}
        IN /\ \A c \in 1..Len(walked) : walker.trueCounts[c] = Cardinality(Trues(walker.value, walked[c]))
           /\ \A c \in single : walker.critical[c] = VariableAt(walked[c], Only(c))
           /\ \A v \in WalkVariables :
                walker.breaks[v] = Cardinality({c \in single : VariableAt(walked[c], Only(c)) = v})
           /\ Range(walker.unsatisfied) = Unsatisfied(walker.value)
           /\ \A i \in 1..Len(walker.unsatisfied) : walker.position[walker.unsatisfied[i]] = i
           /\ \A c \in 1..Len(walked) : c \notin Unsatisfied(walker.value) => walker.position[c] = Nowhere

\* The assignment kept is one that leaves as many clauses unsatisfied as noted.
BestAgrees == best.count # Nowhere => Cardinality(Unsatisfied(best.value)) = best.count

\* The phases the search goes on with after an opening walk are those it came
\* with, unless the walk got near a model; and phases that were adopted leave
\* as many clauses unsatisfied as the next walk has to beat.
PhasesAgree ==
    /\ walkState.adopted = "opening" =>
        IF walkState.count > NearMiss THEN savedPhase = asidePhases.probe
        ELSE Cardinality(Unsatisfied(savedPhase)) = walkState.count
    /\ walkState.adopted = "rewalk" => Cardinality(Unsatisfied(savedPhase)) = walkState.count

WalkAgrees == CountsAgree /\ BestAgrees /\ PhasesAgree
=============================================================================
