------------------------------ MODULE Analysis ------------------------------
(***************************************************************************)
(* Conflict handling of the stand-alone coordinator: the trail, the         *)
(* decision frames and the assignment store that engine::backtrack unwinds *)
(* together, the first-UIP analysis over them, the minimizer and the        *)
(* learner, in the order finish_conflict_handling runs them.  A caller      *)
(* decides, propagates and reports conflicts of a small formula.            *)
(***************************************************************************)
EXTENDS Integers, Sequences, FiniteSets, SequencesExt, FiniteSetsExt, Folds

CONSTANTS
    Atoms,          \* the variables of the formula
    Formulas,       \* sequences of clauses, a clause a sequence of literals
    MaxAnalyses     \* bound: conflicts handled

VARIABLES
    given,      \* the formula of this behaviour
    kept,       \* learned_clauses_, oldest first
    literals,   \* trail
    frames,     \* decision_frame: decision and trail base of each level
    store,      \* store::assignment: by variable its literal, level and reason
    wiped,      \* a backtrack went to the level it was at, or above
    falsified,  \* the clause propagation found false, or none
    marks,      \* seen_flags_ that are set
    analysis,   \* what the last analysis derived
    shrunk,     \* what the minimizer made of it
    analyses    \* conflicts handled, at most MaxAnalyses

analysisVars == <<given, kept, literals, frames, store, wiped, falsified, marks, analysis, shrunk, analyses>>

NoReason == <<>>
Free == [lit |-> 0, level |-> 0, reason |-> NoReason]
AtomOf(l) == IF l < 0 THEN -l ELSE l
IsTrue(l) == store[AtomOf(l)].lit = l
IsFalse(l) == store[AtomOf(l)].lit = -l
LevelOf(l) == store[AtomOf(l)].level
CurrentLevel == Len(frames)
Clauses == Range(given) \cup Range(kept)
Underived == [clause |-> <<>>, backjump |-> 0, bumps |-> <<>>, resolved |-> FALSE, level |-> 0, done |-> FALSE]

-----------------------------------------------------------------------------
\* backtrack_to_level.  Popping the trail or the frames to their own height
\* empties them, and the frame above the current level has base zero.
TrailBase(level) == IF level \in 1..Len(frames) THEN frames[level].base ELSE 0
PopTo(height) == IF height >= Len(literals) THEN <<>> ELSE SubSeq(literals, 1, height)
PopFrames(level) == IF level >= Len(frames) THEN <<>> ELSE SubSeq(frames, 1, level)
BacktrackTo(level) ==
    LET target == IF level < CurrentLevel THEN level ELSE CurrentLevel
        base == TrailBase(target + 1)
    IN /\ literals' = PopTo(IF base < Len(literals) THEN base ELSE Len(literals))
       /\ frames' = PopFrames(target)
       /\ store' = [a \in Atoms |-> IF store[a].level > target THEN Free ELSE store[a]]
       /\ wiped' = (wiped \/ (level >= CurrentLevel /\ literals # <<>>))

Assigned(st, l, level, reason) == [st EXCEPT ![AtomOf(l)] = [lit |-> l, level |-> level, reason |-> reason]]

-----------------------------------------------------------------------------
\* conflict_analyzer::analyze_via_resolution.  One round marks the literals of
\* a clause; the walk down the trail then picks the next marked literal.
MarkRound(scan, clause, pivot) ==
    FoldLeft(LAMBDA s, l :
               LET a == AtomOf(l)
                   marked == [s EXCEPT !.seen = @ \cup {a}, !.bumps = Append(@, a)]
               IN IF a = pivot \/ a \in s.seen THEN s
                  ELSE IF LevelOf(l) = 0 THEN marked
                  ELSE IF LevelOf(l) >= CurrentLevel THEN [marked EXCEPT !.open = @ + 1]
                  ELSE [marked EXCEPT !.tail = Append(@, l)],
             scan, clause)

NextPivot(scan) ==      \* the place of the pivot, or zero
    LET places == {i \in 1..scan.cursor : /\ AtomOf(literals[i]) \in scan.seen
                                          /\ LevelOf(literals[i]) = CurrentLevel}
    IN IF places = {} THEN 0 ELSE Max(places)

RECURSIVE ResolveBack(_, _, _)
ResolveBack(scan, clause, pivot) ==
    LET s == MarkRound(scan, clause, pivot)
        place == NextPivot(s)
        down == [s EXCEPT !.cursor = place - 1, !.open = @ - 1]
    IN IF s.open = 0 THEN s
       ELSE IF place = 0 THEN [s EXCEPT !.uip = 0]
       ELSE IF down.open = 0 THEN [down EXCEPT !.uip = literals[place]]
       ELSE ResolveBack([down EXCEPT !.uip = literals[place]], store[AtomOf(literals[place])].reason,
                    AtomOf(literals[place]))

\* the literals below, highest level first, then by index
TailOrder(tail) == SortSeq(tail, LAMBDA l, m : \/ LevelOf(l) > LevelOf(m)
                                               \/ LevelOf(l) = LevelOf(m) /\ AtomOf(l) < AtomOf(m))
MaxLevel(ls) == Max({0} \cup {LevelOf(ls[i]) : i \in DOMAIN ls})

FreshScan(leftover) == [seen |-> leftover, bumps |-> <<>>, tail |-> <<>>, open |-> 0,
                        cursor |-> Len(literals), uip |-> 0]
MarksKept(old) == old
ClearedMarks(old) == {}
ViaResolution ==
    LET scan == ResolveBack(FreshScan(ClearedMarks(marks)), falsified, 0)
        first == IF scan.uip # 0 THEN -scan.uip ELSE scan.tail[1]
        rest == IF scan.uip # 0 THEN scan.tail ELSE Tail(scan.tail)
    IN [seen |-> scan.seen,
        result |-> IF scan.uip = 0 /\ scan.tail = <<>> THEN [Underived EXCEPT !.bumps = scan.bumps, !.done = TRUE]
                   ELSE [clause |-> <<first>> \o TailOrder(rest), backjump |-> MaxLevel(rest),
                         bumps |-> scan.bumps, resolved |-> TRUE, level |-> CurrentLevel, done |-> TRUE]]

\* conflict_analyzer::analyze: the conflict clause itself, each variable once,
\* without what the root falsified, the highest level first
Directly ==
    LET once == FoldLeft(LAMBDA seen, l : IF \E i \in DOMAIN seen : AtomOf(seen[i]) = AtomOf(l)
                                          THEN seen ELSE Append(seen, l), <<>>, falsified)
        pruned == <<once[1]>> \o SelectSeq(Tail(once), LAMBDA l : LevelOf(l) # 0)
        top == CHOOSE i \in DOMAIN pruned : /\ LevelOf(pruned[i]) = MaxLevel(pruned)
                                            /\ \A j \in 1..i - 1 : LevelOf(pruned[j]) < MaxLevel(pruned)
        clause == <<pruned[top]>> \o RemoveAt(pruned, top)
        below == {LevelOf(clause[i]) : i \in DOMAIN clause} \ {MaxLevel(clause)}
    IN [clause |-> clause, backjump |-> IF Len(clause) < 2 THEN 0 ELSE Max({0} \cup below),
        bumps |-> [i \in DOMAIN clause |-> AtomOf(clause[i])], resolved |-> FALSE, level |-> CurrentLevel,
        done |-> TRUE]

-----------------------------------------------------------------------------
\* minimizer::minimize_learned_clause: a literal goes when its reason, followed
\* down, rests on the clause and the root.  A literal on the way is not met twice.
RECURSIVE CanRemove(_, _, _)
CanRemove(a, exact, visiting) ==
    LET reason == store[a].reason
    IN /\ a \notin visiting
       /\ reason # NoReason
       /\ \A i \in DOMAIN reason :
            \/ AtomOf(reason[i]) = a \/ LevelOf(reason[i]) = 0 \/ reason[i] \in exact
            \/ CanRemove(AtomOf(reason[i]), exact, visiting \cup {a})

Minimised(clause) ==
    <<clause[1]>> \o SelectSeq(Tail(clause), LAMBDA l : ~CanRemove(AtomOf(l), Range(clause), {}))
\* recompute_glue: one for each level of the clause, and at least one
Glue(clause) == Max({1, Cardinality({LevelOf(clause[i]) : i \in DOMAIN clause})})

\* learner::learn_clause keeps no literal twice and no tautology
Normalised(clause) ==
    IF \E i, j \in DOMAIN clause : clause[i] = -clause[j] THEN <<>>
    ELSE FoldLeft(LAMBDA seen, l : IF l \in Range(seen) THEN seen ELSE Append(seen, l), <<>>, clause)

-----------------------------------------------------------------------------
AnalysisInit ==
    /\ given \in Formulas
    /\ kept = <<>> /\ literals = <<>> /\ frames = <<>>
    /\ store = [a \in Atoms |-> Free]
    /\ wiped = FALSE /\ falsified = <<>> /\ marks = {}
    /\ analysis = Underived /\ shrunk = <<>> /\ analyses = 0

False(clause) == clause # <<>> /\ \A i \in DOMAIN clause : IsFalse(clause[i])
UnitIn(clause, l) == /\ l \in Range(clause) /\ ~IsTrue(l) /\ ~IsFalse(l)
                     /\ \A i \in DOMAIN clause : clause[i] # l => IsFalse(clause[i])
Quiet == \A clause \in Clauses : ~False(clause) /\ \A l \in Range(clause) : ~UnitIn(clause, l)
Searching == falsified = <<>> /\ analysis = Underived /\ analyses < MaxAnalyses /\ ~wiped

\* the caller opens a level: the base is where the trail stands
Decide ==
    /\ Searching /\ Quiet
    /\ \E a \in Atoms : \E l \in {a, -a} :
         /\ store[a] = Free
         /\ frames' = Append(frames, [decision |-> l, base |-> Len(literals)])
         /\ literals' = Append(literals, l)
         /\ store' = Assigned(store, l, CurrentLevel + 1, NoReason)
    /\ UNCHANGED <<given, kept, wiped, falsified, marks, analysis, shrunk, analyses>>

ImplyLiteral ==
    /\ Searching
    /\ \E clause \in Clauses : \E l \in Range(clause) :
         /\ UnitIn(clause, l)
         /\ literals' = Append(literals, l)
         /\ store' = Assigned(store, l, CurrentLevel, clause)
    /\ UNCHANGED <<given, kept, frames, wiped, falsified, marks, analysis, shrunk, analyses>>

\* seed_conflict_clause
ReportConflict ==
    /\ Searching
    /\ \E clause \in Clauses : False(clause) /\ falsified' = clause
    /\ shrunk' = <<>>
    /\ UNCHANGED <<given, kept, literals, frames, store, wiped, marks, analysis, analyses>>

\* handle_conflict_via_resolution, or handle_conflict
Analyse ==
    /\ falsified # <<>> /\ analysis = Underived
    /\ \/ analysis' = ViaResolution.result /\ marks' = ViaResolution.seen
       \/ analysis' = Directly /\ UNCHANGED marks
    /\ falsified' = <<>>
    /\ UNCHANGED <<given, kept, literals, frames, store, wiped, shrunk, analyses>>

MinimiseLearned ==
    /\ analysis.resolved /\ shrunk = <<>>
    /\ shrunk' = [clause |-> Minimised(analysis.clause), glue |-> Glue(Minimised(analysis.clause))]
    /\ UNCHANGED <<given, kept, literals, frames, store, wiped, falsified, marks, analysis, analyses>>

\* finish_conflict_handling: learn, jump back, assert
FinishConflict ==
    /\ analysis.done
    /\ LET learned == Normalised(analysis.clause)
       IN kept' = IF learned = <<>> THEN kept ELSE Append(kept, learned)
    /\ BacktrackTo(analysis.backjump)
    /\ analysis' = Underived
    /\ analyses' = analyses + 1
    /\ UNCHANGED <<given, falsified, marks, shrunk>>

\* handle_restart
RestartAtRoot ==
    /\ Searching /\ Quiet
    /\ BacktrackTo(0)
    /\ UNCHANGED <<given, kept, falsified, marks, analysis, shrunk, analyses>>

AnalysisNext == \/ Decide \/ ImplyLiteral \/ ReportConflict \/ Analyse \/ MinimiseLearned
                \/ FinishConflict \/ RestartAtRoot

-----------------------------------------------------------------------------
Entailed(clause) ==
    \A valuation \in [Atoms -> BOOLEAN] :
      LET holds(c) == \E i \in DOMAIN c : valuation[AtomOf(c[i])] = (c[i] > 0)
      IN (\A c \in Range(given) : holds(c)) => holds(clause)

\* What the analyser derives, what the minimizer leaves of it and what the
\* learner keeps all follow from the formula (conflict_analyzer.cpp 89-224).
LearnedFollows ==
    /\ analysis.clause # <<>> => Entailed(analysis.clause)
    /\ shrunk # <<>> => Entailed(shrunk.clause)
    /\ kept # <<>> => Entailed(Last(kept))

\* A clause of first-UIP analysis is false, has exactly its first literal at
\* the level of the conflict, and becomes unit at the level it jumps back to:
\* the learned clause drives the search out of the conflict.
LearnedAsserts ==
    analysis.resolved =>
      /\ False(analysis.clause)
      /\ LevelOf(analysis.clause[1]) = analysis.level
      /\ \A i \in 2..Len(analysis.clause) : LevelOf(analysis.clause[i]) <= analysis.backjump
      /\ analysis.backjump < analysis.level
      /\ shrunk # <<>> => /\ shrunk.clause[1] = analysis.clause[1]
                          /\ shrunk.glue <= Glue(analysis.clause)

\* engine::backtrack keeps trail, frames and assignment consistent
\* (backtrack.hpp 19-21), as long as it is not asked for the level it is at.
StoresAgree ==
    ~wiped =>
      /\ \A a \in Atoms : store[a] # Free <=> \E i \in DOMAIN literals : literals[i] = store[a].lit
      /\ \A i, j \in DOMAIN literals : i < j => /\ literals[i] # literals[j]
                                                /\ LevelOf(literals[i]) <= LevelOf(literals[j])
      /\ \A n \in DOMAIN frames : /\ literals[frames[n].base + 1] = frames[n].decision
                                  /\ LevelOf(frames[n].decision) = n

\* Learning, minimising, jumping back and unwinding agree with one another
\* over several conflicts, whatever the marks of the earlier ones were.
ConflictsHandled == LearnedFollows /\ LearnedAsserts /\ StoresAgree
=============================================================================
