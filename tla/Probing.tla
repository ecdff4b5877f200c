------------------------------ MODULE Probing ------------------------------
(***************************************************************************)
(* Failed-literal probing at the root (solver_core::probe_failed_literals): *)
(* each unassigned variable of a binary clause is tried both ways.  A       *)
(* conflict makes the other way a unit; what both ways imply is a unit too. *)
(* The marks that carry one probe to the next, the effort that may run out *)
(* between the two and the units learned on the way are the state.          *)
(***************************************************************************)
EXTENDS Integers, Sequences, FiniteSets, FiniteSetsExt

CONSTANTS
    ProbedFormulas,     \* sets of clauses, a clause a set of literals
    Efforts,            \* base_effort: trail growth a round may cause
    ProbeRounds,        \* probe_rounds
    RoundGrowth         \* probe_round_growth

ASSUME ProbedAssumption ==
    \A formula \in ProbedFormulas :
        /\ \A c \in formula : \A l \in c : l \in Int /\ l # 0
        /\ IsFiniteSet(UNION formula)

VARIABLES
    probedClauses,  \* the formula and the units learned
    stated0,        \* the formula as it was stated
    root,           \* the literals true at the root
    probeMarks,     \* probe_marks_
    markedList,     \* marked_scratch_: what a clearing of the marks will visit
    lifted,         \* lifted_scratch_
    effort,         \* what the round has left, and what a round begins with
    progress,       \* round, next variable, units found, units before the round
    step,           \* where the pass is
    refuted         \* root_refuted_

probingVars == <<probedClauses, stated0, root, probeMarks, markedList, lifted, effort, progress, step, refuted>>

ProbeVariables == {IF l < 0 THEN -l ELSE l : l \in UNION probedClauses}
IsAssigned(v) == {v, -v} \cap root # {}

\* unit propagation, all at once: what is implied does not depend on the order
Spread(lits) ==
    lits \cup UNION {{l \in c : -l \notin lits /\ \A m \in c \ {l} : -m \in lits} : c \in probedClauses}
\* every round reaches a literal or is the last one, and there are two for each variable
Propagated0(lits) ==
    LET reached[n \in 0..(2 * Cardinality(ProbeVariables))] == IF n = 0 THEN lits ELSE Spread(reached[n - 1])
    IN reached[2 * Cardinality(ProbeVariables)]
Conflicting(lits) == \/ \E l \in lits : -l \in lits
                     \/ \E c \in probedClauses : \A l \in c : -l \in lits

\* a conflict may be met after any part of what would be implied
Growths(lits) == IF Conflicting(lits) THEN 1..Cardinality(lits \ root) ELSE {Cardinality(lits \ root)}
Spent(left, grown) == IF grown >= left THEN 0 ELSE left - grown

HasBinary(v) == \E c \in probedClauses : Cardinality(c) = 2 /\ {v, -v} \cap c # {}
Probed == {v \in ProbeVariables : v >= progress.var /\ ~IsAssigned(v) /\ HasBinary(v)}
ClearedNothing(marks, list) == marks
Cleared(marks, list) == marks \ list

-----------------------------------------------------------------------------
\* assign_root_units and the propagation before the first probe
ProbingInit ==
    /\ probedClauses \in ProbedFormulas
    /\ stated0 = probedClauses
    /\ \E base \in Efforts : effort = [left |-> base, base |-> base]
    /\ root = {} /\ probeMarks = {} /\ markedList = {} /\ lifted = {}
    /\ progress = [round |-> 1, var |-> 1, found |-> 0, before |-> 0]
    /\ step = "begin" /\ refuted = FALSE

BeginProbing ==
    /\ step = "begin"
    /\ refuted' = Conflicting(Propagated0({}))
    /\ root' = IF refuted' THEN {} ELSE Propagated0({})
    /\ step' = IF refuted' THEN "done" ELSE "scan"
    /\ UNCHANGED <<probedClauses, stated0, probeMarks, markedList, lifted, effort, progress>>

EndRound ==
    IF progress.found = progress.before \/ progress.round = ProbeRounds
    THEN step' = "done" /\ UNCHANGED <<effort, progress>>
    ELSE /\ step' = "scan"
         /\ effort' = [effort EXCEPT !.left = effort.base * RoundGrowth]
         /\ progress' = [progress EXCEPT !.round = @ + 1, !.var = 1, !.before = progress.found]

FinishRound ==
    /\ step = "scan"
    /\ effort.left = 0 \/ Probed = {}
    /\ EndRound
    /\ UNCHANGED <<probedClauses, stated0, root, probeMarks, markedList, lifted, refuted>>

ProbePositive ==
    /\ step = "scan" /\ effort.left # 0 /\ Probed # {}
    /\ LET v == Min(Probed)
           reached == Propagated0(root \cup {v})
           fails == Conflicting(reached)
           implied == IF fails THEN {} ELSE reached \ (root \cup {v})
           clean == Cleared(probeMarks, markedList)
       IN /\ lifted' = {}
          /\ \E grown \in Growths(reached) :
               LET left == Spent(effort.left, grown)
                   marks == clean \cup implied
               IN \/ /\ fails
                     /\ probeMarks' = Cleared(marks, implied) /\ markedList' = {}
                     /\ effort' = [effort EXCEPT !.left = left]
                     /\ progress' = [progress EXCEPT !.var = v]
                     /\ step' = "failed positive"
                  \* leaving the round: the marks go first
                  \/ /\ ~fails /\ left = 0
                     /\ probeMarks' = Cleared(marks, implied) /\ markedList' = {}
                     /\ EndRound
                  \/ /\ ~fails /\ left # 0
                     /\ probeMarks' = marks /\ markedList' = implied
                     /\ effort' = [effort EXCEPT !.left = left]
                     /\ progress' = [progress EXCEPT !.var = v]
                     /\ step' = "negative"
    /\ UNCHANGED <<probedClauses, stated0, root, refuted>>

ProbeNegative ==
    /\ step = "negative"
    /\ LET reached == Propagated0(root \cup {-progress.var})
           fails == Conflicting(reached)
       IN /\ lifted' = IF fails THEN {} ELSE (reached \ (root \cup {-progress.var})) \cap probeMarks
          /\ \E grown \in Growths(reached) : effort' = [effort EXCEPT !.left = Spent(@, grown)]
          /\ step' = IF fails THEN "failed negative" ELSE "lift"
    /\ probeMarks' = Cleared(probeMarks, markedList) /\ markedList' = {}
    /\ UNCHANGED <<probedClauses, stated0, root, progress, refuted>>

\* learn_root_unit: the clause is stored, unless the arena is full, and propagated
LearnRootUnit(unit, after, pending, found) ==
    \/ /\ probedClauses' = probedClauses \cup {{unit}}
       /\ LET reached == Propagated0(root \cup {unit})
          IN /\ refuted' = Conflicting(reached)
             /\ root' = IF refuted' THEN root \cup {unit} ELSE reached
       /\ lifted' = pending
       /\ progress' = [progress EXCEPT !.found = @ + found,
                                       !.var = IF after = "scan" THEN @ + 1 ELSE @]
       /\ step' = IF refuted' THEN "done" ELSE after
       /\ UNCHANGED <<stated0, probeMarks, markedList, effort>>
    \/ /\ step' = "done"
       /\ UNCHANGED <<probedClauses, stated0, root, probeMarks, markedList, lifted, effort, progress, refuted>>

LearnFailed ==
    \/ step = "failed positive" /\ LearnRootUnit(-progress.var, "scan", {}, 1)
    \/ step = "failed negative" /\ LearnRootUnit(progress.var, "scan", {}, 1)

\* one counter for the unit and one for its lifting
Lift ==
    /\ step = "lift"
    /\ \/ /\ lifted = {}
          /\ step' = "scan"
          /\ progress' = [progress EXCEPT !.var = @ + 1]
          /\ UNCHANGED <<probedClauses, stated0, root, probeMarks, markedList, lifted, effort, refuted>>
       \/ \E l \in lifted : IF {l, -l} \cap root # {}
            THEN /\ lifted' = lifted \ {l}
                 /\ UNCHANGED <<probedClauses, stated0, root, probeMarks, markedList, effort, progress, step, refuted>>
            ELSE LearnRootUnit(l, "lift", lifted \ {l}, 2)

ProbingNext == BeginProbing \/ FinishRound \/ ProbePositive \/ ProbeNegative \/ LearnFailed \/ Lift

ProbingSpec == ProbingInit /\ [][ProbingNext]_probingVars

-----------------------------------------------------------------------------
ProbedModels == {s \in SUBSET (UNION {{v, -v} : v \in ProbeVariables}) :
             /\ \A v \in ProbeVariables : (v \in s) # (-v \in s)
             /\ \A c \in stated0 : c \cap s # {}}

\* Every unit of the pass holds in every solution of the formula, though its
\* probes reached it over marks, an effort that runs out and units learned in
\* between; a refuted root has no solution (solver_core.cpp 581-590).
ProbingSound ==
    /\ step \in {"scan", "done"} => \A s \in ProbedModels : root \subseteq s \/ refuted
    /\ refuted => ProbedModels = {}
    /\ \A s \in ProbedModels : \A c \in probedClauses : c \cap s # {}
=============================================================================
