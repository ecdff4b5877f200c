------------------------------- MODULE Passes -------------------------------
(***************************************************************************)
(* The passes that rewrite the formula, as the preprocessing pipeline and  *)
(* the inprocessing epochs run them between a caller's clauses and the     *)
(* search: transitive reduction, probing with its backbone units, forward  *)
(* subsumption, bounded variable elimination and factoring, and what gives *)
(* the caller its models back, the extension stack and its replay.  The    *)
(* other enabled passes (blocked, covered, fast, instantiation, vivifier)  *)
(* change no clause.                                                       *)
(*                                                                         *)
(* A literal is a nonzero integer, a clause a set of literals.  The search *)
(* is what it does to the clauses: it learns and it forgets.               *)
(***************************************************************************)
EXTENDS Integers, Sequences, FiniteSets, SequencesExt, FiniteSetsExt, Functions

CONSTANTS Sessions,         \* the calls a caller may make, with its settings
                            \* and the clauses its search may learn
          MaxLearned,       \* clauses learned at any one time
          MaxEpochs,        \* inprocessing epochs
          MaxVariable,      \* the highest index a variable may have
          GrowthLimit,      \* bounded: clauses an elimination may add
          ResolventWidth    \* bounded: literals a resolvent may have

\* a clause as add_problem_clause stores it: no tautology is
Literals == (-MaxVariable..MaxVariable) \ {0}
Clauses == {c \in SUBSET Literals : \A l \in c : -l \notin c}

\* elimination is for a caller that states everything before it solves once
ASSUME SessionsAssumption ==
    /\ MaxVariable \in Nat
    /\ \A s \in Sessions :
          /\ s.eliminate \in BOOLEAN /\ s.strengthen \in BOOLEAN /\ s.proof \in BOOLEAN
          /\ s.learnable \subseteq Clauses
          /\ Len(s.episodes) \in Nat /\ s.eliminate => Len(s.episodes) <= 1
          /\ \A e \in 1..Len(s.episodes) : /\ s.episodes[e].clauses \in Seq(Clauses)
                                          /\ s.episodes[e].assumptions \subseteq Literals

VARIABLES
    session,        \* what this caller does
    episode,        \* how many of its episodes have begun
    stated,         \* every clause the caller has stated
    lits,           \* the literals of each clause, by its reference
    irredundant,    \* irredundant_refs
    redundant,      \* redundant_refs
    checked,        \* references with subsumption_checked_flag
    garbage,        \* references with garbage_flag
    extension,      \* the extension stack
    highestStated,  \* set_problem_variable_count
    stage,          \* the pass that runs, or what happens between passes
    pipeline,       \* "initial" or "epoch"
    work,           \* what the running pass has in hand
    epochs          \* epochs run

clauseLists == <<lits, irredundant, redundant, checked, garbage>>
callerVars == <<session, episode, stated, highestStated>>
passVars == <<callerVars, clauseLists, extension, stage, pipeline, work, epochs>>

Var(l) == IF l > 0 THEN l ELSE -l
Vars(clauses) == UNION {{Var(l) : l \in c} : c \in clauses}
Listed == irredundant \o redundant
Alive == Range(Listed) \ garbage
Live == {lits[r] : r \in Alive}
Redundant(r) == r \in Range(redundant)

Idle == [pass |-> "none"]
Episode == session.episodes[episode]
Assumed == IF episode = 0 THEN {} ELSE Episode.assumptions

\* what a sequence holds of a set, in its order
Keeping(s, wanted) ==
    LET kept[n \in 0..Len(s)] ==
            IF n = 0 THEN <<>>
            ELSE IF s[n] \in wanted THEN Append(kept[n - 1], s[n]) ELSE kept[n - 1]
    IN kept[Len(s)]

\* flush_matching: clauses go from the lists.  References are numbered afresh,
\* in the order of the lists: nothing in this module keeps one longer
Drop(gone) ==
    LET kept == Keeping(irredundant, Range(irredundant) \ gone)
        both == kept \o Keeping(redundant, Range(redundant) \ gone) IN
    /\ lits' = [k \in DOMAIN both |-> lits[both[k]]]
    /\ irredundant' = [k \in DOMAIN kept |-> k]
    /\ redundant' = [k \in 1..(Len(both) - Len(kept)) |-> Len(kept) + k]
    /\ checked' = {k \in DOMAIN both : both[k] \in checked}

\* database::flush_satisfied with the garbage flags, at the end of a pass
Flush == Drop(garbage) /\ garbage' = {}

\* a bug: a clause that shrank still counts as compared
StillChecked(rs) == checked

\* rewrite_clause_literals and shrink_clause: the flag goes with the old text
Rewritten(rs) == checked \ rs

---------------------------------------------------------------------------
(* The caller, and the scheduler's way from pass to pass. *)

InitialPasses == <<"transitive_reducer", "probing", "forward_subsumer", "bounded", "factorizer">>

\* find_max_variable, what set_problem_variable_count gets
MaxVariableOf(clauses, assumptions) == Max({0} \cup Vars(clauses) \cup {Var(a) : a \in assumptions})

\* the clauses an episode states, and its call of solve
Solve ==
    /\ stage = "stating"
    /\ episode < Len(session.episodes)
    /\ LET e == session.episodes[episode + 1]
           n == Len(lits) IN
       /\ stated' = stated \cup Range(e.clauses)
       /\ lits' = lits \o e.clauses
       /\ irredundant' = irredundant \o [k \in 1..Len(e.clauses) |-> n + k]
       /\ highestStated' = MaxVariableOf(stated' \cup Live, e.assumptions)
    /\ episode' = episode + 1
    /\ stage' = "between"
    /\ pipeline' = "initial"
    /\ work' = [pass |-> "none", next |-> 1]
    /\ UNCHANGED <<session, redundant, checked, garbage, extension, epochs>>

Enabled(pass) == pass = "bounded" => session.eliminate

\* after the last pass of the pipeline, or when a limit ends it between two
EndPipeline ==
    /\ stage = "between"
    /\ stage' = "searching"
    /\ work' = Idle
    /\ UNCHANGED <<callerVars, clauseLists, extension, pipeline, epochs>>

\* a pass that is not enabled, or that the profile selector leaves out: probing,
\* on a formula of long clauses
SkipPass ==
    /\ stage = "between"
    /\ work.next \in DOMAIN InitialPasses
    /\ ~Enabled(InitialPasses[work.next]) \/ InitialPasses[work.next] = "probing"
    /\ work' = [work EXCEPT !.next = @ + 1]
    /\ UNCHANGED <<callerVars, clauseLists, extension, stage, pipeline, epochs>>

Entering(pass) ==
    /\ stage = "between"
    /\ work.next \in DOMAIN InitialPasses
    /\ InitialPasses[work.next] = pass
    /\ Enabled(pass)
    /\ stage' = pass
    /\ UNCHANGED <<callerVars, clauseLists, extension, pipeline, epochs>>

Leaving ==
    /\ stage' = IF pipeline = "initial" THEN "between" ELSE "searching"
    /\ work' = IF pipeline = "initial" THEN [pass |-> "none", next |-> work.next + 1] ELSE Idle
    /\ UNCHANGED <<callerVars, pipeline, epochs>>

---------------------------------------------------------------------------
(* transitive_reducer *)

Binaries == Keeping(Listed, {r \in Range(Listed) : Cardinality(lits[r]) = 2})

BuildImplicationGraph ==
    /\ Entering("transitive_reducer")
    /\ work' = [pass |-> "transitive_reducer", edges |-> Binaries, at |-> 1, removed |-> {}, next |-> work.next]

\* the implications of the clauses that may still justify a removal
Arcs(uses) == UNION {{<<-p[1], p[2]>> : p \in {q \in lits[r] \X lits[r] : q[1] # q[2]}} : r \in uses}
Step(arcs, S) == S \cup {a[2] : a \in {b \in arcs : b[1] \in S}}

HasAlternativePath(source, target, uses) ==
    LET arcs == Arcs(uses)
        reached[n \in 0..(2 * MaxVariable)] == IF n = 0 THEN {source} ELSE Step(arcs, reached[n - 1])
    IN \E a \in arcs : a[1] \in reached[2 * MaxVariable] /\ a[2] = target

\* a bug: clauses removed in this pass still justify removals
JustifyingAll(k) == {work.edges[j] : j \in DOMAIN work.edges \ {k}}

\* the binary clauses that are neither this one nor removed already
Justifying(k) == {work.edges[j] : j \in DOMAIN work.edges \ ({k} \cup work.removed)}

Justified(k) == \A l \in lits[work.edges[k]] :
                   \A m \in lits[work.edges[k]] \ {l} : HasAlternativePath(-l, m, Justifying(k))

PruneEdge ==
    /\ stage = "transitive_reducer"
    /\ work.at \in DOMAIN work.edges
    /\ IF Justified(work.at)
       THEN /\ garbage' = garbage \cup {work.edges[work.at]}
            /\ work' = [work EXCEPT !.at = @ + 1, !.removed = @ \cup {work.at}]
       ELSE /\ work' = [work EXCEPT !.at = @ + 1]
            /\ UNCHANGED garbage
    /\ UNCHANGED <<callerVars, lits, irredundant, redundant, checked, extension, stage, pipeline, epochs>>

\* every edge was looked at, or the effort is spent
EndPruning ==
    /\ stage = "transitive_reducer"
    /\ Flush
    /\ Leaving
    /\ UNCHANGED extension

---------------------------------------------------------------------------
(* engine::probing and extractor::backbone *)

Units(refs) == Keeping(refs, {r \in Range(refs) : Cardinality(lits[r]) = 1})

\* units seed the queue in list order, contradicting and repeated ones left out
Seeding(q, r) ==
    LET l == CHOOSE l \in lits[r] : TRUE IN
    IF l \in Range(q) \/ -l \in Range(q) THEN q ELSE Append(q, l)

Seeded(refs) ==
    LET seeds[n \in 0..Len(Units(refs))] == IF n = 0 THEN <<>> ELSE Seeding(seeds[n - 1], Units(refs)[n])
    IN seeds[Len(Units(refs))]

CollectClauses ==
    /\ Entering("probing")
    /\ work' = [pass |-> "probing", refs |-> Listed, text |-> lits, queue |-> Seeded(Listed),
                head |-> 1, candidates |-> <<>>, next |-> work.next]

\* the closure's next literal: clauses it falsifies down to one open literal
\* become that unit, each in turn, as the queue grows under the ones after it
Closing(processed, w, r) ==
    LET text == work.text[r]
        rest == text \ {-l : l \in processed} IN
    IF \/ Cardinality(text) < 2 \/ text \cap processed # {}
       \/ Cardinality(w.lits[r]) = 1
       \/ -work.queue[work.head] \notin text \/ Cardinality(rest) # 1
       \/ \E l \in rest : {l, -l} \cap Range(w.queue) # {}
    THEN w
    ELSE LET survivor == CHOOSE l \in rest : TRUE IN
         [lits |-> [w.lits EXCEPT ![r] = {survivor}],
          queue |-> Append(w.queue, survivor),
          candidates |-> Append(w.candidates, survivor)]

\* every clause of the lists in turn
Closed(processed) ==
    LET after[n \in 0..Len(work.refs)] ==
            IF n = 0 THEN [lits |-> lits, queue |-> work.queue, candidates |-> work.candidates]
            ELSE Closing(processed, after[n - 1], work.refs[n])
    IN after[Len(work.refs)]

CloseUnderLiteral ==
    /\ stage = "probing"
    /\ work.head \in DOMAIN work.queue
    /\ LET w == Closed({work.queue[k] : k \in 1..work.head}) IN
       /\ lits' = w.lits
       /\ checked' = Rewritten({r \in DOMAIN lits : w.lits[r] # lits[r]})
       /\ work' = [work EXCEPT !.queue = w.queue, !.candidates = w.candidates, !.head = @ + 1]
    /\ UNCHANGED <<callerVars, irredundant, redundant, garbage, extension, stage, pipeline, epochs>>

\* record, confirm and emit each candidate: one whose negation is a unit or a
\* candidate is not confirmed, one that is a unit clause already is not added
Confirming(known, l) ==
    IF {-l} \in known.units \/ -l \in known.seen \/ {l} \in known.units
    THEN [known EXCEPT !.seen = @ \cup {l}]
    ELSE [units |-> known.units \cup {{l}}, seen |-> known.seen \cup {l}, added |-> Append(known.added, {l})]

Emitted ==
    LET known[n \in 0..Len(work.candidates)] ==
            IF n = 0 THEN [units |-> {c \in Live : Cardinality(c) = 1}, seen |-> {}, added |-> <<>>]
            ELSE Confirming(known[n - 1], work.candidates[n])
    IN known[Len(work.candidates)].added

EmitBackbone ==
    /\ stage = "probing"
    /\ work.head \notin DOMAIN work.queue
    /\ lits' = lits \o Emitted
    /\ redundant' = redundant \o [k \in 1..Len(Emitted) |-> Len(lits) + k]
    /\ Leaving
    /\ UNCHANGED <<irredundant, checked, garbage, extension>>

---------------------------------------------------------------------------
(* forward_subsumer *)

\* every clause the database lists, the irredundant ones first
IndexClauses(turn) ==
    [pass |-> "forward_subsumer", order |-> Listed, text |-> lits, stated |-> Len(irredundant),
     at |-> 1, step |-> "subsume", todo |-> {}, next |-> turn]

EnterSubsumer ==
    /\ Entering("forward_subsumer")
    /\ work' = IndexClauses(work.next)

\* the full occurrence index, built once: indexes into the order
Occurs(l) == {k \in DOMAIN work.order : l \in work.text[work.order[k]]}

\* any literal with the shortest list; the code takes the first in the clause
Rarest(c) == {l \in c : \A m \in c : Cardinality(Occurs(l)) <= Cardinality(Occurs(m))}

Active(k) == work.order[k] \notin garbage
Text(k) == lits[work.order[k]]
Compared(j, k) == {work.order[j], work.order[k]} \subseteq checked
Candidates(l) == {k \in Occurs(l) \ {work.at} : Active(k) /\ ~Compared(k, work.at)}

\* clause_subsumes; the signatures before it only rule pairs out
Subsumes(j, k) == Text(j) \subseteq Text(k)

Subsumers(l) ==
    {k \in Candidates(l) :
        /\ Subsumes(k, work.at)
        /\ Cardinality(Text(k)) = Cardinality(Text(work.at)) => k < work.at}

SubsumedBy(l) == {k \in Candidates(l) : Subsumes(work.at, k)}

\* a learned clause that stands for a stated one is promoted first
Promoted(r, subsumed) ==
    IF Redundant(r) /\ \E s \in subsumed : ~Redundant(s)
    THEN [irredundant |-> Append(irredundant, r), redundant |-> Keeping(redundant, Range(redundant) \ {r})]
    ELSE [irredundant |-> irredundant, redundant |-> redundant]

Subsume(r, subsumed) ==
    LET p == Promoted(r, subsumed) IN
    /\ irredundant' = p.irredundant
    /\ redundant' = p.redundant
    /\ garbage' = garbage \cup subsumed

\* one clause of the order: subsumed by an earlier or shorter one, or else it
\* subsumes every one it can
SubsumeLeft ==
    /\ stage = "forward_subsumer" /\ work.step = "subsume"
    /\ work.at \in DOMAIN work.order
    /\ LET left == work.order[work.at] IN
       IF ~Active(work.at) \/ lits[left] = {}
       THEN UNCHANGED <<irredundant, redundant, garbage>>
       ELSE \E l \in Rarest(lits[left]) :
              IF Subsumers(l) # {}
              THEN Subsume(work.order[Min(Subsumers(l))], {left})
              ELSE Subsume(left, {work.order[k] : k \in SubsumedBy(l)})
    /\ work' = [work EXCEPT !.at = @ + 1]
    /\ UNCHANGED <<callerVars, lits, checked, extension, stage, pipeline, epochs>>

\* everything still standing has been compared with everything
MarkChecked ==
    /\ stage = "forward_subsumer" /\ work.step = "subsume"
    /\ work.at \notin DOMAIN work.order
    /\ checked' = checked \cup {r \in Range(work.order) : r \notin garbage}
    /\ work' = [work EXCEPT !.at = 1, !.step = "next"]
    /\ UNCHANGED <<callerVars, lits, irredundant, redundant, garbage, extension, stage, pipeline, epochs>>

\* run_self_subsuming_resolution, one stated clause and then one pivot at a
\* time: justifiers have at most three literals
TakeJustifier ==
    /\ stage = "forward_subsumer" /\ work.step = "next" /\ session.strengthen
    /\ work.at <= work.stated
    /\ work' = IF Active(work.at) /\ Cardinality(Text(work.at)) \in 1..3
               THEN [work EXCEPT !.step = "pivots", !.todo = Text(work.at)]
               ELSE [work EXCEPT !.at = @ + 1]
    /\ UNCHANGED <<callerVars, clauseLists, extension, stage, pipeline, epochs>>

\* a bug: the rest of the justifier is not looked for in the candidate
JustifiesLoosely(pivot, target) == TRUE

\* resolves_to_strengthen: the rest of the justifier is in the candidate
Justifies(pivot, target) == Text(work.at) \ {pivot} \subseteq target

\* the candidates of a pivot come from the index of the old texts, so that one
\* may have lost the literal already; only stated ones change
Strengthened(pivot) ==
    {work.order[k] : k \in
        {k \in Occurs(-pivot) \ {work.at} :
            /\ Active(k) /\ ~Redundant(work.order[k])
            /\ Cardinality(Text(k)) > 1 /\ Cardinality(Text(work.at)) <= Cardinality(Text(k))
            /\ Justifies(pivot, Text(k))}}

StrengthenByPivot ==
    /\ stage = "forward_subsumer" /\ work.step = "pivots"
    /\ \E pivot \in work.todo :
         /\ lits' = [r \in DOMAIN lits |-> IF r \in Strengthened(pivot) THEN lits[r] \ {-pivot} ELSE lits[r]]
         /\ checked' = Rewritten(Strengthened(pivot))
         /\ work' = IF work.todo = {pivot}
                    THEN [work EXCEPT !.at = @ + 1, !.step = "next", !.todo = {}]
                    ELSE [work EXCEPT !.todo = @ \ {pivot}]
    /\ UNCHANGED <<callerVars, irredundant, redundant, garbage, extension, stage, pipeline, epochs>>

EndSubsumption ==
    /\ stage = "forward_subsumer" /\ work.step = "next"
    /\ session.strengthen => work.at > work.stated
    /\ Flush
    /\ Leaving
    /\ UNCHANGED extension

---------------------------------------------------------------------------
(* eliminator::variable::bounded *)

BuildOccurrences ==
    /\ Entering("bounded")
    /\ work' = [pass |-> "bounded", registered |-> irredundant, at |-> 1, next |-> work.next]

\* the occurrence lists keep the clauses earlier eliminations removed
Holding(l) == Keeping(work.registered, {r \in Range(work.registered) : l \in lits[r]})

\* resolve: a tautology is no resolvent
Resolve(positive, negative, v) == (positive \ {v}) \cup (negative \ {-v})

Standing(l) == Range(Holding(l)) \ garbage

Resolvents(v) ==
    LET pairs == SetToSeq(Standing(v) \X Standing(-v))
        all == [k \in DOMAIN pairs |-> Resolve(lits[pairs[k][1]], lits[pairs[k][2]], v)]
    IN Keeping(all, Clauses)

CanEliminate(v) ==
    LET p == Len(Holding(v))
        n == Len(Holding(-v)) IN
    /\ \A a \in Assumed : Var(a) # v
    /\ p + n > 0
    /\ p * n - (p + n) <= GrowthLimit
    /\ Len(Resolvents(v)) <= p + n + GrowthLimit
    /\ \A c \in Range(Resolvents(v)) : c # {} /\ Cardinality(c) <= ResolventWidth

\* only the clauses with the variable unnegated go on the stack
Witness(v) == {lits[r] : r \in Standing(v)}

KeepVariable ==
    /\ stage = "bounded"
    /\ work.at <= MaxVariable
    /\ ~CanEliminate(work.at)
    /\ work' = [work EXCEPT !.at = @ + 1]
    /\ UNCHANGED <<callerVars, clauseLists, extension, stage, pipeline, epochs>>

ApplyElimination ==
    /\ stage = "bounded"
    /\ work.at <= MaxVariable
    /\ CanEliminate(work.at)
    /\ LET added == [k \in 1..Len(Resolvents(work.at)) |-> Len(lits) + k] IN
       /\ extension' = Append(extension, [kind |-> "bve", var |-> work.at, witness |-> Witness(work.at)])
       /\ garbage' = garbage \cup Range(Holding(work.at)) \cup Range(Holding(-work.at))
       /\ lits' = lits \o Resolvents(work.at)
       /\ irredundant' = irredundant \o added
       /\ work' = [work EXCEPT !.at = @ + 1, !.registered = @ \o added]
    /\ UNCHANGED <<callerVars, redundant, checked, stage, pipeline, epochs>>

EndElimination ==
    /\ stage = "bounded"
    /\ work.at > MaxVariable
    /\ Flush
    /\ Leaving
    /\ UNCHANGED extension

---------------------------------------------------------------------------
(* factorizer *)

\* with a proof consumer attached the pass returns at once
EnterFactorizer ==
    /\ Entering("factorizer")
    /\ work' = [pass |-> "factorizer",
                index |-> Keeping(irredundant, {r \in Range(irredundant) : Cardinality(lits[r]) \in 2..5}),
                highest |-> Max({highestStated} \cup Vars({lits[r] : r \in Range(irredundant)})),
                next |-> work.next]

InIndex == {r \in Range(work.index) : r \notin garbage}

\* the clauses that are a row with another literal in the anchor's place
Matching(row, anchor, l) ==
    {r \in InIndex \ {row} :
        /\ Var(l) # Var(anchor) /\ {l, -l} \cap lits[row] = {}
        /\ lits[r] = (lits[row] \ {anchor}) \cup {l}}

FirstMatching(row, anchor, l) ==
    work.index[Min({k \in DOMAIN work.index : work.index[k] \in Matching(row, anchor, l)})]

\* collect_candidates
Anchors == {l \in UNION {lits[r] : r \in InIndex} : Cardinality({r \in InIndex : l \in lits[r]}) >= 2}

Saving(l, b) == l * b - l - b

\* the fresh variable stands for the conjunction of the selected literals:
\* definitions, then the bodies with it, then the rectangle goes
Factor(anchor, partners, rows) ==
    LET x == work.highest + 1
        selected == {anchor} \cup partners
        definitions == SetToSeq({{-x, l} : l \in selected})
        rowList == SetToSeq(rows)
        bodies == [k \in DOMAIN rowList |-> {x} \cup (lits[rowList[k]] \ {anchor})]
        added == [k \in 1..(Len(definitions) + Len(bodies)) |-> Len(lits) + k]
        rectangle == rows \cup {FirstMatching(row, anchor, l) : row \in rows, l \in partners}
    IN
    /\ extension' = Append(extension, [kind |-> "factor", var |-> x, witness |-> {selected}])
    /\ lits' = lits \o definitions \o bodies
    /\ irredundant' = irredundant \o added
    /\ garbage' = garbage \cup rectangle
    /\ work' = [work EXCEPT !.highest = x, !.index = @ \o added]

\* any rectangle that saves clauses, of those the greedy choice may end with
FactorLiteral ==
    /\ stage = "factorizer"
    /\ ~session.proof
    /\ Len(work.index) >= 3
    /\ work.highest < MaxVariable
    /\ \E anchor \in Anchors :
         \E partners \in SUBSET ((UNION {lits[r] : r \in InIndex}) \ {anchor, -anchor}) :
           \E rows \in SUBSET {r \in InIndex : anchor \in lits[r]} :
             /\ partners # {} /\ Cardinality(rows) >= 2
             /\ \A row \in rows, l \in partners : Matching(row, anchor, l) # {}
             /\ Saving(Cardinality(partners) + 1, Cardinality(rows)) >= 1
             /\ Factor(anchor, partners, rows)
    /\ UNCHANGED <<callerVars, redundant, checked, stage, pipeline, epochs>>

EndFactoring ==
    /\ stage = "factorizer"
    /\ Flush
    /\ Leaving
    /\ UNCHANGED extension

---------------------------------------------------------------------------
(* The search, as far as it changes the clauses, and its epochs. *)

Assignments(clauses) == [Vars(clauses) -> BOOLEAN]
True(m, l) == Var(l) \in DOMAIN m /\ m[Var(l)] = (l > 0)
Holds(m, c) == \E l \in c : True(m, l)
Models(clauses) == {m \in Assignments(clauses) : \A c \in clauses : Holds(m, c)}

Entailed(c) == Vars({c}) \subseteq Vars(Live) /\ \A m \in Models(Live) : Holds(m, c)

Learn ==
    /\ stage = "searching"
    /\ Len(redundant) < MaxLearned
    /\ \E c \in session.learnable \ Live :
         /\ Entailed(c)
         /\ lits' = Append(lits, c)
    /\ redundant' = Append(redundant, Len(lits) + 1)
    /\ UNCHANGED <<callerVars, irredundant, checked, garbage, extension, stage, pipeline, work, epochs>>

\* a reduction: clauses of one or two literals have a glue that protects them
Reduced(r) == Cardinality(lits[r]) > 2

Forget ==
    /\ stage = "searching"
    /\ \E r \in Range(redundant) : Reduced(r) /\ Drop({r})
    /\ UNCHANGED <<callerVars, garbage, extension, stage, pipeline, work, epochs>>

RunEpoch ==
    /\ stage = "searching"
    /\ epochs < MaxEpochs
    /\ stage' = "forward_subsumer"
    /\ pipeline' = "epoch"
    /\ work' = IndexClauses(0)
    /\ epochs' = epochs + 1
    /\ UNCHANGED <<callerVars, clauseLists, extension>>

Answer ==
    /\ stage = "searching"
    /\ stage' = "stating"
    /\ UNCHANGED <<callerVars, clauseLists, extension, pipeline, work, epochs>>

PassInit ==
    /\ session \in Sessions
    /\ episode = 0
    /\ stated = {} /\ lits = <<>> /\ irredundant = <<>> /\ redundant = <<>>
    /\ checked = {} /\ garbage = {} /\ extension = <<>>
    /\ highestStated = 0
    /\ stage = "stating" /\ pipeline = "initial" /\ work = Idle
    /\ epochs = 0

PassNext ==
    \/ Solve \/ EndPipeline \/ SkipPass
    \/ BuildImplicationGraph \/ PruneEdge \/ EndPruning
    \/ CollectClauses \/ CloseUnderLiteral \/ EmitBackbone
    \/ EnterSubsumer \/ SubsumeLeft \/ MarkChecked \/ TakeJustifier \/ StrengthenByPivot \/ EndSubsumption
    \/ BuildOccurrences \/ KeepVariable \/ ApplyElimination \/ EndElimination
    \/ EnterFactorizer \/ FactorLiteral \/ EndFactoring
    \/ Learn \/ Forget \/ RunEpoch \/ Answer

PassSpec == PassInit /\ [][PassNext]_passVars

---------------------------------------------------------------------------
(* What the caller gets back. *)

\* reconstruct_full_model: every record of the stack, the last one first, on
\* the values the records after it have fixed
SetTo(m, v, b) == [u \in DOMAIN m \cup {v} |-> IF u = v THEN b ELSE m[u]]

\* false first, which satisfies the clauses the witness leaves out; then true
\* if some witness clause needs it
Repaired(m, record) ==
    LET low == SetTo(m, record.var, FALSE) IN
    IF \A c \in record.witness : Holds(low, c) THEN low ELSE SetTo(m, record.var, TRUE)

Replayed(m, record) == IF record.kind = "bve" THEN Repaired(m, record) ELSE m

Internal == {record.var : record \in {r \in Range(extension) : r.kind = "factor"}}

Undone(m) ==
    LET full[n \in 0..Len(extension)] ==
            IF n = 0 THEN m ELSE Replayed(full[n - 1], extension[Len(extension) - n + 1])
    IN full[Len(extension)]

Reconstructed(m) == Restrict(Undone(m), DOMAIN Undone(m) \ Internal)

\* complete_introduced_phases: an assignment of the stated variables gives each
\* introduced one the conjunction it stands for, the earliest first
Introduced(m, record) ==
    IF record.kind = "factor" THEN SetTo(m, record.var, \A l \in UNION record.witness : True(m, l)) ELSE m

Completed(m) ==
    LET full[n \in 0..Len(extension)] == IF n = 0 THEN m ELSE Introduced(full[n - 1], extension[n])
    IN full[Len(extension)]

---------------------------------------------------------------------------
(* Properties *)

Named == Vars(stated) \cup {Var(a) : a \in Assumed}

\* Introduced variables are none the caller names.
IntroducedDisjoint == Internal \cap Named = {}

\* Whatever the passes, the search and its reductions did to the clauses, each
\* assignment that satisfies what is left and the assumptions is turned by the
\* replay into one that satisfies every clause stated, and the assumptions.
SolutionsComeBack ==
    \A m \in [Vars(Live) \cup Named \cup Internal -> BOOLEAN] :
        (/\ \A c \in Live : Holds(m, c)
         /\ \A a \in Assumed : True(m, a))
        => LET r == Reconstructed(m) IN
           /\ \A c \in stated : Holds(r, c)
           /\ \A a \in Assumed : True(r, a)

\* No solution is lost: a model of the clauses as stated, with the introduced
\* variables completed, satisfies every clause there is.
SolutionsCarryOver ==
    IntroducedDisjoint =>
        \A m \in Models(stated) : \A c \in Live : Holds(Completed(m), c)

\* Two clauses that count as compared are incomparable, whatever was learned,
\* shortened or removed since: what the incremental pass skips is never owed.
ComparedPairsIncomparable ==
    stage \notin {"probing", "forward_subsumer"} =>
        \A r \in Alive \cap checked : \A s \in (Alive \cap checked) \ {r} : ~(lits[r] \subseteq lits[s])

=============================================================================
