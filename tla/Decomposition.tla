---------------------------- MODULE Decomposition ----------------------------
(***************************************************************************)
(* Equivalent variables: simplify::engine::decomposition finds the strongly *)
(* connected components of an implication graph with Tarjan's algorithm,   *)
(* equivalence_substitutor rewrites the clauses, the watch lists and the   *)
(* external mapping to the representatives.  The scheduler runs the pass   *)
(* from the components to the mapping in one go; implications come in      *)
(* between passes.  A recursive call of strong_connect is a frame.         *)
(***************************************************************************)
EXTENDS Integers, Sequences, FiniteSets, SequencesExt, FiniteSetsExt, Functions

CONSTANTS Nodes,        \* the variables, positive integers
          TextChoices,  \* clauses there may be: sequences of literals
          StartGraphs,  \* implications there may be at the start
          MaxGraphCalls,\* calls that edit the graph or reset the counters
          MaxRuns       \* passes

VARIABLES
    implications,       \* implication_edges_, adjacency_, nodes_
    tarjan,             \* the search for components: frames, stack, numbers
    components,         \* components_
    substitutions,      \* substitutions_
    emitted,            \* substitutions_emitted_
    rewriteMap,         \* rewrite_map_ of the substitutor
    pendingRewrites,    \* pending_rewrites_
    texts,              \* the clauses, by place
    watchers,           \* who watches: pairs of a literal and a clause
    externals,          \* external_to_internal_
    turn,               \* what the pass does next
    graphCalls,         \* calls made, at most MaxGraphCalls
    runs,               \* passes made, at most MaxRuns
    tally               \* the counters the class checks against each other

graphVars == <<implications, graphCalls, runs>>
resultVars == <<components, substitutions, emitted>>
rewriteVars == <<rewriteMap, pendingRewrites, texts, watchers, externals>>
decompositionVars == <<graphVars, resultVars, rewriteVars, tarjan, turn, tally>>

GraphNodes == UNION {{i[1], i[2]} : i \in implications}
Successors(n) == {i[2] : i \in {j \in implications : j[1] = n}}

NoSearch == [frames |-> <<>>, index |-> <<>>, low |-> <<>>, stack |-> <<>>]
NoResets == [graph |-> 0, run |-> 0, emit |-> 0, telemetry |-> 0, clear |-> 0]
NoGraphTally == [attempts |-> 0, zeros |-> 0, duplicates |-> 0]
NoRunTally == [componentCount |-> 0, singletons |-> 0, groups |-> 0, generated |-> 0, equivalences |-> 0]
NoEmitTally == [emitRuns |-> 0, total |-> 0, last |-> 0]
NoTally == NoGraphTally @@ NoRunTally @@ NoEmitTally @@ NoResets

---------------------------------------------------------------------------
(* Between passes: the graph and the counters. *)

Editing ==
    /\ turn = "idle"
    /\ graphCalls < MaxGraphCalls
    /\ graphCalls' = graphCalls + 1
    /\ UNCHANGED <<rewriteVars, tarjan, turn, runs>>

\* implications are read off the clauses, where a rewritten variable is no more;
\* a node of zero is turned away
AddImplication ==
    /\ Editing
    /\ \E from, to \in {0} \cup (Nodes \ DOMAIN rewriteMap) :
         /\ implications' = IF 0 \in {from, to} THEN implications ELSE implications \cup {<<from, to>>}
         /\ tally' = [tally EXCEPT !.attempts = @ + 1,
                                   !.zeros = @ + (IF 0 \in {from, to} THEN 1 ELSE 0),
                                   !.duplicates = @ + (IF <<from, to>> \in implications THEN 1 ELSE 0)]
    /\ UNCHANGED resultVars

ResetGraph(t) == [NoGraphTally @@ t EXCEPT !.graph = @ + 1]
ResetRun(t) == [NoRunTally @@ t EXCEPT !.run = @ + 1]
ResetEmit(t) == [NoEmitTally @@ t EXCEPT !.emit = @ + 1]
ResetAll(t) == ResetEmit(ResetRun(ResetGraph([t EXCEPT !.telemetry = @ + 1])))

Forgotten == components' = {} /\ substitutions' = {} /\ emitted' = FALSE

ResetGraphMetrics ==
    /\ Editing
    /\ tally' = ResetGraph(tally)
    /\ UNCHANGED <<implications, resultVars>>

ResetRunMetrics ==
    /\ Editing
    /\ Forgotten
    /\ tally' = ResetRun(tally)
    /\ UNCHANGED implications

ResetEmitMetrics ==
    /\ Editing
    /\ emitted' = FALSE
    /\ tally' = ResetEmit(tally)
    /\ UNCHANGED <<implications, components, substitutions>>

ResetTelemetryMetrics ==
    /\ Editing
    /\ Forgotten
    /\ tally' = ResetAll(tally)
    /\ UNCHANGED implications

ClearGraph ==
    /\ Editing
    /\ implications' = {}
    /\ Forgotten
    /\ tally' = ResetAll([tally EXCEPT !.clear = @ + 1])

---------------------------------------------------------------------------
(* run_scc *)

BeginScc ==
    /\ turn = "idle"
    /\ runs < MaxRuns
    /\ runs' = runs + 1
    /\ Forgotten
    /\ tarjan' = NoSearch
    /\ tally' = [tally EXCEPT !.singletons = 0, !.groups = 0,
                              !.componentCount = IF implications = {} THEN 0 ELSE @,
                              !.equivalences = IF implications = {} THEN 0 ELSE @]
    /\ turn' = IF implications = {} THEN "components" ELSE "connecting"
    /\ UNCHANGED <<implications, graphCalls, rewriteVars>>

Numbered == DOMAIN tarjan.index
OnStack(n) == n \in Range(tarjan.stack)
Top == Last(tarjan.frames)

\* strong_connect is entered: the node gets the next number
Entered(t, n) ==
    LET next == Cardinality(DOMAIN t.index) IN
    [frames |-> Append(t.frames, [node |-> n, todo |-> Successors(n)]),
     index |-> (n :> next) @@ t.index,
     low |-> (n :> next) @@ t.low,
     stack |-> Append(t.stack, n)]

Lowered(t, n, by) == [t EXCEPT !.low[n] = IF by < @ THEN by ELSE @]

ConnectRoot ==
    /\ turn = "connecting" /\ tarjan.frames = <<>>
    /\ GraphNodes \ Numbered # {}
    /\ tarjan' = Entered(tarjan, Min(GraphNodes \ Numbered))
    /\ UNCHANGED <<graphVars, resultVars, rewriteVars, turn, tally>>

\* a bug: a successor in a finished component lowers the link too
RelaxedByAny(t, n, s) == Lowered(t, n, t.index[s])

\* the edge to a numbered successor: only one that is on the stack counts
Relaxed(t, n, s) == IF OnStack(s) THEN Lowered(t, n, t.index[s]) ELSE t

ScanSuccessor ==
    /\ turn = "connecting" /\ tarjan.frames # <<>>
    /\ Top.todo # {}
    /\ LET s == Min(Top.todo)
           t == [tarjan EXCEPT !.frames[Len(tarjan.frames)].todo = @ \ {s}] IN
       tarjan' = IF s \in Numbered THEN Relaxed(t, Top.node, s) ELSE Entered(t, s)
    /\ UNCHANGED <<graphVars, resultVars, rewriteVars, turn, tally>>

\* strong_connect returns: a root takes its component off the stack, and the
\* caller lowers its link by the callee's
ReturnFromNode ==
    /\ turn = "connecting" /\ tarjan.frames # <<>>
    /\ Top.todo = {}
    /\ LET n == Top.node
           at == CHOOSE k \in DOMAIN tarjan.stack : tarjan.stack[k] = n
           root == tarjan.low[n] = tarjan.index[n]
           rest == Front(tarjan.frames)
           t == [tarjan EXCEPT !.frames = rest,
                               !.stack = IF root THEN SubSeq(@, 1, at - 1) ELSE @] IN
       /\ components' = IF root THEN components \cup {Range(SubSeq(tarjan.stack, at, Len(tarjan.stack)))}
                                ELSE components
       /\ tarjan' = IF rest = <<>> THEN t ELSE Lowered(t, Last(rest).node, tarjan.low[n])
    /\ UNCHANGED <<graphVars, substitutions, emitted, rewriteVars, turn, tally>>

Groups == {c \in components : Cardinality(c) > 1}

EndScc ==
    /\ turn = "connecting" /\ tarjan.frames = <<>>
    /\ GraphNodes \subseteq Numbered
    /\ tally' = [tally EXCEPT !.singletons = @ + Cardinality(components \ Groups),
                              !.groups = @ + Cardinality(Groups),
                              !.componentCount = Cardinality(components)]
    /\ turn' = "components"
    /\ UNCHANGED <<graphVars, resultVars, rewriteVars, tarjan>>

---------------------------------------------------------------------------
(* From the components to the substitutor. *)

FindEquivalences ==
    /\ turn = "components"
    /\ substitutions' = UNION {{<<n, Min(c)>> : n \in c \ {Min(c)}} : c \in Groups}
    /\ tally' = [tally EXCEPT !.generated = Cardinality(substitutions'),
                              !.equivalences = Cardinality(substitutions')]
    /\ turn' = "found"
    /\ UNCHANGED <<graphVars, components, emitted, rewriteVars, tarjan>>

\* apply_equivalence_class for each pair: the latest one counts
Emitting ==
    /\ rewriteMap' = [n \in {s[1] : s \in substitutions} |->
                        (CHOOSE s \in substitutions : s[1] = n)[2]] @@ rewriteMap
    /\ pendingRewrites' = pendingRewrites \o SetToSeq(substitutions)
    /\ emitted' = TRUE
    /\ tally' = [tally EXCEPT !.emitRuns = @ + 1, !.total = @ + Cardinality(substitutions),
                              !.last = Cardinality(substitutions)]

\* emit_substitutions does nothing a second time
EmitSubstitutions ==
    /\ turn \in {"idle", "found"}
    /\ turn = "idle" => ~emitted /\ substitutions # {}
    /\ Emitting
    /\ turn' = IF turn = "found" THEN "emitted" ELSE turn
    /\ UNCHANGED <<graphVars, components, substitutions, texts, watchers, externals, tarjan>>

---------------------------------------------------------------------------
(* equivalence_substitutor *)

\* resolve_representative, at most as many steps as there are entries
Representative(n) ==
    LET chase[k \in Nat] == IF k = 0 THEN n
                            ELSE LET m == chase[k - 1] IN IF m \in DOMAIN rewriteMap THEN rewriteMap[m] ELSE m
    IN chase[Cardinality(DOMAIN rewriteMap)]

\* remap_literal: the sign stays
Remapped(l) == IF l > 0 THEN Representative(l) ELSE -Representative(-l)

RewriteClauses ==
    /\ turn = "emitted"
    /\ texts' = IF pendingRewrites = <<>> THEN texts
                ELSE [k \in DOMAIN texts |-> [j \in DOMAIN texts[k] |-> Remapped(texts[k][j])]]
    /\ turn' = "clauses"
    /\ UNCHANGED <<graphVars, resultVars, rewriteMap, pendingRewrites, watchers, externals, tarjan, tally>>

\* reindex_after_compaction: each list moves to the literal that replaces its own
RewriteWatches ==
    /\ turn = "clauses"
    /\ watchers' = IF pendingRewrites = <<>> THEN watchers ELSE {<<Remapped(w[1]), w[2]>> : w \in watchers}
    /\ turn' = "watches"
    /\ UNCHANGED <<graphVars, resultVars, rewriteMap, pendingRewrites, texts, externals, tarjan, tally>>

\* the internal variables that were replaced, and by which
Permutation ==
    [n \in {p[1] : p \in Range(pendingRewrites)} |->
        Representative(pendingRewrites[Max({k \in DOMAIN pendingRewrites : pendingRewrites[k][1] = n})][2])]

RewriteExternal ==
    /\ turn = "watches"
    /\ externals' = [v \in DOMAIN externals |->
                       IF externals[v] \in DOMAIN Permutation THEN Permutation[externals[v]] ELSE externals[v]]
    /\ pendingRewrites' = <<>>
    /\ turn' = "idle"
    /\ UNCHANGED <<graphVars, resultVars, rewriteMap, texts, watchers, tarjan, tally>>

WatchPairs == UNION {{<<texts[k][1], k>>, <<texts[k][2], k>>} : k \in DOMAIN texts}

DecompositionInit ==
    /\ implications \in StartGraphs /\ graphCalls = Cardinality(implications) /\ runs = 0
    /\ components = {} /\ substitutions = {} /\ emitted = FALSE
    /\ tarjan = NoSearch /\ turn = "idle"
    /\ rewriteMap = <<>> /\ pendingRewrites = <<>>
    /\ texts \in TextChoices
    /\ watchers = WatchPairs
    /\ externals = [n \in Nodes |-> n]
    /\ tally = [NoTally EXCEPT !.attempts = Cardinality(implications)]

DecompositionNext ==
    \/ AddImplication \/ ClearGraph
    \/ ResetGraphMetrics \/ ResetRunMetrics \/ ResetEmitMetrics \/ ResetTelemetryMetrics
    \/ BeginScc \/ ConnectRoot \/ ScanSuccessor \/ ReturnFromNode \/ EndScc
    \/ FindEquivalences \/ EmitSubstitutions
    \/ RewriteClauses \/ RewriteWatches \/ RewriteExternal

---------------------------------------------------------------------------
(* consistency_metrics_snapshot: the counters checked against each other. *)

Accepted == tally.attempts - tally.zeros - tally.duplicates
Consistent ==
    /\ Accepted >= 0
    /\ tally.singletons + tally.groups = tally.componentCount
    /\ tally.generated = Cardinality(substitutions)
    /\ tally.equivalences = Cardinality(substitutions)
    /\ tally.total >= tally.last
    /\ tally.emitRuns = 0 => tally.total = 0
    /\ tally.graph >= tally.telemetry /\ tally.run >= tally.telemetry /\ tally.emit >= tally.telemetry
    /\ tally.telemetry >= tally.clear

---------------------------------------------------------------------------
(* Properties *)

Implied(S) == S \cup UNION {Successors(n) : n \in S}
Reached(n) == LET f[k \in 0..Cardinality(Nodes)] == IF k = 0 THEN {n} ELSE Implied(f[k - 1])
              IN f[Cardinality(Nodes)]

\* Two variables of the graph have one representative exactly if each implies
\* the other along the edges.
EquivalencesExact ==
    turn \in {"emitted", "clauses", "watches"} =>
        \A a, b \in GraphNodes :
            (Representative(a) = Representative(b)) <=> (b \in Reached(a) /\ a \in Reached(b))

\* Between passes no clause holds a variable that was replaced, the two first
\* literals of each clause, and no others, are watched for it, and the external
\* mapping, rewritten pass by pass, agrees with the substitutor's chain.
RewritesAgree ==
    turn = "idle" =>
        /\ \A k \in DOMAIN texts : \A j \in DOMAIN texts[k] : Remapped(texts[k][j]) = texts[k][j]
        /\ watchers = WatchPairs
        /\ \A v \in Nodes : externals[v] = Representative(v)

\* What telemetry_consistent checks holds whenever equivalences were looked for
\* after the last components.
TelemetryConsistent == turn \notin {"connecting", "components"} => Consistent

\* The three together, over a series of passes.
SubstitutionCorrect == EquivalencesExact /\ RewritesAgree /\ TelemetryConsistent

=============================================================================
