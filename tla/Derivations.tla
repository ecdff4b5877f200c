---------------------------- MODULE Derivations ----------------------------
(***************************************************************************)
(* What the engine's conflict analysis leaves for others: the chain of     *)
(* antecedents by which a proof consumer checks the learned clause, and    *)
(* the activities from which the next decisions are taken.  The analysis,  *)
(* the minimization with its marks, the collection of the three parts of   *)
(* the chain and the reason-side bumping are run as the code runs them, on *)
(* searches whose decisions come out of the activity heap and whose        *)
(* restarts keep a prefix of the trail.                                    *)
(***************************************************************************)
EXTENDS VarHeap, SequencesExt, FiniteSetsExt, Folds

CONSTANTS
    AxiomChoices,       \* formulas, a sequence of clauses without repeated variables
    WantedChoices,      \* assumptions of an episode
    DepthLimit,         \* minimize_depth_limit
    BumpSizeLimit,      \* reason_bump_size_limit
    HeapMaintenance,    \* evsids_maintenance_interval_
    MaxMet,             \* bound: conflicts met
    MaxSearches         \* bound: episodes

VARIABLES
    axioms,     \* the stated clauses; a reference is a position
    lemmas,     \* the learned clauses and the chains they were derived by
    path,       \* trail_, with the level and reason of each literal
    heads,      \* control_ above the root: decision and trail_begin
    ranking,    \* heap_
    assumed,     \* the assumptions of this episode
    met,        \* conflict_event_count
    searches,   \* episodes begun
    point       \* "search" or "idle"

derivationVars == <<axioms, lemmas, path, heads, ranking, assumed, met, searches, point>>

Axiom == 0      \* the reason of a decision
Ref(r) == IF r <= Len(axioms) THEN axioms[r] ELSE lemmas[r - Len(axioms)].clause
References == 1..(Len(axioms) + Len(lemmas))
VarAt(l) == IF l < 0 THEN -l ELSE l
Value(l) == IF \E i \in 1..Len(path) : path[i].lit = l THEN 1
            ELSE IF \E i \in 1..Len(path) : path[i].lit = -l THEN -1 ELSE 0
TrailPlace(v) == CHOOSE i \in 1..Len(path) : VarAt(path[i].lit) = v
LevelAt(v) == path[TrailPlace(v)].level
ReasonAt(v) == path[TrailPlace(v)].reason
OthersOf(r, v) == SelectSeq(Ref(r), LAMBDA l : VarAt(l) # v)

-----------------------------------------------------------------------------
\* collect_root_chain, collect_minimize_chain: what a clause rests on comes
\* before it, and every variable is asked for once
NoChain == [stamped |-> {}, root |-> <<>>, minimized |-> <<>>]

RECURSIVE RootChain(_, _)
RootChain(c, v) ==
    IF v \in c.stamped THEN c
    ELSE LET marked == [c EXCEPT !.stamped = @ \cup {v}]
             before == FoldLeft(LAMBDA d, l : RootChain(d, VarAt(l)), marked, OthersOf(ReasonAt(v), v))
         IN [before EXCEPT !.root = Append(@, ReasonAt(v))]

RECURSIVE MinimizeChain(_, _, _)
MinimizeChain(c, flags, v) ==
    IF v \in c.stamped THEN c
    ELSE LET marked == [c EXCEPT !.stamped = @ \cup {v}]
             through(d, l) == IF LevelAt(VarAt(l)) = 0 THEN RootChain(d, VarAt(l))
                              ELSE IF VarAt(l) \in flags.removable \ flags.keep
                                   THEN MinimizeChain(d, flags, VarAt(l)) ELSE d
             before == FoldLeft(through, marked, OthersOf(ReasonAt(v), v))
         IN [before EXCEPT !.minimized = Append(@, ReasonAt(v))]

-----------------------------------------------------------------------------
\* analyze_literal, and the resolution from the conflict back to the first
\* literal of the current level that alone implies it
AnalyzedLiteral(s, l) ==
    LET v == VarAt(l)
    IN IF LevelAt(v) = 0 THEN [s EXCEPT !.chain = RootChain(@, v)]
       ELSE IF v \in ToSet(s.analyzed) THEN s
       ELSE [s EXCEPT !.analyzed = Append(@, v),
                      !.tail = IF LevelAt(v) < Len(heads) THEN Append(@, l) ELSE @,
                      !.open = IF LevelAt(v) < Len(heads) THEN @ ELSE @ + 1]

RECURSIVE Resolution(_, _)
Resolution(s, r) ==
    LET read == FoldLeft(AnalyzedLiteral, [s EXCEPT !.resolved = Append(@, r)],
                         SelectSeq(Ref(r), LAMBDA l : l # s.uip))
        at == Max({i \in 1..(s.at - 1) : /\ VarAt(path[i].lit) \in ToSet(read.analyzed)
                                         /\ path[i].level = Len(heads)})
        next == [read EXCEPT !.at = at, !.uip = path[at].lit, !.open = @ - 1]
    IN IF next.open = 0 THEN next ELSE Resolution(next, path[at].reason)

Resolved(r) == Resolution([analyzed |-> <<>>, tail |-> <<>>, open |-> 0, uip |-> 0, at |-> Len(path) + 1,
                           resolved |-> <<>>, chain |-> NoChain], r)

-----------------------------------------------------------------------------
\* minimize_literal: what its early rejections and the marks so far say
SeenAt(s, level) == {v \in ToSet(s.analyzed) : LevelAt(v) = level}
Settled(flags, v) == LevelAt(v) = 0 \/ v \in flags.removable \cup flags.keep
Rejected(s, flags, v, depth) ==
    \/ ReasonAt(v) = Axiom \/ v \in flags.poison \/ LevelAt(v) = Len(heads)
    \/ depth = 0 /\ Cardinality(SeenAt(s, LevelAt(v))) < 2
    \/ \A u \in SeenAt(s, LevelAt(v)) : TrailPlace(v) <= TrailPlace(u)
    \/ depth > DepthLimit

RECURSIVE Visited(_, _, _, _)
Visited(s, flags, v, depth) ==
    IF Settled(flags, v) THEN [flags |-> flags, ok |-> TRUE]
    ELSE IF Rejected(s, flags, v, depth) THEN [flags |-> flags, ok |-> FALSE]
    ELSE LET visit(a, l) == IF a.ok THEN Visited(s, a.flags, VarAt(l), depth + 1) ELSE a
             below == FoldLeft(visit, [flags |-> flags, ok |-> TRUE], OthersOf(ReasonAt(v), v))
         IN IF below.ok THEN [below EXCEPT !.flags.removable = @ \cup {v}]
            ELSE [below EXCEPT !.flags.poison = @ \cup {v}]

\* literals earlier on the trail are decided first
MinimizedLiteral(s, m, l) ==
    LET visit == Visited(s, m.flags, VarAt(l), 0)
    IN IF visit.ok THEN [m EXCEPT !.flags = visit.flags, !.chain = MinimizeChain(@, visit.flags, VarAt(l))]
       ELSE [m EXCEPT !.flags = [visit.flags EXCEPT !.keep = @ \cup {VarAt(l)}], !.tail = Append(@, l)]

Minimized(s) ==
    FoldLeft(LAMBDA m, l : MinimizedLiteral(s, m, l),
             [flags |-> [removable |-> {}, keep |-> {}, poison |-> {}], tail |-> <<>>, chain |-> s.chain],
             SortSeq(s.tail, LAMBDA a, b : TrailPlace(VarAt(a)) < TrailPlace(VarAt(b))))

\* the literal of the highest level after the first goes second
BestFirst(tail) ==
    IF tail = <<>> THEN tail
    ELSE LET best == CHOOSE i \in DOMAIN tail :
                       /\ \A j \in DOMAIN tail : LevelAt(VarAt(tail[j])) <= LevelAt(VarAt(tail[i]))
                       /\ \A j \in 1..(i - 1) : LevelAt(VarAt(tail[j])) < LevelAt(VarAt(tail[i]))
         IN [tail EXCEPT ![1] = tail[best], ![best] = tail[1]]

\* the reasons of a short clause's literals are bumped with what was analyzed
ReasonSide(s, tail) ==
    LET of(a, l) == FoldLeft(LAMBDA b, k : IF VarAt(k) \in ToSet(b) \/ LevelAt(VarAt(k)) = 0 THEN b
                                           ELSE Append(b, VarAt(k)),
                             a, IF ReasonAt(VarAt(l)) = Axiom THEN <<>> ELSE Ref(ReasonAt(VarAt(l))))
    IN IF Len(tail) + 1 > BumpSizeLimit THEN s.analyzed ELSE FoldLeft(of, s.analyzed, tail)

\* learn_clause: root units, then what was minimized away, then the
\* resolution from its end; a bug leaves the minimized literals unexplained
HintsOfResolution(chain, resolved) == chain.root \o Reverse(resolved)
Hints(chain, resolved) == chain.root \o chain.minimized \o Reverse(resolved)

-----------------------------------------------------------------------------
\* backtrack: what is unassigned is a candidate again, the newest first
Target(level) == IF level < Len(heads) THEN heads[level + 1].begin ELSE Len(path)
PathAt(level) == SubSeq(path, 1, Target(level))
HeadsAt(level) == IF level < Len(heads) THEN SubSeq(heads, 1, level) ELSE heads
RankingAt(h, level) ==
    FoldLeft(LAMBDA g, e : IF InHeap(g, VarAt(e.lit)) THEN g ELSE Pushed(g, VarAt(e.lit)),
             h, Reverse(SubSeq(path, Target(level) + 1, Len(path))))

Entered(l) == /\ heads' = Append(heads, [decision |-> l, begin |-> Len(path)])
              /\ path' = IF l = 0 THEN path ELSE Append(path, [lit |-> l, level |-> Len(heads) + 1, reason |-> Axiom])

\* note_conflict: the periodic maintenance of the activities
Maintained(h, conflicts) == IF conflicts % HeapMaintenance = 0 THEN Rescaled(h, 2) ELSE h

Falsified(r) == \A i \in DOMAIN Ref(r) : Value(Ref(r)[i]) = -1
Implies(r, l) == /\ l \in ToSet(Ref(r)) /\ Value(l) = 0
                 /\ \A k \in ToSet(Ref(r)) \ {l} : Value(k) = -1
Complete == \A r \in References : ~Falsified(r) /\ \A l \in ToSet(Ref(r)) : ~Implies(r, l)

\* the candidates in front that are assigned are taken out
RECURSIVE Exposed(_)
Exposed(h) == IF h.tree = <<>> THEN h
              ELSE IF Value(h.tree[1]) = 0 THEN h ELSE Exposed(Popped(h))

-----------------------------------------------------------------------------
DerivationInit ==
    /\ axioms \in AxiomChoices
    /\ lemmas = <<>> /\ path = <<>> /\ heads = <<>> /\ assumed = <<>>
    /\ ranking = EmptyHeap /\ met = 0 /\ searches = 0 /\ point = "idle"

\* prepare_episode: every variable is a candidate, with the scores it has
BeginSearch ==
    /\ point = "idle" /\ searches < MaxSearches
    /\ assumed' \in WantedChoices
    /\ ranking' = FoldLeft(Pushed, Emptied(ranking), [v \in Ranked |-> v])
    /\ path' = <<>> /\ heads' = <<>> /\ point' = "search" /\ searches' = searches + 1
    /\ UNCHANGED <<axioms, lemmas, met>>

\* assign_root_units and propagate, in whatever order the watches give
ImplyNext ==
    /\ point = "search"
    /\ \E r \in References : \E l \in ToSet(Ref(r)) :
         /\ Implies(r, l)
         /\ path' = Append(path, [lit |-> l, level |-> Len(heads), reason |-> r])
    /\ UNCHANGED <<axioms, lemmas, heads, ranking, assumed, met, searches, point>>

\* analyze_conflict, learn_clause and note_conflict
LearnFrom(r) ==
    LET s == Resolved(r)
        m == Minimized(s)
        tail == BestFirst(m.tail)
        bumped == Decayed(FoldLeft(Bumped, ranking, ReasonSide(s, tail)))
        back == IF tail = <<>> THEN 0 ELSE LevelAt(VarAt(tail[1]))
    IN /\ lemmas' = Append(lemmas, [clause |-> <<-s.uip>> \o tail, chain |-> Hints(m.chain, s.resolved)])
       /\ path' = Append(PathAt(back), [lit |-> -s.uip, level |-> back, reason |-> Len(axioms) + Len(lemmas) + 1])
       /\ heads' = HeadsAt(back)
       /\ ranking' = Maintained(RankingAt(bumped, back), met + 1)

MeetConflict ==
    /\ point = "search" /\ met < MaxMet /\ heads # <<>>
    /\ \E r \in References : Falsified(r) /\ LearnFrom(r)
    /\ met' = met + 1
    /\ UNCHANGED <<axioms, assumed, searches, point>>

\* run_search: an assumption is decided, or holds already, and a falsified
\* one ends the episode like a conflict
Assume ==
    /\ point = "search" /\ Complete /\ Len(heads) < Len(assumed)
    /\ LET l == assumed[Len(heads) + 1]
       IN IF Value(l) = -1
          THEN point' = "idle" /\ met' = met + 1 /\ ranking' = Maintained(ranking, met + 1) /\ UNCHANGED <<path, heads>>
          ELSE Entered(IF Value(l) = 1 THEN 0 ELSE l) /\ UNCHANGED <<point, met, ranking>>
    /\ UNCHANGED <<axioms, lemmas, assumed, searches>>

TakeDecision ==
    /\ point = "search" /\ Complete /\ Len(heads) >= Len(assumed)
    /\ LET open == Exposed(ranking)
       IN IF open.tree = <<>> THEN point' = "idle" /\ ranking' = open /\ UNCHANGED <<path, heads>>
          ELSE /\ ranking' = Popped(open)
               /\ \E negative \in BOOLEAN : Entered(IF negative THEN -open.tree[1] ELSE open.tree[1])
               /\ UNCHANGED point
    /\ UNCHANGED <<axioms, lemmas, assumed, met, searches>>

\* restart: the levels whose decisions would come out of the heap again stay
Reused(open) ==
    LET again(i) == /\ heads[i].decision # 0
                    /\ open.score[VarAt(heads[i].decision)] >= open.score[open.tree[1]]
        from == Len(assumed)
    IN IF open.tree = <<>> THEN from
       ELSE Max({n \in from..Len(heads) : \A i \in (from + 1)..n : again(i)})
KeepsTrail ==
    /\ point = "search" /\ Complete /\ Len(heads) > Len(assumed)
    /\ LET open == Exposed(ranking)
           reuse == Reused(open)
       IN path' = PathAt(reuse) /\ heads' = HeadsAt(reuse) /\ ranking' = RankingAt(open, reuse)
    /\ UNCHANGED <<axioms, lemmas, assumed, met, searches, point>>

\* root_conflict, a limit or a found solution ends an episode anywhere
EndSearch ==
    /\ point = "search"
    /\ \E refuted \in BOOLEAN :
         /\ refuted => heads = <<>> /\ \E r \in References : Falsified(r)
         /\ met' = IF refuted THEN met + 1 ELSE met
         /\ ranking' = IF refuted THEN Maintained(ranking, met + 1) ELSE ranking
    /\ point' = "idle"
    /\ UNCHANGED <<axioms, lemmas, path, heads, assumed, searches>>

DerivationNext == \/ BeginSearch \/ ImplyNext \/ MeetConflict \/ Assume
                  \/ TakeDecision \/ KeepsTrail \/ EndSearch

-----------------------------------------------------------------------------
\* lrat::verify_chain: with the clause assumed false every hint is a unit, and
\* the last one is falsified
Checks(clause, chain) ==
    LET step(a, r) ==
          LET left == {l \in ToSet(Ref(r)) : -l \notin a.true}
          IN IF a.done \/ ~a.ok THEN a
             ELSE IF \E l \in left : l \in a.true THEN [a EXCEPT !.ok = FALSE]
             ELSE IF left = {} THEN [a EXCEPT !.done = TRUE]
             ELSE [a EXCEPT !.true = @ \cup left, !.ok = Cardinality(left) = 1]
    IN FoldLeft(step, [true |-> {-l : l \in ToSet(clause)}, ok |-> TRUE, done |-> FALSE], chain).done

\* Every learned clause, minimized or not, is checked by the chain the engine
\* hands to the proof: root units first, then the reasons that removed
\* literals, then the resolution backwards (solver_core.cpp 957-992, 1223-1237).
ChainsCheck == \A i \in 1..Len(lemmas) : Checks(lemmas[i].clause, lemmas[i].chain)

\* No variable is lost to the decisions: during a search whatever is not
\* assigned is in the heap, which is in order (var_heap.cpp, and every place of
\* solver_core.cpp that pops, pushes, bumps and rescales).
HeapServes == /\ Sound(ranking)
              /\ point = "search" => \A v \in Ranked : Value(v) = 0 => InHeap(ranking, v)

DerivationsKept == ChainsCheck /\ HeapServes
=============================================================================
