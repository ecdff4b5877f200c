---------------------------- MODULE CdclInductive ----------------------------
(***************************************************************************)
(* The inductive strengthening behind the soundness of module Cdcl: what   *)
(* must hold in every state for the clauses learned and the verdicts given *)
(* to follow from the clauses stated.                                      *)
(***************************************************************************)
EXTENDS CdclProps

\* No variable of the trail tr is assigned twice; levels grow along it, and a
\* level begins where its frame in ctl says.
OrderedTrail(tr, ctl) ==
  /\ \A i, j \in 1..Len(tr) : VarOf(tr[i].lit) = VarOf(tr[j].lit) => i = j
  /\ \A i \in 1..Len(tr) : tr[i].level <= Len(ctl)
  /\ \A k \in 1..Len(ctl) : ctl[k].trail_begin <= Len(tr)
  /\ \A i \in 1..Len(tr), k \in 1..Len(ctl) :
       i <= ctl[k].trail_begin <=> tr[i].level < k
TrailOrdered == OrderedTrail(trail, control)

\* A literal without a reason is the decision that opened its level, and on a
\* level of the assumptions as it is that assumption.
OpenedByDecisions(tr, ctl, as) ==
  \A i \in 1..Len(tr) : tr[i].reason = 0 =>
    /\ tr[i].level >= 1
    /\ i = ctl[tr[i].level].trail_begin + 1
    /\ tr[i].level <= Len(as) => tr[i].lit = as[tr[i].level]
DecisionsOpen == OpenedByDecisions(trail, control, request.assumptions)

\* The lucky assignments run only where nothing is assumed.
LuckyUnassumed == mode = "lucky" => request.assumptions = <<>>

\* ReasonsJustify, of any trail and database.
Justified(tr, cs) ==
  \A i \in 1..Len(tr) : tr[i].reason # 0 =>
    /\ tr[i].reason \in 1..Len(cs)
    /\ cs[tr[i].reason].alive
    /\ tr[i].lit \in cs[tr[i].reason].lits
    /\ \A k \in cs[tr[i].reason].lits \ {tr[i].lit} :
         \E j \in 1..i-1 : tr[j].lit = -k
TrailJustified == Justified(trail, clauses)

\* A root literal holds in every model of the stated clauses f.
RootHolds(tr, f) ==
  \A m \in Models(f) : \A i \in 1..Len(tr) : tr[i].level = 0 => tr[i].lit \in m
RootEntailed == RootHolds(trail, problem)

\* A watched pair is two literals of the clause; a unit is too short for one.
PairsAndUnits ==
  /\ \A r \in Refs : clauses[r].head # {} =>
       \E a, b \in clauses[r].lits : a # b /\ clauses[r].head = {a, b}
  /\ \A r \in units : r \in Alive /\ Short(clauses[r].lits)
  /\ pc = "units" => unit_queue \subseteq units /\ Level = 0

\* An entry names a live clause that watches the literal, blocks on another
\* literal of it, and is the only entry of that clause in its list.
WatchEntries ==
  /\ \A l \in Lits : \A e \in watches[l] :
       /\ e.ref \in Alive
       /\ l \in clauses[e.ref].head
       /\ e.blocking \in clauses[e.ref].lits \ {l}
  /\ \A l \in Lits : \A e, f \in watches[l] : e.ref = f.ref => e = f

\* Whatever is still to be propagated, or is being propagated when a conflict
\* shows, belongs to the current level.
QueueAtLevel ==
  pc # "idle" =>
    /\ \A i \in Positions : i > propagated => trail[i].level = Level
    /\ pending # {} => /\ pc = "propagate"
                       /\ pending \subseteq watches[NotLit]
    /\ pending # {} \/ pc \in {"conflict", "analyze", "learn"} =>
         propagated \in Positions /\ trail[propagated].level = Level

\* A clause propagation returns is falsified, at the current level at last.
ConflictFalsified ==
  pc = "conflict" =>
    /\ conflict \in Refs
    /\ \A k \in clauses[conflict].lits : IsFalse(k)
    /\ \E k \in clauses[conflict].lits : LevelOf(k) = Level

\* Analysis before its first resolution.
AnalysisBegun ==
  /\ pc = "analyze"
  /\ analysis.seen = {} /\ analysis.learned = {} /\ analysis.open = {}
  /\ analysis.reason \in Refs
  /\ \A k \in clauses[analysis.reason].lits : IsFalse(k)
  /\ \E k \in clauses[analysis.reason].lits : LevelOf(k) = Level

\* What analysis still has to resolve away, as literals of the resolvent.
OpenLits == {-trail[i].lit : i \in {j \in Positions : VarOf(trail[j].lit) \in analysis.open}}
Resolvent == analysis.learned \cup OpenLits \cup {-analysis.uip}

\* Analysis at the literal on position p: everything open lies before it,
\* everything else it has seen was kept or resolved away, and the resolvent
\* follows from the stated clauses.
AnalysisAt(p) ==
  /\ trail[p].lit = analysis.uip
  /\ trail[p].level = Level
  /\ \A v \in analysis.open :
       \E i \in 1..p-1 : VarOf(trail[i].lit) = v /\ trail[i].level = Level
  /\ \A v \in analysis.seen :
       \/ v \in analysis.open
       \/ \E l \in analysis.learned : VarOf(l) = v
       \/ \E i \in p..Len(trail) : VarOf(trail[i].lit) = v
  /\ \A m \in Models(problem) : m \cap Resolvent # {}
  /\ pc = "analyze" => /\ analysis.open # {}
                       /\ analysis.reason # 0
                       /\ analysis.reason = trail[p].reason
  /\ pc = "learn" => analysis.open = {}

AnalysisSound ==
  pc \in {"analyze", "learn"} =>
    /\ Level > 0
    /\ \A l \in analysis.learned :
         \E i \in Positions : /\ trail[i].lit = -l
                              /\ 0 < trail[i].level /\ trail[i].level < Level
    /\ \/ analysis.uip = 0 /\ AnalysisBegun
       \/ \E p \in Positions : AnalysisAt(p)

\* The inductive invariant.
IInv ==
  /\ TypeOK
  /\ ClausesEntailed
  /\ UnsatSound
  /\ TrailOrdered
  /\ DecisionsOpen
  /\ LuckyUnassumed
  /\ TrailJustified
  /\ RootEntailed
  /\ PairsAndUnits
  /\ WatchEntries
  /\ QueueAtLevel
  /\ ConflictFalsified
  /\ AnalysisSound
=============================================================================
