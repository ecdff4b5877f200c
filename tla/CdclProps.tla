------------------------------ MODULE CdclProps ------------------------------
(***************************************************************************)
(* What the search of module Cdcl promises.  The meaning of a formula is   *)
(* given by total assignments: sets that hold exactly one literal of every *)
(* variable.                                                               *)
(***************************************************************************)
EXTENDS Cdcl

Assignments == {m \in SUBSET Lits : \A v \in Vars : (v \in m) # (-v \in m)}
Models(f) == {m \in Assignments : \A c \in f : m \cap c # {}}

-----------------------------------------------------------------------------
Clause == [lits : SUBSET Lits, head : SUBSET Lits, redundant : BOOLEAN,
           alive : BOOLEAN, core : BOOLEAN]
WatchEntry == [ref : Nat, blocking : Lits]
TrailEntry == [lit : Lits, level : Nat, reason : Nat]
ControlFrame == [trail_begin : Nat, decision : Lits \cup {0}]
Analysis == [seen : SUBSET Vars, learned : SUBSET Lits, open : SUBSET Vars,
             uip : Lits \cup {0}, reason : Nat]

\* Every variable of the engine stays in its type.
TypeOK ==
  /\ calls \in Seq(AddCalls \cup SolveCalls)
  /\ problem \subseteq SUBSET Lits
  /\ clauses \in Seq(Clause)
  /\ watches \in [Lits -> SUBSET WatchEntry]
  /\ units \subseteq Refs
  /\ trail \in Seq(TrailEntry)
  /\ control \in Seq(ControlFrame)
  /\ propagated \in 0..Len(trail)
  /\ pending \subseteq WatchEntry
  /\ heap \subseteq Vars
  /\ variable_count \in 0..NumVars
  /\ request \in SolveCalls
  /\ mode \in {"lucky", "search"}
  /\ strategy \in 0..3
  /\ pc \in {"idle", "units", "propagate", "conflict", "analyze", "learn"}
  /\ unit_queue \subseteq Refs
  /\ conflict \in 0..Len(clauses)
  /\ analysis \in Analysis
  /\ conflicts \in Nat
  /\ decisions \in Nat
  /\ restart_pending \in BOOLEAN
  /\ reduce_pending \in BOOLEAN
  /\ progress \in BOOLEAN
  /\ terminated \in BOOLEAN
  /\ status \in {"unknown", "satisfiable", "unsatisfiable"}
  /\ failed_core \subseteq Lits

-----------------------------------------------------------------------------
(* Soundness of what is learned and answered.                              *)

\* Every clause in the database, learned ones included and whatever the
\* assumptions it was learned under, follows from the clauses the caller
\* stated: later episodes keep it (learn_clause).
ClausesEntailed ==
  \A m \in Models(problem) : \A r \in Refs : m \cap clauses[r].lits # {}

\* "unsatisfiable" comes with failed assumptions of that very request which no
\* model of the stated clauses satisfies together; with none of them, the
\* stated clauses have no model at all (root_conflict, analyze_final).
UnsatSound ==
  pc = "idle" /\ status = "unsatisfiable" =>
    /\ failed_core \subseteq Range1(request.assumptions)
    /\ \A m \in Models(problem) : ~(failed_core \subseteq m)

\* An episode that ends "satisfiable" leaves an assignment of every stated
\* variable that satisfies every stated clause and every assumption
\* (run_search's and try_lucky_assignments' return of satisfiable).
TrailLits == {trail[i].lit : i \in Positions}
ModelSound ==
  [][pc # "idle" /\ pc' = "idle" /\ status' = "satisfiable" =>
       /\ \A c \in problem : TrailLits \cap c # {}
       /\ Range1(request.assumptions) \subseteq TrailLits
       /\ {VarOf(l) : l \in TrailLits} = 1..variable_count]_vars

-----------------------------------------------------------------------------
(* The data structures the soundness rests on.                             *)

\* An implied literal has a live reason clause that contains it and whose
\* other literals were all falsified before it: what analysis, minimisation
\* and analyze_final resolve on, and what a reduction must not take away.
ReasonsJustify ==
  \A i \in Positions : trail[i].reason # 0 =>
    LET r == trail[i].reason IN
      /\ r \in Alive
      /\ trail[i].lit \in clauses[r].lits
      /\ \A k \in clauses[r].lits \ {trail[i].lit} :
           \E j \in 1..i-1 : trail[j].lit = -k

\* The watch lists hold exactly one entry for each watched literal of each
\* live clause, blocking on another literal of it, and none for a deleted one:
\* the other watch is recovered from the pair alone (propagate's XOR).
WatchListsMatch ==
  pc # "idle" =>
    \A l \in Lits :
      /\ \A e \in watches[l] :
           /\ e.ref \in Alive
           /\ l \in clauses[e.ref].head
           /\ e.blocking \in clauses[e.ref].lits \ {l}
      /\ \A r \in Alive : l \in clauses[r].head =>
           Cardinality({e \in watches[l] : e.ref = r}) = 1

\* At a fixpoint a watched literal is false only under a true literal assigned
\* no later: so a backtrack that revives the one never takes the other, and
\* propagation need not look at the clause again.
BacktrackSafeWatches ==
  Fixpoint =>
    \A r \in Alive : \A h \in clauses[r].head :
      IsFalse(h) => \E k \in clauses[r].lits : IsTrue(k) /\ LevelOf(k) <= LevelOf(h)

\* Both together are what lets propagation forget a clause it has looked at:
\* the entries lead to its pair, and the pair survives every backtrack.
WatchesSound == WatchListsMatch /\ BacktrackSafeWatches

\* At a fixpoint no live clause is falsified or unit: nothing was missed, in
\* the watch lists or outside them.
PropagationComplete ==
  Fixpoint =>
    \A r \in Alive :
      \/ \E k \in clauses[r].lits : IsTrue(k)
      \/ \E k1, k2 \in clauses[r].lits : k1 # k2 /\ ~IsFalse(k1) /\ ~IsFalse(k2)

\* Analysis always starts from a falsified clause with at least two literals
\* of the conflict level: the count of open literals cannot run below zero,
\* and the learned clause asserts something new.
ConflictAtLevel ==
  pc = "conflict" =>
    LET lits == clauses[conflict].lits IN
      /\ \A l \in lits : IsFalse(l)
      /\ Level > 0 => \E k1, k2 \in lits :
           k1 # k2 /\ LevelOf(k1) = Level /\ LevelOf(k2) = Level

\* Propagation ends at a real fixpoint or at a conflict analysis can resolve.
PropagationEnds == PropagationComplete /\ ConflictAtLevel

\* A learned clause is unit after its own backjump and subsumed by no clause
\* the database holds: each conflict adds something propagation did not know.
LearnedIsNew ==
  [][pc = "learn" =>
       LET new == clauses'[Len(clauses')].lits
           old == {trail'[i].lit : i \in 1..Len(trail') - 1}
       IN  /\ \A l \in new : l = -analysis.uip \/ -l \in old
           /\ {analysis.uip, -analysis.uip} \cap old = {}
           /\ \A r \in Alive : ~(clauses[r].lits \subseteq new)]_vars

\* While an episode runs the branching heap holds every unassigned variable:
\* an empty heap is what run_search takes for a model.
HeapComplete ==
  pc # "idle" => \A v \in 1..variable_count : Unassigned(v) => v \in heap

\* The assumption of every open assumption level is true, backjumps, restarts
\* and placeholder levels included.
AssumptionsHold ==
  mode = "search" /\ pc # "idle" =>
    \A k \in 1..Len(request.assumptions) :
      k <= Level => /\ IsTrue(request.assumptions[k])
                    /\ LevelOf(request.assumptions[k]) <= k

\* What a decision relies on, the next assumption or an unassigned variable.
DecisionsReady == HeapComplete /\ AssumptionsHold

-----------------------------------------------------------------------------
(* The abstract contract, and termination.                                 *)

Contract == INSTANCE SatContract WITH busy <- pc # "idle"

\* Every step of the engine is a step of the contract or a stutter.
ImplementsContract == Contract!Spec

\* Every episode is answered.
EpisodesEnd == pc # "idle" ~> pc = "idle"
=============================================================================
