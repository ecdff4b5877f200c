---------------------------- MODULE CdclComplete ----------------------------
(***************************************************************************)
(* The second strengthening of module Cdcl: what must hold in every state  *)
(* for propagation to miss nothing, so that an assignment without a        *)
(* conflict is a model.  It rests on the first, IInv, which makes what is  *)
(* learned and refuted follow from what was stated.                        *)
(***************************************************************************)
EXTENDS CdclInductive

\* Every clause of at least two literals has a pair to watch.
LongHavePairs == \A r \in Refs : clauses[r].head = {} => Short(clauses[r].lits)

\* Both literals of a pair have an entry for the clause, and a clause without
\* a pair is listed as a unit.
AllWatched ==
  pc # "idle" => \A r \in Alive :
    /\ \A l \in clauses[r].head : \E e \in watches[l] : e.ref = r
    /\ clauses[r].head = {} => r \in units

\* The units assign_root_units has gone past are true at the root.
UnitsAssigned ==
  pc # "idle" =>
    /\ \A r \in units \ unit_queue :
         \E i \in Positions : trail[i].lit \in clauses[r].lits /\ trail[i].level = 0
    /\ pc # "units" => unit_queue = {}

\* Propagation returns a clause that it watches.
ConflictWatched ==
  pc = "conflict" => conflict \in Alive /\ clauses[conflict].head # {}

\* A literal that satisfies the clause and is undone no earlier than the one
\* on position i.
SatisfiedAt(r, i) ==
  \E j \in Positions : trail[j].lit \in clauses[r].lits /\ trail[j].level <= trail[i].level

Unread(r) == \E e \in pending : e.ref = r
\* An attempt of the lucky assignments that fails at the root leaves the rest
\* of a watch list unread: the search then meets a falsified clause before it
\* can reach a fixpoint.
RefutationAhead ==
  /\ mode = "search" /\ Level = 0
  /\ \E r \in Alive :
       /\ \A k \in clauses[r].lits : IsFalse(k)
       /\ \/ pc = "conflict"
          \/ \E i \in Positions : /\ -trail[i].lit \in clauses[r].head
                                  /\ i > propagated \/ (i = propagated /\ Unread(r))

\* Once a literal has been propagated, each clause that watches its negation
\* is satisfied, no later than that literal was assigned; of the literal in
\* propagation this is said once the entry has been read.
PropagatedSatisfied ==
  pc # "idle" =>
    \/ RefutationAhead
    \/ \A i \in 1..propagated, r \in Alive : -trail[i].lit \in clauses[r].head =>
         \/ SatisfiedAt(r, i)
         \/ i = propagated /\ (Unread(r) \/ pc \in {"conflict", "analyze", "learn"})

\* AssumptionsHold, with the place of each assumption.
AssumptionsOpen ==
  mode = "search" /\ pc # "idle" =>
    \A k \in 1..Len(request.assumptions) : k <= Level =>
      \E i \in Positions : trail[i].lit = request.assumptions[k] /\ trail[i].level <= k

\* What was stated stays in the database, unless it says nothing.
StatedKept ==
  \A c \in problem :
    \/ \E l \in c : -l \in c
    \/ \E r \in Alive : clauses[r].lits = c /\ ~clauses[r].redundant

\* Everything an episode meets lies in its range of variables.
InRange ==
  pc # "idle" =>
    /\ \A c \in problem : \A l \in c : VarOf(l) <= variable_count
    /\ \A r \in Alive : \A l \in clauses[r].lits : VarOf(l) <= variable_count
    /\ \A k \in 1..Len(request.assumptions) :
         VarOf(request.assumptions[k]) <= variable_count
    /\ \A i \in Positions : VarOf(trail[i].lit) <= variable_count
    /\ heap \subseteq 1..variable_count

\* Only a limit of the caller stops an episode.
LimitsStop ==
  pc # "idle" /\ terminated =>
    request.conflict_limit # 0 \/ request.decision_limit # 0

CInv ==
  /\ LongHavePairs
  /\ AllWatched
  /\ UnitsAssigned
  /\ ConflictWatched
  /\ PropagatedSatisfied
  /\ HeapComplete
  /\ AssumptionsOpen
  /\ StatedKept
  /\ InRange
  /\ LimitsStop

\* Both strengthenings together are inductive.
EngineInv == IInv /\ CInv
=============================================================================
