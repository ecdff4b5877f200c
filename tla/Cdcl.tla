-------------------------------- MODULE Cdcl --------------------------------
(***************************************************************************)
(* The conflict-driven search of kmx-sat: class solver_core, one episode   *)
(* after another, driven by a caller that adds clauses and solves under    *)
(* assumptions.                                                            *)
(*                                                                         *)
(* What is kept is the control of the engine: two-watched-literal          *)
(* propagation entry by entry, first-UIP analysis one resolution at a      *)
(* time, minimisation, learning and backjumping, the assumption levels,    *)
(* restarts that reuse the trail, database reduction, the lucky            *)
(* assignments, the limits and the verdicts.  What is abstracted is the    *)
(* data that only steers: scores, phases, glue averages and schedules are  *)
(* nondeterministic choices, the order inside a watch list and inside a    *)
(* clause beyond its watched pair is any order.                            *)
(*                                                                         *)
(* An episode is modelled as it runs with a proof consumer attached and    *)
(* below the inprocessing trigger (2000 conflicts): the raw first phase,   *)
(* failed-literal probing and the opening walk stand aside.                *)
(***************************************************************************)
EXTENDS Integers, Sequences, FiniteSets

CONSTANTS
  NumVars,          \* the largest variable index a caller may use
  Scripts,          \* the sequences of calls a caller may make
  CoreGlueLimit,    \* glue up to which a learned clause is never reduced
  ConflictRestarts, \* may a conflict make a restart due?
  DecisionRestarts, \* may a decision make a restart due?
  Reductions        \* may a conflict make a reduction due?

Vars  == 1..NumVars
Lits  == {l \in -NumVars..NumVars : l # 0}
VarOf(l) == IF l < 0 THEN -l ELSE l

\* What a caller may ask: state a clause, or solve under assumptions and
\* limits (0: no limit).
AddCalls   == [op : {"add"}, lits : Seq(Lits)]
SolveCalls == [op : {"solve"}, assumptions : Seq(Lits),
               conflict_limit : Nat, decision_limit : Nat]

ASSUME NumVarsAssumption == NumVars \in Nat
ASSUME ScriptsAssumption == Scripts \subseteq Seq(AddCalls \cup SolveCalls)
ASSUME GlueAssumption    == CoreGlueLimit \in Nat
ASSUME SwitchAssumption  ==
  {ConflictRestarts, DecisionRestarts, Reductions} \subseteq BOOLEAN

VARIABLES
  calls,           \* the calls the caller has still to make
  problem,         \* the clauses the caller stated, as sets (history only)
  clauses,         \* the clause database, in order of creation
  watches,         \* the watch list of each literal, as a set of entries
  units,           \* references of the clauses too short to be watched
  trail,           \* assigned literals with their level and reason, in order
  control,         \* the decision levels: where each begins, its decision
  propagated,      \* how many trail literals have been propagated
  pending,         \* watch entries of the literal in propagation, still unread
  heap,            \* the variables in the branching heap
  variable_count,  \* the largest variable of the episode
  request,         \* the solve call being served
  mode,            \* "lucky" while the lucky assignments run, then "search"
  strategy,        \* which lucky strategy is under way, 0..3
  pc,              \* where the engine is
  unit_queue,      \* root units assign_root_units has still to look at
  conflict,        \* the falsified clause propagation returned, 0 for none
  analysis,        \* the state of conflict analysis
  conflicts,       \* conflicts of the episode
  decisions,       \* decisions of the episode, counted when they are limited
  restart_pending, \* the restart controller has a restart due
  reduce_pending,  \* the reduce controller has a pass due
  progress,        \* a conflict was seen since the last restart
  terminated,      \* a limit was reached
  status,          \* the verdict of the last episode
  failed_core      \* the failed assumptions of the last episode

callVars   == <<calls, problem>>
dbVars     == <<clauses, watches, units>>
trailVars  == <<trail, control, heap>>
propVars   == <<propagated, pending>>
setupVars  == <<variable_count, request>>
countVars  == <<conflicts, decisions, restart_pending, reduce_pending,
                progress, terminated>>
resultVars == <<status, failed_core>>
vars == <<callVars, dbVars, trailVars, propVars, setupVars, mode, strategy,
          pc, unit_queue, conflict, analysis, countVars, resultVars>>

NoRequest  == [op |-> "solve", assumptions |-> <<>>, conflict_limit |-> 0,
               decision_limit |-> 0]
NoAnalysis == [seen |-> {}, learned |-> {}, open |-> {}, uip |-> 0,
               reason |-> 0]

-----------------------------------------------------------------------------
(* The clause database.                                                    *)

Refs   == 1..Len(clauses)
Alive  == {r \in Refs : clauses[r].alive}
\* A clause of at most one literal has no watched pair.
Short(lits) == \A a, b \in lits : a = b
\* clause_entry is binary exactly when its watched pair is the whole clause.
Binary(r) == clauses[r].lits = clauses[r].head

Range1(s) == {s[i] : i \in 1..Len(s)}
\* Duplicates vanish with the set; a clause with a literal and its negation
\* is dropped (normalize_clause).
Tautology(s) == \E i, j \in 1..Len(s) : s[i] = -s[j]
\* The first two distinct literals, which attach_clause_for_propagation watches.
FirstPair(s) ==
  IF Short(Range1(s)) THEN {}
  ELSE LET i == CHOOSE i \in 1..Len(s) :
                  /\ s[i] # s[1]
                  /\ \A j \in 1..i-1 : s[j] = s[1]
       IN {s[1], s[i]}

\* The watch lists attach_clause_for_propagation builds for the database cs:
\* each watched literal's entry blocks on the other one.
OtherOf(pair, l) == CHOOSE k \in pair : k # l
\* Mutant: the rebuild leaves the learned clauses out.
AttachStated(cs) ==
  [l \in Lits |->
     {[ref |-> r, blocking |-> OtherOf(cs[r].head, l)] :
        r \in {q \in 1..Len(cs) : /\ cs[q].alive /\ ~cs[q].redundant
                                  /\ l \in cs[q].head}}]
AttachAll(cs) ==
  [l \in Lits |->
     {[ref |-> r, blocking |-> OtherOf(cs[r].head, l)] :
        r \in {q \in 1..Len(cs) : cs[q].alive /\ l \in cs[q].head}}]
\* Mutant: an empty clause is not a unit, and is forgotten.
UnitRefs(cs) == {r \in 1..Len(cs) : cs[r].alive /\ Cardinality(cs[r].lits) = 1}
ShortRefs(cs) == {r \in 1..Len(cs) : cs[r].alive /\ Short(cs[r].lits)}

-----------------------------------------------------------------------------
(* The assignment.  The trail carries what values_, levels_, reasons_ and  *)
(* trail_positions_ say of every assigned variable.                        *)

Level       == Len(control)
Positions   == 1..Len(trail)
IsTrue(l)   == \E i \in Positions : trail[i].lit = l
IsFalse(l)  == \E i \in Positions : trail[i].lit = -l
Unassigned(v) == ~IsTrue(v) /\ ~IsFalse(v)
PosOf(v)    == CHOOSE i \in Positions : VarOf(trail[i].lit) = v
LevelOf(l)  == trail[PosOf(VarOf(l))].level
ReasonOf(v) == trail[PosOf(v)].reason

Entry(l, level, reason) == [lit |-> l, level |-> level, reason |-> reason]
\* assign at the current level
Assigned(l, reason) == Append(trail, Entry(l, Level, reason))
\* Mutant: the frame is pushed after its decision.
FrameLate(decision) == [trail_begin |-> Len(trail) + 1, decision |-> decision]
Frame(decision) == [trail_begin |-> Len(trail), decision |-> decision]

\* What backtrack(target) leaves of the trail, the levels, the queue head and
\* the heap; nothing changes unless target is below the current level.
\* Mutant: one literal too many survives.
TrailKeepsOne(target) ==
  IF target < Level THEN SubSeq(trail, 1, control[target + 1].trail_begin + 1)
                    ELSE trail
TrailAt(target) ==
  IF target < Level THEN SubSeq(trail, 1, control[target + 1].trail_begin)
                    ELSE trail
ControlAt(target) ==
  IF target < Level THEN SubSeq(control, 1, target) ELSE control
\* Mutant: the queue head stays where it was.
PropagatedStays(target) == propagated
\* Mutant: the queue head moves past the literal asserted next.
PropagatedPast(target) ==
  IF propagated > Len(TrailAt(target)) THEN Len(TrailAt(target)) + 1
                                       ELSE propagated
PropagatedAt(target) ==
  IF propagated > Len(TrailAt(target)) THEN Len(TrailAt(target))
                                       ELSE propagated
\* Mutant: what backtracking unassigns is not handed back.
HeapForgets(target) == heap
HeapAt(target) ==
  heap \cup {VarOf(trail[i].lit) : i \in Len(TrailAt(target)) + 1 .. Len(trail)}
Backtrack(target) ==
  /\ trail' = TrailAt(target)
  /\ control' = ControlAt(target)
  /\ propagated' = PropagatedAt(target)
  /\ heap' = HeapAt(target)

-----------------------------------------------------------------------------
(* The caller.                                                             *)

AddProblemClause ==
  /\ pc = "idle"
  /\ calls # <<>>
  /\ Head(calls).op = "add"
  /\ LET raw == Head(calls).lits IN
     /\ problem' = problem \cup {Range1(raw)}
     /\ clauses' = IF Tautology(raw) THEN clauses
                   ELSE Append(clauses, [lits |-> Range1(raw),
                                         head |-> FirstPair(raw),
                                         redundant |-> FALSE,
                                         alive |-> TRUE,
                                         core |-> TRUE])
  /\ calls' = Tail(calls)
  /\ UNCHANGED <<watches, units, trailVars, propVars, setupVars, mode,
                 strategy, pc, unit_queue, conflict, analysis, countVars,
                 resultVars>>

\* find_max_variable: the range covers what the caller stated and assumed.
StatedVars(as) ==
  {VarOf(l) : l \in (UNION problem) \cup Range1(as)}
  \cup {VarOf(l) : l \in UNION {clauses[r].lits : r \in Alive}}
MaxVariable(as) ==
  IF StatedVars(as) = {} THEN 0
  ELSE CHOOSE v \in StatedVars(as) : \A u \in StatedVars(as) : u <= v

\* assign_root_units starts over the units us.
\* Mutant: the units, which no watch list holds, are not looked at.
SkipUnits(m, us) == mode' = m /\ unit_queue' = {} /\ pc' = "propagate"
StartUnits(m, us) ==
  /\ mode' = m
  /\ unit_queue' = us
  /\ pc' = IF us = {} THEN "propagate" ELSE "units"

Solve ==
  /\ pc = "idle"
  /\ calls # <<>>
  /\ Head(calls).op = "solve"
  /\ request' = Head(calls)
  /\ calls' = Tail(calls)
  /\ variable_count' = MaxVariable(request'.assumptions)
  /\ trail' = <<>>
  /\ control' = <<>>
  /\ propagated' = 0
  /\ pending' = {}
  /\ heap' = 1..variable_count'
  /\ watches' = AttachAll(clauses)
  /\ units' = ShortRefs(clauses)
  /\ strategy' = 0
  /\ StartUnits(IF request'.assumptions = <<>> /\ variable_count' # 0
                THEN "lucky" ELSE "search", units')
  /\ conflict' = 0
  /\ analysis' = NoAnalysis
  /\ conflicts' = 0
  /\ decisions' = 0
  /\ restart_pending' = FALSE
  /\ reduce_pending' = FALSE
  /\ progress' = FALSE
  /\ terminated' = FALSE
  /\ failed_core' = {}
  /\ UNCHANGED <<problem, clauses, status>>

\* The end of an episode: solve's finalize_epoch.
Finish(verdict, core) ==
  /\ pc' = "idle"
  /\ status' = verdict
  /\ failed_core' = core

\* search_coordinator::note_conflict: the controllers may make a restart or a
\* reduction due, and the conflict limit may end the episode.
\* Mutant: no limit reads as the limit 0.
NoteConflictUnguarded ==
  /\ conflicts' = conflicts + 1
  /\ terminated' = (conflicts' >= request.conflict_limit)
  /\ progress' = TRUE
  /\ restart_pending' \in {restart_pending, restart_pending \/ ConflictRestarts}
  /\ reduce_pending' \in {reduce_pending, reduce_pending \/ Reductions}
  /\ UNCHANGED decisions
NoteConflict ==
  /\ conflicts' = conflicts + 1
  /\ terminated' = (terminated \/ (request.conflict_limit # 0
                                   /\ conflicts' >= request.conflict_limit))
  /\ progress' = TRUE
  /\ restart_pending' \in {restart_pending, restart_pending \/ ConflictRestarts}
  /\ reduce_pending' \in {reduce_pending, reduce_pending \/ Reductions}
  /\ UNCHANGED decisions

\* search_coordinator::note_decision.
NoteDecision ==
  /\ decisions' = IF request.decision_limit = 0 THEN decisions ELSE decisions + 1
  /\ terminated' = (terminated \/ (request.decision_limit # 0
                                   /\ decisions' >= request.decision_limit))
  /\ restart_pending' \in {restart_pending, restart_pending \/ DecisionRestarts}
  /\ UNCHANGED <<conflicts, reduce_pending, progress>>

\* root_conflict(): a refuted episode, unless this very conflict hit a limit.
RootConflict(core) ==
  /\ conflicts' = conflicts + 1
  /\ terminated' = (terminated \/ (request.conflict_limit # 0
                                   /\ conflicts' >= request.conflict_limit))
  /\ Finish(IF terminated' THEN "unknown" ELSE "unsatisfiable", core)
  /\ UNCHANGED <<decisions, restart_pending, reduce_pending, progress>>

-----------------------------------------------------------------------------
(* Root units.                                                             *)

NextUnit(r) == /\ unit_queue' = unit_queue \ {r}
               /\ pc' = IF unit_queue' = {} THEN "propagate" ELSE "units"

\* assign_root_units meets a unit that is true already, or assigns it.
AssignRootUnit(r) ==
  /\ pc = "units"
  /\ \E l \in clauses[r].lits :
       /\ ~IsFalse(l)
       /\ trail' = IF IsTrue(l) THEN trail ELSE Assigned(l, r)
  /\ NextUnit(r)
  /\ UNCHANGED <<callVars, dbVars, control, heap, propVars, setupVars, mode,
                 strategy, conflict, analysis, countVars, resultVars>>

\* It meets a falsified unit or an empty clause: the lucky assignments hand
\* over to the search, which looks at the units again, and refutes.
RootUnitFalsified(r) ==
  /\ pc = "units"
  /\ \A l \in clauses[r].lits : IsFalse(l)
  /\ \/ /\ mode = "lucky"
        /\ StartUnits("search", units)
        /\ UNCHANGED <<countVars, resultVars>>
     \/ /\ mode = "search"
        /\ RootConflict({})
        /\ UNCHANGED <<mode, unit_queue>>
  /\ UNCHANGED <<callVars, dbVars, trailVars, propVars, setupVars, strategy,
                 conflict, analysis>>

-----------------------------------------------------------------------------
(* Unit propagation.                                                       *)

Fixpoint == pc = "propagate" /\ pending = {} /\ propagated = Len(trail)
\* The literal in propagation, and the watched literal it falsifies.
NotLit == -trail[propagated].lit

\* propagate() takes the next trail literal and starts on the list of its
\* negation.
PropagateLiteral ==
  /\ pc = "propagate"
  /\ pending = {}
  /\ propagated < Len(trail)
  /\ propagated' = propagated + 1
  /\ pending' = watches[-trail[propagated + 1].lit]
  /\ UNCHANGED <<callVars, dbVars, trailVars, setupVars, mode, strategy, pc,
                 unit_queue, conflict, analysis, countVars, resultVars>>

\* What a visit leaves alone.
VisitFrame ==
  UNCHANGED <<callVars, units, control, heap, propagated, setupVars, mode,
              strategy, unit_queue, analysis, countVars, resultVars>>

\* One entry read, propagation goes on.
ReadOn(e) == pending' = pending \ {e} /\ UNCHANGED <<pc, conflict>>
\* One entry read, its clause is falsified: the scan stops.
Falsified(e) ==
  /\ conflict' = e.ref
  /\ pc' = "conflict"
  /\ pending' = {}

\* The blocking literal is true: the clause is not looked at.
VisitSatisfied(e) ==
  /\ IsTrue(e.blocking)
  /\ ReadOn(e)
  /\ UNCHANGED <<clauses, watches, trail>>

\* A binary clause is decided from the entry alone.
VisitBinary(e) ==
  /\ Binary(e.ref)
  /\ ~IsTrue(e.blocking)
  /\ \/ IsFalse(e.blocking) /\ Falsified(e) /\ UNCHANGED trail
     \/ /\ ~IsFalse(e.blocking)
        /\ trail' = Assigned(e.blocking, e.ref)
        /\ ReadOn(e)
  /\ UNCHANGED <<clauses, watches>>

\* The literals a long clause could watch instead.
\* Mutant: a false literal may replace a watch.
AnyReplacements(r) == clauses[r].lits \ clauses[r].head
Replacements(r) == {k \in clauses[r].lits \ clauses[r].head : ~IsFalse(k)}
\* The entry of a long clause once visited: it blocks on the other watch.
\* Mutant: the old entry stays beside the new one.
ReblockedTwice(e, other) ==
  [watches EXCEPT ![NotLit] = @ \cup {[ref |-> e.ref, blocking |-> other]}]
Reblocked(e, other) ==
  [watches EXCEPT ![NotLit] = (@ \ {e}) \cup {[ref |-> e.ref, blocking |-> other]}]

\* A long clause: satisfied by its other watch, moved to another literal that
\* is not false, unit, or falsified.
VisitLong(e) ==
  LET other == OtherOf(clauses[e.ref].head, NotLit) IN
  /\ ~Binary(e.ref)
  /\ ~IsTrue(e.blocking)
  /\ \/ /\ IsTrue(other)
        /\ watches' = Reblocked(e, other)
        /\ ReadOn(e)
        /\ UNCHANGED <<clauses, trail>>
     \/ /\ ~IsTrue(other)
        /\ \E k \in Replacements(e.ref) :
             /\ clauses' = [clauses EXCEPT ![e.ref].head = {other, k}]
             /\ watches' =
                  [watches EXCEPT
                     ![NotLit] = @ \ {e},
                     ![k] = @ \cup {[ref |-> e.ref, blocking |-> other]}]
        /\ ReadOn(e)
        /\ UNCHANGED trail
     \/ /\ ~IsTrue(other) /\ ~IsFalse(other)
        /\ Replacements(e.ref) = {}
        /\ watches' = Reblocked(e, other)
        /\ trail' = Assigned(other, e.ref)
        /\ ReadOn(e)
        /\ UNCHANGED clauses
     \/ /\ IsFalse(other)
        /\ Replacements(e.ref) = {}
        /\ watches' = Reblocked(e, other)
        /\ Falsified(e)
        /\ UNCHANGED <<clauses, trail>>

VisitWatch(e) ==
  /\ pc = "propagate"
  /\ VisitSatisfied(e) \/ VisitBinary(e) \/ VisitLong(e)
  /\ VisitFrame

-----------------------------------------------------------------------------
(* The lucky assignments: every variable a decision, in index order, one   *)
(* polarity; forward and backward.                                         *)

Free == {v \in 1..variable_count : Unassigned(v)}
LuckyVar == CHOOSE v \in Free :
              \A u \in Free : IF strategy < 2 THEN v <= u ELSE v >= u
LuckyLit == IF strategy % 2 = 1 THEN -LuckyVar ELSE LuckyVar

\* The next decision of an attempt; a decision limit hands over to the search.
LuckyDecide ==
  /\ Fixpoint /\ mode = "lucky"
  /\ Free # {}
  /\ NoteDecision
  /\ \/ /\ terminated'
        /\ Backtrack(0)
        /\ StartUnits("search", units)
     \/ /\ ~terminated'
        /\ control' = Append(control, Frame(LuckyLit))
        /\ trail' = Append(trail, Entry(LuckyLit, Level + 1, 0))
        /\ UNCHANGED <<heap, propagated, mode, pc, unit_queue>>
  /\ UNCHANGED <<callVars, dbVars, pending, setupVars, strategy, conflict,
                 analysis, resultVars>>

\* Everything is assigned without a conflict: the trail is the model.
LuckySucceeds ==
  /\ Fixpoint /\ mode = "lucky"
  /\ Free = {}
  /\ Finish("satisfiable", {})
  /\ UNCHANGED <<callVars, dbVars, trailVars, propVars, setupVars, mode,
                 strategy, unit_queue, conflict, analysis, countVars>>

\* A conflict ends the attempt: back to the root for the next strategy, and
\* after the last one, or when the root itself is refuted, to the search.
LuckyFails ==
  /\ pc = "conflict" /\ mode = "lucky"
  /\ conflict' = 0
  /\ \/ /\ Level > 0 /\ strategy < 3
        /\ strategy' = strategy + 1
        /\ pc' = "propagate"
        /\ UNCHANGED <<mode, unit_queue>>
     \/ /\ Level = 0 \/ strategy = 3
        /\ StartUnits("search", units)
        /\ UNCHANGED strategy
  /\ trail' = TrailAt(0)
  /\ control' = ControlAt(0)
  /\ heap' = HeapAt(0)
  /\ propagated' = IF Level = 0 THEN propagated ELSE Len(TrailAt(0))
  /\ UNCHANGED <<callVars, dbVars, pending, setupVars, analysis, countVars,
                 resultVars>>

-----------------------------------------------------------------------------
(* Conflict analysis.                                                      *)

\* A conflict with no decision under it refutes the formula.
RefuteAtRoot ==
  /\ pc = "conflict" /\ mode = "search"
  /\ Level = 0
  /\ conflict' = 0
  /\ RootConflict({})
  /\ UNCHANGED <<callVars, dbVars, trailVars, propVars, setupVars, mode,
                 strategy, unit_queue, analysis>>

StartAnalysis ==
  /\ pc = "conflict" /\ mode = "search"
  /\ Level > 0
  /\ conflict' = 0
  /\ analysis' = [NoAnalysis EXCEPT !.reason = conflict]
  /\ pc' = "analyze"
  /\ UNCHANGED <<callVars, dbVars, trailVars, propVars, setupVars, mode,
                 strategy, unit_queue, countVars, resultVars>>

\* The literals of the clause under resolution that analyze_literal has not
\* seen and that are not fixed at the root.
Absorbed == {l \in clauses[analysis.reason].lits :
               /\ l # analysis.uip
               /\ VarOf(l) \notin analysis.seen
               /\ LevelOf(l) > 0}
Lower    == {l \in Absorbed : LevelOf(l) < Level}
Here     == {VarOf(l) : l \in Absorbed \ Lower}
\* Where the scan back along the trail stops: at the last open variable.
NextUip  == CHOOSE i \in Positions :
              /\ VarOf(trail[i].lit) \in analysis.open \cup Here
              /\ \A j \in Positions :
                   VarOf(trail[j].lit) \in analysis.open \cup Here => j <= i

\* One resolution of analyze_conflict: absorb a clause, find the next literal
\* to resolve on; the first unique implication point ends it.
Resolve ==
  /\ pc = "analyze"
  /\ LET uip  == trail[NextUip].lit
         left == (analysis.open \cup Here) \ {VarOf(uip)}
     IN  /\ analysis' = [seen    |-> analysis.seen \cup {VarOf(l) : l \in Absorbed},
                         learned |-> analysis.learned \cup Lower,
                         open    |-> left,
                         uip     |-> uip,
                         reason  |-> IF left = {} THEN 0
                                     ELSE trail[NextUip].reason]
         /\ pc' = IF left = {} THEN "learn" ELSE "analyze"
  /\ UNCHANGED <<callVars, dbVars, trailVars, propVars, setupVars, mode,
                 strategy, unit_queue, conflict, countVars, resultVars>>

\* minimize_literal expands an implied variable unless it sits at the conflict
\* level or no earlier learned literal shares its level.
Expandable(d) ==
  /\ ReasonOf(d) # 0
  /\ LevelOf(d) # Level
  /\ \E k \in analysis.learned :
       LevelOf(k) = LevelOf(d) /\ PosOf(VarOf(k)) < PosOf(d)
\* A literal is redundant when the reasons below it lead back to the root and
\* to the other learned literals only: ds is what the walk expands.
\* Mutant: a literal at a level the clause names is taken for one it holds.
RedundantByLevel(l) ==
  /\ Expandable(VarOf(l))
  /\ \A k \in clauses[ReasonOf(VarOf(l))].lits :
       k = -l \/ \E q \in analysis.learned : LevelOf(q) = LevelOf(k)
Redundant(l) ==
  \E ds \in SUBSET {VarOf(trail[i].lit) : i \in Positions} :
    /\ VarOf(l) \in ds
    /\ \A d \in ds :
         /\ Expandable(d)
         /\ \A k \in clauses[ReasonOf(d)].lits :
              \/ VarOf(k) \in ds
              \/ LevelOf(k) = 0
              \/ k \in analysis.learned
Kept == {l \in analysis.learned : ~Redundant(l)}
Glue(lits) == Cardinality({LevelOf(l) : l \in lits}) + 1

\* The literal the learned clause watches beside its first: of the highest
\* level, and the earliest on the trail there.
\* Mutant: the lowest level instead.
PartnerLowest(lits) ==
  CHOOSE l \in lits : \A k \in lits \ {l} :
    \/ LevelOf(k) > LevelOf(l)
    \/ LevelOf(k) = LevelOf(l) /\ PosOf(VarOf(k)) > PosOf(VarOf(l))
Partner(lits) ==
  CHOOSE l \in lits : \A k \in lits \ {l} :
    \/ LevelOf(k) < LevelOf(l)
    \/ LevelOf(k) = LevelOf(l) /\ PosOf(VarOf(k)) > PosOf(VarOf(l))

\* Minimise, backjump, add the clause, assert its first literal, count the
\* conflict: the tail of analyze_conflict, learn_clause and note_conflict.
Learn(pair, target) ==
  LET ref   == Len(clauses) + 1
      first == -analysis.uip
      lits  == Kept \cup {first}
  IN  /\ clauses' = Append(clauses, [lits |-> lits,
                                     head |-> pair,
                                     redundant |-> TRUE,
                                     alive |-> TRUE,
                                     core |-> Glue(Kept) <= CoreGlueLimit])
      /\ watches' = [l \in Lits |->
                       IF l \in pair
                       THEN watches[l] \cup {[ref |-> ref,
                                              blocking |-> OtherOf(pair, l)]}
                       ELSE watches[l]]
      /\ units' = IF pair = {} THEN units \cup {ref} ELSE units
      /\ trail' = Append(TrailAt(target), Entry(first, target, ref))
      /\ control' = ControlAt(target)
      /\ propagated' = PropagatedAt(target)
      /\ heap' = HeapAt(target)

LearnClause ==
  /\ pc = "learn"
  /\ \/ Kept = {} /\ Learn({}, 0)
     \/ Kept # {} /\ Learn({-analysis.uip, Partner(Kept)}, LevelOf(Partner(Kept)))
  /\ NoteConflict
  /\ \/ terminated' /\ Finish("unknown", {})
     \/ ~terminated' /\ pc' = "propagate" /\ UNCHANGED resultVars
  /\ analysis' = NoAnalysis
  /\ UNCHANGED <<callVars, pending, setupVars, mode, strategy, unit_queue,
                 conflict>>

-----------------------------------------------------------------------------
(* Assumption levels, each opened once propagation is at a fixpoint.       *)

SearchFixpoint == Fixpoint /\ mode = "search"
\* Mutant: the assumptions are counted by their decisions, which a placeholder
\* level has none of.
AssumptionByDecisions ==
  request.assumptions[Cardinality({i \in Positions : trail[i].reason = 0}) + 1]
NextAssumption == request.assumptions[Level + 1]
AssumptionDue  == SearchFixpoint /\ Level < Len(request.assumptions)

OpenFrame ==
  UNCHANGED <<callVars, dbVars, heap, propVars, setupVars, mode, strategy, pc,
              unit_queue, conflict, analysis, countVars, resultVars>>

\* An assumption that holds already gets a placeholder level.
OpenPlaceholder ==
  /\ AssumptionDue
  /\ IsTrue(NextAssumption)
  /\ control' = Append(control, Frame(0))
  /\ UNCHANGED trail
  /\ OpenFrame

OpenAssumption ==
  /\ AssumptionDue
  /\ ~IsTrue(NextAssumption) /\ ~IsFalse(NextAssumption)
  /\ control' = Append(control, Frame(NextAssumption))
  /\ trail' = Append(trail, Entry(NextAssumption, Level + 1, 0))
  /\ OpenFrame

\* analyze_final: the variables reached from the failed assumption through
\* reasons, stopping at the root.
ClosedUnderReasons(s) ==
  \A i \in Positions :
    VarOf(trail[i].lit) \in s /\ trail[i].level > 0 /\ trail[i].reason # 0
      => {VarOf(k) : k \in clauses[trail[i].reason].lits} \subseteq s
ReachedFrom(v) ==
  {u \in Vars : \A s \in SUBSET Vars : v \in s /\ ClosedUnderReasons(s) => u \in s}
\* Mutant: the failed assumption itself is left out.
FinalCoreReached(failed) ==
  {trail[i].lit : i \in {j \in Positions :
     /\ VarOf(trail[j].lit) \in ReachedFrom(VarOf(failed))
     /\ trail[j].level > 0
     /\ trail[j].reason = 0}}
FinalCore(failed) ==
  {failed} \cup {trail[i].lit : i \in {j \in Positions :
                   /\ VarOf(trail[j].lit) \in ReachedFrom(VarOf(failed))
                   /\ trail[j].level > 0
                   /\ trail[j].reason = 0}}

AssumptionFailed ==
  /\ AssumptionDue
  /\ IsFalse(NextAssumption)
  /\ RootConflict(FinalCore(NextAssumption))
  /\ UNCHANGED <<callVars, dbVars, trailVars, propVars, setupVars, mode,
                 strategy, unit_queue, conflict, analysis>>

-----------------------------------------------------------------------------
(* Restarts, reduction, decisions, in the order run_search tries them.     *)

SearchOn == SearchFixpoint /\ Level >= Len(request.assumptions)

RestartFrame ==
  UNCHANGED <<callVars, dbVars, pending, setupVars, mode, strategy, pc,
              unit_queue, conflict, analysis, conflicts, decisions,
              reduce_pending, terminated, resultVars>>

\* Mutant: a restart whenever one is due.
RestartAlways == restart_pending
\* A restart must have something to build on.
RestartUseful == restart_pending /\ progress

\* restart(): a trail prefix the next decision would not change is kept, the
\* assumption levels at least.  Its loop pops assigned variables off the heap.
Restart ==
  /\ SearchOn
  /\ RestartUseful
  /\ \E reuse \in Len(request.assumptions)..Level,
        popped \in SUBSET {v \in heap : ~Unassigned(v)} :
       /\ Level = Len(request.assumptions) => popped = {}
       /\ trail' = TrailAt(reuse)
       /\ control' = ControlAt(reuse)
       /\ propagated' = PropagatedAt(reuse)
       /\ heap' = (heap \ popped) \cup
                  {VarOf(trail[i].lit) : i \in Len(TrailAt(reuse)) + 1 .. Len(trail)}
  /\ restart_pending' = FALSE
  /\ progress' = FALSE
  /\ RestartFrame

\* A restart due before anything was learned only re-arms the schedule.
SkipRestart ==
  /\ SearchOn
  /\ restart_pending /\ ~progress
  /\ restart_pending' = FALSE
  /\ UNCHANGED <<trailVars, propagated, progress>>
  /\ RestartFrame

\* reduce(): drops any of the learned clauses that are neither core nor the
\* reason of a trail literal, and every reference to them.
Reasons == {trail[i].reason : i \in Positions}
\* Mutant: a reason may go.
ReducibleAny == {r \in Alive : clauses[r].redundant /\ ~clauses[r].core}
Reducible == {r \in Alive : clauses[r].redundant /\ ~clauses[r].core
                            /\ r \notin Reasons}
\* Mutant: the entries of a binary clause, which never look at it, stay.
FlushedLong(victims) ==
  [l \in Lits |-> {e \in watches[l] : e.ref \notin victims \/ Binary(e.ref)}]
\* The watch lists without the entries of dropped clauses.
Flushed(victims) == [l \in Lits |-> {e \in watches[l] : e.ref \notin victims}]
Reduce ==
  /\ SearchOn
  /\ ~restart_pending /\ reduce_pending
  /\ \E victims \in SUBSET Reducible :
       /\ clauses' = [r \in Refs |-> [clauses[r] EXCEPT
                                        !.alive = @ /\ r \notin victims]]
       /\ watches' = Flushed(victims)
       /\ units' = units \ victims
  /\ reduce_pending' = FALSE
  /\ UNCHANGED <<callVars, trailVars, propVars, setupVars, mode, strategy, pc,
                 unit_queue, conflict, analysis, conflicts, decisions,
                 restart_pending, progress, terminated, resultVars>>

DecisionDue == SearchOn /\ ~restart_pending /\ ~reduce_pending

\* The heap yields its best unassigned variable, dropping the assigned ones it
\* meets first; the saved phase gives the polarity.
Decide ==
  /\ DecisionDue
  /\ \E v \in {u \in heap : Unassigned(u)},
        popped \in SUBSET {u \in heap : ~Unassigned(u)} :
       /\ heap' = heap \ (popped \cup {v})
       /\ \E l \in {v, -v} :
            /\ control' = Append(control, Frame(l))
            /\ trail' = Append(trail, Entry(l, Level + 1, 0))
  /\ NoteDecision
  /\ \/ terminated' /\ Finish("unknown", {})
     \/ ~terminated' /\ UNCHANGED <<pc, resultVars>>
  /\ UNCHANGED <<callVars, dbVars, propVars, setupVars, mode, strategy,
                 unit_queue, conflict, analysis>>

\* The heap runs dry: the trail is the model.
ModelFound ==
  /\ DecisionDue
  /\ \A v \in heap : ~Unassigned(v)
  /\ heap' = {}
  /\ Finish("satisfiable", {})
  /\ UNCHANGED <<callVars, dbVars, trail, control, propVars, setupVars, mode,
                 strategy, unit_queue, conflict, analysis, countVars>>

-----------------------------------------------------------------------------
Init ==
  /\ calls \in Scripts
  /\ problem = {}
  /\ clauses = <<>>
  /\ watches = [l \in Lits |-> {}]
  /\ units = {}
  /\ trail = <<>>
  /\ control = <<>>
  /\ propagated = 0
  /\ pending = {}
  /\ heap = {}
  /\ variable_count = 0
  /\ request = NoRequest
  /\ mode = "search"
  /\ strategy = 0
  /\ pc = "idle"
  /\ unit_queue = {}
  /\ conflict = 0
  /\ analysis = NoAnalysis
  /\ conflicts = 0
  /\ decisions = 0
  /\ restart_pending = FALSE
  /\ reduce_pending = FALSE
  /\ progress = FALSE
  /\ terminated = FALSE
  /\ status = "unknown"
  /\ failed_core = {}

Engine ==
  \/ \E r \in unit_queue : AssignRootUnit(r) \/ RootUnitFalsified(r)
  \/ PropagateLiteral
  \/ \E e \in pending : VisitWatch(e)
  \/ LuckyDecide
  \/ LuckySucceeds
  \/ LuckyFails
  \/ RefuteAtRoot
  \/ StartAnalysis
  \/ Resolve
  \/ LearnClause
  \/ OpenPlaceholder
  \/ OpenAssumption
  \/ AssumptionFailed
  \/ Restart
  \/ SkipRestart
  \/ Reduce
  \/ Decide
  \/ ModelFound

Next == AddProblemClause \/ Solve \/ Engine

Spec == Init /\ [][Next]_vars
\* run_search is one thread's loop: it keeps taking steps until it returns.
FairSpec == Spec /\ WF_vars(Engine)
=============================================================================
