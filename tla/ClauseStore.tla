----------------------------- MODULE ClauseStore -----------------------------
(***************************************************************************)
(* The clause store of kmx-sat (clause::database over clause::storage over *)
(* bank::arena) and everything that names a clause in it: the lists of     *)
(* stated and learned clauses, the watch lists, the unit list and the      *)
(* reasons on the trail.                                                   *)
(*                                                                         *)
(* A clause reference is an offset into the arena.  It is not checked when *)
(* it is used: after a compaction, a removal or a rollback it silently     *)
(* names whatever lies there.  So every stored reference carries here the  *)
(* name of the clause it was taken for (`id`), which the code does not     *)
(* have, and the properties compare the two.                               *)
(*                                                                         *)
(* Offsets count cells: one for a header, one for each literal.  The       *)
(* search above the store is reduced to what it does to it: which literal  *)
(* is true, what is learned and how good it is are free choices.  Left out *)
(* are blocking literals (they save a visit and belong to module Cdcl),    *)
(* redirects (relocate_clause: the engine never relocates one clause) and  *)
(* the substitution of equivalent literals, a pass that is off by default. *)
(***************************************************************************)
EXTENDS Integers, Sequences, FiniteSets, FiniteSetsExt

CONSTANTS
  Stated,          \* literal sequences a caller or a pass may add as clauses
  Learnt,          \* literal sequences that may be learned
  MaxClauses,      \* bound: how many clauses are ever created
  Budgets,         \* bounds, one of which a behaviour keeps to: how often
                   \* propagation permutes a clause, how many episodes there
                   \* are, how often a pass of simplification changes a clause
  CoreGlue,        \* glue up to which a learned clause is core (2)
  RetainedGlue,    \* glue up to which it is of the middle tier (6)
  UsedMax,         \* the largest use count a header can hold (255)
  FractionPercent, \* the share of the ranked candidates a reduction removes
  ReduceInProbe    \* may a reduction come due in the raw probe?

ASSUME BoundsAssumption     == 
  /\ MaxClauses \in Nat
  /\ Budgets \subseteq [moves : Nat, episodes : Nat, passes : Nat]
ASSUME GlueAssumption       == CoreGlue \in Nat /\ RetainedGlue \in Nat
ASSUME UsedMaxAssumption    == UsedMax \in Nat \ {0}
ASSUME FractionAssumption   == FractionPercent \in 1..100
ASSUME ProbeAssumption      == ReduceInProbe \in BOOLEAN
\* Normalization leaves no literal twice in a clause.
Distinct(s) == \A i, j \in 1..Len(s) : s[i] = s[j] => i = j
ASSUME ClausesAssumption    ==
  Stated \cup Learnt \subseteq {s \in Seq(Int) : Distinct(s)}

VARIABLES
  arena,       \* the clauses in the arena, by the offset of their header
  top,         \* the arena's active size
  irredundant, \* references of stated clauses, as a set
  redundant,   \* references of learned clauses, in order of creation
  watches,     \* the entries of all watch lists
  units,       \* references of clauses too short to be watched
  reasons,     \* the references on the trail as reasons
  phase,       \* what the engine is doing
  image,       \* the snapshot the raw probe took, the learned count then, and
               \* (history only) the clauses of that moment
  created,     \* how many clauses were ever created (names them)
  budget       \* the moves, episodes and passes still allowed (a bound)

storeVars  == <<arena, top, irredundant, redundant>>
holderVars == <<watches, units, reasons>>
vars == <<storeVars, holderVars, phase, image, created, budget>>

NoImage == [arena |-> <<>>, top |-> 0, learned |-> 0, contents |-> {}, taken |-> FALSE]

-----------------------------------------------------------------------------
Elements(s) == {s[i] : i \in 1..Len(s)}
\* The sequence without the elements in gone.
Omitting(s, gone) ==
  LET kept[n \in 0..Len(s)] ==
        IF n = 0 THEN <<>>
        ELSE IF s[n] \in gone THEN kept[n - 1] ELSE Append(kept[n - 1], s[n])
  IN kept[Len(s)]
RefsOf(hs)  == {h.ref : h \in hs}
Listed      == irredundant \cup Elements(redundant)
Size(block) == 1 + Len(block.lits)
Hold(r, id) == [ref |-> r, id |-> id]

\* What the lists say the store holds.
Contents == {[id |-> h.id, lits |-> arena[h.ref].lits, redundant |-> arena[h.ref].redundant] :
               h \in Listed}

\* A new clause lies at the end of the arena (create_clause).
Block(s, learned, glue) ==
  [id |-> created + 1, lits |-> s, redundant |-> learned, alive |-> TRUE,
   glue |-> glue, used |-> 0]
Created(s, learned, glue) ==
  /\ created < MaxClauses
  /\ created' = created + 1
  /\ arena' = [r \in DOMAIN arena \cup {top} |->
                IF r = top THEN Block(s, learned, glue) ELSE arena[r]]
  /\ top' = top + 1 + Len(s)
NewHold == Hold(top, created + 1)

-----------------------------------------------------------------------------
(* Watches: a clause is watched on its first two literals.                 *)

Entry(lit, h, binary) == [lit |-> lit, ref |-> h.ref, id |-> h.id, binary |-> binary]
WatchesFor(h, s) ==
  IF Len(s) < 2 THEN {}
  ELSE {Entry(s[1], h, Len(s) = 2), Entry(s[2], h, Len(s) = 2)}

\* rebuild_propagation_state: everything is attached anew.
Rebuild(ar, hs) ==
  /\ watches' = UNION {WatchesFor(h, ar[h.ref].lits) : h \in hs}
  /\ units'   = {h \in hs : Len(ar[h.ref].lits) < 2}

-----------------------------------------------------------------------------
(* The caller and the search.                                              *)

Searching == phase \in {"probe", "search"}

\* add_problem_clause, between episodes; the new clause is attached by the
\* next episode.
AddClause ==
  /\ phase = "idle"
  /\ \E s \in Stated : Created(s, FALSE, Len(s))
  /\ irredundant' = irredundant \cup {NewHold}
  /\ UNCHANGED <<redundant, holderVars, phase, image, budget>>

EpisodeOpens ==
  /\ budget.episodes > 0
  /\ budget' = [budget EXCEPT !.episodes = @ - 1]

\* solve, first phase: a raw search of the formula as stated, after a copy of
\* the arena's bytes was taken.
StartProbe ==
  /\ phase = "idle"
  /\ EpisodeOpens
  /\ phase' = "probe"
  /\ image' = [arena |-> arena, top |-> top, learned |-> Len(redundant),
               contents |-> Contents, taken |-> TRUE]
  /\ Rebuild(arena, Listed)
  /\ reasons' = {}
  /\ UNCHANGED <<storeVars, created>>

\* solve under assumptions or limits goes straight to preprocessing.
StartPreprocess ==
  /\ phase = "idle"
  /\ EpisodeOpens
  /\ phase' = "preprocess"
  /\ UNCHANGED <<storeVars, holderVars, image, created>>

\* What an episode leaves in the watch lists and on the trail is not read
\* before the next one clears it.
DropHolders == watches' = {} /\ units' = {} /\ reasons' = {}

\* Propagation visits a watch entry whose literal became false.  The other
\* watch is what the first two literals leave when the false one is taken out;
\* if it is true or the clause is falsified, nothing moves.
OtherWatch(s, lit) == CHOOSE o \in {s[1], s[2]} : o # lit
NotReason(h) == Hold(h.ref, h.id) \notin reasons

MoveCounted ==
  /\ budget.moves > 0
  /\ budget' = [budget EXCEPT !.moves = @ - 1]

\* Mutant: the new watch is not brought to the front.
SwappedInPlace(s, k, w) == [s EXCEPT ![1] = OtherWatch(s, w.lit), ![2] = w.lit]
\* A literal further on takes the watch over and changes places.
Swapped(s, k, w) ==
  [s EXCEPT ![1] = OtherWatch(s, w.lit), ![2] = s[k], ![k] = w.lit]
VisitMoved ==
  /\ Searching
  /\ MoveCounted
  /\ \E w \in watches : \E k \in 3..Len(arena[w.ref].lits) :
       LET s == arena[w.ref].lits IN
         /\ ~w.binary
         /\ NotReason(w)
         /\ arena' = [arena EXCEPT ![w.ref].lits = Swapped(s, k, w)]
         /\ watches' = (watches \ {w}) \cup {Entry(s[k], w, FALSE)}
  /\ UNCHANGED <<top, irredundant, redundant, units, reasons, phase, image, created>>

\* The clause is unit: it becomes the reason of its other watch.  A binary
\* clause is not opened, and keeps its order.
Fronted(s, w) == [s EXCEPT ![1] = OtherWatch(s, w.lit), ![2] = w.lit]
VisitUnit ==
  /\ Searching
  /\ MoveCounted
  /\ \E w \in watches :
       /\ NotReason(w)
       /\ reasons' = reasons \cup {Hold(w.ref, w.id)}
       /\ arena' = IF w.binary THEN arena
                   ELSE [arena EXCEPT ![w.ref].lits = Fronted(arena[w.ref].lits, w)]
  /\ UNCHANGED <<top, irredundant, redundant, watches, units, phase, image, created>>

\* assign_root_units.
AssignUnit ==
  /\ Searching
  /\ \E u \in units : NotReason(u) /\ reasons' = reasons \cup {u}
  /\ UNCHANGED <<storeVars, watches, units, phase, image, created, budget>>

\* analyze_conflict counts a use of every reason it resolves on, and a use is
\* two (bump_clause).  Only the counts of learned clauses are ever read.
Bumped(used) == IF used + 2 > UsedMax THEN UsedMax ELSE used + 2
Bump ==
  /\ Searching
  /\ \E h \in reasons \cap Elements(redundant) :
       arena' = [arena EXCEPT ![h.ref].used = Bumped(arena[h.ref].used)]
  /\ UNCHANGED <<top, irredundant, redundant, holderVars, phase, image, created, budget>>

Backtrack ==
  /\ Searching
  /\ \E kept \in SUBSET reasons : reasons' = kept
  /\ UNCHANGED <<storeVars, watches, units, phase, image, created, budget>>

\* learn_clause: backjump, add, attach, assert.
Learn ==
  /\ Searching
  /\ \E s \in Learnt, kept \in SUBSET reasons : \E glue \in 1..Len(s) :
       /\ Created(s, TRUE, glue)
       /\ redundant' = Append(redundant, NewHold)
       /\ watches' = watches \cup WatchesFor(NewHold, s)
       /\ units' = IF Len(s) < 2 THEN units \cup {NewHold} ELSE units
       /\ reasons' = kept \cup {NewHold}
  /\ UNCHANGED <<irredundant, phase, image, budget>>

\* The episode ends; one the raw search answers keeps what it learned.
Answer ==
  /\ Searching
  /\ phase' = "idle"
  /\ image' = NoImage
  /\ DropHolders
  /\ UNCHANGED <<storeVars, created, budget>>

-----------------------------------------------------------------------------
(* Reduction and compaction.                                               *)

\* Mutant: no reason is marked.
ProtectedNone == {}
\* Reasons are marked for the time of a reduction (protect_trail_reasons).
Protected == RefsOf(reasons)

Tier(block) == IF block.glue <= CoreGlue THEN 0
               ELSE IF block.glue <= RetainedGlue THEN 1 ELSE 2
Candidates ==
  {h \in Elements(redundant) : /\ h.ref \notin Protected
                               /\ Tier(arena[h.ref]) >= 1
                               /\ arena[h.ref].used = 0}
\* At least one, if there is any (trim_to_reduction_quota).
Quota(n) == Max({IF n = 0 THEN 0 ELSE 1, (n * FractionPercent + 99) \div 100})
\* The worst by glue go; activity and size break ties freely.
Selected == {S \in SUBSET Candidates :
               /\ Cardinality(S) = Quota(Cardinality(Candidates))
               /\ \A a \in S, b \in Candidates \ S : arena[a.ref].glue >= arena[b.ref].glue}

\* update_tiers leaves a used mid-glue clause one count of grace and clears
\* the others; decay_quality then halves every count.
Grace(block) == IF block.used >= 2 /\ Tier(block) = 1 THEN 1 ELSE 0
Aged(block) == [block EXCEPT !.used = Grace(block) \div 2]

\* Where blocks of these sizes slide to, by the offsets they had: each to the
\* end of the one before it.
Below(r, offsets) == {q \in offsets : q < r}
Slid(size) ==
  LET to[r \in DOMAIN size] ==
        IF Below(r, DOMAIN size) = {} THEN 0
        ELSE LET p == Max(Below(r, DOMAIN size)) IN to[p] + size[p]
  IN to
\* Mutant: the header is not counted.
TargetWithoutHeader(r, live) == Slid([q \in live |-> Len(arena[q].lits)])[r]
\* Compaction slides the listed clauses down in the order of their offsets.
Target(r, live) == Slid([q \in live |-> Size(arena[q])])[r]
TopAfter(live) == IF live = {} THEN 0 ELSE Target(Max(live), live) + Size(arena[Max(live)])
Invalid == -1
Forward(r, live) == IF r \in live THEN Target(r, live) ELSE Invalid
Forwarded(h, live) == [h EXCEPT !.ref = Forward(h.ref, live)]
ForwardedSeq(hs, live) == [i \in 1..Len(hs) |-> Forwarded(hs[i], live)]
ForwardedSet(hs, live) == {h \in {Forwarded(g, live) : g \in hs} : h.ref # Invalid}

\* solver_core::reduce with collect_garbage.
Reduce ==
  /\ phase = "search" \/ (phase = "probe" /\ ReduceInProbe)
  /\ \E gone \in Selected :
       LET kept == Omitting(redundant, gone)
           live == RefsOf(irredundant \cup Elements(kept))
       IN /\ arena' = [o \in {Target(r, live) : r \in live} |->
                         Aged(arena[CHOOSE r \in live : Target(r, live) = o])]
          /\ top' = TopAfter(live)
          /\ irredundant' = ForwardedSet(irredundant, live)
          /\ redundant' = ForwardedSeq(kept, live)
          /\ watches' = ForwardedSet(watches, live)
          /\ units' = ForwardedSet(units, live)
          /\ reasons' = {Forwarded(h, live) : h \in reasons}
  /\ UNCHANGED <<phase, image, created, budget>>

-----------------------------------------------------------------------------
(* The end of the raw probe: the store goes back to the snapshot.          *)

RestoredTop == Min({top, image.top})
\* Mutant: what was learned is cut off, the bytes before it stay.
RestoredByCutting == [o \in {o \in DOMAIN arena : o < RestoredTop} |-> arena[o]]
RestoredArena == [o \in {o \in DOMAIN image.arena : o < RestoredTop} |-> image.arena[o]]
\* Mutant: the last clause learned before the probe goes with it.
KeptLearnedShort == SubSeq(redundant, 1, Min({Len(redundant), Max({image.learned - 1, 0})}))
\* discard_redundant_since.
KeptLearned == SubSeq(redundant, 1, Min({Len(redundant), image.learned}))
Rollback ==
  /\ phase = "probe"
  /\ phase' = "preprocess"
  /\ arena' = RestoredArena
  /\ top' = RestoredTop
  /\ redundant' = KeptLearned
  /\ image' = NoImage
  /\ DropHolders
  /\ UNCHANGED <<irredundant, created, budget>>

-----------------------------------------------------------------------------
(* Pre- and inprocessing, as far as the store is concerned.                *)

InPasses == phase \in {"preprocess", "inprocess", "closing"}
PassCounted ==
  /\ InPasses
  /\ budget.passes > 0
  /\ budget' = [budget EXCEPT !.passes = @ - 1]

\* An inprocessing epoch comes after a restart, or closes an episode that has
\* its answer.  It backtracks to the root and marks the reasons left; the watch
\* lists are built anew after it.
StartInprocess ==
  /\ \/ phase = "search" /\ phase' \in {"inprocess", "closing"}
     \/ phase = "probe" /\ phase' = "closing"
  /\ image' = NoImage
  /\ \E kept \in SUBSET reasons : reasons' = kept
  /\ watches' = {}
  /\ units' = {}
  /\ UNCHANGED <<storeVars, created, budget>>

\* A resolvent or a definition is stated; a unit found by probing is learned.
PassAdds ==
  /\ PassCounted
  /\ \/ /\ \E s \in Stated : Created(s, FALSE, Len(s))
        /\ irredundant' = irredundant \cup {NewHold}
        /\ UNCHANGED redundant
     \/ /\ \E s \in Learnt : Len(s) = 1 /\ Created(s, TRUE, 1)
        /\ redundant' = Append(redundant, NewHold)
        /\ UNCHANGED irredundant
  /\ UNCHANGED <<holderVars, phase, image>>

\* Clauses are marked garbage and flushed at the end of the pass; a marked
\* clause that is a reason stays (flush_matching).
Flushed(marked) == {h \in marked : h.ref \notin Protected}
PassRemoves ==
  /\ PassCounted
  /\ \E h \in Listed :
       LET gone == Flushed({h}) IN
         /\ arena' = [o \in DOMAIN arena |->
                        IF o \in RefsOf(gone) THEN [arena[o] EXCEPT !.alive = FALSE]
                        ELSE arena[o]]
         /\ irredundant' = irredundant \ gone
         /\ redundant' = Omitting(redundant, gone)
  /\ UNCHANGED <<top, holderVars, phase, image, created>>

\* make_irredundant: a learned clause inherits a stated one's permanence.
PassPromotes ==
  /\ PassCounted
  /\ \E h \in Elements(redundant) :
       /\ redundant' = Omitting(redundant, {h})
       /\ irredundant' = irredundant \cup {h}
       /\ arena' = [arena EXCEPT ![h.ref].redundant = FALSE]
  /\ UNCHANGED <<top, holderVars, phase, image, created>>

\* A literal is removed in place: the clause's bytes end earlier, and the gap
\* stays until the next compaction.
Without(s, k) == [i \in 1..Len(s) - 1 |-> IF i < k THEN s[i] ELSE s[i + 1]]
PassShortens ==
  /\ PassCounted
  /\ \E h \in Listed : \E k \in 1..Len(arena[h.ref].lits) :
       /\ Len(arena[h.ref].lits) > 1
       /\ arena' = [arena EXCEPT ![h.ref].lits = Without(arena[h.ref].lits, k)]
  /\ UNCHANGED <<top, irredundant, redundant, holderVars, phase, image, created>>

EndPasses ==
  /\ \/ /\ phase \in {"preprocess", "inprocess"}
        /\ phase' = "search"
        /\ Rebuild(arena, Listed)
        /\ UNCHANGED reasons
     \/ phase = "closing" /\ phase' = "idle" /\ DropHolders
  /\ UNCHANGED <<storeVars, image, created, budget>>

-----------------------------------------------------------------------------
Init ==
  /\ arena = <<>> /\ top = 0
  /\ irredundant = {} /\ redundant = <<>>
  /\ watches = {} /\ units = {} /\ reasons = {}
  /\ phase = "idle"
  /\ image = NoImage
  /\ created = 0
  /\ budget \in Budgets

Next ==
  \/ AddClause \/ StartProbe \/ StartPreprocess
  \/ VisitMoved \/ VisitUnit \/ AssignUnit
  \/ Bump \/ Backtrack \/ Learn \/ Answer
  \/ Reduce \/ Rollback
  \/ StartInprocess \/ PassAdds \/ PassRemoves \/ PassPromotes \/ PassShortens
  \/ EndPasses

Spec == Init /\ [][Next]_vars

-----------------------------------------------------------------------------
(* Properties.                                                             *)

\* The reference still names the clause it was taken for.
Current(h) ==
  /\ h.ref \in DOMAIN arena
  /\ arena[h.ref].id = h.id
  /\ arena[h.ref].alive

\* The two lists of clause::database name every live clause exactly once, each
\* by a reference that is current, and clauses do not overlap in the arena:
\* through allocation, compaction over gaps and rollback.
ListsExact ==
  /\ \A h \in Listed : Current(h) /\ arena[h.ref].redundant = (h \in Elements(redundant))
  /\ Cardinality(Elements(redundant)) = Len(redundant)
  /\ \A r \in DOMAIN arena : arena[r].alive => r \in RefsOf(Listed)
  /\ \A r \in DOMAIN arena : r + Size(arena[r]) <= top
  /\ \A r, q \in DOMAIN arena : r < q => r + Size(arena[r]) <= q

\* Whatever names a clause outside the lists - a watch entry, a unit, a reason
\* on the trail - names one the lists hold, by its current reference: nothing
\* a reduction or a pass removed is still used, no reason is lost.
HoldersCurrent ==
  /\ \A w \in watches : Hold(w.ref, w.id) \in Listed
  /\ units \subseteq Listed
  /\ reasons \subseteq Listed

\* Every reference in use, in the lists or outside them, is current.
ReferencesCurrent == ListsExact /\ HoldersCurrent

\* During a search the watch entries of a clause are exactly two, on its first
\* two literals, tagged by its length: only then does the XOR in propagate
\* recover the other watch.
WatchedPairs ==
  Searching =>
    \A h \in Listed :
      LET s == arena[h.ref].lits
          mine == {w \in watches : w.id = h.id}
      IN IF Len(s) < 2 THEN mine = {} /\ h \in units
         ELSE /\ {w.lit : w \in mine} = {s[1], s[2]}
              /\ Cardinality(mine) = 2
              /\ h \notin units
              /\ \A w \in mine : w.binary = (Len(s) = 2)

\* Why both hold: what an arena and two lists of references have to be to each
\* other, the state's and, in a probe, the snapshot's.
Blocks == [id : Nat \ {0}, lits : {s \in Seq(Int) : Distinct(s)}, redundant : BOOLEAN,
           alive : BOOLEAN, glue : Nat, used : Nat]
Holds == [ref : Nat, id : Nat]
Intact(ar, tp, stated, learned, names) ==
  /\ tp \in Nat /\ DOMAIN ar \subseteq Nat
  /\ ar \in [DOMAIN ar -> Blocks]
  /\ stated \subseteq Holds /\ learned \in Seq(Holds) /\ Distinct(learned)
  /\ stated \cap Elements(learned) = {}
  /\ \A r \in DOMAIN ar : ar[r].id <= names /\ r + Size(ar[r]) <= tp
  /\ \A r, q \in DOMAIN ar : r < q => r + Size(ar[r]) <= q
  /\ \A r, q \in DOMAIN ar : ar[r].id = ar[q].id => r = q
  /\ \A h \in stated \cup Elements(learned) :
       /\ h.ref \in DOMAIN ar /\ ar[h.ref].id = h.id /\ ar[h.ref].alive
       /\ ar[h.ref].redundant = (h \in Elements(learned))
  /\ \A r \in DOMAIN ar : ar[r].alive => r \in RefsOf(stated \cup Elements(learned))

ImageIntact ==
  /\ image.taken /\ image.learned \in 0..Len(redundant) /\ image.top <= top
  /\ Intact(image.arena, image.top, irredundant, SubSeq(redundant, 1, image.learned), created)
  /\ image.contents =
       {[id |-> h.id, lits |-> image.arena[h.ref].lits,
         redundant |-> image.arena[h.ref].redundant] :
          h \in irredundant \cup Elements(SubSeq(redundant, 1, image.learned))}

Attached ==
  /\ watches = UNION {WatchesFor(h, arena[h.ref].lits) : h \in Listed}
  /\ units = {h \in Listed : Len(arena[h.ref].lits) < 2}

StoreInv ==
  /\ created \in Nat
  /\ phase \in {"idle", "probe", "preprocess", "search", "inprocess", "closing"}
  /\ Intact(arena, top, irredundant, redundant, created)
  /\ IF Searching THEN Attached ELSE watches = {} /\ units = {}
  /\ reasons \subseteq Listed
  /\ phase = "probe" => ImageIntact

\* Giving up the raw probe leaves the clauses of before it, each with its
\* literals in the order they were in: "byte for byte" (solver_core::solve).
RollbackRestores ==
  [][phase = "probe" /\ phase' = "preprocess" => Contents' = image.contents]_vars

\* In particular the stated clauses come back, each where the list of stated
\* clauses looks for it.
StatedComeBack ==
  [][phase = "probe" /\ phase' = "preprocess" =>
       \A h \in irredundant' :
         /\ h.ref \in DOMAIN arena'
         /\ \E c \in image.contents : c.id = h.id /\ c.lits = arena'[h.ref].lits]_vars

\* The store implements the table of clauses its users see.
Meaning(contents) ==
  {[id |-> c.id, lits |-> Elements(c.lits), redundant |-> c.redundant] : c \in contents}
Table == INSTANCE ClauseTable WITH
  table <- Meaning(Contents),
  saved <- IF image.taken THEN {Meaning(image.contents)} ELSE {},
  simplifying <- InPasses
ImplementsTable == Table!Spec
=============================================================================
