-------------------------------- MODULE Banks --------------------------------
(***************************************************************************)
(* The two banks everything else names by plain numbers: bank::arena under *)
(* clause::storage, byte for byte, and bank::watch_list.                    *)
(*                                                                         *)
(* Module ClauseStore takes the arena for a map from offsets to clauses.   *)
(* Here it is what it is: two regions of cells that keep what was once     *)
(* written to them when their size goes down, offsets that are not checked *)
(* against clause boundaries, and redirects left behind by a relocation.   *)
(* A cell is a header (the number of literals, and whether the clause is   *)
(* alive) or a literal; it does not say which.                             *)
(***************************************************************************)
EXTENDS Integers, Sequences, FiniteSets, SequencesExt, FiniteSetsExt, Functions

CONSTANTS
  Reservation,   \* cells reserved for a region (2^32 bytes)
  CommitChunk,   \* cells made accessible at a time (16 MB)
  Texts,         \* the literal sequences clauses are made of
  MaxOperations, \* bound: operations on the store
  DirectLimit,   \* literal index from which a list is kept in the overflow map
  WatchIndexes,  \* the literal indexes used
  WatchRefs,     \* the clause references watched, all positive
  Blockers,      \* the literal indexes an entry is given as its blocking literal
  Remaps         \* the renumberings of literals a compaction may ask for

VARIABLES
  active,      \* the active region: its cells, its size, what is accessible
  survivor,    \* the survivor region
  redirects,   \* relocated_refs_: where a relocated clause went
  taken,       \* the image a raw probe took of the active region, if any
  operations,  \* operations on the store so far
  book,        \* history: for each reference handed out, what it must read
  direct,      \* direct_lists_, from index 0
  overflow,    \* overflow_lists_
  watchers     \* history: the references watched by each literal index

arenaVars == <<active, survivor, redirects, taken, operations, book>>
watchVars == <<direct, overflow, watchers>>

-----------------------------------------------------------------------------
(* Regions (byte_storage).                                                 *)

Cells == 0 .. Reservation - 1
Blank == <<0, FALSE>>
Header(n, alive) == <<n, alive>>
Cell(lit) == <<lit, FALSE>>
Region == [size |-> 0, committed |-> 0, cells |-> [i \in Cells |-> Blank]]

RoundToCommitChunk(n) == ((n + CommitChunk - 1) \div CommitChunk) * CommitChunk

\* resize: growth commits whole chunks; the cells that come back into use keep
\* what they held
Fits(region, n) == n <= region.committed \/ RoundToCommitChunk(n) <= Reservation
Resized(region, n) ==
  IF n <= region.committed THEN [region EXCEPT !.size = n]
  ELSE [region EXCEPT !.size = n, !.committed = RoundToCommitChunk(n)]
Cleared(region) == [region EXCEPT !.size = 0]

\* cells written from offset `at` on
Written(region, at, cells) ==
  [region EXCEPT !.cells = [i \in Cells |-> IF i \in at .. at + Len(cells) - 1 THEN cells[i - at + 1] ELSE @[i]]]
Stretch(region, at, n) == [i \in 1..n |-> region.cells[at + i - 1]]

LiteralCount(region, ref) == IF ref + 1 > region.size THEN 0 ELSE region.cells[ref][1]
Footprint(region, ref) == 1 + LiteralCount(region, ref)
ReadLiterals(region, ref) == [i \in 1..LiteralCount(region, ref) |-> region.cells[ref + i][1]]
IsAlive(region, ref) == ref + 1 <= region.size /\ region.cells[ref][2]

-----------------------------------------------------------------------------
(* clause::storage.                                                        *)

\* a bug: only the first step of a chain of relocations is followed
ResolveRefOnce(ref) == IF ref \in DOMAIN redirects THEN redirects[ref] ELSE ref

\* resolve_ref: a chain of relocations is followed to its end
RECURSIVE ResolveRef(_)
ResolveRef(ref) == IF ref \in DOMAIN redirects THEN ResolveRef(redirects[ref]) ELSE ref

Probing == taken.is

Called == operations < MaxOperations /\ operations' = operations + 1
Changing == ~Probing /\ Called

\* allocate_clause and write_literals; nothing is made when the region is full
Room(n) == Fits(active, active.size + 1 + n)
Allocated(cells) == Written(Resized(active, active.size + Len(cells)), active.size, cells)

Image(s) == <<Header(Len(s), TRUE)>> \o [i \in DOMAIN s |-> Cell(s[i])]

CreateClause ==
  /\ Called
  /\ \E s \in Texts :
       /\ Room(Len(s))
       /\ active' = Allocated(Image(s))
       /\ book' = [r \in DOMAIN book \cup {active.size} |-> IF r = active.size THEN s ELSE book[r]]
  /\ UNCHANGED <<survivor, redirects, taken>>

Same(r, h) == ResolveRef(r) = ResolveRef(h)

DestroyClause ==
  /\ Changing
  /\ \E h \in DOMAIN book :
       /\ active' = [active EXCEPT !.cells[ResolveRef(h)] = Header(@[1], FALSE)]
       /\ book' = Restrict(book, {r \in DOMAIN book : ~Same(r, h)})
  /\ UNCHANGED <<survivor, redirects, taken>>

\* relocate_clause: the copy is made at the end, the original dies and is
\* redirected; references to it stay in use
RelocateClause ==
  /\ Changing
  /\ \E h \in DOMAIN book :
       LET r == ResolveRef(h)
           copy == Stretch(active, r, Footprint(active, r))
       IN /\ IsAlive(active, r)
          /\ Room(LiteralCount(active, r))
          /\ active' = [Allocated(copy) EXCEPT !.cells[r] = Header(@[1], FALSE)]
          /\ redirects' = [o \in DOMAIN redirects \cup {r} |-> IF o = r THEN active.size ELSE redirects[o]]
          /\ book' = [o \in DOMAIN book \cup {active.size} |-> IF o = active.size THEN book[h] ELSE book[o]]
  /\ UNCHANGED <<survivor, taken>>

\* resolve_relocated_ref also shortens the chain it followed
ResolveRelocatedRef ==
  /\ \E r \in DOMAIN redirects : redirects' = [redirects EXCEPT ![r] = ResolveRef(r)]
  /\ UNCHANGED <<active, survivor, taken, operations, book>>

Reading(h, s) == [r \in DOMAIN book |-> IF Same(r, h) THEN s ELSE book[r]]

\* shrink_clause, rewrite_clause_literals: the count goes down, the cells stay
ShrinkClause ==
  /\ Changing
  /\ \E h \in DOMAIN book : \E n \in 0 .. Len(book[h]) - 1 :
       /\ active' = [active EXCEPT !.cells[ResolveRef(h)] = Header(n, @[2])]
       /\ book' = Reading(h, SubSeq(book[h], 1, n))
  /\ UNCHANGED <<survivor, redirects, taken>>

RewriteClauseLiterals ==
  /\ Changing
  /\ \E h \in DOMAIN book : \E s \in Texts :
       /\ Len(s) <= LiteralCount(active, ResolveRef(h))
       /\ active' = Written(active, ResolveRef(h), <<Header(Len(s), active.cells[ResolveRef(h)][2])>> \o [i \in DOMAIN s |-> Cell(s[i])])
       /\ book' = Reading(h, s)
  /\ UNCHANGED <<survivor, redirects, taken>>

\* mutable_literals, as propagation uses them: two literals change places
PermuteLiterals ==
  /\ Called
  /\ \E h \in DOMAIN book :
       LET r == ResolveRef(h) IN
       /\ Len(book[h]) >= 2
       /\ active' = [active EXCEPT !.cells[r + 1] = active.cells[r + 2], !.cells[r + 2] = active.cells[r + 1]]
       /\ book' = Reading(h, <<book[h][2], book[h][1]>> \o SubSeq(book[h], 3, Len(book[h])))
  /\ UNCHANGED <<survivor, redirects, taken>>

\* compact: the live clauses slide down in order of their offsets, each holder
\* is told, the rest is cut off and the redirects are forgotten
LiveRefs == {ResolveRef(h) : h \in DOMAIN book}
Order == SetToSortSeq(LiveRefs, LAMBDA a, b : a < b)

Slid ==
  FoldLeft(LAMBDA s, r :
             LET n == Footprint(s.region, r)
             IN [region |-> Written(s.region, s.write, Stretch(s.region, r, n)),
                 write |-> s.write + n, at |-> Append(s.at, s.write)],
           [region |-> active, write |-> 0, at |-> <<>>], Order)

Compact ==
  /\ Changing
  /\ active' = Resized(Slid.region, Slid.write)
  /\ book' = [o \in Range(Slid.at) |-> book[CHOOSE h \in DOMAIN book :
                                              ResolveRef(h) = Order[CHOOSE k \in DOMAIN Order : Slid.at[k] = o]]]
  /\ redirects' = [r \in {} |-> 0]
  /\ UNCHANGED <<survivor, taken>>

\* prepare_gc, materialize_clause for every live clause, swap_survivor,
\* release_inactive: each clause keeps its offset; between them lies whatever
\* the other region last held there.  Nothing in the source evacuates a store;
\* a redirect would outlive the offsets it joins, so there is none here.
Materialized ==
  FoldLeft(LAMBDA region, r :
             LET n == Footprint(active, r)
             IN Written(IF region.size < r + n THEN Resized(region, r + n) ELSE region, r, Stretch(active, r, n)),
           Cleared(survivor), Order)

Evacuate ==
  /\ Changing
  /\ DOMAIN redirects = {}
  /\ active' = Materialized
  /\ survivor' = Cleared(active)
  /\ UNCHANGED <<redirects, taken, book>>

\* snapshot_active and restore_active, around a raw probe that only creates
\* clauses and permutes literals
SnapshotActive ==
  /\ Changing
  /\ taken' = [is |-> TRUE, cells |-> Stretch(active, 0, active.size), book |-> book]
  /\ UNCHANGED <<active, survivor, redirects, book>>

RestoreActive ==
  /\ Probing
  /\ Called
  /\ active' = Written(IF Len(taken.cells) <= active.size THEN Resized(active, Len(taken.cells)) ELSE active,
                       0, taken.cells)
  /\ book' = taken.book
  /\ taken' = [is |-> FALSE, cells |-> <<>>, book |-> <<>>]
  /\ UNCHANGED <<survivor, redirects>>

ArenaInit ==
  /\ active = Region
  /\ survivor = Region
  /\ redirects = [r \in {} |-> 0]
  /\ taken = [is |-> FALSE, cells |-> <<>>, book |-> <<>>]
  /\ operations = 0
  /\ book = [r \in {} |-> <<>>]

ArenaNext ==
  \/ CreateClause \/ DestroyClause \/ RelocateClause \/ ResolveRelocatedRef
  \/ ShrinkClause \/ RewriteClauseLiterals \/ PermuteLiterals
  \/ Compact \/ Evacuate \/ SnapshotActive \/ RestoreActive

-----------------------------------------------------------------------------
(* watch_list.  An entry is the reference of a clause and a blocking       *)
(* literal, and two entries are equal when they name one clause.           *)

Entry(ref, blocker) == [ref |-> ref, blocker |-> blocker]
IsDirect(index) == index < DirectLimit
IsStored(index) == IF IsDirect(index) THEN index < Len(direct) ELSE index \in DOMAIN overflow

\* direct_lists_ is a vector: the list of index i is its element i + 1
ListOf(index) ==
  IF ~IsStored(index) THEN <<>>
  ELSE IF IsDirect(index) THEN direct[index + 1] ELSE overflow[index]

Grown(n) == [i \in 1 .. Max({n, Len(direct)}) |-> IF i <= Len(direct) THEN direct[i] ELSE <<>>]

\* ensure_list, grow_list, then the list replaced
Store(index, list) ==
  IF IsDirect(index)
  THEN direct' = [Grown(index + 1) EXCEPT ![index + 1] = list] /\ UNCHANGED overflow
  ELSE /\ overflow' = [i \in DOMAIN overflow \cup {index} |-> IF i = index THEN list ELSE overflow[i]]
       /\ UNCHANGED direct

Position(list, ref) == {k \in DOMAIN list : list[k].ref = ref}
WithoutRefs(list, refs) == SelectSeq(list, LAMBDA e : e.ref \notin refs)

\* the first entry of each clause
FirstOfEach(list) ==
  LET first == {k \in DOMAIN list : \A j \in 1 .. k - 1 : list[j].ref # list[k].ref}
  IN [i \in 1 .. Cardinality(first) |-> list[SetToSortSeq(first, LAMBDA a, b : a < b)[i]]]

Nonempty(map) == Restrict(map, {i \in DOMAIN map : map[i] # <<>>})

\* every list at once; a map that prunes drops the lists it emptied
Everywhere(F(_), prune) ==
  LET rewritten == [i \in DOMAIN overflow |-> F(overflow[i])]
  IN /\ direct' = [i \in DOMAIN direct |-> F(direct[i])]
     /\ overflow' = IF prune THEN Nonempty(rewritten) ELSE rewritten

Reserve ==
  /\ \E n \in 1 .. DirectLimit - 1 : n > Len(direct) /\ direct' = Grown(n)
  /\ UNCHANGED <<overflow, watchers>>

\* watch_literal replaces the entry of a clause already watched here
WatchLiteral ==
  \E i \in WatchIndexes, r \in WatchRefs, b \in Blockers :
    LET list == ListOf(i) IN
    /\ Store(i, IF Position(list, r) = {} THEN Append(list, Entry(r, b))
                ELSE [list EXCEPT ![Min(Position(list, r))] = Entry(r, b)])
    /\ watchers' = [watchers EXCEPT ![i] = @ \cup {r}]

\* push_watch appends: its callers know the clause is not watched here yet
PushWatch ==
  \E i \in WatchIndexes, r \in WatchRefs, b \in Blockers :
    /\ r \notin watchers[i]
    /\ Store(i, Append(ListOf(i), Entry(r, b)))
    /\ watchers' = [watchers EXCEPT ![i] = @ \cup {r}]

UnwatchLiteral ==
  \E i \in WatchIndexes, r \in WatchRefs :
    LET list == WithoutRefs(ListOf(i), {r}) IN
    /\ IsStored(i)
    /\ IF IsDirect(i) THEN direct' = [direct EXCEPT ![i + 1] = list] /\ UNCHANGED overflow
       ELSE overflow' = Nonempty([overflow EXCEPT ![i] = list]) /\ UNCHANGED direct
    /\ watchers' = [watchers EXCEPT ![i] = @ \ {r}]

ClearEntries ==
  /\ direct' = [i \in DOMAIN direct |-> <<>>]
  /\ overflow' = [i \in {} |-> <<>>]
  /\ watchers' = [i \in WatchIndexes |-> {}]

\* The forwarding after a compaction: each clause goes to a reference of its
\* own, or is gone (0).
Forwards == {f \in [WatchRefs -> WatchRefs \cup {0}] :
               \A r, q \in WatchRefs : f[r] = f[q] /\ r # q => f[r] = 0}

RewriteRefs ==
  \E f \in Forwards :
    /\ Everywhere(LAMBDA list : SelectSeq([k \in DOMAIN list |-> [list[k] EXCEPT !.ref = f[@]]],
                                          LAMBDA e : e.ref # 0), FALSE)
    /\ watchers' = [i \in WatchIndexes |-> {f[r] : r \in watchers[i]} \ {0}]

ReplaceClauseRefAfterGc ==
  \E old, new \in WatchRefs :
    /\ old # new
    /\ Everywhere(LAMBDA list : FirstOfEach([k \in DOMAIN list |->
                                  IF list[k].ref = old THEN [list[k] EXCEPT !.ref = new] ELSE list[k]]), FALSE)
    /\ watchers' = [i \in WatchIndexes |-> {IF r = old THEN new ELSE r : r \in watchers[i]}]

FlushLargeWatches ==
  \E garbage \in SUBSET WatchRefs :
    /\ Everywhere(LAMBDA list : WithoutRefs(list, garbage), TRUE)
    /\ watchers' = [i \in WatchIndexes |-> watchers[i] \ garbage]

\* reindex_after_compaction: lists are read in order of their indexes and
\* inserted where `remap` sends their literal; lists that meet are merged
Indexes == SetToSortSeq({i \in WatchIndexes : ListOf(i) # <<>>}, LAMBDA a, b : a < b)

Merged(remap, target) ==
  LET sources == SelectSeq(Indexes, LAMBDA i : remap[i] = target)
  IN FirstOfEach(FlattenSeq([k \in DOMAIN sources |->
       [j \in DOMAIN ListOf(sources[k]) |->
          [ListOf(sources[k])[j] EXCEPT !.blocker = remap[@]]]]))

ReindexAfterCompaction ==
  \E remap \in Remaps :
    LET targets == {remap[Indexes[k]] : k \in DOMAIN Indexes}
        highest == Max({-1} \cup {i \in targets : IsDirect(i)})
    IN /\ direct' = [i \in 1 .. highest + 1 |-> Merged(remap, i - 1)]
       /\ overflow' = [i \in {t \in targets : ~IsDirect(t)} |-> Merged(remap, i)]
       /\ watchers' = [i \in WatchIndexes |-> UNION {watchers[j] : j \in {k \in WatchIndexes : remap[k] = i}}]

WatchInit ==
  /\ direct = <<>>
  /\ overflow = [i \in {} |-> <<>>]
  /\ watchers = [i \in WatchIndexes |-> {}]

WatchNext ==
  \/ Reserve \/ WatchLiteral \/ PushWatch \/ UnwatchLiteral \/ ClearEntries
  \/ RewriteRefs \/ ReplaceClauseRefAfterGc \/ FlushLargeWatches \/ ReindexAfterCompaction

-----------------------------------------------------------------------------
\* A reference keeps naming the clause it was handed out for: its header is
\* alive, the literals are those last written, and no two live clauses share a
\* cell or reach past what is in use or accessible - whatever was relocated,
\* compacted, evacuated or rolled back in between (clause::storage).
ReferencesRead ==
  /\ \A h \in DOMAIN book :
       LET r == ResolveRef(h) IN
       /\ IsAlive(active, r)
       /\ ReadLiterals(active, r) = book[h]
       /\ r + Footprint(active, r) <= active.size
  /\ \A a, b \in LiveRefs : a < b => a + Footprint(active, a) <= b
  /\ \A region \in {active, survivor} : region.size <= region.committed /\ region.committed <= Reservation

\* A literal's list has one entry for each clause watched on it and no other,
\* on whichever side of the limit its index lies, after any sequence of
\* rewrites; no list lies on the wrong side (bank::watch_list).
ListsKept ==
  /\ \A i \in WatchIndexes :
       /\ {e.ref : e \in Range(ListOf(i))} = watchers[i]
       /\ Len(ListOf(i)) = Cardinality(watchers[i])
  /\ Len(direct) <= DirectLimit
  /\ \A i \in DOMAIN overflow : ~IsDirect(i)

\* The banks never lose or confuse what is kept under a number.
BanksKept == ReferencesRead /\ ListsKept
=============================================================================
