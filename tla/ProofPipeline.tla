--------------------------- MODULE ProofPipeline ---------------------------
(***************************************************************************)
(* Clause identity while clauses move.  A clause is reached through its    *)
(* offset in the arena, which changes whenever the clause moves; a proof   *)
(* names it by an id that must not.  Two allocators keep the binding: one  *)
(* inside clause::storage, one inside proof_manager, each with its own     *)
(* table.                                                                  *)
(*                                                                         *)
(* The code moves clauses in two ways, and `wiring` says which of the two  *)
(* assemblies of the same parts a behaviour is about:                      *)
(*   "core"      solver_core: database::compact slides the listed clauses  *)
(*               down the arena, and offsets are used again;               *)
(*   "collector" garbage_collector and compaction_service, as the tests    *)
(*               assemble them: storage::relocate_clause copies a clause   *)
(*               to the arena's end, a redirect is left behind, and the    *)
(*               proof manager is told.                                    *)
(*                                                                         *)
(* Every clause occupies one cell, so an offset is an index into `arena`.  *)
(* A clause is the number of its creation; its literals play no part here. *)
(***************************************************************************)
EXTENDS Integers, Sequences, FiniteSets, SequencesExt, Functions

CONSTANTS MaxClauses,   \* clauses ever created, for each wiring
          MaxCells,     \* cells the arena may hold
          MaxEvents     \* proof events kept

Wirings == {"core", "collector"}

ASSUME BoundsAssumption ==
    MaxClauses \in [Wirings -> Nat] /\ MaxCells \in Nat /\ MaxEvents \in Nat

VARIABLES
    wiring,     \* which assembly runs
    created,    \* number of clauses created so far
    arena,      \* cells: [of, alive, garbage]
    orig,       \* database::irredundant_refs_
    learned,    \* database::redundant_refs_
    redirect,   \* storage::relocated_refs_, offset -> offset
    tracking,   \* storage::proof_ids_enabled_
    ids,        \* storage::id_allocator_
    mgr,        \* proof_manager::id_allocator_
    listening,  \* proof_manager::has_active_consumers
    events,     \* event_stream::buffered_events_
    online,     \* checker::online: active offsets and structural errors
    watches,    \* watch entries, each with the clause it was made for
    reasons,    \* implication reasons, likewise
    moving,     \* garbage_collector::pending_live_refs_
    moved       \* the movers' relocated_refs_: sequences of <<old, new>>

clauseVars == <<created, arena, orig, learned, redirect>>
proofVars  == <<tracking, ids, mgr, listening, events, online>>
holderVars == <<watches, reasons>>
cycleVars  == <<moving, moved>>
vars == <<wiring, clauseVars, proofVars, holderVars, cycleVars>>

Offsets == 1..MaxCells
Movers  == {"collector", "compactor"}
Listed  == ToSet(orig) \cup ToSet(learned)

\* what a sequence holds of a set, in its order
Selected(s, wanted) ==
    LET kept[n \in 0..Len(s)] ==
            IF n = 0 THEN <<>>
            ELSE IF s[n] \in wanted THEN Append(kept[n - 1], s[n]) ELSE kept[n - 1]
    IN kept[Len(s)]

(* id_allocator: offset -> id, id -> offset, and the next id *)

NoIds == [of |-> <<>>, at |-> <<>>, next |-> 1]

Bind(f, k, v) == [x \in DOMAIN f \cup {k} |-> IF x = k THEN v ELSE f[x]]
Unbind(f, k)  == Restrict(f, DOMAIN f \ {k})

\* an offset that is bound keeps its id
AllocateId(a, r) ==
    IF r \in DOMAIN a.of THEN a
    ELSE [of |-> Bind(a.of, r, a.next), at |-> Bind(a.at, a.next, r), next |-> a.next + 1]

AllocatedAll(a, refs) ==
    LET after[n \in 0..Len(refs)] == IF n = 0 THEN a ELSE AllocateId(after[n - 1], refs[n])
    IN after[Len(refs)]

IdFor(a, r) == IF r \in DOMAIN a.of THEN a.of[r] ELSE 0

\* the binding moves, unless the new offset belongs to another id
PreserveId(a, old, new) ==
    IF \/ old = new
       \/ old \notin DOMAIN a.of
       \/ new \in DOMAIN a.of /\ a.of[new] # a.of[old]
    THEN a
    ELSE [a EXCEPT !.of = Bind(Unbind(a.of, old), new, a.of[old]),
                   !.at = Bind(a.at, a.of[old], new)]

\* a bug: nothing is retired
RetireNothing(a, r) == a

RetireId(a, r) ==
    LET id == IdFor(a, r) IN
    IF id \notin DOMAIN a.at THEN a
    ELSE [a EXCEPT !.of = Unbind(a.of, a.at[id]), !.at = Unbind(a.at, id)]

RetiredAll(a, refs) ==
    LET after[n \in 0..Len(refs)] == IF n = 0 THEN a ELSE RetireId(after[n - 1], refs[n])
    IN after[Len(refs)]

(* storage: a redirect is left where relocate_clause took a clause away *)

\* a bug: only the first redirect is followed
ResolveOnce(links, r) == IF r \in DOMAIN links THEN links[r] ELSE r

Resolve(links, r) ==
    LET home[k \in 0..MaxCells] ==
            IF k = 0 THEN r
            ELSE IF home[k - 1] \in DOMAIN links THEN links[home[k - 1]] ELSE home[k - 1]
    IN home[MaxCells]

Home(r)        == Resolve(redirect, r)
Alive(r)       == Home(r) \in DOMAIN arena /\ arena[Home(r)].alive
Garbage(r)     == Alive(r) /\ arena[Home(r)].garbage
ClauseAt(r)    == arena[Home(r)].of
Iterated(refs) == Selected(refs, {r \in ToSet(refs) : ~Garbage(r)})

\* create_clause at the arena's end, and add_clause's list
Create(r, learnt) ==
    /\ created < MaxClauses[wiring]
    /\ r = Len(arena) + 1
    /\ r \in Offsets
    /\ created' = created + 1
    /\ arena' = Append(arena, [of |-> created + 1, alive |-> TRUE, garbage |-> FALSE])
    /\ orig' = IF learnt THEN orig ELSE Append(orig, r)
    /\ learned' = IF learnt THEN Append(learned, r) ELSE learned
    /\ ids' = IF tracking THEN AllocateId(ids, r) ELSE ids
    /\ watches' = watches \cup {[ref |-> r, of |-> created + 1]}
    /\ UNCHANGED <<wiring, redirect, tracking, listening, cycleVars>>

(* proof_manager: an event with the id of its clause, when anyone listens *)

OnlineAdd(o, r) ==
    IF r \in o.active THEN [o EXCEPT !.errors = 1] ELSE [o EXCEPT !.active = @ \cup {r}]

\* one deletion for each reference: an offset that is not active, or not any
\* more, is an error
OnlineDeleted(o, refs) ==
    [active |-> o.active \ ToSet(refs),
     errors |-> IF ToSet(refs) \subseteq o.active /\ IsInjective(refs) THEN o.errors ELSE 1]

OnlineRelocate(o, old, new) ==
    IF old \in o.active THEN [o EXCEPT !.active = (@ \ {old}) \cup {new}] ELSE o

\* the ids of the clauses a derivation used; an unknown clause is left out
ChainIds(refs) == SelectSeq([k \in DOMAIN refs |-> IdFor(mgr, refs[k])], LAMBDA id : id # 0)

DispatchAdd(r, refs) ==
    IF listening
    THEN /\ Len(events) < MaxEvents
         /\ mgr' = AllocateId(mgr, r)
         /\ events' = Append(events, [id |-> IdFor(mgr', r), of |-> created',
                                      chain |-> ChainIds(refs)])
         /\ online' = IF wiring = "collector" THEN OnlineAdd(online, r) ELSE online
    ELSE UNCHANGED <<mgr, events, online>>

---------------------------------------------------------------------------
(* solver_core: what the shipped solver does to clauses and their ids *)

AddOriginal ==
    \E r \in Offsets : /\ Create(r, FALSE)
                       /\ DispatchAdd(r, <<>>)
                       /\ UNCHANGED reasons

\* learn_clause: the learned clause becomes the reason of its first literal
Learn ==
    /\ wiring = "core"
    /\ \E r \in Offsets, refs \in SeqOf(Listed, 1) :
         /\ refs # <<>>
         /\ Create(r, TRUE)
         /\ DispatchAdd(r, refs)
         /\ reasons' = {[ref |-> r, of |-> created']}

\* a simplification pass adds clauses without a word to the proof manager
PassAdd ==
    /\ wiring = "core"
    /\ \E r \in Offsets, learnt \in BOOLEAN : Create(r, learnt)
    /\ UNCHANGED <<mgr, events, online, reasons>>

Backtrack ==
    /\ reasons # {}
    /\ reasons' = {}
    /\ UNCHANGED <<wiring, clauseVars, proofVars, watches, cycleVars>>

\* the clauses already there get ids, in the order of the lists
AttachTracer ==
    LET living(refs) == Selected(refs, {r \in ToSet(refs) : Alive(r)}) IN
    /\ wiring = "core"
    /\ ids' = AllocatedAll(ids, (IF tracking THEN <<>> ELSE living(orig)) \o living(learned))
    /\ tracking' = TRUE
    /\ mgr' = AllocatedAll(mgr, Iterated(orig) \o Iterated(learned))
    /\ listening' = TRUE
    /\ UNCHANGED <<wiring, clauseVars, events, online, holderVars, cycleVars>>

\* flush_satisfied: the listed clauses in S go, but a reason stays
Flush ==
    \E S \in SUBSET Listed :
      LET gone == {r \in S : ClauseAt(r) \notin {h.of : h \in reasons}}
          swept == Selected(orig \o learned, gone)
      IN
      /\ S # {}
      /\ arena' = [r \in DOMAIN arena |->
                     CASE r \in {Home(g) : g \in gone} ->
                            [arena[r] EXCEPT !.alive = FALSE, !.garbage = FALSE]
                       [] r \in {Home(g) : g \in S \ gone} -> [arena[r] EXCEPT !.garbage = FALSE]
                       [] OTHER -> arena[r]]
      /\ orig' = Selected(orig, ToSet(orig) \ gone)
      /\ learned' = Selected(learned, ToSet(learned) \ gone)
      /\ ids' = IF tracking THEN RetiredAll(ids, [k \in DOMAIN swept |-> Home(swept[k])]) ELSE ids
      /\ IF wiring = "collector"
         THEN /\ mgr' = RetiredAll(mgr, swept)
              /\ online' = OnlineDeleted(online, swept)
         ELSE UNCHANGED <<mgr, online>>
      /\ UNCHANGED <<wiring, created, redirect, tracking, listening, events, holderVars, cycleVars>>

\* collect_garbage: the listed clauses slide down in the order of their offsets
SlideOrder == Selected([k \in 1..Len(arena) |-> k], {Home(r) : r \in Listed})

\* each clause's id follows it, the lowest clause first
Followed(a, order) ==
    LET after[n \in 0..Len(order)] == IF n = 0 THEN a ELSE PreserveId(after[n - 1], order[n], n)
    IN after[Len(order)]

CollectGarbage ==
    LET order      == SlideOrder
        to(r)      == CHOOSE k \in DOMAIN order : order[k] = Home(r)
        stays(h)   == Home(h.ref) \in ToSet(order)
    IN
    /\ wiring = "core"
    /\ arena # <<>>
    /\ arena' = [k \in DOMAIN order |-> arena[order[k]]]
    /\ orig' = [k \in DOMAIN orig |-> to(orig[k])]
    /\ learned' = [k \in DOMAIN learned |-> to(learned[k])]
    /\ redirect' = <<>>
    /\ ids' = IF tracking THEN Followed(ids, order) ELSE ids
    /\ watches' = {[h EXCEPT !.ref = to(h.ref)] : h \in {w \in watches : stays(w)}}
    /\ reasons' = {[h EXCEPT !.ref = to(h.ref)] : h \in reasons}
    /\ UNCHANGED <<wiring, created, tracking, mgr, listening, events, online, cycleVars>>

---------------------------------------------------------------------------
(* garbage_collector and compaction_service *)

\* mark_garbage
MarkGarbage ==
    /\ wiring = "collector"
    /\ \E r \in Listed :
         /\ Alive(r) /\ ~Garbage(r)
         /\ arena' = [arena EXCEPT ![Home(r)].garbage = TRUE]
    /\ UNCHANGED <<wiring, created, orig, learned, redirect, proofVars, holderVars, cycleVars>>

\* an assignment gets a listed clause as its reason
Imply ==
    /\ wiring = "collector"
    /\ \E r \in Listed : /\ Alive(r)
                         /\ reasons' = {[ref |-> r, of |-> ClauseAt(r)]}
    /\ UNCHANGED <<wiring, clauseVars, proofVars, watches, cycleVars>>

Replace(refs, old, new) == [k \in DOMAIN refs |-> IF refs[k] = old THEN new ELSE refs[k]]

\* what moving one clause changes, and what is said to the proof manager
MoveState ==
    [arena |-> arena, redirect |-> redirect, ids |-> ids, mgr |-> mgr, online |-> online,
     orig |-> orig, learned |-> learned, moves |-> <<>>]

Moved(s, old) ==
    LET from == Resolve(s.redirect, old)
        new  == Len(s.arena) + 1
    IN
    IF from \notin DOMAIN s.arena \/ ~s.arena[from].alive THEN s
    ELSE [arena    |-> Append([s.arena EXCEPT ![from].alive = FALSE], s.arena[from]),
          redirect |-> Bind(s.redirect, from, new),
          ids      |-> IF tracking THEN PreserveId(s.ids, from, new) ELSE s.ids,
          mgr      |-> PreserveId(s.mgr, old, new),
          online   |-> OnlineRelocate(s.online, old, new),
          orig     |-> Replace(s.orig, old, new),
          learned  |-> Replace(s.learned, old, new),
          moves    |-> Append(s.moves, <<old, new>>)]

MovedAll(refs) ==
    LET after[n \in 0..Len(refs)] == IF n = 0 THEN MoveState ELSE Moved(after[n - 1], refs[n])
    IN after[Len(refs)]

Become(s) ==
    /\ Len(s.arena) <= MaxCells
    /\ arena' = s.arena
    /\ redirect' = s.redirect
    /\ ids' = s.ids
    /\ mgr' = s.mgr
    /\ online' = s.online
    /\ orig' = s.orig
    /\ learned' = s.learned
    /\ UNCHANGED <<wiring, created, tracking, listening, events, holderVars>>

\* garbage_collector::collect
Collect ==
    /\ wiring = "collector"
    /\ moving' = Iterated(orig) \o Iterated(learned)
    /\ moved' = [moved EXCEPT !["collector"] = <<>>]
    /\ UNCHANGED <<wiring, clauseVars, proofVars, holderVars>>

\* garbage_collector::relocate_live_clause, one clause for each call
RelocateLiveClause ==
    /\ moving # <<>>
    /\ LET s == Moved(MoveState, Head(moving)) IN
       /\ Become(s)
       /\ moved' = [moved EXCEPT !["collector"] = @ \o s.moves]
    /\ moving' = Tail(moving)

\* compaction_service::rewrite_literals moves every clause of the lists
RewriteLiterals ==
    /\ wiring = "collector"
    /\ LET s == MovedAll(Iterated(orig \o learned)) IN
       /\ Become(s)
       /\ moved' = [moved EXCEPT !["compactor"] = s.moves]
    /\ UNCHANGED moving

RenamedOnce(holders, move) ==
    {IF h.ref = move[1] THEN [h EXCEPT !.ref = move[2]] ELSE h : h \in holders}

Renamed(holders, moves) ==
    LET after[n \in 0..Len(moves)] == IF n = 0 THEN holders ELSE RenamedOnce(after[n - 1], moves[n])
    IN after[Len(moves)]

\* rewrite_watchers, rewrite_watches
RewriteWatches ==
    /\ \E m \in Movers : /\ moved[m] # <<>>
                         /\ watches' = Renamed(watches, moved[m])
    /\ UNCHANGED <<wiring, clauseVars, proofVars, reasons, cycleVars>>

\* rewrite_reasons looks each reason up once, in the table of the whole cycle
RewriteReasons ==
    /\ \E m \in Movers :
         /\ moved[m] # <<>>
         /\ reasons' = {LET hits == {k \in DOMAIN moved[m] : moved[m][k][1] = h.ref} IN
                        IF hits = {} THEN h
                        ELSE [h EXCEPT !.ref = moved[m][CHOOSE k \in hits : \A j \in hits : j <= k][2]]
                        : h \in reasons}
    /\ UNCHANGED <<wiring, clauseVars, proofVars, watches, cycleVars>>

---------------------------------------------------------------------------

\* solver_core starts with neither ids nor a consumer; a stand-alone storage
\* and proof manager start with both
Init ==
    /\ wiring \in Wirings
    /\ created = 0
    /\ arena = <<>> /\ orig = <<>> /\ learned = <<>> /\ redirect = <<>>
    /\ tracking = (wiring = "collector")
    /\ listening = (wiring = "collector")
    /\ ids = NoIds /\ mgr = NoIds
    /\ events = <<>>
    /\ online = [active |-> {}, errors |-> 0]
    /\ watches = {} /\ reasons = {}
    /\ moving = <<>>
    /\ moved = [m \in Movers |-> <<>>]

Next == \/ AddOriginal \/ Learn \/ PassAdd \/ Backtrack \/ AttachTracer
        \/ Flush \/ CollectGarbage
        \/ MarkGarbage \/ Imply \/ Collect \/ RelocateLiveClause
        \/ RewriteLiterals \/ RewriteWatches \/ RewriteReasons

Spec == Init /\ [][Next]_vars

---------------------------------------------------------------------------
(* Properties *)

\* The variables keep their types.
TypeOK ==
    /\ wiring \in Wirings
    /\ created \in 0..MaxClauses[wiring]
    /\ arena \in Seq([of : 1..MaxClauses[wiring], alive : BOOLEAN, garbage : BOOLEAN])
    /\ Len(arena) <= MaxCells
    /\ orig \in Seq(Offsets) /\ learned \in Seq(Offsets)
    /\ DOMAIN redirect \subseteq Offsets
    /\ tracking \in BOOLEAN /\ listening \in BOOLEAN
    /\ \A a \in {ids, mgr} : /\ DOMAIN a.of \subseteq Offsets
                             /\ a.next \in Nat \ {0}
    /\ Len(events) <= MaxEvents
    /\ online.active \subseteq Offsets

\* However clauses are flushed, slid down the arena or copied to its end, the
\* id clause::storage gives a clause never changes while the clause is listed;
\* and while ids are tracked every listed clause has one, its own.
Identified == {<<ClauseAt(r), IdFor(ids, Home(r))>> : r \in Listed}

IdsTellClausesApart ==
    tracking => /\ \A r \in Listed : IdFor(ids, Home(r)) # 0
                /\ \A r, s \in Listed : IdFor(ids, Home(r)) = IdFor(ids, Home(s)) => Home(r) = Home(s)

IdentitySurvivesMoves ==
    /\ []IdsTellClausesApart
    /\ [][tracking => \A old \in Identified, new \in Identified' :
                          old[1] = new[1] => old[2] = new[2]]_vars

\* No watch and no reason ever reaches another clause than the one it was made
\* for, however stale its offset is, and a reason is always alive.
HoldersReachTheirClause ==
    /\ \A h \in watches : Home(h.ref) \in DOMAIN arena /\ ClauseAt(h.ref) = h.of
    /\ \A h \in reasons : Alive(h.ref) /\ ClauseAt(h.ref) = h.of

\* Told of every move and of every deletion, the proof manager finds the id a
\* clause was logged with under the offset the lists name it by, and its
\* structural checker counts no error.
ManagerFollowsMoves ==
    wiring = "collector" =>
        /\ \A r \in Listed, k \in DOMAIN events :
               ClauseAt(r) = events[k].of => IdFor(mgr, r) = events[k].id
        /\ online.errors = 0

\* Whoever holds an old reference, and the proof manager too, ends at the clause
\* it was given for.
ReferencesResolve == HoldersReachTheirClause /\ ManagerFollowsMoves

\* The documented promise of an id: it is never given to a second clause.
IdsNeverReissued ==
    \A j, k \in DOMAIN events : events[j].id = events[k].id => events[j].of = events[k].of

=============================================================================
