------------------------------ MODULE Decision ------------------------------
(***************************************************************************)
(* The decision engine of the stand-alone coordinator: a move-to-front     *)
(* queue kept as a doubly linked list, a heap of activities whose pops     *)
(* consume it, and the saved polarities, driven by a search that assigns,  *)
(* meets conflicts and retracts.  Activities are counted in units in which *)
(* the decay of a conflict is exact.                                       *)
(***************************************************************************)
EXTENDS Integers, Sequences, FiniteSets, SequencesExt, Folds

CONSTANTS
    Candidates,         \* the variables of the formula, 1..n
    Implied,            \* the literals propagation assigns
    Batches,            \* what a conflict hands over: sequences of literals
    StartBumps,         \* the bumps made before the behaviour begins
    MaintenanceInterval,
    MaxNotifications    \* bound: calls of the search

VARIABLES
    queue,      \* vmtf_queue: nodes with their links, the node of a variable, both ends
    heap,       \* evsids_heap: entries, the position of a variable, activities, the increment
    polarity,   \* saved polarities by index, and the polarity of a variable without one
    tally,      \* conflicts, restarts, rephases, the last decision, the fallback, the blend
    searched,   \* the literals of the search, oldest first
    offered,    \* the literal picked and not assigned yet
    exhausted,  \* the last pick found nothing
    notified    \* calls made, at most MaxNotifications

decisionVars == <<queue, heap, polarity, tally, searched, offered, exhausted, notified>>

None == 0                           \* no literal, no variable, no node
Arity == 4                          \* children of a heap position
Unit == 64                          \* the first bump increment
VariableOf(l) == IF l < 0 THEN -l ELSE l
Unassigned == {v \in Candidates : \A i \in 1..Len(searched) : VariableOf(searched[i]) # v}
Selectable(v) == v \in Unassigned

-----------------------------------------------------------------------------
\* The queue.
Linked(q, from) ==      \* the nodes that follow `from`, itself first
    LET follow[n \in 0..Len(q.nodes), left \in 0..Len(q.nodes)] ==
          IF n = None \/ left = 0 THEN <<>> ELSE <<n>> \o follow[q.nodes[n].next, left - 1]
    IN follow[from, Len(q.nodes)]

Activate(q, v) ==
    LET n == Len(q.nodes) + 1
        node == [value |-> v, previous |-> q.tail, next |-> None]
        linked == IF q.tail = None THEN q.nodes ELSE [q.nodes EXCEPT ![q.tail].next = n]
    IN IF q.nodeOf[v] # None THEN q
       ELSE [q EXCEPT !.nodes = Append(linked, node), !.nodeOf[v] = n, !.tail = n,
                      !.head = IF q.tail = None THEN n ELSE @, !.size = @ + 1]

Unlink(q, n) ==
    LET p == q.nodes[n].previous
        s == q.nodes[n].next
        before == IF p = None THEN [q EXCEPT !.head = s] ELSE [q EXCEPT !.nodes[p].next = s]
    IN IF s = None THEN [before EXCEPT !.tail = p] ELSE [before EXCEPT !.nodes[s].previous = p]

ToFront(q, v) ==
    LET n == q.nodeOf[v]
        u == Unlink(q, n)
    IN IF n = None \/ n = q.head THEN q
       ELSE [u EXCEPT !.nodes = [@ EXCEPT ![n] = [@ EXCEPT !.previous = None, !.next = u.head],
                                          ![u.head].previous = n],
                      !.head = n]

Relink(q, order) ==
    LET place(n) == CHOOSE i \in DOMAIN order : order[i] = n
        relinked(n) == [q.nodes[n] EXCEPT
            !.previous = IF place(n) = 1 THEN None ELSE order[place(n) - 1],
            !.next = IF place(n) = Len(order) THEN None ELSE order[place(n) + 1]]
    IN [q EXCEPT !.head = order[1], !.tail = order[Len(order)],
                 !.nodes = [n \in 1..Len(q.nodes) |-> IF n \in Range(order) THEN relinked(n) ELSE q.nodes[n]]]

\* the order is turned by a stride that the number of restarts shifts
Shuffle(q, salt) ==
    LET epoch == IF q.size > 2 THEN (q.epoch + salt) % (q.size - 1) ELSE q.epoch
        stride == (epoch % (q.size - 1)) + 1
        order == Linked(q, q.head)
    IN IF q.size <= 1 THEN q
       ELSE [Relink(q, SubSeq(order, stride + 1, Len(order)) \o SubSeq(order, 1, stride))
               EXCEPT !.epoch = epoch + 1]

FrontSelectable(q) ==
    LET walk == SelectSeq([i \in 1..Len(Linked(q, q.head)) |-> q.nodes[Linked(q, q.head)[i]].value], Selectable)
    IN IF walk = <<>> THEN None ELSE walk[1]

-----------------------------------------------------------------------------
\* The heap.  Positions count from one; the children of p are Children(p).
Parent(p) == (p - 2) \div Arity + 1
Children(h, p) == {c \in Arity * (p - 1) + 2 .. Arity * p + 1 : c <= Len(h.scores)}
Precedes(h, p, q) == \/ h.scores[p].activity > h.scores[q].activity
                     \/ h.scores[p].activity = h.scores[q].activity /\ h.scores[p].var < h.scores[q].var

SwapEntries(h, p, q) ==
    [h EXCEPT !.scores = [@ EXCEPT ![p] = h.scores[q], ![q] = h.scores[p]],
              !.position = [@ EXCEPT ![h.scores[q].var] = p, ![h.scores[p].var] = q]]

RECURSIVE SiftUp(_, _)
SiftUp(h, p) == IF p = 1 \/ ~Precedes(h, p, Parent(p)) THEN h
                ELSE SiftUp(SwapEntries(h, p, Parent(p)), Parent(p))

RECURSIVE SiftDown(_, _)
SiftDown(h, p) ==
    LET best == CHOOSE c \in Children(h, p) : \A d \in Children(h, p) \ {c} : Precedes(h, c, d)
    IN IF Children(h, p) = {} \/ ~Precedes(h, best, p) THEN h
       ELSE SiftDown(SwapEntries(h, p, best), best)

Insert(h, v) ==
    IF h.position[v] # None THEN h
    ELSE SiftUp([h EXCEPT !.scores = Append(@, [var |-> v, activity |-> h.retained[v]]),
                          !.position[v] = Len(h.scores) + 1], Len(h.scores) + 1)

IncreaseScore(h, v) ==
    LET raised == [h EXCEPT !.retained[v] = @ + h.increment]
        p == h.position[v]
    IN IF p = None THEN Insert(raised, v)
       ELSE SiftUp([raised EXCEPT !.scores[p].activity = raised.retained[v]], p)

ExtractBest(h) ==
    LET gone == [h EXCEPT !.position[h.scores[1].var] = None]
        last == h.scores[Len(h.scores)]
        moved == [gone EXCEPT !.scores = SubSeq([@ EXCEPT ![1] = last], 1, Len(h.scores) - 1),
                              !.position[last.var] = 1]
    IN IF Len(h.scores) = 1 THEN [gone EXCEPT !.scores = <<>>] ELSE SiftDown(moved, 1)

\* pops until a candidate is selectable; what was rejected stays out
RECURSIVE PopSelectable(_)
PopSelectable(h) ==
    IF h.scores = <<>> THEN [found |-> None, heap |-> h]
    ELSE IF Selectable(h.scores[1].var) THEN [found |-> h.scores[1].var, heap |-> ExtractBest(h)]
    ELSE PopSelectable(ExtractBest(h))

Decay(h) == [h EXCEPT !.increment = 2 * @]
Rescale(h) == [h EXCEPT !.increment = @ \div 2,
                        !.scores = [i \in DOMAIN @ |-> [@[i] EXCEPT !.activity = @ \div 2]],
                        !.retained = [v \in Candidates |-> @[v] \div 2]]

-----------------------------------------------------------------------------
\* Polarities.  The storage grows to the index written, with FALSE below it.
SavePhase(ph, v, value) ==
    [ph EXCEPT !.saved = [i \in 1..(IF v > Len(@) THEN v ELSE Len(@)) |->
                            IF i = v THEN value ELSE i <= Len(@) /\ @[i]]]
HasSavedPhase(ph, v) == v <= Len(ph.saved)
PickPhase(v) == IF HasSavedPhase(polarity, v) THEN polarity.saved[v] ELSE polarity.bias

\* each variable once, the last occurrence first
UniqueBackwards(vs) ==
    FoldLeft(LAMBDA seen, v : IF v \in Range(seen) THEN seen ELSE Append(seen, v), <<>>, Reverse(vs))
VariablesOf(ls) == [i \in DOMAIN ls |-> VariableOf(ls[i])]

BumpQueue(q, vs) == FoldLeft(LAMBDA u, v : ToFront(Activate(u, v), v), q, vs)
BumpHeap(h, vs) == FoldLeft(IncreaseScore, h, vs)

-----------------------------------------------------------------------------
DecisionInit ==
    /\ \E bumps \in StartBumps :
         /\ heap = BumpHeap([scores |-> <<>>, position |-> [v \in Candidates |-> None],
                             retained |-> [v \in Candidates |-> 0], increment |-> Unit], bumps)
         /\ queue = BumpQueue([nodes |-> <<>>, nodeOf |-> [v \in Candidates |-> None],
                               head |-> None, tail |-> None, size |-> 0, epoch |-> 0], bumps)
         /\ tally = [conflicts |-> 0, restarts |-> 0, rephases |-> 0, last |-> None,
                     fallback |-> None, blend |-> bumps # <<>>]
    /\ polarity = [saved |-> <<>>, bias |-> TRUE]
    /\ searched = <<>> /\ offered = None /\ exhausted = FALSE /\ notified = 0

\* every other call waits for the caller to assign the literal it was offered
Notify == /\ offered = None
          /\ notified < MaxNotifications
          /\ notified' = notified + 1
          /\ exhausted' = FALSE

\* activate_variable
Register ==
    /\ Notify
    /\ \E v \in Candidates :
         /\ queue.nodeOf[v] = None
         /\ \A w \in Candidates : w < v => queue.nodeOf[w] # None
         /\ queue' = Activate(queue, v)
    /\ tally' = [tally EXCEPT !.blend = TRUE]
    /\ UNCHANGED <<heap, polarity, searched, offered>>

\* next_branch_literal: with or without a fallback the caller found unassigned
Offer ==
    /\ Notify
    /\ \E f \in {None} \cup {v \in Unassigned : \A w \in Unassigned : v <= w} :
         LET fallback == IF f = None THEN tally.fallback ELSE f
             pop == PopSelectable(heap)
             front == FrontSelectable(queue)
             direct == IF fallback # None /\ Selectable(fallback) THEN fallback ELSE None
             found == IF ~tally.blend THEN direct
                      ELSE IF pop.found # None THEN pop.found
                      ELSE IF front # None THEN front ELSE direct
         IN /\ offered' = IF found = None THEN None ELSE IF PickPhase(found) THEN found ELSE -found
            /\ exhausted' = (found = None)
            /\ heap' = IF tally.blend THEN pop.heap ELSE heap
            /\ tally' = [tally EXCEPT !.fallback = fallback, !.last = IF found = None THEN @ ELSE found]
    /\ UNCHANGED <<queue, polarity, searched>>

\* notify_assignment_literal: the literal offered, or one propagation implies
Assign ==
    /\ notified < MaxNotifications
    /\ \E l \in IF offered # None THEN {offered} ELSE {i \in Implied : Selectable(VariableOf(i))} :
         /\ searched' = Append(searched, l)
         /\ polarity' = SavePhase(polarity, VariableOf(l), l > 0)
         /\ queue' = Activate(queue, VariableOf(l))
    /\ offered' = None /\ exhausted' = FALSE /\ notified' = notified + 1
    /\ tally' = [tally EXCEPT !.blend = TRUE]
    /\ UNCHANGED heap

\* notify_propagated_variables: what was implied is known, and not ranked
Propagated ==
    /\ Notify /\ searched # <<>>
    /\ queue' = FoldLeft(Activate, queue, UniqueBackwards(VariablesOf(searched)))
    /\ tally' = [tally EXCEPT !.blend = TRUE]
    /\ UNCHANGED <<heap, polarity, searched, offered>>

\* notify_conflict_variables, and notify_conflict for the last decision
Conflict ==
    /\ Notify
    /\ \E batch \in Batches :
         LET vs == UniqueBackwards(VariablesOf(batch))
             count == tally.conflicts + 1
             aged == Decay(BumpHeap(heap, vs))
             kept == IF count % MaintenanceInterval = 0 THEN Rescale(aged) ELSE aged
             last == IF tally.last = None THEN <<>> ELSE <<tally.last>>
             biased == [polarity EXCEPT !.bias = count % 2 = 0]
         IN /\ heap' = BumpHeap(kept, last)
            /\ queue' = BumpQueue(queue, vs \o last)
            /\ polarity' = IF last = <<>> \/ HasSavedPhase(polarity, tally.last) THEN biased
                        ELSE SavePhase(biased, tally.last, biased.bias)
            /\ tally' = [tally EXCEPT !.conflicts = count, !.blend = TRUE]
    /\ UNCHANGED <<searched, offered>>

\* notify_conflict_clause: every polarity in the clause is written
ConflictClause ==
    /\ Notify
    /\ \E batch \in Batches :
         LET once == FoldLeft(LAMBDA seen, l : IF \E i \in DOMAIN seen : VariableOf(seen[i]) = VariableOf(l)
                                               THEN seen ELSE Append(seen, l), <<>>, Reverse(batch))
         IN /\ polarity' = FoldLeft(LAMBDA ph, l : SavePhase(ph, VariableOf(l), l > 0), polarity, once)
            /\ heap' = BumpHeap(heap, VariablesOf(once))
            /\ queue' = BumpQueue(queue, VariablesOf(once))
    /\ tally' = [tally EXCEPT !.blend = TRUE]
    /\ UNCHANGED <<searched, offered>>

\* notify_learned_clause: shorter clauses weigh more, the asserting variable most
BumpRounds(size) == IF size <= 2 THEN 3 ELSE IF size <= 4 THEN 2 ELSE 1
LearnedClause ==
    /\ Notify
    /\ \E batch \in Batches :
         LET asserting == VariableOf(batch[1])
             sweep == Append(UniqueBackwards(VariablesOf(batch)), asserting)
             bumps == FlattenSeq([r \in 1..BumpRounds(Len(batch)) |-> sweep])
         IN /\ polarity' = SavePhase(polarity, asserting, batch[1] > 0)
            /\ heap' = BumpHeap(heap, bumps)
            /\ queue' = BumpQueue(queue, bumps)
    /\ tally' = [tally EXCEPT !.blend = TRUE]
    /\ UNCHANGED <<searched, offered>>

\* notify_unassigned_variable for everything a backjump retracts, latest first
RetractedNothing(h, kept) == h
Retracted(h, kept) == FoldLeft(Insert, h, Reverse(VariablesOf(SubSeq(searched, kept + 1, Len(searched)))))
Retract ==
    /\ Notify
    /\ \E kept \in 0..Len(searched) - 1 :
         /\ searched' = SubSeq(searched, 1, kept)
         /\ heap' = Retracted(heap, kept)
         /\ queue' = FoldLeft(Activate, queue, Reverse(VariablesOf(SubSeq(searched, kept + 1, Len(searched)))))
    /\ UNCHANGED <<polarity, tally, offered>>

\* a restart retracts everything and turns the queue
Restart ==
    /\ Notify
    /\ searched' = <<>>
    /\ heap' = Retracted(heap, 0)
    /\ queue' = Shuffle(queue, tally.restarts + 1)
    /\ polarity' = [polarity EXCEPT !.bias = ~@]
    /\ tally' = [tally EXCEPT !.restarts = @ + 1]
    /\ UNCHANGED offered

Rephase ==
    /\ Notify
    /\ tally' = [tally EXCEPT !.rephases = @ + 1]
    /\ polarity' = [polarity EXCEPT !.bias = (tally.rephases + 1) % 2 = 0]
    /\ UNCHANGED <<queue, heap, searched, offered>>

DecisionNext == \/ Register \/ Offer \/ Assign \/ Propagated \/ Conflict \/ ConflictClause \/ LearnedClause
                \/ Retract \/ Restart \/ Rephase

-----------------------------------------------------------------------------
\* The queue is one list of exactly the variables registered, in both directions.
QueueLinked ==
    LET order == Linked(queue, queue.head)
    IN /\ Len(order) = queue.size
       /\ Range([i \in DOMAIN order |-> queue.nodes[order[i]].value]) = {v \in Candidates : queue.nodeOf[v] # None}
       /\ \A v \in Candidates : queue.nodeOf[v] # None => queue.nodes[queue.nodeOf[v]].value = v
       /\ order # <<>> => queue.tail = Last(order)
       /\ \A i \in DOMAIN order : queue.nodes[order[i]].previous = IF i = 1 THEN None ELSE order[i - 1]

\* The heap is ordered, knows where each variable is, and shows its activity.
HeapOrdered ==
    /\ \A p \in 2..Len(heap.scores) : ~Precedes(heap, p, Parent(p))
    /\ \A p \in DOMAIN heap.scores : heap.position[heap.scores[p].var] = p
    /\ \A v \in Candidates : heap.position[v] # None =>
         heap.scores[heap.position[v]] = [var |-> v, activity |-> heap.retained[v]]

\* Pops consume the heap, and only retraction refills it: still no unassigned
\* variable is more active than the one offered (decision.cpp 44-51).
MostActiveOffered ==
    offered # None /\ tally.blend =>
        \A v \in Unassigned : heap.retained[v] <= heap.retained[VariableOf(offered)]

\* An exhausted pick reads as a satisfying assignment, so it must be one.
NeverExhaustedEarly == exhausted => \A v \in Unassigned : queue.nodeOf[v] = None

\* Whatever the search searched, bumped, retracted or shuffled, the candidate
\* sources keep every unassigned variable in reach, the most active first.
CandidatesKept == QueueLinked /\ HeapOrdered /\ MostActiveOffered /\ NeverExhaustedEarly
=============================================================================
