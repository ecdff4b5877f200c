------------------------------ MODULE VarHeap ------------------------------
(***************************************************************************)
(* cdcl::var_heap: the binary max-heap over the activities from which the  *)
(* search takes its decisions.  A heap is a record: the score of every     *)
(* variable, the tree as a sequence, the place of every variable in it,    *)
(* and the step a bump adds.  Scores are whole numbers: decay halves, and  *)
(* renormalizing rounds down, as the smallest doubles are lost.            *)
(***************************************************************************)
EXTENDS Integers, Sequences, FiniteSets

CONSTANTS
    Ranked,         \* the variables, 1..variable_count_
    RescaleLimit,   \* rescale_limit
    RescaleFactor   \* 1 / rescale_factor

ASSUME HeapAssumption == /\ IsFiniteSet(Ranked) /\ Ranked = 1..Cardinality(Ranked)
                         /\ RescaleLimit \in Nat /\ RescaleFactor \in Nat \ {0, 1}

NoPlace == 0    \* npos

\* resize: no candidate yet, and every score zero
EmptyHeap == [score |-> [v \in Ranked |-> 0], tree |-> <<>>, place |-> [v \in Ranked |-> NoPlace], step |-> 1]

InHeap(h, v) == h.place[v] # NoPlace
RanksBelow(h, a, b) == h.score[a] < h.score[b] \/ (h.score[a] = h.score[b] /\ a > b)
Placed(h, p, v) == [h EXCEPT !.tree[p] = v, !.place[v] = p]

\* sift_up and sift_down move a hole towards where v belongs
RECURSIVE SiftedUp(_, _, _)
SiftedUp(h, p, v) ==
    LET above == h.tree[p \div 2]
    IN IF p = 1 \/ ~RanksBelow(h, above, v) THEN Placed(h, p, v)
       ELSE SiftedUp(Placed(h, p, above), p \div 2, v)

Below(h, p) == {c \in {2 * p, 2 * p + 1} : c <= Len(h.tree)}
RECURSIVE SiftedDown(_, _, _)
SiftedDown(h, p, v) ==
    IF \A c \in Below(h, p) : ~RanksBelow(h, v, h.tree[c]) THEN Placed(h, p, v)
    ELSE LET c == CHOOSE c \in Below(h, p) : \A d \in Below(h, p) : ~RanksBelow(h, h.tree[c], h.tree[d])
         IN SiftedDown(Placed(h, p, h.tree[c]), c, v)

Pushed(h, v) == SiftedUp([h EXCEPT !.tree = Append(@, v)], Len(h.tree) + 1, v)

\* a bug: the variable taken out still has a place
PoppedInPlace(h) ==
    LET rest == SubSeq(h.tree, 1, Len(h.tree) - 1)
        out == [h EXCEPT !.tree = rest]
    IN IF rest = <<>> THEN out ELSE SiftedDown(out, 1, h.tree[Len(h.tree)])
Popped(h) ==
    LET rest == SubSeq(h.tree, 1, Len(h.tree) - 1)
        out == [h EXCEPT !.tree = rest, !.place[h.tree[1]] = NoPlace]
    IN IF rest = <<>> THEN out ELSE SiftedDown(out, 1, h.tree[Len(h.tree)])

\* the step stays positive: it grows faster than the maintenance halves it
Rescaled(h, factor) ==
    [h EXCEPT !.score = [v \in Ranked |-> @[v] \div factor],
              !.step = (@ + factor - 1) \div factor]

Bumped(h, v) ==
    LET more == [h EXCEPT !.score[v] = @ + h.step]
        fit == IF more.score[v] > RescaleLimit THEN Rescaled(more, RescaleFactor) ELSE more
    IN IF InHeap(fit, v) THEN SiftedUp(fit, fit.place[v], v) ELSE fit

Decayed(h) ==
    LET grown == [h EXCEPT !.step = 2 * @]
    IN IF grown.step > RescaleLimit THEN Rescaled(grown, RescaleFactor) ELSE grown

Emptied(h) == [h EXCEPT !.tree = <<>>, !.place = [v \in Ranked |-> NoPlace]]

\* every place is right and no child outranks its parent by score: rescaling
\* may make scores equal, and then the lower variable need not come first
Sound(h) ==
    /\ \A v \in Ranked : InHeap(h, v) => h.place[v] <= Len(h.tree) /\ h.tree[h.place[v]] = v
    /\ \A p \in 1..Len(h.tree) : h.place[h.tree[p]] = p
    /\ \A p \in 2..Len(h.tree) : h.score[h.tree[p \div 2]] >= h.score[h.tree[p]]
=============================================================================
