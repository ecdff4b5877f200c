---------------------------- MODULE VariableMap ----------------------------
(***************************************************************************)
(* cdcl::variable_mapper and the renumbering compaction_service asks of    *)
(* it: external variables get internal indices in the order they come, an  *)
(* eliminated internal variable keeps its index, and a compaction moves    *)
(* the others down over the reserved range.                                *)
(*                                                                         *)
(* Indices are counted from the reserved base 2^30, so the base is 0 here. *)
(***************************************************************************)
EXTENDS Integers, FiniteSets

CONSTANTS External,         \* the caller's variables
          MaxCompactions    \* compactions in one behaviour

VARIABLES
    internalOf,     \* external_to_internal_
    externalOf,     \* internal_to_external_
    next,           \* next_internal_index_
    eliminated,     \* eliminated_variables_, internal indices
    permutation,    \* compaction_service::variable_permutation_
    ready,          \* compaction_service::variable_permutation_ready_
    compactions     \* compactions so far

mapVars == <<internalOf, externalOf, next, eliminated, permutation, ready, compactions>>

Internals == {internalOf[x] : x \in DOMAIN internalOf}
Live      == Internals \ eliminated
Known(x)  == x \in DOMAIN internalOf

\* ensure_external_variable, on first use
EnsureExternalVariable ==
    /\ \E x \in External :
         /\ ~Known(x)
         /\ internalOf' = [z \in DOMAIN internalOf \cup {x} |-> IF z = x THEN next ELSE internalOf[z]]
         /\ externalOf' = [i \in DOMAIN externalOf \cup {next} |-> IF i = next THEN x ELSE externalOf[i]]
    /\ next' = next + 1
    /\ UNCHANGED <<eliminated, permutation, ready, compactions>>

MarkEliminated ==
    /\ \E i \in Live : eliminated' = eliminated \cup {i}
    /\ UNCHANGED <<internalOf, externalOf, next, permutation, ready, compactions>>

\* build_variable_permutation: the live indices, in order, from the base up
Rank(i) == Cardinality({j \in Live : j < i})

BuildVariablePermutation ==
    /\ permutation' = [i \in Live |-> Rank(i)]
    /\ ready' = TRUE
    /\ UNCHANGED <<internalOf, externalOf, next, eliminated, compactions>>

\* rewrite_external_mapping, rebuild_after_compaction: an index the permutation
\* leaves out keeps its value; where two variables end on one index, the one
\* the table is read last decides
Renumbered(i) == IF i \in DOMAIN permutation THEN permutation[i] ELSE i

\* a bug: as if the live variables were all there are
HighestOfLive == Cardinality(DOMAIN permutation) - 1

HighestIndex == CHOOSE h \in {Renumbered(i) : i \in Internals} \cup {0} :
                    \A i \in Internals : Renumbered(i) <= h

RewriteExternalMapping ==
    /\ ready
    /\ compactions < MaxCompactions
    /\ DOMAIN internalOf # {}
    /\ internalOf' = [x \in DOMAIN internalOf |-> Renumbered(internalOf[x])]
    /\ externalOf' \in {f \in [{Renumbered(i) : i \in Internals} -> DOMAIN internalOf] :
                            \A i \in DOMAIN f : Renumbered(internalOf[f[i]]) = i}
    /\ next' = 1 + HighestIndex
    /\ compactions' = compactions + 1
    /\ UNCHANGED <<eliminated, permutation, ready>>

MapInit ==
    /\ internalOf = [x \in {} |-> 0]
    /\ externalOf = [i \in {} |-> 0]
    /\ next = 0
    /\ eliminated = {}
    /\ permutation = [i \in {} |-> 0]
    /\ ready = FALSE
    /\ compactions = 0

MapNext == \/ EnsureExternalVariable \/ MarkEliminated
           \/ BuildVariablePermutation \/ RewriteExternalMapping

MapSpec == MapInit /\ [][MapNext]_mapVars

---------------------------------------------------------------------------
(* Properties *)

\* A variable that comes after a compaction gets an index no variable has, not
\* even one that was eliminated and kept its index through the renumbering.
FreshIndexUnused == \A i \in Internals : i < next

=============================================================================
