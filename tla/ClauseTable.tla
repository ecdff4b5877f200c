----------------------------- MODULE ClauseTable -----------------------------
(***************************************************************************)
(* What the clause store is for, with no word about where a clause lies:   *)
(* a table of clauses under names nobody reuses.  Clauses are stated,      *)
(* learned and, while no simplification is under way, forgotten;           *)
(* simplification shortens, removes and makes permanent one clause at a    *)
(* time; a probe may be taken back, and then the table is what it was.     *)
(* The contract of clause::database as its users rely on it.               *)
(***************************************************************************)
EXTENDS Integers

VARIABLES
  table,       \* the clauses: name, literals, and whether they were learned
  saved,       \* the tables a caller may still go back to
  simplifying  \* may clauses be simplified?

vars == <<table, saved, simplifying>>

Init == table = {} /\ saved = {} /\ simplifying = FALSE

Names(t) == {c.id : c \in t}
Fresh(c) == \A k \in Names(table) : k < c.id

\* State a clause, learn one.
Record ==
  /\ \E c \in table' \ table : Fresh(c) /\ table' = table \cup {c}
  /\ UNCHANGED <<saved, simplifying>>

\* A reduction forgets learned clauses, and never a stated one.
Forget ==
  /\ ~simplifying
  /\ table' \subseteq table
  /\ \A c \in table \ table' : c.redundant
  /\ UNCHANGED <<saved, simplifying>>

\* A clause is removed, shortened or made permanent.
Weaker(c, d) == /\ c.id = d.id
                /\ c.lits \subseteq d.lits
                /\ c.redundant => d.redundant
Simplify ==
  /\ simplifying
  /\ \E d \in table :
       \/ table' = table \ {d}
       \/ \E c \in table' : Weaker(c, d) /\ table' = (table \ {d}) \cup {c}
  /\ UNCHANGED <<saved, simplifying>>

\* Simplification begins and ends.
Turn == simplifying' \in BOOLEAN /\ UNCHANGED <<table, saved>>

\* Keep the table to go back to it; give the kept one up; return to it.
Save    == saved' = {table} /\ UNCHANGED <<table, simplifying>>
Keep    == saved' = {} /\ simplifying' \in BOOLEAN /\ UNCHANGED table
GoBack  == saved = {table'} /\ saved' = {} /\ simplifying' \in BOOLEAN

Next == Turn \/ Record \/ Forget \/ Simplify \/ Save \/ Keep \/ GoBack
Spec == Init /\ [][Next]_vars
=============================================================================
