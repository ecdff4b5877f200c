--------------------------- MODULE SessionContract ---------------------------
(***************************************************************************)
(* What an incremental session promises to its caller, whichever interface *)
(* it is used through: clauses and assumptions are gathered, a solve call  *)
(* answers about the formula and the assumptions of that moment, and the   *)
(* answer may be read until the next edit.  The assumptions of an answered *)
(* call are gone afterwards; those of an interrupted call still wait.      *)
(***************************************************************************)
EXTENDS Integers

CONSTANT NumVars

Lits == {l \in -NumVars..NumVars : l # 0}

VARIABLES formula, partial, assumptions, verdict, model, failed
vars == <<formula, partial, assumptions, verdict, model, failed>>

Assignments == {m \in SUBSET Lits : \A v \in 1..NumVars : (v \in m) # (-v \in m)}
Satisfied(m, f) == \A c \in f : m \cap c # {}
Proper(c) == \A l \in c : -l \notin c
With(f, c) == IF Proper(c) THEN f \cup {c} ELSE f
Closed == IF partial = {} THEN formula ELSE With(formula, partial)

NothingToRead == verdict' = 0 /\ model' = {} /\ failed' = {}

Init ==
  /\ formula = {} /\ partial = {} /\ assumptions = {}
  /\ verdict = 0 /\ model = {} /\ failed = {}

AddLiteral ==
  /\ \E l \in Lits : partial' = partial \cup {l}
  /\ NothingToRead
  /\ UNCHANGED <<formula, assumptions>>

CloseClause ==
  /\ formula' = With(formula, partial)
  /\ partial' = {}
  /\ NothingToRead
  /\ UNCHANGED assumptions

AddClause ==
  /\ \E c \in SUBSET Lits : formula' = With(Closed, c)
  /\ partial' = {}
  /\ NothingToRead
  /\ UNCHANGED assumptions

Assume ==
  /\ \E l \in Lits : assumptions' = assumptions \cup {l}
  /\ NothingToRead
  /\ UNCHANGED <<formula, partial>>

Satisfiable(given) ==
  /\ verdict' = 10 /\ failed' = {}
  /\ model' \subseteq Lits
  /\ \A l \in model' : -l \notin model'
  /\ given \subseteq model'
  /\ Satisfied(model', formula')

Unsatisfiable(given) ==
  /\ verdict' = 20 /\ model' = {}
  /\ failed' \subseteq given
  /\ \A m \in Assignments : Satisfied(m, formula') => ~(failed' \subseteq m)

\* The call may name assumptions of its own beside those gathered.
Answer ==
  /\ formula' = Closed
  /\ partial' = {}
  /\ assumptions' = {}
  /\ \E own \in SUBSET Lits :
       \/ Satisfiable(assumptions \cup own)
       \/ Unsatisfiable(assumptions \cup own)
       \/ NothingToRead

Interrupt ==
  /\ formula' = Closed
  /\ partial' = {}
  /\ NothingToRead
  /\ UNCHANGED assumptions

Release ==
  /\ assumptions' = {}
  /\ UNCHANGED <<formula, partial, verdict, model, failed>>

Reset ==
  /\ formula' = {} /\ partial' = {} /\ assumptions' = {}
  /\ NothingToRead

Next == \/ Reset \/ Release \/ Interrupt \/ CloseClause
        \/ AddLiteral \/ Assume \/ AddClause \/ Answer

Spec == Init /\ [][Next]_vars
=============================================================================
