----------------------------- MODULE SatContract -----------------------------
(***************************************************************************)
(* What an incremental SAT engine promises its caller, with no word about  *)
(* how it searches: clauses are stated, an episode is opened under         *)
(* assumptions and limits, and it is answered                              *)
(*   satisfiable    only if some model of all stated clauses satisfies the *)
(*                  assumptions;                                           *)
(*   unsatisfiable  only with a set of failed assumptions that no model of *)
(*                  the stated clauses satisfies together;                 *)
(*   unknown        only if the caller set a limit.                        *)
(* The contract of solver_core::solve, as its callers rely on it.          *)
(***************************************************************************)
EXTENDS Integers, Sequences

CONSTANTS NumVars, Scripts

Vars == 1..NumVars
Lits == {l \in -NumVars..NumVars : l # 0}

VARIABLES
  calls,       \* the calls the caller has still to make
  problem,     \* the clauses stated so far, as sets of literals
  busy,        \* an episode is open
  request,     \* the call it serves
  status,      \* the last verdict
  failed_core  \* its failed assumptions

vars == <<calls, problem, busy, request, status, failed_core>>

Elements(s) == {s[i] : i \in 1..Len(s)}
Assignments == {m \in SUBSET Lits : \A v \in Vars : (v \in m) # (-v \in m)}
Models == {m \in Assignments : \A c \in problem : m \cap c # {}}

Init ==
  /\ calls \in Scripts
  /\ problem = {}
  /\ busy = FALSE
  /\ request = [op |-> "solve", assumptions |-> <<>>, conflict_limit |-> 0,
                decision_limit |-> 0]
  /\ status = "unknown"
  /\ failed_core = {}

StateClause ==
  /\ ~busy /\ calls # <<>> /\ Head(calls).op = "add"
  /\ problem' = problem \cup {Elements(Head(calls).lits)}
  /\ calls' = Tail(calls)
  /\ UNCHANGED <<busy, request, status, failed_core>>

OpenEpisode ==
  /\ ~busy /\ calls # <<>> /\ Head(calls).op = "solve"
  /\ busy' = TRUE
  /\ request' = Head(calls)
  /\ calls' = Tail(calls)
  /\ failed_core' = {}
  /\ UNCHANGED <<problem, status>>

AnswerSatisfiable ==
  /\ \E m \in Models : Elements(request.assumptions) \subseteq m
  /\ status' = "satisfiable"
  /\ failed_core' = {}

AnswerUnsatisfiable ==
  /\ failed_core' \subseteq Elements(request.assumptions)
  /\ \A m \in Models : ~(failed_core' \subseteq m)
  /\ status' = "unsatisfiable"

\* A limit may even cut off an episode already refuted under assumptions.
AnswerUnknown ==
  /\ request.conflict_limit # 0 \/ request.decision_limit # 0
  /\ failed_core' \subseteq Elements(request.assumptions)
  /\ status' = "unknown"

CloseEpisode ==
  /\ busy
  /\ busy' = FALSE
  /\ AnswerSatisfiable \/ AnswerUnsatisfiable \/ AnswerUnknown
  /\ UNCHANGED <<calls, problem, request>>

Next == StateClause \/ OpenEpisode \/ CloseEpisode

Spec == Init /\ [][Next]_vars
\* Every episode is answered.
FairSpec == Spec /\ WF_vars(CloseEpisode)
=============================================================================
