---------------------------- MODULE MCClauseStore ----------------------------
(***************************************************************************)
(* Instances of the clause store for TLC: which clauses are stated and     *)
(* learned.                                                                *)
(***************************************************************************)
EXTENDS ClauseStore

StatedClauses == {<<1, 2>>}
LearntClauses == {<<-1, -2, 4>>, <<-1>>}

Budget(episodes, passes) == [moves |-> 1, episodes |-> episodes, passes |-> passes]
OneEpisode  == {Budget(1, 0)}
TwoEpisodes == {Budget(2, 0)}
\* Two episodes of search and probe, or one with a step of simplification.
BothBudgets == {Budget(2, 0), Budget(1, 1)}
=============================================================================
