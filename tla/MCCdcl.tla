------------------------------- MODULE MCCdcl -------------------------------
(***************************************************************************)
(* Instances of the search for TLC: the calls each run makes.              *)
(***************************************************************************)
EXTENDS CdclComplete

Add(s) == [op |-> "add", lits |-> s]
Call(as, conflict_limit, decision_limit) ==
  [op |-> "solve", assumptions |-> as, conflict_limit |-> conflict_limit,
   decision_limit |-> decision_limit]
SolveUnder(as) == Call(as, 0, 0)
\* State the clauses cs one after another.
Adds(cs) == [i \in 1..Len(cs) |-> Add(cs[i])]

\* Every sign pattern over three variables: no model, and none of the lucky
\* assignments settles it.
Full3 == << <<1, 2, 3>>, <<1, 2, -3>>, <<1, -2, 3>>, <<1, -2, -3>>,
            <<-1, 2, 3>>, <<-1, 2, -3>>, <<-1, -2, 3>>, <<-1, -2, -3>> >>
\* Implications in chains across the levels of four variables.
Chain == << <<-1, -2, 3>>, <<-1, -3, 4>>, <<-2, -3, -4>>, <<2, -3, 4>>, <<1, 3>> >>
\* One decision implies two literals, and the conflict below the next names
\* both: minimisation removes one of them.
Minimising == << <<-1, 2>>, <<-1, -2, -3, 4>>, <<-2, -3, -4>>, <<1, -3, -4>>,
                 <<-4, 3>> >>
\* Two literals of one level, neither of which implies the other: minimisation
\* must keep both.
Siblings == << <<-1, 2>>, <<-1, 3>>, <<-2, -4, 5>>, <<-3, -4, -5>> >>
\* A conflict that spans three levels.
Spanning == << <<-1, -2, -3, 4>>, <<-1, -2, -3, -4>>, <<3, 4, -1>> >>
\* A unit, a duplicated literal, a tautology.
Mixed == << <<1>>, <<-1, 2, -1, 3>>, <<2, -2>>, <<-2, 3>>, <<-3, -4, -2>> >>

\* One search to the end, then incremental episodes: assumptions that are
\* decided, implied, contradicted, repeated and contradictory, a clause added
\* in between.  Where clauses could be learned and removed again for ever, a
\* limit ends the search.
SearchScripts ==
  { Adds(Chain) \o <<Call(<<1>>, 4, 0), Call(<<2, 1, -3>>, 4, 0)>>,
    Adds(Minimising) \o <<SolveUnder(<<1>>), Add(<<3>>), SolveUnder(<<>>)>>,
    Adds(Siblings) \o <<SolveUnder(<<1>>)>>,
    Adds(Spanning) \o <<SolveUnder(<<1, 2>>), SolveUnder(<<3, 2>>)>>,
    Adds(Minimising) \o <<SolveUnder(<<4, 4, -2>>), SolveUnder(<<-4, 4>>)>>,
    Adds(Mixed) \o <<Call(<<5, 4>>, 4, 0), Add(<<4, 2>>), Add(<<-3, 4>>),
                       Call(<<-5>>, 4, 0)>>,
    <<Add(<<1, 2>>), Add(<<>>), SolveUnder(<<>>)>> }

\* Reductions between the conflicts: of clauses still needed as reasons, and
\* of so many that some must be learned again.
Late == << <<1, -3>>, <<-2, -1, -3>>, <<2, -1, -3>>, <<-2, -1, -4>>, <<2, -1, 4>> >>
ReduceScripts ==
  { Adds(Full3) \o <<Call(<<>>, 3, 0)>>,
    Adds(Late) \o <<Call(<<5>>, 2, 0)>>,
    << Add(<<1, -3>>), Add(<<-2, -1, -3>>), Add(<<2, -1, 4>>), Call(<<5>>, 2, 0)>> }

\* Conflicts, reductions and restarts of every kind, cut off by a limit: for
\* the inductive invariant.
InductiveScripts ==
  { Adds(Full3) \o <<Call(<<1, 1, -2>>, 2, 0)>>,
    Adds(Minimising) \o <<Call(<<1>>, 2, 0), Add(<<3>>), Call(<<>>, 2, 0)>>,
    Adds(Siblings) \o <<Call(<<1>>, 2, 0), Call(<<4, -4>>, 2, 0)>>,
    Adds(Spanning) \o <<Call(<<1, 2>>, 2, 0), Call(<<3, 2>>, 2, 0)>>,
    Adds(Mixed) \o <<Call(<<5, 4>>, 2, 0), Add(<<4, 2>>), Call(<<-5>>, 2, 0)>>,
    <<Add(<<1, 2>>), Add(<<>>), Call(<<>>, 2, 0)>> }

\* Restarts after any decision or conflict, on the way to a refutation and to
\* a model.
RestartScripts ==
  { Adds(Full3) \o <<Call(<<>>, 2, 0)>>, Adds(Chain) \o <<SolveUnder(<<1>>)>> }

\* Every set of clauses over two variables that the database can hold,
\* stated one by one; then an episode, and one under two assumptions.
Clauses2 == << <<>>, <<1>>, <<-1>>, <<2>>, <<-2>>, <<1, 2>>, <<1, -2>>,
               <<-1, 2>>, <<-1, -2>> >>
SmallScripts ==
  { Adds(SelectSeq(Clauses2, LAMBDA c : c \in f))
      \o <<SolveUnder(<<>>), SolveUnder(<<a, b>>)>> :
      f \in SUBSET Range1(Clauses2), a \in {-2}, b \in {1, 2} }

\* The same under limits that cut an episode off anywhere.
LimitScripts ==
  { Adds(Full3) \o <<Call(<<>>, cl, dl), Call(<<1>>, cl, dl), Call(<<-1, 1>>, cl, dl)>> :
      cl \in {0, 1, 2}, dl \in {0, 3} }

\* The three together: for the contract and its liveness.
ContractScripts == SmallScripts \cup LimitScripts \cup RestartScripts
\* Searches with reductions between any two conflicts.
ReductionScripts == SearchScripts \cup ReduceScripts \cup InductiveScripts
=============================================================================
