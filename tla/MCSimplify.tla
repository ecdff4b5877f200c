----------------------------- MODULE MCSimplify -----------------------------
(***************************************************************************)
(* Simplification, probing and the walks on small instances: a behaviour is *)
(* of one part, and the other parts stay as they began.                    *)
(***************************************************************************)
EXTENDS Passes, Decomposition, Scheduling, Probing, LocalSearch

VARIABLE part   \* "passes", "decomposition", "schedule", "probing" or "walk"

Plain == [eliminate |-> FALSE, strengthen |-> FALSE, proof |-> FALSE, learnable |-> {}]
Says(says, assumptions) == [clauses |-> says, assumptions |-> assumptions]

\* a rectangle of two literals and three bodies, and clauses added afterwards
Factoring == [episodes |-> <<Says(<<{1, 3}, {1, 4}, {1, -3, -4}, {2, 3}, {2, 4}, {2, -3, -4}>>, {}),
                             Says(<<{-1, -2}>>, {-3})>>,
              learnable |-> {{1, 2, 4}, {-1, -2, 3}}] @@ Plain
\* two implications, each of which follows from the other
Implications == [episodes |-> <<Says(<<{-1, 2}, {-2, 1}, {-1, 3}, {-2, 3}>>, {}),
                                Says(<<{-3, 4}, {-1, 4}>>, {1})>>,
                 learnable |-> {{2, -1}, {-2, 3}}] @@ Plain
\* a clause compared already shrinks when a unit arrives
Subsumption == [episodes |-> <<Says(<<{1, 2, 3}, {1, 4}, {-2, 3, 4}>>, {}),
                               Says(<<{-2}, {-3}>>, {})>>, strengthen |-> TRUE, learnable |-> {{1, 3}, {3, 4}}] @@ Plain
Elimination == [episodes |-> <<Says(<<{1, 2}, {1, 3}, {-1, 4}, {-2, 3, 4}, {-4, 2}>>, {-3})>>,
                eliminate |-> TRUE] @@ Plain

\* a learned clause stands for two stated ones, and may be forgotten
Promotion == [episodes |-> <<Says(<<{1, 2, 3, 4}, {1, 2, 3, -4}, {-1, 4}>>, {}), Says(<<{-2}>>, {})>>,
              learnable |-> {{1, 2, 3}}] @@ Plain

\* every choice of a few clauses over three variables, in one order
Pool == {{1, 2}, {-1, 2}, {-2, 1}, {2, 3}, {-2, 3}, {-3, 1}, {-1, -3}, {1, 2, 3}, {-1, -2, 3}, {2}}
OneEpisode == {[episodes |-> <<Says(SetToSeq(formula), assumptions)>>, eliminate |-> TRUE] @@ Plain :
                 formula \in kSubset(4, Pool), assumptions \in {{}, {-3}}}
TwoEpisodes == {[episodes |-> <<Says(SetToSeq(formula), {}), Says(<<{-2}>>, {})>>,
                 strengthen |-> TRUE, learnable |-> {{1, 3}}] @@ Plain :
                  formula \in kSubset(3, Pool)}

MCSessions == {Factoring, Implications, Subsumption, Elimination, Promotion, [Factoring EXCEPT !.proof = TRUE]}
              \cup OneEpisode \cup TwoEpisodes
\* the second episode names the index after the last one of the first
Capture == [Factoring EXCEPT !.episodes = <<Factoring.episodes[1], Says(<<{5, -1}>>, {})>>, !.learnable = {}]
CaptureSessions == {Capture} \cup MCSessions
\* where the schedule alone is of interest
ShortSession == {Elimination}

Arrows == {e \in (1..4) \X (1..4) : e[1] # e[2]}
MCGraphs == {{}, {<<2, 3>>, <<3, 2>>}, {<<1, 3>>, <<3, 1>>}} \cup kSubset(4, Arrows) \cup kSubset(5, Arrows)
NoGraphs == {{}}
MCTexts == {<< <<1, -3>>, <<-2, 3, 1>>, <<2, 3>> >>}

\* every four or five of these: units found by one probe, by the other, by both,
\* by none, and roots that a later unit refutes
ProbedPool == {{1, 2}, {-1, 3}, {-2, 3}, {-1, -3}, {-2, -3}, {2, -4}, {-1, 4}, {3, 4}, {-3, 4, 1},
               {2, 3, 4}, {-2, -4, 1}, {-4, -3}, {1, -2}, {1, 4}}
MCProbed == {{}} \cup kSubset(4, ProbedPool) \cup kSubset(5, ProbedPool)
NoProbed == {{}}
MCEfforts == {1, 2, 4}
NoEfforts == {1}

\* two formulas with models, one of which the second rule opens, and one that
\* no walk comes near
MCWalked == { << <<1, 2>>, <<-1, 2>>, <<1, -2>>, <<-1, -2>>, <<2, 3>>, <<-3, 1>> >>,
              << <<1, 2, 3, -4>>, <<-1, 4>>, <<-2, 4>>, <<-3, -4>>, <<4, 1>> >>,
              << <<1>>, <<-1>>, <<2>>, <<-2>>, <<3>>, <<-3>>, <<4>>, <<-4>> >>, <<>> }
NoWalked == {<<>>}

\* the passes of an epoch, and where the other parts rest
MCPasses == <<"forward_subsumer", "vivifier">>
PassesRest == session = Elimination /\ PassInit
DecompositionRests == implications = {} /\ DecompositionInit
SchedulingRests == configured = FALSE /\ SchedulingInit
ProbingRests == probedClauses = {} /\ ProbingInit /\ effort.base = 1
WalkRests == walked = <<>> /\ LocalSearchInit

MCVars == <<part, passVars, decompositionVars, schedulingVars, probingVars, walkVars>>

MCInit ==
    \/ part = "passes" /\ PassInit /\ DecompositionRests /\ SchedulingRests /\ ProbingRests /\ WalkRests
    \/ /\ part = "decomposition" /\ DecompositionInit /\ implications # {}
       /\ PassesRest /\ SchedulingRests /\ ProbingRests /\ WalkRests
    \/ part = "schedule" /\ SchedulingInit /\ PassesRest /\ DecompositionRests /\ ProbingRests /\ WalkRests
    \/ part = "probing" /\ ProbingInit /\ PassesRest /\ DecompositionRests /\ SchedulingRests /\ WalkRests
    \/ part = "walk" /\ LocalSearchInit /\ PassesRest /\ DecompositionRests /\ SchedulingRests /\ ProbingRests

MCNext ==
    /\ UNCHANGED part
    /\ \/ part = "passes" /\ PassNext /\ UNCHANGED <<decompositionVars, schedulingVars, probingVars, walkVars>>
       \/ /\ part = "decomposition" /\ DecompositionNext
          /\ UNCHANGED <<passVars, schedulingVars, probingVars, walkVars>>
       \/ part = "schedule" /\ SchedulingNext /\ UNCHANGED <<passVars, decompositionVars, probingVars, walkVars>>
       \/ part = "probing" /\ ProbingNext /\ UNCHANGED <<passVars, decompositionVars, schedulingVars, walkVars>>
       \/ part = "walk" /\ LocalSearchNext /\ UNCHANGED <<passVars, decompositionVars, schedulingVars, probingVars>>

MCSpec == MCInit /\ [][MCNext]_MCVars
=============================================================================
