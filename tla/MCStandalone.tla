---------------------------- MODULE MCStandalone ----------------------------
(***************************************************************************)
(* The components beside the engine, on small instances: clauses and their *)
(* ids under a proof (ProofPipeline), variables and their names             *)
(* (VariableMap), the checker of the chains (LratChecker), the decision     *)
(* engine and the conflict handling of the stand-alone coordinator          *)
(* (Decision, Analysis), the ways a formula comes in (Ingestion), the banks *)
(* of clauses and watches (Banks), the runtime (Runtime), the chains and    *)
(* activities of the engine's analysis (Derivations) and the clauses put    *)
(* away (ColdStore) and the command-line program (CommandLine).  They share *)
(* no state, so a behaviour is one of `part`, and the others stand still.   *)
(***************************************************************************)
EXTENDS ProofPipeline, VariableMap, LratChecker, Decision, Analysis,
        Ingestion, Banks, Runtime, Derivations, ColdStore,
        CommandLine, Scheduling, TLC

CONSTANTS x, y, z

VARIABLE part

MCMaxClauses == [core |-> 3, collector |-> 2]

Pos(v) == [var |-> v, negated |-> FALSE]
Neg(v) == [var |-> v, negated |-> TRUE]

MCBodies == {<<>>, <<Pos(y)>>, <<Neg(x)>>, <<Pos(x), Pos(x)>>, <<Pos(x), Neg(x)>>,
             <<Pos(x), Pos(y)>>, <<Neg(x), Pos(y)>>}
MCChains == {<<>>, <<1>>, <<3>>, <<1, 2>>, <<2, 1>>, <<1, 1>>, <<2, 3>>}

\* seven variables fill a root and a level of children below its first child;
\* the bumps give heaps of equal, falling and uneven activities
MCImplied == {2, -5}
MCBatches == {<<-1, 6>>, <<7, -2, 3, 7>>}
MCStartBumps == {<<>>, <<1, 2, 3, 4, 5, 6, 7>>, <<7, 6, 5, 4, 3, 2, 1, 6, 5, 6, 7, 7>>, <<3, 5, 1, 5, 5, 4, 2, 7, 6>>}

\* an implication chain, a conflict whose clause can be minimised, and one
\* whose two literals of a level must both stay
MCFormulas == {<< <<-1, -2, 3>>, <<-1, -3, 4>>, <<-2, -3, -4>>, <<2, -3, 4>>, <<1, 3>> >>,
               << <<-1, 2>>, <<-1, -2, -3, 4>>, <<-2, -3, -4>>, <<1, -3, -4>>, <<-4, 3>> >>,
               << <<-1, 2>>, <<-1, 3>>, <<-2, -4, 5>>, <<-3, -4, -5>> >>}

\* what a writer is given: an empty clause, a unit and a binary clause
MCClauses == {<<>>, <<1, -2>>, <<2>>}
MCAsked == {<<-1, 3>>}

\* clauses of one and two literals; renumberings that send literals to one
MCTexts == {<<2>>, <<3, 4>>}
MCRemaps == {f \in [WatchIndexes -> WatchIndexes] :
               \E i \in WatchIndexes : \A j \in WatchIndexes : f[j] \in {i, j}}

\* a root chain, a level whose literals can be minimized away through each
\* other, and a formula with a conflict on every branch
MCAxioms == {<< <<1>>, <<-1, 2>>, <<-3, -2, 4>>, <<-4, -1, 5>>, <<-6, -4, 7>>, <<-6, -3, -5, -7>> >>,
             << <<1, 2, 3>>, <<1, 2, -3>>, <<1, -2, 4>>, <<-1, 3, 4>>, <<-3, -4, 5>>,
                <<-1, -4, -5>>, <<-2, 5, 3>>, <<6, -7>> >>}
\* assumptions that are decided, implied or repeated
MCWanted == {<<>>, <<-2, 3>>, <<3, 3>>}

\* the longest differences a literal of four bits allows, both ways
MCCold == {<<>>, <<15, 2>>, <<2, 15, 9>>, <<9, 9>>, <<3>>}

\* files with a comment and a header in the way, a percent sign before a stray
\* zero, clauses that are not closed, and an empty clause
Number(n) == [kind |-> "number", value |-> n]
Heading(n) == [kind |-> "header", value |-> n]
Mark(kind) == [kind |-> kind, value |-> 0]
MCFiles == {<< <<Mark("comment"), Number(7)>>, <<Heading(3)>>, <<Number(1), Number(-2), Number(0), Number(2), Number(0)>> >>,
            << <<Heading(4), Number(9)>>, <<Number(-1), Number(0), Number(1), Mark("other")>>,
               <<Number(2), Number(0)>>, <<Mark("percent"), Number(0)>> >>,
            << <<Number(-1), Number(2), Number(0)>>, <<Number(-2), Mark("comment"), Number(1)>>, <<Number(3)>> >>,
            << <<Number(1), Number(0), Number(0)>>, <<Heading(0)>> >>}
MCArguments == {<<>>, <<"f">>, <<"f", "-h">>, <<"f", "--no-model">>, <<"f", "--no-verify">>, <<"f", "--assume">>,
                <<"f", "--assume", "-4", "--conflict-limit", "4">>, <<"f", "--assume", "--no-verify">>,
                <<"f", "--conflict-limit", "--no-verify">>, <<"f", "what">>}
MCNumeral(arg) == CASE arg = "-4" -> -4 [] arg = "4" -> 4 [] OTHER -> 0

\* the passes of an epoch, which no run of this module lets fall due
MCPasses == <<"forward_subsumer", "vivifier">>

MCInit == /\ part \in {"ids", "map", "lrat", "decision", "analysis",
                       "ingestion", "arena", "watches", "runtime",
                       "search", "cold", "program", "schedule"}
          /\ Init /\ MapInit /\ LratInit /\ DecisionInit /\ AnalysisInit
          /\ IngestInit /\ ArenaInit /\ WatchInit /\ RuntimeInit
          /\ DerivationInit /\ ColdInit /\ CommandInit /\ SchedulingInit
          /\ part # "ids" => wiring = "core"
          /\ part # "lrat" => subject = 1
          /\ part # "decision" => heap.scores = <<>>
          /\ part # "schedule" => ~configured
          /\ part # "program" => argv = <<>> /\ dimacs = NoFile
          /\ part # "search" => axioms = CHOOSE formula \in AxiomChoices : TRUE
          /\ part # "analysis" => given = CHOOSE formula \in Formulas : TRUE

engineVars == <<vars, mapVars, lratVars, decisionVars, analysisVars>>
outerVars  == <<ingestVars, arenaVars, watchVars, runtimeVars>>
searchVars == <<derivationVars, coldVars, commandVars, schedulingVars>>
MCVars == <<part, engineVars, outerVars, searchVars>>

EnginePart ==
  \/ part = "ids" /\ Next /\ UNCHANGED <<mapVars, lratVars, decisionVars, analysisVars>>
  \/ part = "map" /\ MapNext /\ UNCHANGED <<vars, lratVars, decisionVars, analysisVars>>
  \/ part = "lrat" /\ LratNext /\ UNCHANGED <<vars, mapVars, decisionVars, analysisVars>>
  \/ part = "decision" /\ DecisionNext /\ UNCHANGED <<vars, mapVars, lratVars, analysisVars>>
  \/ part = "analysis" /\ AnalysisNext /\ UNCHANGED <<vars, mapVars, lratVars, decisionVars>>

OuterPart ==
  \/ part = "ingestion" /\ IngestNext /\ UNCHANGED <<arenaVars, watchVars, runtimeVars>>
  \/ part = "arena" /\ ArenaNext /\ UNCHANGED <<ingestVars, watchVars, runtimeVars>>
  \/ part = "watches" /\ WatchNext /\ UNCHANGED <<ingestVars, arenaVars, runtimeVars>>
  \/ part = "runtime" /\ RuntimeNext /\ UNCHANGED <<ingestVars, arenaVars, watchVars>>

SearchPart ==
  \/ part = "search" /\ DerivationNext /\ UNCHANGED <<coldVars, commandVars, schedulingVars>>
  \/ part = "cold" /\ ColdNext /\ UNCHANGED <<derivationVars, commandVars, schedulingVars>>
  \/ part = "program" /\ CommandNext /\ UNCHANGED <<derivationVars, coldVars, schedulingVars>>
  \/ part = "schedule" /\ SchedulingNext /\ UNCHANGED <<derivationVars, coldVars, commandVars>>

MCNext == \/ EnginePart /\ UNCHANGED <<part, outerVars, searchVars>>
          \/ OuterPart /\ UNCHANGED <<part, engineVars, searchVars>>
          \/ SearchPart /\ UNCHANGED <<part, engineVars, outerVars>>

MCSpec == MCInit /\ [][MCNext]_MCVars
=============================================================================
