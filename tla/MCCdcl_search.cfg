CONSTANTS
  NumVars = 5
  Scripts <- ReductionScripts
  CoreGlueLimit = 1
  ConflictRestarts = TRUE
  DecisionRestarts = FALSE
  Reductions = TRUE
SPECIFICATION Spec
\* A script of calls ends, and the engine then rests.
CHECK_DEADLOCK FALSE
INVARIANTS TypeOK ClausesEntailed UnsatSound ReasonsJustify WatchesSound
           PropagationEnds DecisionsReady EngineInv
PROPERTIES ModelSound LearnedIsNew
