CONSTANTS
  NumVars = 4
  Scripts <- ContractScripts
  CoreGlueLimit = 1
  ConflictRestarts = TRUE
  DecisionRestarts = TRUE
  Reductions = FALSE
SPECIFICATION FairSpec
\* A script of calls ends, and the engine then rests.
CHECK_DEADLOCK FALSE
PROPERTIES ImplementsContract EpisodesEnd
