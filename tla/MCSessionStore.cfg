SPECIFICATION MCSpec
CONSTANTS
  NumVars = 2
  Clauses <- TwoClauses
  Assumables <- BothSides
  Lemmas <- OneLemma
  Requests <- PlainAndLimited
  OptionValues <- SomeOptions
  Profiles <- AllProfiles
  MaxReports = 3
  Callers <- AllCallers
  Stated <- StatedClauses
  Learnt <- LearntClauses
  MaxClauses = 3
  Budgets <- BothBudgets
  CoreGlue = 1
  RetainedGlue = 2
  UsedMax = 2
  FractionPercent = 75
  ReduceInProbe = FALSE
INVARIANTS ReadsConsistent LearnedOnceInOrder ReferencesCurrent WatchedPairs
PROPERTIES ImplementsContract CoreFollowsConfiguration RollbackRestores ImplementsTable
\* The callers run out of calls, and the store of its bounds.
CHECK_DEADLOCK FALSE
