CONSTANTS
  Stated <- StatedClauses
  Learnt <- LearntClauses
  MaxClauses = 3
  Budgets <- TwoEpisodes
  CoreGlue = 1
  RetainedGlue = 2
  UsedMax = 2
  FractionPercent = 75
  ReduceInProbe = TRUE
SPECIFICATION Spec
\* The bounds stop the store in the end.
CHECK_DEADLOCK FALSE
PROPERTIES StatedComeBack
