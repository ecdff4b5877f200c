SPECIFICATION SessionSpec
CONSTANTS
  NumVars = 2
  Clauses <- TwoClauses
  Assumables <- BothSides
  Lemmas <- OneLemma
  Requests <- PlainOnly
  OptionValues <- SomeOptions
  Profiles <- AllProfiles
  MaxReports = 3
  Callers <- OnlyListening
INVARIANTS LearnedAreImplied
CHECK_DEADLOCK FALSE
