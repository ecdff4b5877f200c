SPECIFICATION MCSpec
CONSTANTS
    Sessions <- MCSessions
    MaxLearned = 2
    MaxEpochs = 2
    MaxVariable = 5
    GrowthLimit = 0
    ResolventWidth = 3
    Nodes = {1, 2, 3, 4}
    TextChoices <- MCTexts
    StartGraphs <- MCGraphs
    MaxGraphCalls = 5
    MaxRuns = 2
    FocusedInterval = 1
    StableInterval = 3
    DecisionInterval = 1
    InitialPeriod = 1
    ConflictWindow = 2
    RestartWindow = 2
    MaxConflictWindow = 4
    MaxRestartWindow = 3
    KnownPasses <- MCPasses
    ConflictsPerPass = 4
    MemoryLimits = TRUE
    MaxBurst = 2
    MaxConflicts = 4
    MaxDecisions = 1
    MaxEpisodes = 2
    ProbedFormulas <- MCProbed
    Efforts <- MCEfforts
    ProbeRounds = 3
    RoundGrowth = 4
    WalkFormulas <- MCWalked
    WalkVariables = {1, 2, 3, 4}
    FlipBudgets = {1, 3}
    OpeningRounds = 3
    NearMiss = 1
    FirstRewalk = 1
    MaxMoves = 2
    Nowhere = 99
INVARIANTS
    SolutionsComeBack
    SolutionsCarryOver
    ComparedPairsIncomparable
    SubstitutionCorrect
    CadenceKept
    ProbingSound
    WalkAgrees
CHECK_DEADLOCK FALSE
