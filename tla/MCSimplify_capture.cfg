SPECIFICATION MCSpec
CONSTANTS
    Sessions <- CaptureSessions
    MaxLearned = 2
    MaxEpochs = 2
    MaxVariable = 5
    GrowthLimit = 0
    ResolventWidth = 3
    Nodes = {1, 2, 3, 4}
    TextChoices <- MCTexts
    StartGraphs <- NoGraphs
    MaxGraphCalls = 0
    MaxRuns = 0
    FocusedInterval = 1
    StableInterval = 3
    DecisionInterval = 1
    InitialPeriod = 1
    ConflictWindow = 2
    RestartWindow = 2
    MaxConflictWindow = 4
    MaxRestartWindow = 3
    KnownPasses <- MCPasses
    ConflictsPerPass = 4
    MemoryLimits = TRUE
    MaxBurst = 2
    MaxConflicts = 4
    MaxDecisions = 1
    MaxEpisodes = 0
    ProbedFormulas <- NoProbed
    Efforts <- NoEfforts
    ProbeRounds = 3
    RoundGrowth = 4
    WalkFormulas <- NoWalked
    WalkVariables = {1, 2, 3, 4}
    FlipBudgets = {1, 3}
    OpeningRounds = 3
    NearMiss = 1
    FirstRewalk = 1
    MaxMoves = 0
    Nowhere = 99
INVARIANT IntroducedDisjoint
CHECK_DEADLOCK FALSE
