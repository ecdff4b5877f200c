SPECIFICATION MCSpec
CONSTANTS
    MaxClauses <- MCMaxClauses
    MaxCells = 4
    MaxEvents = 3
    External = {x, y, z}
    MaxCompactions = 2
    x = x
    y = y
    z = z
    Variables = {x, y}
    Ids = {1, 2, 3}
    Bodies <- MCBodies
    Chains <- MCChains
    MaxChains = 1
    Candidates = {1, 2, 3, 4, 5, 6, 7}
    Implied <- MCImplied
    Batches <- MCBatches
    StartBumps <- MCStartBumps
    MaintenanceInterval = 2
    MaxNotifications = 0
    Atoms = {1, 2, 3, 4, 5}
    Formulas <- MCFormulas
    MaxAnalyses = 0
    GivenClauses <- MCClauses
    Asked <- MCAsked
    Limits = {1}
    MaxCalls = 0
    MaxFiles = 0
    MaxNumbers = 3
    MaxBreaks = 2
    Reservation = 8
    CommitChunk = 4
    Texts <- MCTexts
    MaxOperations = 0
    DirectLimit = 4
    WatchIndexes = {2, 3, 4}
    WatchRefs = {1, 2}
    Blockers = {3}
    Remaps <- MCRemaps
    Refs = {1, 2}
    PendingLimits = {0, 1, 9}
    HighestLimit = 2
    WorkItems = {0, 3, 4}
    Threads = {0, 2, 9}
    HighestBudget = 3
    MaxSteps = 0
    Ranked = {1, 2, 3, 4, 5, 6, 7}
    RescaleLimit = 6
    RescaleFactor = 8
    AxiomChoices <- MCAxioms
    WantedChoices <- MCWanted
    DepthLimit = 1
    BumpSizeLimit = 3
    HeapMaintenance = 2
    MaxMet = 0
    MaxSearches = 0
    ColdRefs = {1, 2, 3}
    ColdTexts <- MCCold
    GroupSize = 8
    LastGroup = 1
    TopSize = 2
    EntryBytes = 8
    Files <- MCFiles
    ArgumentLists <- MCArguments
    Numeral <- MCNumeral
    FocusedInterval = 1
    StableInterval = 4
    DecisionInterval = 2
    InitialPeriod = 2
    ConflictWindow = 100
    RestartWindow = 100
    MaxConflictWindow = 100
    MaxRestartWindow = 100
    KnownPasses <- MCPasses
    ConflictsPerPass = 4
    MemoryLimits = TRUE
    MaxBurst = 2
    MaxConflicts = 0
    MaxDecisions = 4
    MaxEpisodes = 0
INVARIANTS
    IdsNeverReissued
CHECK_DEADLOCK FALSE
