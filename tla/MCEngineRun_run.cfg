\* One run of any model, four snapshots, a queue of one.
CONSTANTS
    main = main
    Threads <- MCThreads
    Controller = main
    PeriodData <- MCPeriodData
    Capacity = 1
    MaxPosts = 4
    MaxStarts = 1
    Decks <- RunDecks
    MaxOpens = 1
    ReportsAfterEnd = TRUE
SPECIFICATION RunSpec
INVARIANTS
    SuccessMeansCompleteFiles
    NothingLeftBehind
PROPERTIES
    RunReturns
