\* Two sessions of one handle, three snapshots, a queue of one: the writer
\* thread falls behind, blocks the caller, and is stopped with work queued; the
\* caller calls in any order, and every call must return.
CONSTANTS
    main = main
    Threads <- MCThreads
    Controller = main
    PeriodData <- MCPeriodData
    Capacity = 1
    MaxPosts = 3
    MaxStarts = 2
    Decks <- TwoDecks
    MaxOpens = 2
    ReportsAfterEnd = TRUE
SPECIFICATION Spec
INVARIANTS
    SessionTypeOK
    OutFileIsThisSession
    NoSnapshotDiscarded
    NothingFromBefore
PROPERTIES
    SealedFileIsComplete
    PluginsHaveOneOwner
    EveryCallReturns
