\* A model with a [PLUGINS] row is opened, closed and opened again.
CONSTANTS
    main = main
    Threads <- MCThreads
    Controller = main
    PeriodData <- MCPeriodData
    Capacity = 1
    MaxPosts = 1
    MaxStarts = 1
    Decks <- PluginDecks
    MaxOpens = 2
    ReportsAfterEnd = TRUE
SPECIFICATION Spec
INVARIANT PluginsAreThisModels
