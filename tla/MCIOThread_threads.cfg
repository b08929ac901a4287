\* Two posting threads fill a queue of two, both wait for space, and one of
\* them may stop the writer while the other waits; two sessions.
SPECIFICATION IOSpec
CONSTANTS
    main = main
    a = a
    Threads <- MCThreads
    Controller = main
    Capacity = 2
    MaxPosts = 3
    MaxStarts = 2
INVARIANTS
    IOTypeOK
    FifoNoLoss
    NothingUnwrittenAfterExit
    WorkerNotStranded
    PostersNotStranded
PROPERTIES
    ImplementsSnapshotLog
    CallsReturn
