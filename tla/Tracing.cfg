SPECIFICATION FairSpec
CONSTANTS
    WorkerCount = 1
    BlockCount = 3
    BlockSize = 2
    Cycles = {1, 3}
    FrameCycles = {1, 2}
INVARIANTS
    GatedCallsFindState
    CallbacksKnowThreads
    StaleSessionClosed
    ListsSound
    SettledBlocksInOrder
    WalkFollowsList
    DrawnThreadsHaveStreams
PROPERTIES
    TracingSettles
    CallbackReturns
    ImplementsEventLog
