SPECIFICATION Spec
CONSTANTS
    WorkerCount = 1
    FramesTracked = 3
    MutexOpsPerFrame = 1
    MaxFrame = 5
INVARIANTS
    CallgraphConsistent
    SlotHoldsOneFrame
    StatsMatchMainTree
PROPERTIES
    WorkersFollow
