SPECIFICATION FairSpec
CONSTANTS
    WorkerCount = 2
    FramesTracked = 2
    MutexOpsPerFrame = 0
    MaxFrame = 3
PROPERTIES
    WorkersCatchUp
