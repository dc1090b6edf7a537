SPECIFICATION Spec
CONSTANTS
    Scopes = {p1, p2}
    NULL = NULL
    FramesTracked = 2
    IsMainThread = TRUE
    MaxDepth = 2
    MaxCycle = 2
INVARIANTS
    EndsAfterStart
