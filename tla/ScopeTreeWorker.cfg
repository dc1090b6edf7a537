SPECIFICATION Spec
CONSTANTS
    Scopes = {p1, p2, p3, p4}
    NULL = NULL
    FramesTracked = 2
    IsMainThread = FALSE
    MaxDepth = 3
    MaxCycle = 1
SYMMETRY ScopeSymmetry
PROPERTIES
    ImplementsCallLog
