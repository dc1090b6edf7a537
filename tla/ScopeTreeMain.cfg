SPECIFICATION Spec
CONSTANTS
    Scopes = {p1, p2, p3, p4}
    NULL = NULL
    FramesTracked = 3
    IsMainThread = TRUE
    MaxDepth = 3
    MaxCycle = 2
SYMMETRY ScopeSymmetry
INVARIANTS
    OneOwner
    WriteCellEmpty
    ParentLinksAgree
    NoLeak
    OpenTimersValid
    IntervalsNest
PROPERTIES
    HistoryFrozen
    ImplementsCallLog
