SPECIFICATION Spec
CONSTANTS
    p1 = p1
    p2 = p2
    p3 = p3
    Callers <- MCCallers
    NameOf <- MCNameOf
    Home <- MCHome
    Counts = {3, 6}
    NoCaller = NoCaller
    CallSlots = 2
    MaxCalls = 3
    Writers = {t1, t2}
    NoWriter = NoWriter
    SampleSlots = 2
    MaxSample = 2
INVARIANTS
    CallsAddUp
    RowsExact
    LatestKept
    BarsFitUnlessLate
