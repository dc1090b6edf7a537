SPECIFICATION FairSpec
CONSTANTS
    k1 = k1
    k2 = k2
    k3 = k3
    a1 = a1
    a2 = a2
    NoKey = NoKey
    Keys <- MCKeys
    Arenas <- MCArenas
    ArenaOf <- MCArenaOf
    Home <- MCHome
    Size = 2
    MaxPushes = 2
INVARIANTS
    TypeOK
    NeverOvercounts
    ExactUnlessTorn
PROPERTIES
    CallsReturn
