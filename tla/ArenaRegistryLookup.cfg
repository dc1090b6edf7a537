SPECIFICATION Spec
CONSTANTS
    Threads = {t1}
    Arenas = {a1, a2}
    NoArena = NoArena
    Count = 3
INVARIANTS
    LookupFindsLive
