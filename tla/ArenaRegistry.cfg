SPECIFICATION Spec
CONSTANTS
    Threads = {t1, t2, t3}
    Arenas = {a1, a2, a3}
    NoArena = NoArena
    Count = 3
SYMMETRY RegistrySymmetry
INVARIANTS
    LiveListedOnce
    FullOnlyWhenFull
    OneWriter
