SPECIFICATION Spec
CONSTANTS
    Arenas = {a1}
    Starts = {s1}
    Names = {n1}
    Shapes <- MCOneShape
    ThreadCount = 1
    NoName = NoName
    Null = Null
    FreeingBegins = {"cleared"}
    Home <- MCHome
    TableSize = 2
    RegistrySize = 3
    MaxBlocks = 1
    MaxSelected = 1
    MaxPushes = 2
    MaxUntracked = 0
    MaxMoves = 4
INVARIANT
    RegisteredOnce
