SPECIFICATION Spec
CONSTANTS
    Arenas = {a1}
    Starts = {s1, s2}
    Names = {n1}
    Shapes <- MCShapes
    ThreadCount = 2
    NoName = NoName
    Null = Null
    FreeingBegins = {"unlisted", "cleared"}
    Home <- MCHome
    TableSize = 2
    RegistrySize = 2
    MaxBlocks = 2
    MaxSelected = 2
    MaxPushes = 3
    MaxUntracked = 1
    MaxMoves = 1
INVARIANTS
    TypeOK
    SelectedOnce
    FoundOnce
    CollatedWhole
    RowsInOrder
SYMMETRY MCSymmetry
