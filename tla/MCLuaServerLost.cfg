SPECIFICATION ServerSpec
CONSTANTS
    Name = {n1, n2}
    Key = {k1, k2}
    None = None
    MaxDepth = 3
    MaxEvents = 2
    Client = {o1, o2}
    Path = {p1}
    Type = {1, 12}
    Length = {0, 2}
    ActionLength = {1, 2}
    Piece = {1, 2}
    MaxUploads = 3
    MaxRuns = 2
INVARIANTS
    AnsweredIsStored
SYMMETRY Symmetry
CHECK_DEADLOCK FALSE
