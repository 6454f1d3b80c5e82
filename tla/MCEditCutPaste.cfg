SPECIFICATION EditSpec
CONSTANTS
    r = r
    g = g
    k = k
    t = t
    f = f
    x = x
    y = y
    z = z
    NULL = NULL
    Node <- Nodes
    Root = r
    Group <- Groups
    Trigger = {t}
    Function = {f}
    Statement <- Statements
    Gallery = gallery
    Spaces <- TwoSpaces
    Careful = FALSE
INVARIANTS
    CutNodeHasParent
CHECK_DEADLOCK FALSE
