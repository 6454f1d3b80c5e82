SPECIFICATION FrameSpec
CONSTANTS
    Doc = {gallery, vars}
    Cmd = {c1}
    Gallery = gallery
    VarSet = vars
    Space = {s1, s2}
    NoSpace = NoSpace
PROPERTIES
    SavesOwnSpace
