SPECIFICATION EditorSpec
CONSTANTS
    Node = {n1, n2, n3, n4}
    NULL = NULL
    Doc = {gallery, vars}
    Cmd = {c1, c2, c3, c4}
    Gallery = gallery
    SessionCmd = {c1, c2, c3}
    VarSet = vars
    Space = {s1, s2}
    NoSpace = NoSpace
    Function = {f}
    Trigger = {t, u}
    Call = {c}
    TriggerRef = {r1, r2}
    Name = {m, n}
    Copies = TRUE
    None = None
SYMMETRY Symmetry
INVARIANTS
    WellFormed
    Cursors
    EffectsInPlace
    OwnedOnce
    FrameTypeOK
    FlagHonest
    CommandsOfThisRoot
    ReferencesAgree
    LossIsShown
PROPERTIES
    ImplementsOrderedForest
    PlacesAsAsked
    ImplementsUndoStack
    SavesLoadedSpace
CHECK_DEADLOCK FALSE
