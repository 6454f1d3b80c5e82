SPECIFICATION RefSpec
CONSTANTS
    Function = {f}
    Trigger = {t, u}
    Call = {c}
    TriggerRef = {r1, r2}
    Name = {m, n, o}
    Copies = FALSE
    None = None
SYMMETRY Symmetry
INVARIANTS
    DefinitionsFound
CHECK_DEADLOCK FALSE
