SPECIFICATION TEESpec
CONSTANTS
    Node = {root, n1, n2, n3}
    NULL = NULL
    KindRoot = {root}
PROPERTIES
    DragExchanges
CHECK_DEADLOCK FALSE
