SPECIFICATION FairSpec
CONSTANTS
    Space = {s1, s2}
    Handle = {1}
    MaxPeriod = 2
    MaxStep = 2
    IntMax = 1
    None = None
    Garbage <- BootGarbage
INVARIANTS
    Containers
    OwnersLive
    NothingOverdue
    NeverEarly
PROPERTIES
    EveryTimerServed
