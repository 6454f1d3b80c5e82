SPECIFICATION PartsSpec
CONSTANTS
    MaxSpaces = 2
    Name = {n}
    Type = {battle, scene}
    Context = {c}
    MaxSerial = 3
    MaxNodes = 2
    None = None
    Thread = {t1, t2}
    Times = {0, 3}
    Milli = 2
    MaxStep = 1
INVARIANTS
    PoolConsistent
    StaleHandles
    WaitsAreLive
PROPERTIES
    FailuresServed
    EveryLifeEnds
CHECK_DEADLOCK FALSE
