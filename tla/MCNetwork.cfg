SPECIFICATION NetworkSpec
CONSTANTS
    Setups <- NetworkSetups
    Conn = {c1, c2, c3}
    End = End
    Sizes = {1, 2}
    Waits <- EditorWaits
    PingTimesC <- EditorPings
    MaxQueue = 3
INVARIANTS
    FramesInOrder
    SentInOrder
    PoolHolds
    ServerHears
PROPERTIES
    EndsAreServed
    ComesBack
CHECK_DEADLOCK FALSE
