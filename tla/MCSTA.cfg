CONSTANTS
    Devices <- MCDevices
    PoolSize = 12
    Null = Null
    CinOn = 1
    CoutOn = 1
    CinOff = 1
    LineCap = 1
    FirstSlope = 1
    MinTime <- MCMinTime
    MaxTime = 10000
    NoNet = NoNet
    PinCap = 1
SPECIFICATION SSpec
INVARIANTS
    NodesAreExactlyWires
    DelayFollowsRoute
    PathsAreLongest
    NoRegisterMissed
PROPERTY ReportEnds
CHECK_DEADLOCK FALSE
