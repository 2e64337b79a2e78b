CONSTANTS
    netA = netA
    netB = netB
    netC = netC
    sA = sA
    sB = sB
    sC = sC
    tU = tU
    tV = tV
    tB = tB
    tC = tC
    w1 = w1
    w2 = w2
    w3 = w3
    NULL = NULL
    NoNet = NoNet
    Huge = 1000000
    MinTime <- MCMinTime
    MaxTime = 100000
    Node <- MCNode
    Net <- MCNet
    NetSeq <- MCNetSeq
    Netlist <- MCNetlist
    Devices <- MCDevices
    Designs <- MCDesigns
    Options <- MCOptions
    Capacity <- MCCapacity
    Den = 4
    MaxCrit = 3
    MaxIters = 4
    FirstPresFac = 1
    InitPresFac = 1
    PresFacMult = 2
    HistFac = 1
SPECIFICATION TDSpec
INVARIANTS
    TreeDelayIsElmore
    OccupancyIsUse
    SlackIsSafe
    TDRoutedIsLegal
