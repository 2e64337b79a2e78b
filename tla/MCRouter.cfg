CONSTANTS
    netA = netA
    netB = netB
    netP = netP
    sA = sA
    sB = sB
    sP = sP
    tA = tA
    tB = tB
    tP = tP
    tQ = tQ
    w1 = w1
    w2 = w2
    w3 = w3
    w4 = w4
    NULL = NULL
    Huge = 1000000
    Node <- MCNode
    Net <- MCNet
    NetSeq <- MCNetSeq
    Netlist <- MCNetlist
    Devices <- MCDevices
    Options <- MCOptions
    Capacity <- MCCapacity
    MaxIters = 6
    FirstPresFac = 1
    InitPresFac = 1
    PresFacMult = 2
    HistFac = 1
SPECIFICATION Spec
INVARIANTS
    RoutedIsLegal
    CongestedIsReal
PROPERTIES
    Negotiates
    Terminates
