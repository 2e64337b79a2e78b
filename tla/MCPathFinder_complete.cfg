\* p came completely routed: is_ignore().
CONSTANTS
    a = a
    b = b
    c = c
    p = p
    w1 = w1
    w2 = w2
    w3 = w3
    w4 = w4
    Node <- MCNode
    Net <- MCNet
    NetSeq <- MCNetSeq
    Ignored = {p}
    Partial = {}
    Fixed <- MCFixed
    PreOcc <- MCPreOcc
    Capacity <- MCCapacity
    Routes <- MCRoutes
    MaxIters = 4
    FirstPresFac = 1
    InitPresFac = 1
    PresFacMult = 2
    HistFac = 1
SPECIFICATION Spec
INVARIANTS
    OccAccounting
    PresCurrent
    SuccessIsLegal
PROPERTY HistoryIsEarned
