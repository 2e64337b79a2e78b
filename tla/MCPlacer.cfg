CONSTANTS
    c1 = c1
    c2 = c2
    c3 = c3
    l1 = l1
    l2 = l2
    s1 = s1
    s2 = s2
    f1 = f1
    NULL = NULL
    Inst <- MCInst
    Netlists <- MCNetlists
SPECIFICATION LivePSpec
INVARIANTS
    BookkeepingAgrees
    CostIsCurrent
PROPERTIES
    StaysLegal
    FindEnds
