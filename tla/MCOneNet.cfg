CONSTANTS
    net = net
    sn = sn
    wa = wa
    wb = wb
    wc = wc
    wd = wd
    tk = tk
    uk = uk
    NULL = NULL
    Huge = 10000
    Node <- MCNode
    Net = {net}
    TheNet = net
    Devices <- MCDevices
    Cases <- MCCases
SPECIFICATION Spec
INVARIANTS
    CleanSlate
    RouteIsTree
    SettledAtCheapest
    UnroutableIsReal
PROPERTIES
    SearchEnds
