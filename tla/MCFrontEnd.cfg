CONSTANTS
    Cells <- MCCells
    Verilog <- MCVerilog
    Edif <- MCEdif
    LutSizes = {2, 4}
    CutBounds = {2, 63}
SPECIFICATION Spec
INVARIANTS
    ImportConnects
    MappedIsEquivalent
    OnlyClashesStop
    BestIsShallowest
    ReadyToPack
CHECK_DEADLOCK FALSE
