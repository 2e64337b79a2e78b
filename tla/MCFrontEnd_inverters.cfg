CONSTANTS
    Cells <- MCCells
    Verilog <- MCVerilog
    Edif <- MCEdif
    LutSizes = {2, 4}
    CutBounds = {2, 63}
SPECIFICATION Spec
INVARIANT OneLeafIsInverter
CHECK_DEADLOCK FALSE
