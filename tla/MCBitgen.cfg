CONSTANTS
    WordBits = 4
    HexBits = 4
    ShortRows = 2
    FrameRows = 3
    BramRows = 3
    BramFrames = 4
    ParitySlices = 2
    MemBase = 16
    MemStep = 4
    Designs <- MCDesigns
SPECIFICATION Spec
INVARIANTS
    StreamIsDesign
    BitsStayInPlace
