CONSTANTS
    None = None
    PinDir <- MCPinDir
    Tasks <- MCTasks
    Slots <- MCSlots
    FreshNames <- MCFresh
SPECIFICATION FairSpec
INVARIANTS
    MatchesAreEmbeddings
    GraphFollows
    NothingDangles
    PackedIsDesign
    ChainsFollowCarry
PROPERTY
    PackingEnds
