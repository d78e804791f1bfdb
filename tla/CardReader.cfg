SPECIFICATION FairSpec
CONSTANTS
    Layers = 2
    Blocks <- MCBlocks
    BlockChunks = 2
    NREQ = 12
    ChunkQueue = 4
    MaxPasses = 2
    MaxFaults = 1
INVARIANTS
    SlotsAreFree
    ComputesWithItsOwn
    GoodMeansIntact
    IdleBetweenPasses
PROPERTIES
    PassesEnd
CHECK_DEADLOCK FALSE
