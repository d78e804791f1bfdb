CONSTANTS
    j1 = j1
    j2 = j2
    Jobs = {j1, j2}
    Boards = {b1, b2}
    Kind <- AllPlain
    Poison = {}
    MaxReceives = 3
    SoloReceive = 2
    RetriesReceive = 3
    BadPasses = 2
    DeleteTries = 2
    PoolMax = 2
    MaxRounds = 1
    Visibility = 5
    Horizon = 4
    PhaseTicks = 1
    PassTicks = 1
    IdleTicks = 1
    MaxFaults = 1
    MaxParks = 0
SPECIFICATION Spec
INVARIANTS
    ExclusivePass
    RedeliveredOnlyAfterTrouble
PROPERTIES
    ImplementsDelivery
