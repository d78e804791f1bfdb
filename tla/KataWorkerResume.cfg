CONSTANTS
    j1 = j1
    j2 = j2
    Jobs = {j1}
    Boards = {b1}
    Kind <- AllPlain
    Poison = {}
    MaxReceives = 4
    SoloReceive = 2
    RetriesReceive = 3
    BadPasses = 2
    DeleteTries = 2
    PoolMax = 2
    MaxRounds = 1
    Visibility = 5
    Horizon = 4
    PhaseTicks = 1
    PassTicks = 1
    IdleTicks = 1
    MaxFaults = 0
    MaxParks = 1
SPECIFICATION Spec
INVARIANTS
    ParkedOnlyWhenAsked
CHECK_DEADLOCK FALSE
