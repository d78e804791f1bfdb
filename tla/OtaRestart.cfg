CONSTANTS
    u1 = u1
    u2 = u2
    Updates = {u1}
    Version <- AsksFor
    Factory = 1
    Bad <- NoneBad
    OutboxMax = 3
    MaxFaults = 0
    MaxCancels = 0
SPECIFICATION FairSpec
PROPERTIES
    RestartIsAnnounced
CHECK_DEADLOCK FALSE
