CONSTANTS
    u1 = u1
    u2 = u2
    Updates = {u1}
    Version <- AsksFor
    Factory = 1
    Bad <- NoneBad
    OutboxMax = 2
    MaxFaults = 2
    MaxCancels = 1
SPECIFICATION FairSpec
INVARIANTS
    TypeOK
    AlwaysRecovers
    IdleHoldsNothing
    CancelledIsNotInstalled
    CompleteIsProven
PROPERTIES
    UpdatesEnd
    OutcomeIsTold
CHECK_DEADLOCK FALSE
