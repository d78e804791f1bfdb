CONSTANTS
    s1 = s1
    s2 = s2
    NumMessages = 3
    Sessions = {s1, s2}
    SessionOf <- FirstIsOthers
    SeqNum <- MidTurn
    Titles = {1, 2}
    NoTitle = 0
    Renames <- NewNames
    Rejected = {s2}
    Hooks = {h1}
    Drains = {d1}
    BatchSize = 1
    MaxAttempts = 2
    MaxFaults = 1
    MaxReplays = 0
SPECIFICATION FairSpec
INVARIANTS
    SettledTitleIsCurrent
PROPERTIES
    AcceptedIsDelivered
