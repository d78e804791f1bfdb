CONSTANTS
    s1 = s1
    s2 = s2
    NumMessages = 2
    Sessions = {s1}
    SessionOf <- AllOfOne
    SeqNum <- MidTurn
    Titles = {1, 2}
    NoTitle = 0
    Renames <- OneName
    Rejected = {}
    Hooks = {h1, h2}
    Drains = {d1, d2}
    BatchSize = 2
    MaxAttempts = 1
    MaxFaults = 2
    MaxReplays = 1
SPECIFICATION Spec
SYMMETRY HookSymmetry
INVARIANTS
    TypeOK
    QueuedRowsHaveText
PROPERTIES
    ImplementsCapture
    VectorsAreKept
