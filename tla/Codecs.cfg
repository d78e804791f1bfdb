CONSTANTS
    Updates <- TwoVersions
    NoSha = "none"
    MaxChunks = 3
    UrlMax = 6
    MaxAge = 2
    Wrap = 6
    MaxSilence = 2
    MaxCommands = 1
    MaxText = 4
    MaxCells = 6
    MaxLength = 4
    MaxJobs = 4
    Hf <- SmallVocab
    Class <- ClassOf
    Nfd <- NfdOf
    Lower <- LowerOf
    Specials <- SpecialTokens
    TooHigh <- TooHighPoints
    Cls = 2
    Sep = 3
    Unk = 1
    MaxChars = 4
    Limits <- SomeLimits
    Me = "Kata"
    MaxStanzas = 3
    ChunkSize = 2
    TagSize = 1
    MaxTok = 8
    MaxSeg = 4
    PendMax = 3
    None = "none"
    RefreshMargin = 3
    UseMargin = 1
    MaxBatch = 2
    MaxBytes = 3
    MaxReceive = 2
    MaxAllow = 2
    MaxHead = 3
    Bad <- NoAddress
    Nobody <- Offline
    Asked <- SomeCalls
    Tests = {0, 1, 2, 3}
    Recorded = {0, 1}
    Cosines = {1, 2}
    NaN = NaN
    MinCos = 2
    TopCos = 3
SPECIFICATION MCSpec
INVARIANTS
    UpdateOfOneVersion
    TokensSpell
    OpensWhole
    ReadsBack
    PassFits
    OutsideIsChecked
    HealthyMeans
CHECK_DEADLOCK FALSE
