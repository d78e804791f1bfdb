CONSTANTS
    Main = Main
    Ota = Ota
    Phased <- PhasedTasks
    Statusd = Statusd
    Metrics = Metrics
    Nobody = Nobody
    CrashLoopN = 3
    WatchdogLimit = 3
    StallLimit = 6
    GuardStale = 1
    PhaseLimit = 1
    PassLimit = 1
    CheckLimit = 0
    WaitLimit = 1
    MaxFaults = 2
SPECIFICATION FairSpec
INVARIANTS
    OneSession
    NoPostInPhase
PROPERTIES
    PhasesStartUngated
    SparesTheLive
    StuckBoardRestarts
    StaysUp
CHECK_DEADLOCK FALSE
