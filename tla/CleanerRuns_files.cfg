SPECIFICATION FairSpec
CONSTANTS
    Run = {r1, r2}
    Pid = {p1, p2}
    Cache = {c1}
    NoRun = NoRun
    NoPid = NoPid
    NoCache = NoCache
    Interval = 1
    KillOnClose = FALSE
    MaxClock = 0
    MaxRollbacks = 0
    MaxCrashes = 1
    MaxFaults = 1
    MaxEdits = 1
INVARIANTS
    LedgerTruth
    OkIsDurable
    NeverTorn
PROPERTIES
    UvIsACommand
    RunsAreSerial
    EveryRunEnds
