SPECIFICATION Spec
CONSTANTS
    Run = {r1, r2}
    Pid = {p1}
    Cache = {c1}
    NoRun = NoRun
    NoPid = NoPid
    NoCache = NoCache
    Interval = 1
    KillOnClose = FALSE
    MaxClock = 1
    MaxRollbacks = 0
    MaxCrashes = 0
    MaxFaults = 0
    MaxEdits = 1
SYMMETRY Symmetry
PROPERTIES
    StatusIsLastRun
