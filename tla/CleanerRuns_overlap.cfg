SPECIFICATION Spec
CONSTANTS
    Run = {r1, r2, r3}
    Pid = {p1, p2}
    Cache = {c1, c2}
    NoRun = NoRun
    NoPid = NoPid
    NoCache = NoCache
    Interval = 1
    KillOnClose = FALSE
    MaxClock = 1
    MaxRollbacks = 1
    MaxCrashes = 1
    MaxFaults = 0
    MaxEdits = 0
SYMMETRY Symmetry
INVARIANTS
    NoOverlappingGc
PROPERTIES
    PruneJustified
    ReplacedInOrder
    EarlyOnlyIfForgotten
