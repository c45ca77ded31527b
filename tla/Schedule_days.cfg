SPECIFICATION Spec
CONSTANTS
    Kinds = {"systemd", "task", "launchd"}
    DayLengths = {4, 5}
    LongestDay = 5
    Jitter = 1
    Startup = 1
    Duration = 1
    Interval = 2
    StaleAge = 13
    MaxTime = 15
    MaxManual = 1
    MaxOutages = 1
    MaxFailures = 2
INVARIANTS
    SlotIsDue
    GapBounded
    CatchUpPrunes
    StaleMeansLost
