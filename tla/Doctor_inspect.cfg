SPECIFICATION Spec
CONSTANTS
    Kinds = {"systemd", "task", "launchd"}
    MaxAge = 1
    MaxAptAge = 1
    MaxClock = 2
    MaxRuns = 2
    MaxUpsets = 1
INVARIANT OkIsEvidence
INVARIANT FailureIsSeen
INVARIANT NoFalseAlarm
