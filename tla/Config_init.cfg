SPECIFICATION Spec
CONSTANTS
    Invocation = {i1, i2}
    User = User
    Nobody = Nobody
    MaxEdits = 1
    MaxCrashes = 1
    MaxFaults = 2
    MaxOutages = 1
INVARIANT LoadIsHonest
INVARIANT InitIsWhole
PROPERTY NothingOverwritten
