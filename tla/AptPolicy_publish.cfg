SPECIFICATION Spec
CONSTANTS
    Installer = {i1, i2, i3}
    Pid = {p1, p2}
    NoPid = NoPid
    MaxEdits = 1
    MaxCrashes = 1
    MaxFaults = 1
    MaxOutages = 1
INVARIANT NeverTorn
INVARIANT OkMeansInstalled
INVARIANT PublishedIsDurable
PROPERTY NothingReplaced
