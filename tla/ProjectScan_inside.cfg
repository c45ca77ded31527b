SPECIFICATION ScanSpec
CONSTANTS
    r = r
    p = p
    t = t
    d = d
    i = i
    x = x
    h = h
    q = q
    NoDir = NoDir
    Dir <- MCDir
    Parent <- MCParent
    Root = {r, p}
    Trees <- MCTargets
    IncrementalAge = 2
    StaleAge = 3
    DepAge = 4
    MinSize = 2
INVARIANT StaysInside
