SPECIFICATION Spec
CONSTANTS
    Evaluation = {e1, e2}
    Dir = {d1, d2}
    NoDir = NoDir
    MaxChanges = 1
    MaxFlukes = 1
SYMMETRY Symmetry
INVARIANT PreviewAgrees
PROPERTY PruneLicensed
PROPERTY KeepsContract
