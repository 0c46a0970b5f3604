SPECIFICATION Spec
CONSTANTS
    Procs = {p1, p2}
    Nobody = Nobody
    NoRevision = NoRevision
    MaxCommits = 3
    MaxKills = 0
INVARIANT SameRevisionSameBundle
SYMMETRY ProcSymmetry
CHECK_DEADLOCK FALSE
