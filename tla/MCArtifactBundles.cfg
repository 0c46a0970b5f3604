SPECIFICATION Spec
CONSTANTS
    Procs = {p1, p2}
    Nobody = Nobody
    NoRevision = NoRevision
    MaxCommits = 3
    MaxKills = 1
INVARIANTS TypeOK CurrentIsComplete
PROPERTIES BundlesAreImmutable NeverPublishesStale
SYMMETRY ProcSymmetry
CHECK_DEADLOCK FALSE
