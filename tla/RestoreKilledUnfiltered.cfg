SPECIFICATION Spec
CONSTANTS
    Facts = {old, new}
    Known = {old}
    Procs = {p1, p2}
    Nobody = Nobody
    SnapshotIds = {s1, s2}
    NoSnapshot = NoSnapshot
    NoImage = NoImage
    MaxMishaps = 1
INVARIANTS NothingForgottenPublished
SYMMETRY NameSymmetry
