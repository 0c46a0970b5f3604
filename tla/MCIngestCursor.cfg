SPECIFICATION Spec
CONSTANTS
    user = user
    tool = tool
    hi = hi
    ok = ok
    no = no
    Nothing = Nothing
    Sources = {user, tool}
    Families = {hi, ok, no}
    Times <- MCTimes
    Items <- MCItems
    Contents <- MCContents
    Ingesters = {p1, p2}
    BatchSize = 3
    MaxMishaps = 1
INVARIANTS TypeOK CursorBehindEvents OneRole ForgottenStaysOut
SYMMETRY IngestSymmetry
CHECK_DEADLOCK FALSE
