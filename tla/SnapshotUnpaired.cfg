SPECIFICATION Spec
CONSTANTS
    user = user
    tool = tool
    hi = hi
    ok = ok
    no = no
    Nothing = Nothing
    Sources = {user, tool}
    Families = {hi, ok, no}
    Times <- MCTimes
    Items <- MCItems
    Contents <- MCContents
    Ingesters = {p1}
    BatchSize = 2
    MaxMishaps = 1
INVARIANTS SnapshotIsPair
CHECK_DEADLOCK FALSE
