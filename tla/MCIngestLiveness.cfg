SPECIFICATION FairSpec
CONSTANTS
    user = user
    tool = tool
    hi = hi
    ok = ok
    no = no
    Nothing = Nothing
    Sources = {user, tool}
    Families = {hi, ok, no}
    Times <- MCTimes
    Items <- MCItems
    Contents <- MCLonger
    Ingesters = {p1}
    BatchSize = 3
    MaxMishaps = 1
PROPERTIES EveryRecordArrives
CHECK_DEADLOCK FALSE
