SPECIFICATION FairSpec
CONSTANTS
    user = user
    tool = tool
    hi = hi
    ok = ok
    no = no
    Nothing = Nothing
    Sources = {user, tool}
    Families = {hi, ok, no}
    Times <- MCTimes
    Items <- MCItems
    Contents <- OneAgain
    Ingesters = {p1}
    BatchSize = 4
    MaxMishaps = 0
PROPERTIES EveryReplayConverges
CHECK_DEADLOCK FALSE
