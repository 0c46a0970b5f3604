SPECIFICATION FairSpec
CONSTANTS
    plan = plan
    deadline = deadline
    taste = taste
    Slots = {plan, deadline, taste}
    Related <- MCRelated
    Founded = {plan, deadline}
    Plans = {plan, deadline}
    Candidates = {}
    Batches = {b1, b2}
    Leo = Leo
    Origin = Origin
    Commands = {c1, c2}
    NoBatch = NoBatch
PROPERTY ExpiredIsProposed
CHECK_DEADLOCK FALSE
