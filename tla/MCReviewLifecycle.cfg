SPECIFICATION Spec
CONSTANTS
    plan = plan
    deadline = deadline
    taste = taste
    Slots = {plan, deadline, taste}
    Related <- MCRelated
    Founded = {plan, deadline}
    Plans = {plan, deadline}
    Candidates = {plan, taste}
    Batches = {b1, b2}
    Leo = Leo
    Origin = Origin
    Commands = {c1, c2, c3}
    NoBatch = NoBatch
INVARIANTS TypeOK WrittenAsReviewed AppliedWhole
PROPERTIES DecisionsAreFinal
SYMMETRY NameSymmetry
CHECK_DEADLOCK FALSE
