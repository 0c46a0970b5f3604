SPECIFICATION FairSpec
CONSTANTS
    extract = extract
    consolidate = consolidate
    NoOwner = NoOwner
    Jobs = {extract, consolidate}
    Owners = {o1, o2}
    MaxAttempts = 2
    Priority <- MCPriority
INVARIANTS TypeOK NoHiddenJob
PROPERTIES LiveLeaseKept EveryJobSettles KeepsPromise
CHECK_DEADLOCK FALSE
