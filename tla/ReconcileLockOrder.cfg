SPECIFICATION Spec
CONSTANTS
    e1 = e1
    e2 = e2
    Episodes = {e1, e2}
    Verdict <- MCVerdict
    MaxVersion = 2
    MaxAttempts = 2
    Commands = {c1, c2}
INVARIANTS NoCircularWait
CHECK_DEADLOCK FALSE
