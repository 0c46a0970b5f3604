SPECIFICATION Spec
CONSTANTS
    Episodes <- MCEpisodes
    Slot <- OneSlot
    Limit = 2
    Runs = {r1, r2}
    NoRun = NoRun
    MaxAttempts = 2
    MaxCalls = 2
    MaxLeases = 2
    MaxMishaps = 1
INVARIANTS TypeOK HeldWhileWorking OneVerdict CompletedMeansConsolidated
SYMMETRY RunSymmetry
CHECK_DEADLOCK FALSE
