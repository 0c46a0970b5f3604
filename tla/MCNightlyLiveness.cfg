SPECIFICATION FairSpec
CONSTANTS
    Episodes <- MCEpisodes
    Slot <- OneSlot
    Limit = 2
    Runs = {r1, r2}
    NoRun = NoRun
    MaxAttempts = 1
    MaxCalls = 1
    MaxLeases = 1
    MaxMishaps = 1
PROPERTIES DrivesTheQueue EligibleIsDecided
CHECK_DEADLOCK FALSE
