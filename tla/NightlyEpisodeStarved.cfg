SPECIFICATION FairSpec
CONSTANTS
    Episodes <- MCEpisodes
    Slot <- TwoSlots
    Limit = 1
    Runs = {r1, r2}
    NoRun = NoRun
    MaxAttempts = 1
    MaxCalls = 1
    MaxLeases = 1
    MaxMishaps = 1
PROPERTY EveryEpisodeQueued
CHECK_DEADLOCK FALSE
