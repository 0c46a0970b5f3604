SPECIFICATION FairSpec
CONSTANTS
    Events <- MCEvents
    Source <- MCSource
    Partition <- MCPartition
    Time <- MCTime
    Size <- MCSize
    MaxGap = 2
    MaxChars = 10
    MaxEvents = 2
    Limit = 2
    Segmenters = {p1, p2}
    MaxMishaps = 1
INVARIANTS TypeOK OneEpisodeEach TextFits SameAsOneRun
PROPERTIES EveryEventSegmented
CHECK_DEADLOCK FALSE
