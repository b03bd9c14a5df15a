SPECIFICATION FairSpec
CONSTANTS
    Tabs = {t1}
    Workers = {w1, w2}
    Sids = {s1, s2}
    Batches <- TwoFiles
    Shapes = {c1}
    TotalChunks <- MCTotalChunks
    MaxRetries = 1
    MaxFaults = 1
    MaxDrops = 1
    InitAlone = FALSE
    Crashes = FALSE
    ABSENT = ABSENT
    EMPTY = EMPTY
    GARBLED = GARBLED
    NONE = NONE
PROPERTIES
    NothingLost
CHECK_DEADLOCK FALSE
