SPECIFICATION FairSpec
CONSTANTS
    Tabs = {t1, t2}
    Workers = {w1, w2}
    Sids = {s1}
    Batches <- OneFile
    Shapes = {c1}
    TotalChunks <- MCTotalChunks
    MaxRetries = 1
    MaxFaults = 2
    MaxDrops = 2
    InitAlone = TRUE
    Crashes = TRUE
    ABSENT = ABSENT
    EMPTY = EMPTY
    GARBLED = GARBLED
    NONE = NONE
INVARIANTS
    TypeOK
    ReceivedIsWritten
    HandedOffWhole
    MetaIntact
PROPERTIES
    UploadFinishes
CHECK_DEADLOCK FALSE
