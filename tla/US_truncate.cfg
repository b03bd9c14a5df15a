SPECIFICATION Spec
CONSTANTS
    Tabs = {t1, t2}
    Workers = {w1, w2}
    Sids = {s1}
    Batches <- OneFile
    Shapes = {c1}
    TotalChunks <- MCTotalChunks
    MaxRetries = 1
    MaxFaults = 0
    MaxDrops = 1
    InitAlone = FALSE
    Crashes = FALSE
    ABSENT = ABSENT
    EMPTY = EMPTY
    GARBLED = GARBLED
    NONE = NONE
INVARIANTS
    HandedOffWhole
CHECK_DEADLOCK FALSE
