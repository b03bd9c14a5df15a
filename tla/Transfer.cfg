SPECIFICATION FairSpec
CONSTANTS
    Requests = {r1, r2}
    PlansOf <- MCPlansOf
    ChunkSize = 2
    MaxWorkers = 2
    MaxFaults = 1
    ABSENT = ABSENT
    EMPTY = EMPTY
    GARBLED = GARBLED
INVARIANTS
    TypeOK
    PartsIntact
    DownloadWhole
    ProgressAddsUp
    StatusIsTrue
    NothingLeft
PROPERTIES
    StatusNeverBack
    Answered
CHECK_DEADLOCK FALSE
