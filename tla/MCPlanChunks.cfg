SPECIFICATION Spec
CONSTANTS
    a1 = a1
    a2 = a2
    a3 = a3
    MaxFree = 3
    Accounts <- MCAccounts
    Snapshots <- MCSnapshots
    Sizes <- MCSizes
    MaxFiles = 2
INVARIANTS
    TypeOK
    PlanCoversFile
    NeverOvercommits
    ChunksFitDrives
    RefusedIffTooBig
    FewestDrives
CHECK_DEADLOCK FALSE
