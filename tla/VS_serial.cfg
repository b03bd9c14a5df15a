SPECIFICATION Spec
CONSTANTS
    a = a
    b = b
    x = x
    empty = empty
    dot = dot
    up = up
    d1 = d1
    d2 = d2
    d3 = d3
    r1 = r1
    r2 = r2
    Segments <- MCSegments
    Skipped <- MCSkipped
    Keys <- MCKeys
    Folders <- MCFolders
    Drives <- TwoDrives
    Primary = d1
    Inside <- MCInside
    Below <- MCBelow
    MaxDrives = 3
    Requests <- MCRequests
    Ops <- AllOps
    Serial = TRUE
    MaxOps = 4
    MaxFaults = 1
    NONE = NONE
SYMMETRY Symmetry
INVARIANTS
    TypeOK
    AnswersHold
    ListedIsStored
    FilesShown
    DeleteMatchesPages
PROPERTIES
    ImplementsPool
CHECK_DEADLOCK FALSE
