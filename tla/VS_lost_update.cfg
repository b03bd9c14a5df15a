SPECIFICATION Spec
CONSTANTS
    a = a
    b = b
    x = x
    empty = empty
    dot = dot
    up = up
    d1 = d1
    d2 = d2
    d3 = d3
    r1 = r1
    r2 = r2
    Segments <- MCSegments
    Skipped <- MCSkipped
    Keys <- MCKeys
    Folders <- MCFolders
    Drives <- TwoDrives
    Primary = d1
    Inside <- MCInside
    Below <- MCBelow
    MaxDrives = 2
    Requests <- MCRequests
    Ops <- FileOps
    Serial = FALSE
    MaxOps = 2
    MaxFaults = 0
    NONE = NONE
INVARIANTS
    AnswersHold
CHECK_DEADLOCK FALSE
