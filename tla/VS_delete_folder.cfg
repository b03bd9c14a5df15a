SPECIFICATION Spec
CONSTANTS
    a = a
    b = b
    x = x
    empty = empty
    dot = dot
    up = up
    d1 = d1
    d2 = d2
    d3 = d3
    r1 = r1
    r2 = r2
    Segments <- MCSegments
    Skipped <- MCSkipped
    Keys <- MCKeys
    Folders <- MCFolders
    Drives <- TwoDrives
    Primary = d1
    Inside <- MCInside
    Below <- MCBelow
    MaxDrives = 2
    Requests <- MCRequests
    Ops <- FolderOps
    Serial = TRUE
    MaxOps = 3
    MaxFaults = 0
    NONE = NONE
INVARIANTS
    DeletesInsideOnly
CHECK_DEADLOCK FALSE
