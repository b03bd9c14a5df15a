SPECIFICATION Spec
CONSTANTS
    a = a
    b = b
    x = x
    empty = empty
    dot = dot
    up = up
    d1 = d1
    d2 = d2
    d3 = d3
    r1 = r1
    r2 = r2
    Segments <- MCSegments
    Skipped <- MCSkipped
    Keys <- MCKeys
    Folders <- MCFolders
    Drives <- ThreeDrives
    Primary = d1
    Inside <- MCInside
    Below <- MCBelow
    MaxDrives = 2
    Requests <- MCRequests
    Ops <- AllOps
    Serial = FALSE
    MaxOps = 3
    MaxFaults = 1
    NONE = NONE
SYMMETRY Symmetry
INVARIANTS
    VaultsConsistent
    NoSharedObjects
CHECK_DEADLOCK FALSE
