SPECIFICATION Spec
CONSTANTS
    Procs = {p1, p2}
    Jobs = {j1, j2}
    a = a
    b = b
    Files = {a, b}
    Contents <- MCContents
    None = None
    MaxEdits = 2
    MaxCalls = 3
    MaxCrashes = 1
SYMMETRY Symmetry
INVARIANT TypeOK
INVARIANT UnchangedMeansCurrent
INVARIANT RowsResolve
PROPERTY ImportsKept
CHECK_DEADLOCK FALSE
