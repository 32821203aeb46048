SPECIFICATION Spec
CONSTANTS
    Procs = {p1, p2}
    Items = {i1, i2}
    None = None
    Half = Half
    MaxCommands = 3
    MaxCrashes = 1
    MaxRefusals = 1
    Exclusive = TRUE
SYMMETRY Symmetry
INVARIANT TypeOK
PROPERTY ImplementsCommands
PROPERTY FailureLeavesNoTrace
PROPERTY SuccessSettles
CHECK_DEADLOCK FALSE
