SPECIFICATION Spec
CONSTANTS
    w1 = w1
    w2 = w2
    t1 = t1
    t2 = t2
    Tasks = {t1, t2}
    agent = agent
    other = other
    Devs = {agent, other}
    Agent = agent
    NoDev = NoDev
    Deps <- MCDeps
    Items = {w1, w2}
    Procs = {p1, p2}
    Runs = {r1, r2}
    Chained = {}
    Boards <- MCBoards
    Shapes <- MCShapes
    Plans <- MCPlans
    NoLimit = NoLimit
    None = None
    MaxMoves = 1
    MaxCrashes = 1
SYMMETRY Symmetry
INVARIANT RunAndTaskAgree
PROPERTY DispatchKeepsLimits
CHECK_DEADLOCK FALSE
