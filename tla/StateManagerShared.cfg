SPECIFICATION Spec
CONSTANTS
  m1 = m1
  m2 = m2
  w1 = w1
  w2 = w2
  NoState = NoState
  Managers = {m1, m2}
  Items = {w1}
  ItemOf <- SameItem
  ModeOf <- OneQuick
  OfferedGates <- UnderstandingGate
  IssueIds = {}
  EvidenceIds = {}
  Transactional = {m1, m2}
  MaxMutations = 4
  MaxFaults = 1
  MaxCrashes = 1
INVARIANTS
  TypeOK
  StageEarned
  MirrorNotAhead
  LogNotAhead
SYMMETRY ManagerSymmetry
\* Callers may stop calling, and do when the bound on mutations is reached.
CHECK_DEADLOCK FALSE
