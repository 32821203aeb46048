SPECIFICATION Spec
CONSTANTS
  m1 = m1
  m2 = m2
  w1 = w1
  w2 = w2
  NoState = NoState
  Managers = {m1, m2}
  Items = {w1, w2}
  ItemOf <- OwnItems
  ModeOf <- QuickAndFull
  OfferedGates <- UnderstandingGate
  IssueIds = {"i1"}
  EvidenceIds = {"e1"}
  Transactional = {m1}
  MaxMutations = 5
  MaxFaults = 0
  MaxCrashes = 1
INVARIANTS
  CacheCoherent
  SnapshotDurable
  MirrorFresh
PROPERTIES
  DiskFollowsFSM
  RecordsSurvive
\* Callers may stop calling, and do when the bound on mutations is reached.
CHECK_DEADLOCK FALSE
