SPECIFICATION ChosenSpec
CONSTANTS
  t1 = t1
  t2 = t2
  p1 = p1
  d1 = d1
  NoDev = NoDev
  NoBoard = NoBoard
  NoV2 = NoV2
  Tasks = {t1, t2}
  Devs = {d1}
  Deps <- SecondAfterFirst
  l1 = l1
  l2 = l2
  Slices = {l1, l2}
  SliceDeps <- SecondSliceAfterFirst
  Writers = {p1}
  StartModes = {"full", "migration"}
  LaneSources = {"orchestrator_routed", "user_explicit"}
  Granted <- AllGates
  Recorded = {"checks", "rule-scan", "security-scan", "full_code_review", "migration_code_review"}
  OfferedGates = {}
  OfferedEvidence = {}
  OfferedArtifacts = {"solution_package"}
  ParallelModes = {}
  IssueIds = {"i1"}
  MaxIssues = 0
  MaxRetry = 0
  MaxRestarts = 0
INVARIANTS
  SlicesReviewed
  DependenciesHeld
PROPERTIES
  UsableUnlessWrittenLate
VIEW WithoutV2
CHECK_DEADLOCK FALSE
