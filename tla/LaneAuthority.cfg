SPECIFICATION Spec
CONSTANTS
  t1 = t1
  t2 = t2
  p1 = p1
  d1 = d1
  NoDev = NoDev
  NoBoard = NoBoard
  NoV2 = NoV2
  Tasks = {}
  Devs = {d1}
  Deps <- NoDeps
  Writers = {}
  StartModes = {"quick", "migration"}
  LaneSources = {"user_explicit"}
  Granted <- AllGates
  Recorded = {}
  OfferedGates = {}
  OfferedEvidence = {}
  OfferedArtifacts = {"task_card", "migration_report"}
  ParallelModes = {}
  IssueIds = {}
  MaxIssues = 0
  MaxRetry = 3
  MaxRestarts = 0
INVARIANT
  UserKeepsLane
CHECK_DEADLOCK FALSE
