SPECIFICATION Spec
CONSTANTS
  t1 = t1
  t2 = t2
  p1 = p1
  d1 = d1
  NoDev = NoDev
  NoBoard = NoBoard
  NoV2 = NoV2
  Tasks = {}
  Devs = {d1}
  Deps <- NoDeps
  Writers = {}
  StartModes = {"quick", "migration", "full"}
  LaneSources = {"orchestrator_routed", "user_explicit"}
  Granted <- AllGates
  Recorded = {"checks", "rule-scan", "security-scan"}
  OfferedGates = {"code_review_to_qa", "product_to_solution"}
  OfferedEvidence = {"full_code_review", "migration_code_review"}
  OfferedArtifacts = {"qa_report", "task_card"}
  ParallelModes = {"limited"}
  IssueIds = {"i1"}
  MaxIssues = 1
  MaxRetry = 3
  MaxRestarts = 1
INVARIANTS
  TypeOK
  V2GatesAgree
PROPERTIES
  LaneLeftByRework
  V2StageFollows
CHECK_DEADLOCK FALSE
