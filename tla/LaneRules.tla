------------------------------ MODULE LaneRules ------------------------------
(***************************************************************************)
(* The rules of the three lanes as the workflow controller holds them      *)
(* (src/openkit-runtime/lib/workflow-state-rules.js, runtime-guidance.js): *)
(* the order of the stages, the approval that guards each move, where      *)
(* rework goes, and the artifacts and evidence a lane is closed with.      *)
(***************************************************************************)
EXTENDS Naturals, Sequences, SequencesExt

MODE_STAGE_SEQUENCES ==
  [quick     |-> <<"quick_intake", "quick_plan", "quick_implement",
                   "quick_test", "quick_done">>,
   migration |-> <<"migration_intake", "migration_baseline",
                   "migration_strategy", "migration_upgrade",
                   "migration_code_review", "migration_verify",
                   "migration_done">>,
   full      |-> <<"full_intake", "full_product", "full_solution",
                   "full_implementation", "full_code_review", "full_qa",
                   "full_done">>]

Modes == DOMAIN MODE_STAGE_SEQUENCES
ModeStages(mode) == ToSet(MODE_STAGE_SEQUENCES[mode])
Stages == UNION {ModeStages(mode) : mode \in Modes}
InitialStage(mode) == MODE_STAGE_SEQUENCES[mode][1]
DoneStages == {Last(MODE_STAGE_SEQUENCES[mode]) : mode \in Modes}

(* getNextStage: the stages that directly follow (none after the last).    *)
NextStages(mode, stage) ==
  {MODE_STAGE_SEQUENCES[mode][i + 1] :
     i \in {j \in 1 .. Len(MODE_STAGE_SEQUENCES[mode]) - 1 :
              MODE_STAGE_SEQUENCES[mode][j] = stage}}

(* TRANSITION_GATES, by the stage that the guarded move leaves.            *)
TRANSITION_GATES ==
  [quick_test            |-> "quick_verified",
   migration_baseline    |-> "baseline_to_strategy",
   migration_strategy    |-> "strategy_to_upgrade",
   migration_upgrade     |-> "upgrade_to_code_review",
   migration_code_review |-> "code_review_to_verify",
   migration_verify      |-> "migration_verified",
   full_product          |-> "product_to_solution",
   full_solution         |-> "solution_to_fullstack",
   full_implementation   |-> "fullstack_to_code_review",
   full_code_review      |-> "code_review_to_qa",
   full_qa               |-> "qa_to_done"]

ApprovalGates(mode) ==
  {TRANSITION_GATES[s] : s \in ModeStages(mode) \cap DOMAIN TRANSITION_GATES}
Gates == UNION {ApprovalGates(mode) : mode \in Modes}

(* LEGACY_TO_V2_GATE: the gate of the unified state layer that records an  *)
(* approval; two approvals have none.                                      *)
LegacyToV2 ==
  [quick_verified           |-> "quick.verified",
   product_to_solution      |-> "full.product_to_solution",
   solution_to_fullstack    |-> "full.solution_to_implementation",
   fullstack_to_code_review |-> "full.code_review_passed",
   code_review_to_qa        |-> "full.qa_passed",
   baseline_to_strategy     |-> "migration.baseline_verified",
   strategy_to_upgrade      |-> "migration.strategy_approved",
   upgrade_to_code_review   |-> "migration.code_review_passed",
   code_review_to_verify    |-> "migration.parity_verified"]
Mapped(gates) == {LegacyToV2[g] : g \in gates \cap DOMAIN LegacyToV2}

(* getReworkRoute: where a finding of each type sends the work, whether it *)
(* leaves its lane (escalate) and whether it waits for the user (blocked). *)
IssueTypes == {"bug", "design_flaw", "requirement_gap"}
Route(mode, stage, escalate, blocked) ==
  [mode |-> mode, stage |-> stage, escalate |-> escalate,
   blocked |-> blocked]
ReworkRoute(mode, type, laneSource) ==
  CASE mode = "quick" -> Route("quick", "quick_test", FALSE, FALSE)
    [] mode = "full" ->
         Route("full",
               [bug |-> "full_implementation", design_flaw |-> "full_solution",
                requirement_gap |-> "full_product"][type], FALSE, FALSE)
    [] mode = "migration" /\ type # "requirement_gap" ->
         Route("migration",
               [bug |-> "migration_upgrade",
                design_flaw |-> "migration_strategy"][type], FALSE, FALSE)
    [] OTHER -> IF laneSource = "user_explicit"
                THEN Route("migration", "migration_verify", FALSE, TRUE)
                ELSE Route("full", "full_intake", TRUE, FALSE)
ESCALATION_RETRY_THRESHOLD == 3

-----------------------------------------------------------------------------
(* Evidence entries, by what the rules tell apart: the code reviews of the *)
(* two long lanes, "checks" (manual, runtime and automated evidence, all   *)
(* three), and the scans whose evidence is complete and whose invocation   *)
(* the runtime has logged, or which a valid manual override stands for.    *)
(* Before the code review of a migration "rule-scan" also stands for a     *)
(* codemod preview.  Incomplete scan evidence is as good as none.          *)
Reviews == {"full_code_review", "migration_code_review"}
Evidence == Reviews \cup {"checks", "rule-scan", "security-scan"}

(* TOOL_EVIDENCE_GATES and TOOL_INVOCATION_POLICIES: both ask for the same *)
(* tools before the same stages.                                           *)
ToolEvidence(target) ==
  CASE target \in {"full_code_review", "migration_code_review"} ->
         {"rule-scan"}
    [] target = "full_qa" -> {"rule-scan", "security-scan"}
    [] OTHER -> {}

(* EVIDENCE_RULES: what a lane's last working stage must have on record.   *)
EvidenceReady(stage, evidence) ==
  /\ stage \in {"quick_test", "migration_verify", "full_qa"} =>
       "checks" \in evidence
  /\ stage \in {"migration_verify", "full_qa"} => evidence \cap Reviews # {}

Artifacts == {"task_card", "scope_package", "solution_package",
              "migration_report", "qa_report"}
(* ARTIFACT_RULES: what is required once a stage is reached.               *)
RequiredArtifacts(stage) ==
  CASE stage \in {"migration_strategy", "migration_upgrade",
                  "migration_code_review", "migration_verify",
                  "migration_done"} -> {"solution_package"}
    [] stage = "full_product" -> {"scope_package"}
    [] stage \in {"full_solution", "full_implementation",
                  "full_code_review"} -> {"scope_package", "solution_package"}
    [] stage \in {"full_qa", "full_done"} ->
         {"scope_package", "solution_package", "qa_report"}
    [] OTHER -> {}

(* validateArtifactSignatureForMode: the kinds a lane may not carry.       *)
ForbiddenArtifacts ==
  [quick |-> {"migration_report", "qa_report"},
   migration |-> {"task_card", "qa_report"},
   full |-> {"task_card", "migration_report"}]
=============================================================================
