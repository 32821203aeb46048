---------------------------- MODULE WorkflowRules ----------------------------
(***************************************************************************)
(* The fixed rules of the three workflow lanes, as the unified state layer *)
(* (src/runtime/state) holds them: which stage may follow which, the       *)
(* canonical order that tells a forward move from rework, and the gates    *)
(* that guard forward moves.  No variables: every operator is a table or   *)
(* a query over the tables.                                                *)
(***************************************************************************)
EXTENDS Naturals

Lanes == {"quick", "full", "migration"}

(* transitions.js: for every lane, the stages that may follow each stage.  *)
TRANSITIONS ==
  [quick |->
     [quick_intake    |-> {"quick_plan"},
      quick_plan      |-> {"quick_implement"},
      quick_implement |-> {"quick_test", "quick_plan"},
      quick_test      |-> {"quick_done", "quick_implement"},
      quick_done      |-> {}],
   full |->
     [full_intake         |-> {"full_product"},
      full_product        |-> {"full_solution"},
      full_solution       |-> {"full_implementation", "full_product"},
      full_implementation |-> {"full_code_review", "full_solution"},
      full_code_review    |-> {"full_qa", "full_implementation",
                               "full_solution", "full_product"},
      full_qa             |-> {"full_done", "full_implementation",
                               "full_solution", "full_product"},
      full_done           |-> {}],
   migration |->
     [migration_intake      |-> {"migration_baseline"},
      migration_baseline    |-> {"migration_strategy"},
      migration_strategy    |-> {"migration_upgrade", "migration_baseline"},
      migration_upgrade     |-> {"migration_code_review",
                                 "migration_strategy"},
      migration_code_review |-> {"migration_verify", "migration_upgrade",
                                 "migration_strategy"},
      migration_verify      |-> {"migration_done", "migration_upgrade"},
      migration_done        |-> {}]]

(* STAGE_ORDER of the transition engine, as the position of every stage in *)
(* its lane's array.                                                       *)
stageIndex ==
  [quick_intake |-> 0, quick_plan |-> 1, quick_implement |-> 2,
   quick_test |-> 3, quick_done |-> 4,
   full_intake |-> 0, full_product |-> 1, full_solution |-> 2,
   full_implementation |-> 3, full_code_review |-> 4, full_qa |-> 5,
   full_done |-> 6,
   migration_intake |-> 0, migration_baseline |-> 1,
   migration_strategy |-> 2, migration_upgrade |-> 3,
   migration_code_review |-> 4, migration_verify |-> 5,
   migration_done |-> 6]

(* MODE_INITIAL_STAGE of the state manager.                                *)
initialStage == [quick |-> "quick_intake", full |-> "full_intake",
                 migration |-> "migration_intake"]

(* UNIFIED_GATES: the gate, the move it guards and who may set it.         *)
UNIFIED_GATES ==
  { [id |-> "quick.understanding_confirmed", stage |-> "quick_plan",
     targetStage |-> "quick_implement", authority |-> "user"],
    [id |-> "quick.verified", stage |-> "quick_test",
     targetStage |-> "quick_done", authority |-> "quick-agent"],
    [id |-> "full.product_to_solution", stage |-> "full_product",
     targetStage |-> "full_solution", authority |-> "user"],
    [id |-> "full.solution_to_implementation", stage |-> "full_solution",
     targetStage |-> "full_implementation", authority |-> "user"],
    [id |-> "full.code_review_passed", stage |-> "full_code_review",
     targetStage |-> "full_qa", authority |-> "code-reviewer"],
    [id |-> "full.qa_passed", stage |-> "full_qa",
     targetStage |-> "full_done", authority |-> "qa-agent"],
    [id |-> "migration.baseline_verified", stage |-> "migration_baseline",
     targetStage |-> "migration_strategy",
     authority |-> "solution-lead-agent"],
    [id |-> "migration.strategy_approved", stage |-> "migration_strategy",
     targetStage |-> "migration_upgrade", authority |-> "user"],
    [id |-> "migration.code_review_passed",
     stage |-> "migration_code_review",
     targetStage |-> "migration_verify", authority |-> "code-reviewer"],
    [id |-> "migration.parity_verified", stage |-> "migration_verify",
     targetStage |-> "migration_done", authority |-> "qa-agent"] }

-----------------------------------------------------------------------------
Stages(mode) == DOMAIN TRANSITIONS[mode]
GateIds == {g.id : g \in UNIFIED_GATES}

(* TransitionEngine.validateTransition: the target must be listed; a move  *)
(* is backward when its target comes earlier in the lane's order.          *)
ValidTransition(mode, from, to) == to \in TRANSITIONS[mode][from]
Backward(from, to) == stageIndex[to] < stageIndex[from]

(* GateRegistry.getRequiredGates and canTransition, over the set of gates  *)
(* whose recorded value is true (a gate recorded false is not met).        *)
RequiredGates(from, to) ==
  {g.id : g \in {h \in UNIFIED_GATES : h.stage = from /\ h.targetStage = to}}
CanTransition(gates, from, to) == RequiredGates(from, to) \subseteq gates

(* Mutant: the gates are never consulted.                                  *)
MayAdvanceUngated(mode, gates, from, to) == ValidTransition(mode, from, to)

(* The two checks advanceStage and validateTransition make, in order: the  *)
(* table, then (forward moves only) the gates.                             *)
MayAdvance(mode, gates, from, to) ==
  /\ ValidTransition(mode, from, to)
  /\ Backward(from, to) \/ CanTransition(gates, from, to)

-----------------------------------------------------------------------------
(* The gates that stand on the forward path from the lane's first stage to *)
(* "stage": every one guards the entry of a stage at or before it.         *)
GatesUpTo(mode, stage) ==
  {g.id : g \in {h \in UNIFIED_GATES :
                   /\ h.targetStage \in Stages(mode)
                   /\ stageIndex[h.targetStage] <= stageIndex[stage]}}
=============================================================================
