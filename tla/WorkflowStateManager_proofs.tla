--------------------- MODULE WorkflowStateManager_proofs ---------------------
(***************************************************************************)
(* Proofs about WorkflowStateManager: facts about the tables of the lanes, *)
(* then the type invariant, that stages are earned, and that the mirror    *)
(* and the log follow state.json, each for every value of the constants;   *)
(* and last what holds in addition where writes do not fail and every work *)
(* item has a manager of its own.                                          *)
(***************************************************************************)
EXTENDS WorkflowStateManager, TLAPS

(* The stages of the three lanes, listed: the domains of the transition    *)
(* table.                                                                  *)
LEMMA StagesOfLanes ==
  /\ Stages("quick") = {"quick_intake", "quick_plan", "quick_implement",
                        "quick_test", "quick_done"}
  /\ Stages("full") = {"full_intake", "full_product", "full_solution",
                       "full_implementation", "full_code_review", "full_qa",
                       "full_done"}
  /\ Stages("migration") =
       {"migration_intake", "migration_baseline", "migration_strategy",
        "migration_upgrade", "migration_code_review", "migration_verify",
        "migration_done"}
  BY DEF Stages, TRANSITIONS

(* Every stage of a lane has a position in the canonical order.            *)
LEMMA IndexIsNatural ==
  ASSUME NEW mode \in Lanes, NEW stage \in Stages(mode)
  PROVE  stageIndex[stage] \in Nat
  BY StagesOfLanes DEF Lanes, stageIndex

(* A listed move stays in its lane and skips no stage on the way forward.  *)
LEMMA StepsByOne ==
  ASSUME NEW mode \in Lanes, NEW from \in Stages(mode),
         NEW to \in TRANSITIONS[mode][from]
  PROVE  /\ to \in Stages(mode)
         /\ stageIndex[to] <= stageIndex[from] + 1
  <1>1. CASE mode = "quick"
    BY <1>1, StagesOfLanes DEF TRANSITIONS, stageIndex
  <1>2. CASE mode = "full"
    BY <1>2, StagesOfLanes DEF TRANSITIONS, stageIndex
  <1>3. CASE mode = "migration"
    BY <1>3, StagesOfLanes DEF TRANSITIONS, stageIndex
  <1>4. QED
    BY <1>1, <1>2, <1>3 DEF Lanes

(* Two stages of one lane never share a position, so a position names a    *)
(* stage.                                                                  *)
LEMMA IndexIsInjective ==
  ASSUME NEW mode \in Lanes, NEW a \in Stages(mode), NEW b \in Stages(mode),
         stageIndex[a] = stageIndex[b]
  PROVE  a = b
  <1>1. CASE mode = "quick"
    BY <1>1, StagesOfLanes DEF stageIndex
  <1>2. CASE mode = "full"
    BY <1>2, StagesOfLanes DEF stageIndex
  <1>3. CASE mode = "migration"
    BY <1>3, StagesOfLanes DEF stageIndex
  <1>4. QED
    BY <1>1, <1>2, <1>3 DEF Lanes

(* A gate of a lane guards the entry of a stage from the one before it.    *)
LEMMA GatesGuardOneStep ==
  ASSUME NEW mode \in Lanes, NEW h \in UNIFIED_GATES,
         h.targetStage \in Stages(mode)
  PROVE  /\ h.stage \in Stages(mode)
         /\ stageIndex[h.targetStage] = stageIndex[h.stage] + 1
  <1>1. CASE mode = "quick"
    BY <1>1, StagesOfLanes DEF stageIndex, UNIFIED_GATES
  <1>2. CASE mode = "full"
    BY <1>2, StagesOfLanes DEF stageIndex, UNIFIED_GATES
  <1>3. CASE mode = "migration"
    BY <1>3, StagesOfLanes DEF stageIndex, UNIFIED_GATES
  <1>4. QED
    BY <1>1, <1>2, <1>3 DEF Lanes

(* No move of a lane passes a gate it does not require: what guards the    *)
(* way to the target guards the way to where the move starts, or the move  *)
(* itself.                                                                 *)
LEMMA MovesPassNoGate ==
  ASSUME NEW mode \in Lanes, NEW from \in Stages(mode),
         NEW to \in TRANSITIONS[mode][from]
  PROVE  GatesUpTo(mode, to) \subseteq
           GatesUpTo(mode, from) \cup
             (IF Backward(from, to) THEN {} ELSE RequiredGates(from, to))
  <1> SUFFICES ASSUME NEW h \in UNIFIED_GATES,
                      h.targetStage \in Stages(mode),
                      stageIndex[h.targetStage] <= stageIndex[to]
               PROVE  h.id \in GatesUpTo(mode, from) \cup
                        (IF Backward(from, to) THEN {}
                         ELSE RequiredGates(from, to))
    BY DEF GatesUpTo
  <1>1. /\ to \in Stages(mode) /\ h.stage \in Stages(mode)
        /\ stageIndex[to] <= stageIndex[from] + 1
        /\ stageIndex[h.targetStage] = stageIndex[h.stage] + 1
    BY StepsByOne, GatesGuardOneStep
  <1>2. /\ stageIndex[to] \in Nat /\ stageIndex[from] \in Nat
        /\ stageIndex[h.targetStage] \in Nat /\ stageIndex[h.stage] \in Nat
    BY <1>1, IndexIsNatural
  <1>3. CASE stageIndex[h.targetStage] <= stageIndex[from]
    BY <1>3 DEF GatesUpTo
  <1>4. CASE ~(stageIndex[h.targetStage] <= stageIndex[from])
    <2>1. /\ stageIndex[h.targetStage] = stageIndex[to]
          /\ stageIndex[h.stage] = stageIndex[from]
          /\ ~(stageIndex[to] < stageIndex[from])
      BY <1>1, <1>2, <1>4
    <2>2. h.targetStage = to /\ h.stage = from
      BY <2>1, <1>1, IndexIsInjective
    <2>3. QED
      BY <2>1, <2>2 DEF RequiredGates, Backward
  <1>5. QED
    BY <1>3, <1>4

-----------------------------------------------------------------------------
(* What getState returns is a state whenever it does not throw.            *)
LEMMA LoadedIsState ==
  ASSUME TypeOK, NEW m \in Managers, Ready(m)
  PROVE  Loaded(m) \in State
  BY ConstantsAssumption DEF TypeOK, Ready, Loaded

(* What the mutations share keeps the types, whatever state they put in    *)
(* memory.                                                                 *)
LEMMA MutateType ==
  ASSUME TypeOK, NEW m \in Managers, NEW operation \in Operations,
         NEW state \in State, Ready(m), Mutate(m, operation, state),
         granted' \in [Items -> SUBSET GateIds]
  PROVE  TypeOK'
  <1>0. rev \in Nat
    BY DEF TypeOK
  <1>1. [state EXCEPT !.rev = rev + 1] \in State
    BY <1>0 DEF State
  <1>2. Loaded(m) \in State
    BY LoadedIsState
  <1> QED
    BY <1>1, <1>2 DEF TypeOK, Mutate, Steps

(* The stage a fresh state starts in is a stage of its lane.               *)
LEMMA InitialStageIsStage ==
  ASSUME NEW mode \in Lanes
  PROVE  initialStage[mode] \in Stages(mode)
  <1>1. CASE mode = "quick"
    BY <1>1, StagesOfLanes DEF initialStage
  <1>2. CASE mode = "full"
    BY <1>2, StagesOfLanes DEF initialStage
  <1>3. CASE mode = "migration"
    BY <1>3, StagesOfLanes DEF initialStage
  <1>4. QED
    BY <1>1, <1>2, <1>3 DEF Lanes

(* The stages of one lane are stages.                                      *)
LEMMA StagesAreStages ==
  ASSUME NEW mode \in Lanes
  PROVE  Stages(mode) \subseteq AllStages
  BY DEF AllStages

(* Marking one entry as resolved leaves a sequence of issues.              *)
LEMMA ResolvedIssues ==
  ASSUME NEW issues \in Seq(Issue), NEW n
  PROVE  [issues EXCEPT ![n].resolved = TRUE] \in Seq(Issue)
  <1> DEFINE f == [issues EXCEPT ![n].resolved = TRUE]
  <1>1. issues \in [1 .. Len(issues) -> Issue] /\ Len(issues) \in Nat
    OBVIOUS
  <1>2. f \in [1 .. Len(issues) -> Issue]
    BY <1>1 DEF Issue
  <1>3. QED
    BY <1>1, <1>2

(* The initial states are well typed.                                      *)
LEMMA InitType == Init => TypeOK
  BY DEF Init, TypeOK, Steps, Operations

(* Every step of every manager keeps the types.                            *)
LEMMA NextType == TypeOK /\ [Next]_vars => TypeOK'
  <1> SUFFICES ASSUME TypeOK, [Next]_vars
               PROVE  TypeOK'
    OBVIOUS
  <1> USE DEF history, End
  <1>1. CASE UNCHANGED vars
    BY <1>1 DEF TypeOK, vars
  <1> SUFFICES ASSUME NEW m \in Managers,
                      Call(m) \/ Write(m) \/ WriteFails(m) \/ Crash(m)
               PROVE  TypeOK'
    BY <1>1 DEF Next
  <1>i. ItemOf[m] \in Items
    BY ConstantsAssumption
  <1>2. CASE Load(m)
    BY <1>2, LoadedIsState DEF Load, TypeOK
  <1>3. CASE InitializeExisting(m)
    BY <1>3, <1>i DEF InitializeExisting, TypeOK
  <1>4. CASE InitializeFresh(m)
    <2>1. FreshState(ItemOf[m]) \in State
      BY <1>i, InitialStageIsStage, StagesAreStages, ConstantsAssumption
      DEF FreshState, State, TypeOK
    <2> QED
      BY <1>4, <2>1 DEF InitializeFresh, TypeOK, Steps, Operations
  <1>5. ASSUME NEW targetStage \in AllStages, AdvanceStage(m, targetStage)
        PROVE  TypeOK'
    <2>1. Ready(m) /\ Loaded(m) \in State
      BY <1>5, LoadedIsState DEF AdvanceStage
    <2>2. [Loaded(m) EXCEPT !.stage = targetStage] \in State
      BY <2>1 DEF State
    <2> QED
      BY <1>5, <2>1, <2>2, MutateType DEF AdvanceStage, TypeOK, Operations
  <1>6. ASSUME NEW gate \in OfferedGates, NEW approved \in BOOLEAN,
               SetApproval(m, gate, approved, gate.authority)
        PROVE  TypeOK'
    <2>1. Ready(m) /\ Loaded(m) \in State
      BY <1>6, LoadedIsState DEF SetApproval
    <2>2. gate.id \in GateIds
      BY ConstantsAssumption DEF GateIds
    <2>3. [Loaded(m) EXCEPT !.gates = IF approved THEN @ \cup {gate.id}
                                      ELSE @ \ {gate.id}] \in State
      BY <2>1, <2>2 DEF State
    <2>4. granted' \in [Items -> SUBSET GateIds]
      BY <1>6, <2>2 DEF SetApproval, TypeOK
    <2> QED
      BY <1>6, <2>1, <2>3, <2>4, MutateType DEF SetApproval, Operations
  <1>7. ASSUME NEW id \in IssueIds, RecordIssue(m, id)
        PROVE  TypeOK'
    <2>1. Ready(m) /\ Loaded(m) \in State
      BY <1>7, LoadedIsState DEF RecordIssue
    <2>2. [id |-> id, resolved |-> FALSE] \in Issue
      BY DEF Issue
    <2>3. Append(Loaded(m).issues, [id |-> id, resolved |-> FALSE])
            \in Seq(Issue)
      BY <2>1, <2>2 DEF State
    <2>4. [Loaded(m) EXCEPT !.issues =
             Append(@, [id |-> id, resolved |-> FALSE])] \in State
      BY <2>1, <2>3 DEF State
    <2> QED
      BY <1>7, <2>1, <2>4, MutateType DEF RecordIssue, TypeOK, Operations
  <1>8. ASSUME NEW id \in IssueIds, ResolveIssue(m, id)
        PROVE  TypeOK'
    <2>1. Ready(m) /\ Loaded(m) \in State
      BY <1>8, LoadedIsState DEF ResolveIssue
    <2> DEFINE n == FirstIssue(Loaded(m).issues, id)
    <2>2. [Loaded(m).issues EXCEPT ![n].resolved = TRUE] \in Seq(Issue)
      BY <2>1, ResolvedIssues DEF State
    <2>3. [Loaded(m) EXCEPT !.issues[n].resolved = TRUE] \in State
      BY <2>1, <2>2 DEF State
    <2> QED
      BY <1>8, <2>1, <2>3, MutateType DEF ResolveIssue, TypeOK, Operations
  <1>9. ASSUME NEW e \in EvidenceIds, RecordEvidence(m, e)
        PROVE  TypeOK'
    <2>1. Ready(m) /\ Loaded(m) \in State
      BY <1>9, LoadedIsState DEF RecordEvidence
    <2>2. [Loaded(m) EXCEPT !.evidence = @ \cup {e}] \in State
      BY <2>1 DEF State
    <2> QED
      BY <1>9, <2>1, <2>2, MutateType DEF RecordEvidence, TypeOK, Operations
  <1>10. CASE BeginTransaction(m)
    BY <1>10, LoadedIsState DEF BeginTransaction, TypeOK
  <1>11. CASE CommitTransaction(m)
    <2>1. cache[m].rev \in Nat
      BY <1>11 DEF CommitTransaction, TypeOK, State
    <2> QED
      BY <1>11, <1>i, <2>1
      DEF CommitTransaction, TypeOK, LogEntry, Operations
  <1>12. CASE RollbackTransaction(m)
    BY <1>12 DEF RollbackTransaction, TypeOK, Steps, Operations
  <1>13. CASE PersistPrimary(m)
    BY <1>13, <1>i DEF PersistPrimary, TypeOK, Steps
  <1>14. CASE PersistMirror(m)
    BY <1>14, <1>i DEF PersistMirror, TypeOK, Steps, Operations
  <1>15. CASE AppendLog(m)
    <2>1. cache[m].rev \in Nat
      BY <1>15 DEF AppendLog, TypeOK, State
    <2> QED
      BY <1>15, <1>i, <2>1
      DEF AppendLog, TypeOK, LogEntry, Steps, Operations
  <1>16. CASE WriteFails(m)
    BY <1>16 DEF WriteFails, TypeOK, Steps, Operations
  <1>17. CASE Crash(m)
    BY <1>17 DEF Crash, TypeOK, Steps, Operations
  <1>18. QED
    BY <1>2, <1>3, <1>4, <1>5, <1>6, <1>7, <1>8, <1>9, <1>10, <1>11, <1>12,
       <1>13, <1>14, <1>15, <1>16, <1>17
    DEF Call, Write

(* Type correctness: all three files, the memory of every manager and the  *)
(* history stay within their types, and no write starts without a state in *)
(* memory.                                                                 *)
THEOREM TypeCorrectness == Spec => []TypeOK
  BY InitType, NextType, PTL DEF Spec

-----------------------------------------------------------------------------
(* The history of grants only grows, so an earned state stays earned.      *)
LEMMA GrantsGrow ==
  ASSUME TypeOK, [Next]_vars, NEW i \in Items
  PROVE  granted[i] \subseteq granted'[i]
  <1> USE DEF history
  <1>1. CASE UNCHANGED vars
    BY <1>1 DEF vars
  <1>2. ASSUME NEW m \in Managers, NEW gate \in OfferedGates,
               NEW approved \in BOOLEAN,
               SetApproval(m, gate, approved, gate.authority)
        PROVE  granted[i] \subseteq granted'[i]
    BY <1>2 DEF SetApproval, TypeOK
  <1>3. ASSUME NEW m \in Managers,
               \/ Load(m) \/ InitializeExisting(m) \/ InitializeFresh(m)
               \/ \E t \in AllStages : AdvanceStage(m, t)
               \/ \E id \in IssueIds : RecordIssue(m, id) \/ ResolveIssue(m, id)
               \/ \E e \in EvidenceIds : RecordEvidence(m, e)
               \/ BeginTransaction(m) \/ CommitTransaction(m)
               \/ RollbackTransaction(m)
        PROVE  UNCHANGED granted
    BY <1>3 DEF Load, InitializeExisting, InitializeFresh, AdvanceStage,
       RecordIssue, ResolveIssue, RecordEvidence, BeginTransaction,
       CommitTransaction, RollbackTransaction
  <1>4. ASSUME NEW m \in Managers, Write(m) \/ WriteFails(m) \/ Crash(m)
        PROVE  UNCHANGED granted
    BY <1>4 DEF Write, PersistPrimary, PersistMirror, AppendLog, WriteFails,
       Crash
  <1>5. QED
    BY <1>1, <1>2, <1>3, <1>4 DEF Next, Call

(* What getState returns is earned when all the copies are: it is one of   *)
(* them.                                                                   *)
LEMMA LoadedIsEarned ==
  ASSUME TypeOK, StageEarned, NEW m \in Managers, Ready(m)
  PROVE  Earned(ItemOf[m], Loaded(m))
  BY ConstantsAssumption DEF StageEarned, Ready, Loaded

(* A mutation that earns what its new state claims keeps all copies        *)
(* earned: it changes memory only.                                         *)
LEMMA MutateEarned ==
  ASSUME TypeOK, StageEarned, [Next]_vars, NEW m \in Managers,
         NEW operation, NEW state \in State, Mutate(m, operation, state),
         state.stage \in Stages(ModeOf[ItemOf[m]]),
         state.gates \subseteq granted'[ItemOf[m]],
         GatesUpTo(ModeOf[ItemOf[m]], state.stage)
           \subseteq granted'[ItemOf[m]]
  PROVE  StageEarned'
  <1>1. /\ [state EXCEPT !.rev = rev + 1].stage = state.stage
        /\ [state EXCEPT !.rev = rev + 1].gates = state.gates
    BY DEF State
  <1>2. cache' = [cache EXCEPT ![m] = [state EXCEPT !.rev = rev + 1]]
        /\ UNCHANGED <<primary, durable, tx>>
    BY DEF Mutate
  <1>3. Earned(ItemOf[m], cache[m])'
    BY <1>1, <1>2 DEF Earned, TypeOK
  <1>4. \A i \in Items : granted[i] \subseteq granted'[i]
    BY GrantsGrow
  <1>5. \A n \in Managers : cache'[n] # NoState =>
          Earned(ItemOf[n], cache[n])'
    BY <1>2, <1>3, <1>4, ConstantsAssumption DEF StageEarned, Earned, TypeOK
  <1>6. QED
    BY <1>2, <1>4, <1>5, ConstantsAssumption DEF StageEarned, Earned

(* No gate stands on the way to the first stage of a lane, so a fresh      *)
(* state has nothing to earn.                                              *)
LEMMA FreshIsEarned ==
  ASSUME NEW mode \in Lanes
  PROVE  GatesUpTo(mode, initialStage[mode]) = {}
  <1> SUFFICES ASSUME NEW h \in UNIFIED_GATES, h.targetStage \in Stages(mode),
                      stageIndex[h.targetStage]
                        <= stageIndex[initialStage[mode]]
               PROVE  FALSE
    BY DEF GatesUpTo
  <1>1. /\ h.stage \in Stages(mode)
        /\ stageIndex[h.targetStage] = stageIndex[h.stage] + 1
    BY GatesGuardOneStep
  <1>2. stageIndex[h.stage] \in Nat
    BY <1>1, IndexIsNatural
  <1>3. stageIndex[initialStage[mode]] = 0
    BY DEF Lanes, initialStage, stageIndex
  <1>4. QED
    BY <1>1, <1>2, <1>3

(* Every step keeps every copy of a state earned: a mutation earns what    *)
(* it claims, the other steps move copies around.                          *)
LEMMA NextEarned == TypeOK /\ StageEarned /\ [Next]_vars => StageEarned'
  <1> SUFFICES ASSUME TypeOK, StageEarned, [Next]_vars
               PROVE  StageEarned'
    OBVIOUS
  <1> USE DEF history, End
  <1>g. \A i \in Items : granted[i] \subseteq granted'[i]
    BY GrantsGrow
  <1>1. CASE UNCHANGED vars
    BY <1>1 DEF StageEarned, Earned, vars
  <1> SUFFICES ASSUME NEW m \in Managers,
                      Call(m) \/ Write(m) \/ WriteFails(m) \/ Crash(m)
               PROVE  StageEarned'
    BY <1>1 DEF Next
  <1>i. ItemOf[m] \in Items /\ ModeOf[ItemOf[m]] \in Lanes
    BY ConstantsAssumption
  <1> DEFINE i == ItemOf[m]
             mode == ModeOf[ItemOf[m]]
             state == Loaded(m)
  <1>2. CASE Load(m) \/ BeginTransaction(m)
    <2>1. Earned(i, state)
      BY <1>2, LoadedIsEarned DEF Load, BeginTransaction
    <2> QED
      BY <1>2, <2>1, <1>g, ConstantsAssumption
      DEF Load, BeginTransaction, StageEarned, Earned, TypeOK
  <1>3. CASE InitializeExisting(m)
    BY <1>3, <1>i DEF InitializeExisting, StageEarned, Earned, TypeOK
  <1>4. CASE InitializeFresh(m)
    <2>1. /\ FreshState(i).stage \in Stages(mode)
          /\ FreshState(i).gates = {}
          /\ GatesUpTo(mode, FreshState(i).stage) = {}
      BY <1>i, InitialStageIsStage, FreshIsEarned DEF FreshState
    <2>2. Earned(i, FreshState(i))
      BY <2>1 DEF Earned
    <2> QED
      BY <1>4, <2>2 DEF InitializeFresh, StageEarned, Earned, TypeOK
  <1>5. ASSUME NEW to \in AllStages, AdvanceStage(m, to)
        PROVE  StageEarned'
    <2>1. /\ Ready(m) /\ state \in State /\ Earned(i, state)
          /\ to \in TRANSITIONS[mode][state.stage]
          /\ Backward(state.stage, to)
               \/ RequiredGates(state.stage, to) \subseteq state.gates
      BY <1>5, LoadedIsState, LoadedIsEarned
      DEF AdvanceStage, MayAdvance, ValidTransition, CanTransition
    <2>2. to \in Stages(mode)
      BY <2>1, <1>i, StepsByOne DEF Earned
    <2>3. GatesUpTo(mode, to) \subseteq granted[i]
      BY <2>1, <1>i, MovesPassNoGate DEF Earned
    <2> DEFINE moved == [state EXCEPT !.stage = to]
    <2>4. moved \in State /\ moved.stage = to /\ moved.gates = state.gates
      BY <2>1 DEF State
    <2>5. /\ Mutate(m, "advanceStage", moved)
          /\ moved.stage \in Stages(mode)
          /\ moved.gates \subseteq granted'[i]
          /\ GatesUpTo(mode, moved.stage) \subseteq granted'[i]
      BY <1>5, <2>1, <2>2, <2>3, <2>4, <1>g, <1>i DEF AdvanceStage, Earned
    <2> HIDE DEF moved
    <2> QED
      BY <2>4, <2>5, MutateEarned
  <1>6. ASSUME NEW gate \in OfferedGates, NEW approved \in BOOLEAN,
               SetApproval(m, gate, approved, gate.authority)
        PROVE  StageEarned'
    <2>1. Ready(m) /\ state \in State /\ Earned(i, state)
      BY <1>6, LoadedIsState, LoadedIsEarned DEF SetApproval
    <2> DEFINE set == [state EXCEPT !.gates = IF approved THEN @ \cup {gate.id}
                                              ELSE @ \ {gate.id}]
    <2>2. gate.id \in GateIds
      BY ConstantsAssumption DEF GateIds
    <2>3. /\ set \in State /\ set.stage = state.stage
          /\ set.gates \subseteq state.gates \cup
               (IF approved THEN {gate.id} ELSE {})
      BY <2>1, <2>2 DEF State
    <2>4. approved => gate.id \in granted'[i]
      BY <1>6, <1>i DEF SetApproval, TypeOK
    <2>5. /\ Mutate(m, "setApproval", set)
          /\ set.stage \in Stages(mode)
          /\ set.gates \subseteq granted'[i]
          /\ GatesUpTo(mode, set.stage) \subseteq granted'[i]
      BY <1>6, <2>1, <2>3, <2>4, <1>g, <1>i DEF SetApproval, Earned
    <2> HIDE DEF set
    <2> QED
      BY <2>3, <2>5, MutateEarned
  <1>7. ASSUME NEW id \in IssueIds, RecordIssue(m, id) \/ ResolveIssue(m, id)
        PROVE  StageEarned'
    <2>1. Ready(m) /\ state \in State /\ Earned(i, state)
      BY <1>7, LoadedIsState, LoadedIsEarned DEF RecordIssue, ResolveIssue
    <2>2. PICK operation \in Operations, issues \in Seq(Issue) :
            Mutate(m, operation, [state EXCEPT !.issues = issues])
      <3>1. CASE RecordIssue(m, id)
        <4>1. [id |-> id, resolved |-> FALSE] \in Issue
          BY DEF Issue
        <4>2. Append(state.issues, [id |-> id, resolved |-> FALSE])
                \in Seq(Issue)
          BY <2>1, <4>1 DEF State
        <4>3. QED
          BY <3>1, <4>2 DEF RecordIssue, Operations
      <3>2. CASE ResolveIssue(m, id)
        <4> DEFINE n == FirstIssue(state.issues, id)
        <4>1. [state.issues EXCEPT ![n].resolved = TRUE] \in Seq(Issue)
          BY <2>1, ResolvedIssues DEF State
        <4>2. [state EXCEPT !.issues[n].resolved = TRUE]
                = [state EXCEPT !.issues =
                     [state.issues EXCEPT ![n].resolved = TRUE]]
          BY <2>1 DEF State
        <4>3. QED
          BY <3>2, <4>1, <4>2 DEF ResolveIssue, Operations
      <3>3. QED
        BY <1>7, <3>1, <3>2
    <2> DEFINE next == [state EXCEPT !.issues = issues]
    <2>3. next \in State /\ next.stage = state.stage /\ next.gates = state.gates
      BY <2>1 DEF State
    <2>4. /\ next.stage \in Stages(mode)
          /\ next.gates \subseteq granted'[i]
          /\ GatesUpTo(mode, next.stage) \subseteq granted'[i]
      BY <2>1, <2>3, <1>g, <1>i DEF Earned
    <2>5. Mutate(m, operation, next)
      BY <2>2
    <2> HIDE DEF next
    <2> QED
      BY <2>3, <2>4, <2>5, MutateEarned
  <1>8. ASSUME NEW e \in EvidenceIds, RecordEvidence(m, e)
        PROVE  StageEarned'
    <2>1. Ready(m) /\ state \in State /\ Earned(i, state)
      BY <1>8, LoadedIsState, LoadedIsEarned DEF RecordEvidence
    <2> DEFINE next == [state EXCEPT !.evidence = @ \cup {e}]
    <2>2. next \in State /\ next.stage = state.stage /\ next.gates = state.gates
      BY <2>1 DEF State
    <2>3. /\ Mutate(m, "recordEvidence", next)
          /\ next.stage \in Stages(mode)
          /\ next.gates \subseteq granted'[i]
          /\ GatesUpTo(mode, next.stage) \subseteq granted'[i]
      BY <1>8, <2>1, <2>2, <1>g, <1>i DEF RecordEvidence, Earned
    <2> HIDE DEF next
    <2> QED
      BY <2>2, <2>3, MutateEarned
  <1>9. CASE RollbackTransaction(m)
    BY <1>9 DEF RollbackTransaction, StageEarned, Earned, TypeOK
  <1>10. CASE PersistPrimary(m)
    <2>1. cache[m] # NoState
      BY <1>10, NoStateAssumption DEF PersistPrimary, TypeOK
    <2> QED
      BY <1>10, <1>i, <2>1 DEF PersistPrimary, StageEarned, Earned, TypeOK
  <1>11. CASE CommitTransaction(m) \/ PersistMirror(m) \/ AppendLog(m)
    BY <1>11 DEF CommitTransaction, PersistMirror, AppendLog,
       StageEarned, Earned, TypeOK
  <1>12. CASE WriteFails(m)
    BY <1>12 DEF WriteFails, StageEarned, Earned, TypeOK
  <1>13. CASE Crash(m)
    BY <1>13 DEF Crash, StageEarned, Earned, TypeOK
  <1>14. QED
    BY <1>2, <1>3, <1>4, <1>5, <1>6, <1>7, <1>8, <1>9, <1>10, <1>11, <1>12,
       <1>13 DEF Call, Write

-----------------------------------------------------------------------------
(* The part of the invariant about the order of the three file writes.     *)
FileOrder == WriteOrder /\ MirrorNotAhead /\ LogNotAhead

(* The mutations and the other calls touch no file and add no write that   *)
(* is past the first one.                                                  *)
LEMMA CallKeepsFileOrder ==
  ASSUME TypeOK, FileOrder, NEW m \in Managers, Call(m)
  PROVE  FileOrder'
  <1> USE DEF history
  <1>1. CASE CommitTransaction(m)
    <2>1. MirrorNotAhead' /\ WriteOrder'
      BY <1>1 DEF CommitTransaction, FileOrder, WriteOrder, MirrorNotAhead
    <2>2. LogNotAhead'
      BY <1>1 DEF CommitTransaction, FileOrder, LogNotAhead, TypeOK
    <2>3. QED
      BY <2>1, <2>2 DEF FileOrder
  <1>2. CASE ~CommitTransaction(m)
    <2>1. UNCHANGED <<mirror, log, durable>>
      BY <1>2 DEF Call, Mutate, Load, InitializeExisting, InitializeFresh,
         AdvanceStage, SetApproval, RecordIssue, ResolveIssue,
         RecordEvidence, BeginTransaction, RollbackTransaction
    <2>2. \A n \in Managers :
            pc'[n] \in {"mirror", "log"} =>
              pc'[n] = pc[n] /\ cache'[n] = cache[n]
      <3> SUFFICES ASSUME NEW n \in Managers, pc'[n] \in {"mirror", "log"}
                   PROVE  pc'[n] = pc[n] /\ cache'[n] = cache[n]
        OBVIOUS
      <3>1. pc[m] = "idle" /\ pc'[m] \in {"idle", "primary"}
        BY <1>2 DEF Call, Mutate, Load, InitializeExisting, InitializeFresh,
           AdvanceStage, SetApproval, RecordIssue, ResolveIssue, Ready,
           RecordEvidence, BeginTransaction, RollbackTransaction, TypeOK
      <3>2. n # m => pc'[n] = pc[n] /\ cache'[n] = cache[n]
        BY <1>2 DEF Call, Mutate, Load, InitializeExisting, InitializeFresh,
           AdvanceStage, SetApproval, RecordIssue, ResolveIssue,
           RecordEvidence, BeginTransaction, RollbackTransaction, TypeOK
      <3>3. QED
        BY <3>1, <3>2
    <2>3. QED
      BY <2>1, <2>2 DEF FileOrder, WriteOrder, MirrorNotAhead, LogNotAhead
  <1>3. QED
    BY <1>1, <1>2

(* Every step keeps the order of the three files: state.json first, then   *)
(* the mirror and the log, which show only what it has held.               *)
LEMMA NextFileOrder == TypeOK /\ FileOrder /\ [Next]_vars => FileOrder'
  <1> SUFFICES ASSUME TypeOK, FileOrder, [Next]_vars
               PROVE  FileOrder'
    OBVIOUS
  <1> USE DEF history, End
  <1>1. CASE UNCHANGED vars
    BY <1>1 DEF FileOrder, WriteOrder, MirrorNotAhead, LogNotAhead, vars
  <1> SUFFICES ASSUME NEW m \in Managers,
                      Call(m) \/ Write(m) \/ WriteFails(m) \/ Crash(m)
               PROVE  FileOrder'
    BY <1>1 DEF Next
  <1>i. ItemOf[m] \in Items
    BY ConstantsAssumption
  <1>2. CASE Call(m)
    BY <1>2, CallKeepsFileOrder
  <1>3. CASE PersistPrimary(m)
    <2>1. cache[m] \in State
      BY <1>3 DEF PersistPrimary, TypeOK
    <2>2. \A i \in Items : durable[i] \subseteq durable'[i]
      BY <1>3 DEF PersistPrimary, TypeOK
    <2>3. WriteOrder'
      BY <1>3, <1>i, <2>2, ConstantsAssumption
      DEF PersistPrimary, FileOrder, WriteOrder, TypeOK
    <2>4. MirrorNotAhead'
      BY <1>3, <2>2 DEF PersistPrimary, FileOrder, MirrorNotAhead, TypeOK
    <2>5. LogNotAhead'
      BY <1>3, <2>2 DEF PersistPrimary, FileOrder, LogNotAhead
    <2>6. QED
      BY <2>3, <2>4, <2>5 DEF FileOrder
  <1>4. CASE PersistMirror(m)
    <2>1. cache[m] \in durable[ItemOf[m]]
      BY <1>4 DEF PersistMirror, FileOrder, WriteOrder
    <2>2. WriteOrder'
      BY <1>4, <2>1 DEF PersistMirror, FileOrder, WriteOrder, TypeOK
    <2>3. MirrorNotAhead'
      BY <1>4, <2>1 DEF PersistMirror, MirrorNotAhead
    <2>4. LogNotAhead'
      BY <1>4 DEF PersistMirror, FileOrder, LogNotAhead
    <2>5. QED
      BY <2>2, <2>3, <2>4 DEF FileOrder
  <1>5. CASE AppendLog(m)
    <2>1. cache[m] \in durable[ItemOf[m]]
      BY <1>5 DEF AppendLog, FileOrder, WriteOrder
    <2>2. WriteOrder'
      BY <1>5 DEF AppendLog, FileOrder, WriteOrder, TypeOK
    <2>3. MirrorNotAhead'
      BY <1>5 DEF AppendLog, FileOrder, MirrorNotAhead
    <2>4. LogNotAhead'
      <3> SUFFICES ASSUME NEW i \in Items, NEW entry \in log'[i],
                          entry.operation # "commit"
                   PROVE  \E state \in durable[i] : state.rev = entry.rev
        BY <1>5 DEF AppendLog, LogNotAhead
      <3>1. CASE entry \in log[i]
        BY <3>1 DEF FileOrder, LogNotAhead
      <3>2. CASE entry \notin log[i]
        <4>1. i = ItemOf[m] /\ entry.rev = cache[m].rev
          BY <1>5, <3>2, <1>i DEF AppendLog, TypeOK
        <4>2. QED
          BY <4>1, <2>1
      <3>3. QED
        BY <3>1, <3>2
    <2>5. QED
      BY <2>2, <2>3, <2>4 DEF FileOrder
  <1>6. CASE WriteFails(m) \/ Crash(m)
    <2>1. UNCHANGED <<mirror, log, durable>>
      BY <1>6 DEF WriteFails, Crash
    <2>2. WriteOrder'
      BY <1>6 DEF WriteFails, Crash, FileOrder, WriteOrder, TypeOK
    <2>3. QED
      BY <2>1, <2>2 DEF FileOrder, MirrorNotAhead, LogNotAhead
  <1>7. QED
    BY <1>2, <1>3, <1>4, <1>5, <1>6 DEF Write

-----------------------------------------------------------------------------
(* The initial states, with no file and no state in memory, satisfy the    *)
(* inductive invariant.                                                    *)
LEMMA InitInvariant == Init => IInv
  <1> SUFFICES ASSUME Init
               PROVE  IInv
    OBVIOUS
  <1>1. TypeOK
    BY InitType
  <1>2. StageEarned
    BY DEF Init, StageEarned
  <1>3. WriteOrder /\ MirrorNotAhead /\ LogNotAhead
    BY DEF Init, WriteOrder, MirrorNotAhead, LogNotAhead
  <1>4. QED
    BY <1>1, <1>2, <1>3 DEF IInv

(* The inductive invariant holds: types, earned stages, and the order in   *)
(* which a call writes its three files.                                    *)
THEOREM Invariance == Spec => []IInv
  <1>1. IInv /\ [Next]_vars => IInv'
    BY NextType, NextEarned, NextFileOrder DEF IInv, FileOrder
  <1>2. QED
    BY InitInvariant, <1>1, PTL DEF Spec

(* A stage is earned, for any number of managers and work items in any     *)
(* mixture of lanes, any number of mutations, failing writes and crashes:  *)
(* no copy of a state is past a gate its authority never set.              *)
THEOREM StagesAreEarned == Spec => []StageEarned
  <1>1. IInv => StageEarned
    BY DEF IInv
  <1>2. QED
    BY Invariance, <1>1, PTL

(* The mirror never shows a state that state.json has not held.            *)
THEOREM MirrorFollows == Spec => []MirrorNotAhead
  <1>1. IInv => MirrorNotAhead
    BY DEF IInv
  <1>2. QED
    BY Invariance, <1>1, PTL

(* The log tells of no mutation or rollback that is not on disk.           *)
THEOREM LogFollows == Spec => []LogNotAhead
  <1>1. IInv => LogNotAhead
    BY DEF IInv
  <1>2. QED
    BY Invariance, <1>1, PTL

-----------------------------------------------------------------------------
(* The rest is about the class used as it is meant to be: writes do not    *)
(* fail, and but for the first theorem, every work item has a manager of   *)
(* its own.  Processes may still die at any time, and the managers share   *)
(* the mirror.                                                             *)

NoFaults == MaxFaults = 0
OnePerItem == \A m, n \in Managers : ItemOf[m] = ItemOf[n] => m = n

(* Without faults no write fails.                                          *)
LEMMA NothingFails == ASSUME NoFaults, TypeOK, NEW m \in Managers PROVE ~WriteFails(m)
  BY DEF NoFaults, WriteFails, TypeOK

-----------------------------------------------------------------------------
(* What is on disk, in the memory of a manager at rest, or kept for a      *)
(* rollback has been on disk.                                              *)
RestDurable ==
  /\ \A i \in Items : primary[i] # NoState => primary[i] \in durable[i]
  /\ \A m \in Managers :
       pc[m] = "idle" /\ cache[m] # NoState => cache[m] \in durable[ItemOf[m]]
DInv == IInv /\ RestDurable /\ SnapshotDurable

LEMMA NextDurable ==
  ASSUME NoFaults, DInv, [Next]_vars
  PROVE  RestDurable' /\ SnapshotDurable'
  <1> USE DEF DInv, IInv, history
  <1>0. ItemOf \in [Managers -> Items]
    BY ConstantsAssumption
  <1>1. CASE UNCHANGED vars
    BY <1>1 DEF RestDurable, SnapshotDurable, vars
  <1> SUFFICES ASSUME NEW m \in Managers, Call(m) \/ Write(m) \/ Crash(m)
               PROVE  RestDurable' /\ SnapshotDurable'
    BY <1>1, NothingFails DEF Next
  <1>2. Ready(m) => Loaded(m) \in durable[ItemOf[m]]
    BY <1>0 DEF Ready, Loaded, RestDurable
  <1>3. CASE Load(m)
    BY <1>0, <1>2, <1>3 DEF Load, RestDurable, SnapshotDurable, TypeOK
  <1>4. CASE InitializeExisting(m)
    BY <1>0, <1>4 DEF InitializeExisting, RestDurable, SnapshotDurable, TypeOK
  <1>5. CASE InitializeFresh(m)
    BY <1>5 DEF InitializeFresh, RestDurable, SnapshotDurable, TypeOK
  <1>6. ASSUME NEW operation, NEW state, Mutate(m, operation, state)
        PROVE  RestDurable' /\ SnapshotDurable'
    BY <1>6 DEF Mutate, RestDurable, SnapshotDurable, TypeOK
  <1>7. CASE BeginTransaction(m)
    BY <1>0, <1>2, <1>7 DEF BeginTransaction, RestDurable, SnapshotDurable, TypeOK
  <1>8. CASE CommitTransaction(m)
    BY <1>8 DEF CommitTransaction, RestDurable, SnapshotDurable, TypeOK
  <1>9. CASE RollbackTransaction(m)
    BY <1>9 DEF RollbackTransaction, RestDurable, SnapshotDurable, TypeOK
  <1>10. CASE PersistPrimary(m)
    <2>1. \A i \in Items : durable[i] \subseteq durable'[i]
      BY <1>10 DEF PersistPrimary, TypeOK
    <2>2. \A i \in Items : primary'[i] # NoState => primary'[i] \in durable'[i]
      BY <1>0, <1>10 DEF PersistPrimary, RestDurable, TypeOK
    <2>3. QED
      BY <1>0, <1>10, <2>1, <2>2 DEF PersistPrimary, RestDurable, SnapshotDurable, TypeOK
  <1>11. CASE PersistMirror(m) \/ AppendLog(m)
    <2>1. cache[m] \in durable[ItemOf[m]]
      BY <1>11 DEF PersistMirror, AppendLog, WriteOrder
    <2>2. UNCHANGED <<primary, cache, durable>>
      BY <1>11 DEF PersistMirror, AppendLog
    <2>3. \A n \in Managers : n # m => pc'[n] = pc[n]
      BY <1>11 DEF PersistMirror, AppendLog, End, TypeOK
    <2>4. \A n \in Managers : tx'[n] \in {tx[n], NoState}
      BY <1>11 DEF PersistMirror, AppendLog, TypeOK
    <2>5. QED
      BY <2>1, <2>2, <2>3, <2>4 DEF RestDurable, SnapshotDurable
  <1>12. CASE Crash(m)
    BY <1>12 DEF Crash, End, RestDurable, SnapshotDurable, TypeOK
  <1>13. QED
    BY <1>3, <1>4, <1>5, <1>6, <1>7, <1>8, <1>9, <1>10, <1>11, <1>12
    DEF Call, Write, AdvanceStage, SetApproval, RecordIssue, ResolveIssue, RecordEvidence

(* SnapshotDurable, for any number of managers of an item: a rollback      *)
(* publishes what state.json has held before (rollbackTransaction).        *)
THEOREM SnapshotsAreDurable ==
  ASSUME NoFaults
  PROVE  Spec => []SnapshotDurable
  <1>1. Init => DInv
    BY InitInvariant DEF DInv, Init, RestDurable, SnapshotDurable
  <1>2. IInv /\ [Next]_vars => IInv'
    BY NextType, NextEarned, NextFileOrder DEF IInv, FileOrder
  <1>3. DInv /\ [Next]_vars => DInv'
    BY <1>2, NextDurable DEF DInv
  <1>4. DInv => SnapshotDurable
    BY DEF DInv
  <1>5. QED
    BY <1>1, <1>3, <1>4, PTL DEF Spec

-----------------------------------------------------------------------------
(* What a new state keeps of the old one: the stage is the same or one     *)
(* that may be entered from there, and nothing recorded is missing.        *)
StageFollows(i, old, new) ==
  new.stage # old.stage => MayAdvance(ModeOf[i], old.gates, old.stage, new.stage)
RecordsFollow(old, new) ==
  /\ old.evidence \subseteq new.evidence
  /\ Len(old.issues) <= Len(new.issues)
  /\ \A n \in DOMAIN old.issues :
       /\ new.issues[n].id = old.issues[n].id
       /\ old.issues[n].resolved => new.issues[n].resolved
Follows(i, old, new) == StageFollows(i, old, new) /\ RecordsFollow(old, new)

(* The manager of an item holds what state.json holds, from its first      *)
(* write on and at rest; about to write, what follows it.                  *)
WriterCoherent ==
  \A m \in Managers :
    /\ pc[m] = "mirror" \/ pc[m] = "log" => cache[m] = primary[ItemOf[m]]
    /\ pc[m] = "primary" /\ primary[ItemOf[m]] # NoState =>
         op[m] = "rollback" \/ Follows(ItemOf[m], primary[ItemOf[m]], cache[m])
CInv == TypeOK /\ CacheCoherent /\ WriterCoherent


(* A mutation of memory that is coherent with the disk.                    *)
LEMMA MutateCoherent ==
  ASSUME OnePerItem, CInv, NEW m \in Managers, Ready(m), NEW operation, NEW next,
         Mutate(m, operation, next),
         Follows(ItemOf[m], Loaded(m), [next EXCEPT !.rev = rev + 1])
  PROVE  CacheCoherent' /\ WriterCoherent'
  <1> USE DEF CInv
  <1>1. primary[ItemOf[m]] # NoState => Loaded(m) = primary[ItemOf[m]]
    BY DEF Ready, Loaded, CacheCoherent
  <1>2. UNCHANGED primary
    BY DEF Mutate
  <1>3. \A n \in Managers \ {m} : cache'[n] = cache[n] /\ pc'[n] = pc[n] /\ op'[n] = op[n]
    BY DEF Mutate, TypeOK
  <1>4. cache'[m] = [next EXCEPT !.rev = rev + 1] /\ pc'[m] = "primary"
    BY DEF Mutate, TypeOK
  <1>5. CacheCoherent'
    BY <1>2, <1>3, <1>4 DEF CacheCoherent
  <1>6. WriterCoherent'
    <2>1. ASSUME NEW n \in Managers
          PROVE  /\ pc'[n] = "mirror" \/ pc'[n] = "log" => cache'[n] = primary[ItemOf[n]]
                 /\ pc'[n] = "primary" /\ primary[ItemOf[n]] # NoState =>
                      op'[n] = "rollback" \/ Follows(ItemOf[n], primary[ItemOf[n]], cache'[n])
      <3>1. CASE n = m
        BY <1>1, <1>4, <3>1
      <3>2. CASE n # m
        BY <1>3, <3>2 DEF WriterCoherent
      <3>3. QED
        BY <3>1, <3>2
    <2>2. QED
      BY <1>2, <2>1 DEF WriterCoherent, Follows, StageFollows, RecordsFollow
  <1>7. QED
    BY <1>5, <1>6

(* What every mutation makes of a state follows it.                        *)
LEMMA MutationsFollow ==
  ASSUME TypeOK, NEW i \in Items, NEW s \in State
  PROVE  /\ \A t : MayAdvance(ModeOf[i], s.gates, s.stage, t) =>
                     Follows(i, s, [[s EXCEPT !.stage = t] EXCEPT !.rev = rev + 1])
         /\ \A gates : Follows(i, s, [[s EXCEPT !.gates = gates] EXCEPT !.rev = rev + 1])
         /\ \A e : Follows(i, s, [[s EXCEPT !.evidence = s.evidence \cup {e}] EXCEPT !.rev = rev + 1])
         /\ \A id : Follows(i, s, [[s EXCEPT !.issues = Append(s.issues, [id |-> id, resolved |-> FALSE])]
                                      EXCEPT !.rev = rev + 1])
         /\ \A k : Follows(i, s, [[s EXCEPT !.issues[k].resolved = TRUE] EXCEPT !.rev = rev + 1])
  <1> USE DEF Follows, StageFollows, RecordsFollow
  <1>1. s.issues \in Seq(Issue) /\ \A n \in DOMAIN s.issues : s.issues[n] \in Issue
    BY DEF State
  <1>2. \A t : MayAdvance(ModeOf[i], s.gates, s.stage, t) =>
                     Follows(i, s, [[s EXCEPT !.stage = t] EXCEPT !.rev = rev + 1])
    BY <1>1 DEF State
  <1>3. \A gates : Follows(i, s, [[s EXCEPT !.gates = gates] EXCEPT !.rev = rev + 1])
    BY <1>1 DEF State
  <1>4. \A e : Follows(i, s, [[s EXCEPT !.evidence = s.evidence \cup {e}] EXCEPT !.rev = rev + 1])
    BY <1>1 DEF State
  <1>5. \A id : Follows(i, s, [[s EXCEPT !.issues = Append(s.issues, [id |-> id, resolved |-> FALSE])]
                                      EXCEPT !.rev = rev + 1])
    <2>1. ASSUME NEW id
          PROVE  Follows(i, s, [[s EXCEPT !.issues = Append(s.issues, [id |-> id, resolved |-> FALSE])]
                                      EXCEPT !.rev = rev + 1])
      <3> DEFINE longer == Append(s.issues, [id |-> id, resolved |-> FALSE])
                 new == [[s EXCEPT !.issues = longer] EXCEPT !.rev = rev + 1]
      <3>1. Len(s.issues) \in Nat /\ Len(longer) = Len(s.issues) + 1 /\ \A n \in DOMAIN s.issues : longer[n] = s.issues[n]
        BY <1>1
      <3> HIDE DEF longer
      <3>2. new.issues = longer /\ new.stage = s.stage /\ new.evidence = s.evidence
        BY DEF State
      <3> HIDE DEF new
      <3>3. Follows(i, s, new)
        BY <3>1, <3>2
      <3>4. QED
        BY <3>3 DEF new, longer
    <2>2. QED
      BY <2>1
  <1>6. \A k : Follows(i, s, [[s EXCEPT !.issues[k].resolved = TRUE] EXCEPT !.rev = rev + 1])
    <2>1. ASSUME NEW k
          PROVE  Follows(i, s, [[s EXCEPT !.issues[k].resolved = TRUE] EXCEPT !.rev = rev + 1])
      <3> DEFINE settled == [s.issues EXCEPT ![k].resolved = TRUE]
                 new == [[s EXCEPT !.issues[k].resolved = TRUE] EXCEPT !.rev = rev + 1]
      <3>1. Len(settled) = Len(s.issues) /\ Len(s.issues) \in Nat
        BY <1>1
      <3>2. \A n \in DOMAIN s.issues : settled[n].id = s.issues[n].id /\ (s.issues[n].resolved => settled[n].resolved)
        BY <1>1 DEF Issue
      <3> HIDE DEF settled
      <3>3. new.issues = settled /\ new.stage = s.stage /\ new.evidence = s.evidence
        BY DEF State, settled
      <3> HIDE DEF new
      <3>4. Follows(i, s, new)
        BY <3>1, <3>2, <3>3
      <3>5. QED
        BY <3>4 DEF new
    <2>2. QED
      BY <2>1
  <1>7. QED
    BY <1>2, <1>3, <1>4, <1>5, <1>6

LEMMA CallCoherent ==
  ASSUME OnePerItem, CInv, NEW m \in Managers, Call(m)
  PROVE  CacheCoherent' /\ WriterCoherent'
  <1> USE DEF CInv, history
  <1> DEFINE i == ItemOf[m]
             state == Loaded(m)
  <1>0. i \in Items
    BY ConstantsAssumption
  <1>1. Ready(m) => state \in State
    BY <1>0 DEF Ready, Loaded, TypeOK
  <1>2. ASSUME NEW t \in AllStages, AdvanceStage(m, t) PROVE CacheCoherent' /\ WriterCoherent'
    BY <1>0, <1>1, <1>2, MutationsFollow, MutateCoherent DEF AdvanceStage
  <1>3. ASSUME NEW gate \in OfferedGates, NEW approved \in BOOLEAN, SetApproval(m, gate, approved, gate.authority)
        PROVE  CacheCoherent' /\ WriterCoherent'
    <2> DEFINE gates == IF approved THEN state.gates \cup {gate.id} ELSE state.gates \ {gate.id}
    <2>1. Ready(m) /\ Mutate(m, "setApproval", [state EXCEPT !.gates = gates])
      BY <1>3 DEF SetApproval
    <2> HIDE DEF gates
    <2>2. QED
      BY <1>0, <1>1, <2>1, MutationsFollow, MutateCoherent
  <1>4. ASSUME NEW id \in IssueIds, RecordIssue(m, id) PROVE CacheCoherent' /\ WriterCoherent'
    BY <1>0, <1>1, <1>4, MutationsFollow, MutateCoherent DEF RecordIssue
  <1>5. ASSUME NEW id \in IssueIds, ResolveIssue(m, id) PROVE CacheCoherent' /\ WriterCoherent'
    <2> DEFINE k == FirstIssue(state.issues, id)
    <2>1. Ready(m) /\ Mutate(m, "resolveIssue", [state EXCEPT !.issues[k].resolved = TRUE])
      BY <1>5 DEF ResolveIssue
    <2> HIDE DEF k
    <2>2. QED
      BY <1>0, <1>1, <2>1, MutationsFollow, MutateCoherent
  <1>6. ASSUME NEW e \in EvidenceIds, RecordEvidence(m, e) PROVE CacheCoherent' /\ WriterCoherent'
    BY <1>0, <1>1, <1>6, MutationsFollow, MutateCoherent DEF RecordEvidence
  <1>7. ASSUME Load(m) \/ InitializeExisting(m) \/ BeginTransaction(m) \/ CommitTransaction(m)
        PROVE  CacheCoherent' /\ WriterCoherent'
    <2>1. pc[m] = "idle" /\ UNCHANGED <<primary, pc, op>>
      BY <1>7 DEF Load, InitializeExisting, BeginTransaction, CommitTransaction, Ready
    <2>2. \A n \in Managers \ {m} : cache'[n] = cache[n]
      BY <1>7 DEF Load, InitializeExisting, BeginTransaction, CommitTransaction, TypeOK
    <2>3. cache'[m] \in {NoState, primary[i]}
      BY <1>7, <2>1 DEF Load, InitializeExisting, BeginTransaction, CommitTransaction, Loaded, CacheCoherent, TypeOK
    <2>4. QED
      BY <2>1, <2>2, <2>3 DEF CacheCoherent, WriterCoherent, Follows, StageFollows, RecordsFollow
  <1>8. ASSUME InitializeFresh(m) \/ RollbackTransaction(m)
        PROVE  CacheCoherent' /\ WriterCoherent'
    <2>1. /\ pc'[m] = "primary" /\ UNCHANGED primary
          /\ primary[i] = NoState \/ op'[m] = "rollback"
      BY <1>8 DEF InitializeFresh, RollbackTransaction, TypeOK
    <2>2. \A n \in Managers \ {m} : cache'[n] = cache[n] /\ pc'[n] = pc[n] /\ op'[n] = op[n]
      BY <1>8 DEF InitializeFresh, RollbackTransaction, TypeOK
    <2>3. QED
      BY <2>1, <2>2 DEF CacheCoherent, WriterCoherent, Follows, StageFollows, RecordsFollow
  <1>9. QED
    BY <1>2, <1>3, <1>4, <1>5, <1>6, <1>7, <1>8 DEF Call

LEMMA WriteCoherent ==
  ASSUME OnePerItem, CInv, NEW m \in Managers, Write(m) \/ Crash(m)
  PROVE  CacheCoherent' /\ WriterCoherent'
  <1> USE DEF CInv, history
  <1>0. ItemOf \in [Managers -> Items]
    BY ConstantsAssumption
  <1>1. \A n \in Managers \ {m} : cache'[n] = cache[n] /\ pc'[n] = pc[n] /\ op'[n] = op[n]
    BY DEF Write, PersistPrimary, PersistMirror, AppendLog, Crash, End, TypeOK
  <1>2. \A n \in Managers \ {m} : primary'[ItemOf[n]] = primary[ItemOf[n]]
    BY <1>0 DEF OnePerItem, Write, PersistPrimary, PersistMirror, AppendLog, Crash, TypeOK
  <1>3. \/ pc'[m] = "idle" /\ cache'[m] \in {NoState, primary'[ItemOf[m]]}
        \/ pc'[m] \in {"mirror", "log"} /\ cache'[m] = primary'[ItemOf[m]]
    <2>1. CASE PersistPrimary(m)
      BY <1>0, <2>1 DEF PersistPrimary, TypeOK
    <2>2. CASE PersistMirror(m) \/ AppendLog(m)
      BY <2>2 DEF PersistMirror, AppendLog, End, TypeOK, WriterCoherent
    <2>3. CASE Crash(m)
      BY <2>3 DEF Crash, End, TypeOK
    <2>4. QED
      BY <2>1, <2>2, <2>3 DEF Write
  <1>4. CacheCoherent'
    BY <1>1, <1>2, <1>3 DEF CacheCoherent
  <1>5. WriterCoherent'
    <2>1. ASSUME NEW n \in Managers
          PROVE  /\ pc'[n] = "mirror" \/ pc'[n] = "log" => cache'[n] = primary'[ItemOf[n]]
                 /\ pc'[n] = "primary" /\ primary'[ItemOf[n]] # NoState =>
                      op'[n] = "rollback" \/ Follows(ItemOf[n], primary'[ItemOf[n]], cache'[n])
      <3>1. CASE n = m
        BY <1>3, <3>1
      <3>2. CASE n # m
        BY <1>1, <1>2, <3>2 DEF WriterCoherent
      <3>3. QED
        BY <3>1, <3>2
    <2>2. QED
      BY <2>1 DEF WriterCoherent, Follows, StageFollows, RecordsFollow
  <1>6. QED
    BY <1>4, <1>5

LEMMA InitCoherent == Init => CInv
  BY InitType DEF CInv, Init, CacheCoherent, WriterCoherent

LEMMA NextCoherent ==
  ASSUME NoFaults, OnePerItem, CInv, [Next]_vars
  PROVE  CacheCoherent' /\ WriterCoherent'
  <1>1. CASE UNCHANGED vars
    BY <1>1 DEF vars, CInv, CacheCoherent, WriterCoherent, Follows, StageFollows, RecordsFollow
  <1>2. ASSUME NEW m \in Managers, Call(m) \/ Write(m) \/ WriteFails(m) \/ Crash(m)
        PROVE  CacheCoherent' /\ WriterCoherent'
    BY <1>2, CallCoherent, WriteCoherent, NothingFails DEF CInv
  <1>3. QED
    BY <1>1, <1>2 DEF Next

LEMMA StepCoherent == NoFaults /\ OnePerItem /\ CInv /\ [Next]_vars => CInv'
  BY NextType, NextCoherent DEF CInv

(* CacheCoherent, for any number of work items and over any deaths: the    *)
(* cache that is never read again is what the file holds (getState).       *)
THEOREM CachesAreCoherent ==
  ASSUME NoFaults, OnePerItem
  PROVE  Spec => []CacheCoherent
  <1>1. CInv /\ [Next]_vars => CInv'
    BY StepCoherent
  <1>2. CInv => CacheCoherent
    BY DEF CInv
  <1>3. QED
    BY <1>1, <1>2, InitCoherent, PTL DEF Spec

-----------------------------------------------------------------------------
(* Only the first write of a call changes state.json.                      *)
LEMMA DiskChanges ==
  ASSUME NoFaults, CInv, [Next]_vars, NEW i \in Items
  PROVE  \/ primary'[i] = primary[i]
         \/ \E m \in Managers : ItemOf[m] = i /\ pc[m] = "primary" /\ primary'[i] = cache[m]
  <1> USE DEF CInv, history
  <1>1. ASSUME NEW m \in Managers, PersistPrimary(m)
        PROVE  primary'[i] = primary[i] \/ (ItemOf[m] = i /\ pc[m] = "primary" /\ primary'[i] = cache[m])
    BY <1>1 DEF PersistPrimary, TypeOK
  <1>2. ASSUME NEW m \in Managers, Call(m) \/ PersistMirror(m) \/ AppendLog(m) \/ WriteFails(m) \/ Crash(m)
        PROVE  UNCHANGED primary
    BY <1>2 DEF Call, Mutate, Load, InitializeExisting, InitializeFresh, AdvanceStage, SetApproval, RecordIssue,
       ResolveIssue, RecordEvidence, BeginTransaction, CommitTransaction, RollbackTransaction,
       PersistMirror, AppendLog, WriteFails, Crash
  <1>3. CASE UNCHANGED vars
    BY <1>3 DEF vars
  <1>4. QED
    BY <1>1, <1>2, <1>3 DEF Next, Write

(* DiskFollowsFSM: whatever the order of calls, deaths and transactions of *)
(* several items, the file of each moves as the transition table and its   *)
(* gates allow, or by a rollback (FSM engine, canAdvance).                 *)
THEOREM DiskAlwaysFollows ==
  ASSUME NoFaults, OnePerItem
  PROVE  Spec => DiskFollowsFSM
  <1> DEFINE A == \A i \in Items :
                    primary[i] # NoState /\ primary'[i].stage # primary[i].stage =>
                      \/ MayAdvance(ModeOf[i], primary[i].gates, primary[i].stage, primary'[i].stage)
                      \/ \E m \in Managers : ItemOf[m] = i /\ op[m] = "rollback"
  <1>1. CInv /\ [Next]_vars => CInv'
    BY StepCoherent
  <1>2. CInv /\ [Next]_vars => [A]_vars
    BY DiskChanges DEF CInv, WriterCoherent, Follows, StageFollows
  <1>3. QED
    BY <1>1, <1>2, InitCoherent, PTL DEF Spec, DiskFollowsFSM

(* RecordsSurvive: no issue and no evidence that reached the disk is lost  *)
(* there, or reordered, but by a rollback (recordIssue, recordEvidence).   *)
THEOREM RecordsAlwaysSurvive ==
  ASSUME NoFaults, OnePerItem
  PROVE  Spec => RecordsSurvive
  <1> DEFINE A == \A i \in Items :
       primary[i] # NoState =>
         \/ /\ primary[i].evidence \subseteq primary'[i].evidence
            /\ Len(primary[i].issues) <= Len(primary'[i].issues)
            /\ \A n \in DOMAIN primary[i].issues :
                 /\ primary'[i].issues[n].id = primary[i].issues[n].id
                 /\ primary[i].issues[n].resolved =>
                      primary'[i].issues[n].resolved
         \/ \E m \in Managers : ItemOf[m] = i /\ op[m] = "rollback"
  <1>1. CInv /\ [Next]_vars => CInv'
    BY StepCoherent
  <1>2. CInv /\ [Next]_vars => [A]_vars
    <2> SUFFICES ASSUME CInv, [Next]_vars, NEW i \in Items, primary[i] # NoState
                 PROVE  \/ RecordsFollow(primary[i], primary'[i])
                        \/ \E m \in Managers : ItemOf[m] = i /\ op[m] = "rollback"
      BY DEF RecordsFollow
    <2>1. CASE primary'[i] = primary[i]
      <3>1. Len(primary[i].issues) \in Nat
        BY DEF CInv, TypeOK, State
      <3>2. QED
        BY <2>1, <3>1 DEF RecordsFollow
    <2>2. CASE \E m \in Managers : ItemOf[m] = i /\ pc[m] = "primary" /\ primary'[i] = cache[m]
      BY <2>2 DEF CInv, WriterCoherent, Follows
    <2>3. QED
      BY <2>1, <2>2, DiskChanges
  <1>3. QED
    BY <1>1, <1>2, InitCoherent, PTL DEF Spec, RecordsSurvive

-----------------------------------------------------------------------------
(* The mirror shows the state of the item it names, or that item's manager *)
(* is between its first two writes.                                        *)
MirrorDue ==
  crashes = 0 /\ mirror # NoState =>
    \/ mirror.state = primary[mirror.of]
    \/ \E m \in Managers : ItemOf[m] = mirror.of /\ pc[m] = "mirror"
MInv == CInv /\ MirrorDue

LEMMA NextMirror ==
  ASSUME NoFaults, OnePerItem, MInv, [Next]_vars
  PROVE  MirrorDue'
  <1> USE DEF MInv, CInv, history
  <1>0. ItemOf \in [Managers -> Items] /\ crashes \in Nat
    BY ConstantsAssumption DEF TypeOK
  <1>1. ASSUME NEW m \in Managers, Call(m) PROVE MirrorDue'
    <2>1. UNCHANGED <<primary, mirror, crashes>> /\ pc[m] = "idle"
      BY <1>1 DEF Call, Mutate, Load, InitializeExisting, InitializeFresh, AdvanceStage, SetApproval, RecordIssue,
         ResolveIssue, RecordEvidence, BeginTransaction, CommitTransaction, RollbackTransaction, Ready
    <2>2. \A n \in Managers \ {m} : pc'[n] = pc[n]
      BY <1>1 DEF Call, Mutate, Load, InitializeExisting, InitializeFresh, AdvanceStage, SetApproval, RecordIssue,
         ResolveIssue, RecordEvidence, BeginTransaction, CommitTransaction, RollbackTransaction, TypeOK
    <2>3. QED
      BY <2>1, <2>2 DEF MirrorDue
  <1>2. ASSUME NEW m \in Managers, PersistPrimary(m) PROVE MirrorDue'
    <2>1. /\ UNCHANGED <<mirror, crashes>> /\ pc'[m] = "mirror"
          /\ \A n \in Managers \ {m} : pc'[n] = pc[n]
          /\ \A i \in Items \ {ItemOf[m]} : primary'[i] = primary[i]
      BY <1>0, <1>2 DEF PersistPrimary, TypeOK
    <2>2. mirror # NoState => mirror.of \in Items
      BY DEF TypeOK
    <2>3. QED
      BY <2>1, <2>2, <1>2 DEF MirrorDue, PersistPrimary
  <1>3. ASSUME NEW m \in Managers, PersistMirror(m) PROVE MirrorDue'
    <2>1. UNCHANGED primary /\ mirror' = [of |-> ItemOf[m], state |-> cache[m]]
      BY <1>3 DEF PersistMirror
    <2>2. cache[m] = primary[ItemOf[m]]
      BY <1>3 DEF PersistMirror, WriterCoherent
    <2>3. QED
      BY <2>1, <2>2 DEF MirrorDue
  <1>4. ASSUME NEW m \in Managers, AppendLog(m) PROVE MirrorDue'
    <2>1. UNCHANGED <<primary, mirror, crashes>> /\ pc[m] = "log" /\ \A n \in Managers \ {m} : pc'[n] = pc[n]
      BY <1>4 DEF AppendLog, End, TypeOK
    <2>2. QED
      BY <2>1 DEF MirrorDue
  <1>5. ASSUME NEW m \in Managers, Crash(m) PROVE MirrorDue'
    BY <1>0, <1>5 DEF Crash, MirrorDue
  <1>6. CASE UNCHANGED vars
    BY <1>6 DEF vars, MirrorDue
  <1>7. QED
    BY <1>1, <1>2, <1>3, <1>4, <1>5, <1>6, NothingFails DEF Next, Write

(* MirrorFresh: while no process dies, the mirror of the item written last *)
(* agrees with its state.json when all managers are at rest (_persist).    *)
THEOREM MirrorAlwaysFresh ==
  ASSUME NoFaults, OnePerItem
  PROVE  Spec => []MirrorFresh
  <1>1. Init => MInv
    BY InitCoherent DEF MInv, MirrorDue, Init
  <1>2. MInv /\ [Next]_vars => MInv'
    BY StepCoherent, NextMirror DEF MInv
  <1>3. MInv => MirrorFresh
    BY DEF MInv, MirrorDue, MirrorFresh, CInv, TypeOK
  <1>4. QED
    BY <1>1, <1>2, <1>3, PTL DEF Spec
=============================================================================
