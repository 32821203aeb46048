---------------------- MODULE WorkflowController_proofs ----------------------
(***************************************************************************)
(* Proofs about WorkflowController, for every number of processes, tasks,  *)
(* developers, issues and restarts: types, the dependencies on the board,  *)
(* when an item leaves its lane, and that only a late board write can      *)
(* make an item unreadable.  Then, for any number of slices, the same item *)
(* beside its migration slice board (MigrationSlices): the slice board     *)
(* adds nothing to what the commands do to the item, and a review knows of *)
(* every slice that is open.                                               *)
(***************************************************************************)
EXTENDS MigrationSlices, TLAPS

(* The stages of the lanes, as sets.                                       *)
LEMMA QuickStages ==
  ModeStages("quick") = {"quick_intake", "quick_plan", "quick_implement",
                         "quick_test", "quick_done"}
  BY DEF ModeStages, ToSet, MODE_STAGE_SEQUENCES

(* The stages of the migration lane. *)
LEMMA MigrationStages ==
  ModeStages("migration") =
    {"migration_intake", "migration_baseline", "migration_strategy",
     "migration_upgrade", "migration_code_review", "migration_verify",
     "migration_done"}
  BY DEF ModeStages, ToSet, MODE_STAGE_SEQUENCES

(* The stages of the full lane. *)
LEMMA FullStages ==
  ModeStages("full") = {"full_intake", "full_product", "full_solution",
                        "full_implementation", "full_code_review", "full_qa",
                        "full_done"}
  BY DEF ModeStages, ToSet, MODE_STAGE_SEQUENCES

(* The lanes by name. *)
LEMMA ModeNames == Modes = {"quick", "migration", "full"}
  BY DEF Modes, MODE_STAGE_SEQUENCES

(* Every stage of a lane is a stage, and a lane starts in one of its own.  *)
LEMMA StageOfMode ==
  ASSUME NEW mode \in Modes
  PROVE  /\ ModeStages(mode) \subseteq Stages
         /\ InitialStage(mode) \in ModeStages(mode)
  <1>1. ModeStages(mode) \subseteq Stages
    BY DEF Stages
  <1>2. InitialStage(mode) \in ModeStages(mode)
    <2>1. /\ InitialStage("quick") = "quick_intake"
          /\ InitialStage("migration") = "migration_intake"
          /\ InitialStage("full") = "full_intake"
      BY DEF InitialStage, MODE_STAGE_SEQUENCES
    <2>2. QED
      BY <2>1, QuickStages, MigrationStages, FullStages, ModeNames
  <1>3. QED
    BY <1>1, <1>2

-----------------------------------------------------------------------------
(* The gates of the unified layer: each stands for an approval of a lane.  *)
LEMMA MappedGate ==
  ASSUME NEW mode \in Modes, NEW gate \in ApprovalGates(mode)
  PROVE  /\ gate \in Gates
         /\ gate \in DOMAIN LegacyToV2 => LegacyToV2[gate] \in Mapped(Gates)
  BY DEF Gates, Mapped

(* What a sync starts from is a copy.                                      *)
LEMMA BaseType == TypeOK => V2Base(state) \in Copies
  BY DEF TypeOK, V2Base, Copies, State

(* A state command keeps the types if the state it asks for is one.        *)
LEMMA MutateType ==
  ASSUME TypeOK, NEW next \in State, Mutate(next),
         v2' \in Copies \cup {NoV2}
  PROVE  TypeOK'
  BY DEF TypeOK, Mutate, Accepted

(* A fresh state is a state, and valid.                                    *)
LEMMA FreshType ==
  ASSUME NEW mode \in Modes,
         NEW source \in {"orchestrator_routed", "user_explicit"}
  PROVE  /\ FreshState(mode, source) \in State
         /\ StateValid(FreshState(mode, source))
  <1>1. InitialStage(mode) \in Stages
    BY StageOfMode
  <1>2. <<>> \in Seq(Issue)
    OBVIOUS
  <1>3. FreshState(mode, source) \in State
    BY <1>1, <1>2 DEF FreshState, State
  <1>4. StateValid(FreshState(mode, source))
    BY StageOfMode DEF FreshState, StateValid
  <1>5. QED
    BY <1>3, <1>4

(* The initial states are well typed.                                      *)
LEMMA InitType == Init => TypeOK
  <1> SUFFICES ASSUME Init
               PROVE  TypeOK
    OBVIOUS
  <1>1. PICK mode \in StartModes, source \in LaneSources :
          LET given == Granted \cap ApprovalGates(mode) IN
          /\ state = [FreshState(mode, source) EXCEPT
                        !.approved = given, !.evidence = Recorded]
          /\ v2 = IF Mapped(given) = {} THEN NoV2
                  ELSE [mode |-> mode, stage |-> InitialStage(mode),
                        gates |-> Mapped(given)]
    BY DEF Init
  <1> DEFINE given == Granted \cap ApprovalGates(mode)
  <1>2. /\ mode \in Modes
        /\ InitialStage(mode) \in ModeStages(mode)
        /\ InitialStage(mode) \in Stages
    BY StageOfMode, ControllerAssumption DEF ControllerAssumption
  <1>3. /\ given \subseteq Gates
        /\ Mapped(given) \subseteq Mapped(Gates)
    BY ControllerAssumption DEF ControllerAssumption, Mapped
  <1> DEFINE fresh == FreshState(mode, source)
  <1>4. state = [fresh EXCEPT !.approved = given, !.evidence = Recorded]
    BY <1>1
  <1>5. fresh \in State /\ StateValid(fresh)
    BY <1>2, FreshType, ControllerAssumption DEF ControllerAssumption
  <1> HIDE DEF fresh
  <1>6. state \in State /\ StateValid(state)
    <2>1. Recorded \in SUBSET Evidence /\ given \in SUBSET Gates
      BY <1>3, ControllerAssumption DEF ControllerAssumption
    <2>2. fresh.mode = mode /\ given \subseteq ApprovalGates(mode)
      BY DEF fresh, FreshState
    <2> HIDE DEF given
    <2>3. state \in State
      BY <2>1, <1>4, <1>5 DEF State
    <2>4. /\ state.mode = mode /\ state.approved = given
          /\ state.stage = fresh.stage /\ state.artifacts = fresh.artifacts
          /\ state.parallel = fresh.parallel /\ state.context = fresh.context
          /\ state.escalated = fresh.escalated
      BY <2>2, <1>4, <1>5 DEF State
    <2>5. QED
      BY <2>2, <2>3, <2>4, <1>5 DEF StateValid
  <1>7. v2 \in Copies \cup {NoV2}
    BY <1>1, <1>2, <1>3 DEF Copies
  <1>8. draft \in [Writers -> Draft]
    <2>1. Idle \in Draft
      <3>1. NoTasks \in [{} -> Task]
        BY DEF NoTasks
      <3>2. NoTasks \in TaskSets
        BY <3>1 DEF TaskSets
      <3>3. NoReroute \in Reroute
        BY DEF NoReroute, Reroute
      <3>4. QED
        BY <3>2, <3>3 DEF Idle, Draft
    <2>2. QED
      BY <2>1 DEF Init
  <1>9. QED
    BY <1>6, <1>7, <1>8 DEF Init, TypeOK, Boards, Idle

-----------------------------------------------------------------------------
(* Lanes and stages that the commands name.                                *)
LEMMA NamedStages ==
  /\ {"quick_test", "migration_upgrade", "migration_strategy",
      "migration_verify", "full_intake"} \subseteq Stages
  /\ TaskBoardStages \cup {"full_product"} \subseteq Stages
  BY StageOfMode, ModeNames, QuickStages, MigrationStages, FullStages
     DEF TaskBoardStages

(* A route leads to a stage; from the quick lane it stays there.           *)
LEMMA RouteType ==
  ASSUME NEW mode \in Modes, NEW type \in IssueTypes, NEW source
  PROVE  /\ ReworkRoute(mode, type, source).stage \in Stages
         /\ ReworkRoute(mode, type, source).escalate \in BOOLEAN
         /\ ReworkRoute(mode, type, source).blocked \in BOOLEAN
  <1>1. CASE mode = "quick"
    BY <1>1, NamedStages DEF ReworkRoute, Route
  <1>2. CASE mode = "full"
    <2>1. type \in {"bug", "design_flaw", "requirement_gap"}
      BY DEF IssueTypes
    <2>2. [bug |-> "full_implementation", design_flaw |-> "full_solution",
           requirement_gap |-> "full_product"][type] \in Stages
      BY <2>1, NamedStages DEF TaskBoardStages
    <2>3. QED
      BY <1>2, <2>2 DEF ReworkRoute, Route
  <1>3. CASE mode = "migration"
    <2>1. CASE type # "requirement_gap"
      <3>1. [bug |-> "migration_upgrade",
             design_flaw |-> "migration_strategy"][type] \in Stages
        BY <2>1, NamedStages DEF IssueTypes
      <3>2. QED
        BY <1>3, <2>1, <3>1 DEF ReworkRoute, Route
    <2>2. CASE type = "requirement_gap"
      BY <1>3, <2>2, NamedStages DEF ReworkRoute, Route
    <2>3. QED
      BY <2>1, <2>2
  <1>4. QED
    BY <1>1, <1>2, <1>3, ModeNames

(* Escalation leads to a state of the full lane.                           *)
LEMMA EscalatedType ==
  ASSUME NEW s \in State
  PROVE  Escalated(s) \in State /\ Escalated(s).mode = "full"
  BY NamedStages, ModeNames DEF Escalated, State

(* A repeated failure keeps the types, and gives up the quick lane at the  *)
(* threshold.                                                              *)
LEMMA AfterRepeatType ==
  ASSUME NEW s \in State
  PROVE  /\ AfterRepeat(s) \in State
         /\ AfterRepeat(s).mode = "quick" =>
              AfterRepeat(s).retry < ESCALATION_RETRY_THRESHOLD
  <1> DEFINE again == [s EXCEPT !.retry = @ + 1]
  <1>1. again \in State
    BY DEF State
  <1>2. /\ [again EXCEPT !.status = "blocked"] \in State
        /\ [again EXCEPT !.status = "blocked"].mode = again.mode
    BY <1>1 DEF State
  <1>3. /\ [again EXCEPT !.stage = "migration_strategy",
                         !.status = "blocked"] \in State
        /\ [again EXCEPT !.stage = "migration_strategy",
                         !.status = "blocked"].mode = again.mode
    BY <1>1, NamedStages DEF State
  <1>4. Escalated(again) \in State /\ Escalated(again).mode = "full"
    BY <1>1, EscalatedType
  <1>5. AfterRepeat(s) =
          IF again.retry < ESCALATION_RETRY_THRESHOLD THEN again
          ELSE CASE again.mode = "quick" -> Escalated(again)
                 [] again.mode = "migration" ->
                      [again EXCEPT !.stage = "migration_strategy",
                                    !.status = "blocked"]
                 [] OTHER -> [again EXCEPT !.status = "blocked"]
    BY DEF AfterRepeat
  <1> HIDE DEF again
  <1>6. QED
    BY <1>1, <1>2, <1>3, <1>4, <1>5

(* Rework leads to a state, with the same bound on quick items.            *)
LEMMA ReworkedType ==
  ASSUME NEW s \in State, NEW type \in IssueTypes, NEW repeat \in BOOLEAN,
         s.mode = "quick" => s.retry < ESCALATION_RETRY_THRESHOLD
  PROVE  /\ Reworked(s, type, repeat) \in State
         /\ Reworked(s, type, repeat).mode = "quick" =>
              Reworked(s, type, repeat).retry < ESCALATION_RETRY_THRESHOLD
  <1> DEFINE route == ReworkRoute(s.mode, type, s.laneSource)
             moved == [s EXCEPT !.stage = route.stage,
                                !.status = IF route.blocked THEN "blocked"
                                           ELSE "in_progress"]
             routed == IF route.escalate THEN Escalated(s) ELSE moved
  <1>1. s.mode \in Modes
    BY DEF State
  <1>2. /\ route.stage \in Stages /\ route.escalate \in BOOLEAN
        /\ route.blocked \in BOOLEAN
    BY <1>1, RouteType
  <1> HIDE DEF route
  <1>3. moved \in State /\ moved.mode = s.mode /\ moved.retry = s.retry
    BY <1>2 DEF State
  <1>4. Escalated(s) \in State /\ Escalated(s).mode = "full"
    BY EscalatedType
  <1> HIDE DEF moved
  <1>5. /\ routed \in State
        /\ routed.mode = "quick" => routed.retry < ESCALATION_RETRY_THRESHOLD
    BY <1>2, <1>3, <1>4
  <1>6. Reworked(s, type, repeat) = IF repeat THEN AfterRepeat(routed)
                                    ELSE routed
    BY DEF Reworked, routed, moved, route
  <1> HIDE DEF routed
  <1>7. QED
    BY <1>5, <1>6, AfterRepeatType

-----------------------------------------------------------------------------
(* Each state command keeps the types, and a quick item below the number of *)
(* failed fixes at which it leaves its lane.                                *)
QuickBelow == state.mode = "quick" => state.retry < ESCALATION_RETRY_THRESHOLD

(* A new start keeps them. *)
LEMMA StartTaskStep ==
  ASSUME TypeOK, NEW mode \in StartModes, NEW source \in LaneSources,
         StartTask(mode, source)
  PROVE  TypeOK' /\ QuickBelow'
  <1>1. /\ FreshState(mode, source) \in State
        /\ StateValid(FreshState(mode, source))
    BY FreshType, ControllerAssumption DEF ControllerAssumption
  <1>2. TypeOK'
    BY <1>1 DEF StartTask, TypeOK
  <1>3. state'.retry = 0
    BY DEF StartTask, FreshState
  <1>4. QED
    BY <1>2, <1>3 DEF QuickBelow, ESCALATION_RETRY_THRESHOLD

(* An approval given or taken back keeps the invariant. *)
LEMMA SetApprovalStep ==
  ASSUME TypeOK, QuickBelow, NEW gate, NEW approved \in BOOLEAN,
         SetApproval(gate, approved)
  PROVE  TypeOK' /\ QuickBelow'
  <1> DEFINE given == IF approved THEN state.approved \cup {gate}
                      ELSE state.approved \ {gate}
             next == [state EXCEPT !.approved = given]
  <1>1. state \in State /\ state.mode \in Modes
    BY DEF TypeOK, State
  <1>2. gate \in ApprovalGates(state.mode)
    BY DEF SetApproval
  <1>3. /\ gate \in Gates
        /\ gate \in DOMAIN LegacyToV2 => LegacyToV2[gate] \in Mapped(Gates)
    BY <1>1, <1>2, MappedGate
  <1>4. next \in State /\ next.mode = state.mode /\ next.retry = state.retry
    <2>1. given \in SUBSET Gates
      BY <1>1, <1>3 DEF State
    <2> HIDE DEF given
    <2>2. QED
      BY <1>1, <2>1 DEF State
  <1>5. v2' \in Copies \cup {NoV2}
    <2>1. SyncApproval(state, gate, approved)
      BY DEF SetApproval
    <2>2. V2Base(state) \in Copies
      BY BaseType
    <2>3. v2 \in Copies \cup {NoV2}
      BY DEF TypeOK
    <2>4. QED
      BY <1>3, <2>1, <2>2, <2>3 DEF SyncApproval, Copies
  <1>6. Mutate(next)
    BY DEF SetApproval
  <1> HIDE DEF next
  <1>7. TypeOK'
    BY <1>4, <1>5, <1>6, MutateType
  <1>8. QED
    BY <1>4, <1>6, <1>7 DEF QuickBelow, Mutate

(* A move along the lane keeps the invariant. *)
LEMMA AdvanceStageStep ==
  ASSUME TypeOK, QuickBelow, NEW target \in Stages, AdvanceStage(target)
  PROVE  TypeOK' /\ QuickBelow'
  <1> DEFINE next == [state EXCEPT
                        !.stage = target,
                        !.status = IF target \in DoneStages THEN "done"
                                   ELSE "in_progress",
                        !.artifacts = @ \cup Scaffolded(target)]
  <1>1. state \in State
    BY DEF TypeOK
  <1>2. Scaffolded(target) \subseteq Artifacts
    BY DEF Scaffolded, Artifacts
  <1>3. next \in State /\ next.mode = state.mode /\ next.retry = state.retry
    BY <1>1, <1>2 DEF State
  <1>4. v2' \in Copies \cup {NoV2}
    <2>1. SyncAdvance(state, target)
      BY DEF AdvanceStage
    <2>2. QED
      BY <2>1, BaseType DEF SyncAdvance, Copies
  <1>5. Mutate(next)
    BY DEF AdvanceStage
  <1> HIDE DEF next
  <1>6. TypeOK'
    BY <1>3, <1>4, <1>5, MutateType
  <1>7. QED
    BY <1>3, <1>5, <1>6 DEF QuickBelow, Mutate

(* A rework, with or without an escalation, keeps the invariant. *)
LEMMA RouteReworkStep ==
  ASSUME TypeOK, QuickBelow, NEW type \in IssueTypes, NEW repeat \in BOOLEAN,
         RouteRework(type, repeat)
  PROVE  TypeOK' /\ QuickBelow'
  <1> DEFINE next == Reworked(state, type, repeat)
  <1>1. /\ next \in State
        /\ next.mode = "quick" => next.retry < ESCALATION_RETRY_THRESHOLD
    BY ReworkedType DEF TypeOK, QuickBelow
  <1>2. Mutate(next) /\ v2' = v2
    BY DEF RouteRework
  <1> HIDE DEF next
  <1>3. TypeOK'
    BY <1>1, <1>2, MutateType DEF TypeOK
  <1>4. QED
    BY <1>1, <1>2, <1>3 DEF QuickBelow, Mutate

(* The commands that leave lane, stage and the unified layer alone.        *)
LEMMA PlainMutateStep ==
  ASSUME TypeOK, QuickBelow, NEW next \in State, Mutate(next), UNCHANGED v2,
         next.mode = state.mode, next.retry = state.retry
  PROVE  TypeOK' /\ QuickBelow'
  <1>1. TypeOK'
    BY MutateType DEF TypeOK
  <1>2. QED
    BY <1>1 DEF QuickBelow, Mutate

(* The commands about issues keep the invariant. *)
LEMMA IssueSteps ==
  ASSUME TypeOK, QuickBelow,
         \/ \E id \in IssueIds : RecordIssue(id)
         \/ \E id \in IssueIds, isOpen \in BOOLEAN : UpdateIssueStatus(id, isOpen)
         \/ ClearIssues
  PROVE  TypeOK' /\ QuickBelow'
  <1>1. state \in State
    BY DEF TypeOK
  <1>2. ASSUME NEW id \in IssueIds, RecordIssue(id)
        PROVE  TypeOK' /\ QuickBelow'
    <2> DEFINE issues == Append(state.issues, [id |-> id, open |-> TRUE])
               next == [state EXCEPT !.issues = issues, !.status = "blocked"]
    <2>1. issues \in Seq(Issue)
      BY <1>1 DEF State, Issue
    <2> HIDE DEF issues
    <2>2. next \in State /\ next.mode = state.mode /\ next.retry = state.retry
      BY <1>1, <2>1 DEF State
    <2>3. Mutate(next) /\ UNCHANGED v2
      BY <1>2 DEF RecordIssue, issues
    <2> HIDE DEF next
    <2>4. QED
      BY <2>2, <2>3, PlainMutateStep
  <1>3. ASSUME NEW id \in IssueIds, NEW isOpen \in BOOLEAN,
               UpdateIssueStatus(id, isOpen)
        PROVE  TypeOK' /\ QuickBelow'
    <2>1. PICK i \in 1 .. Len(state.issues) :
            LET updated == [state EXCEPT !.issues[i].open = isOpen] IN
            /\ Mutate(IF OpenIssues(updated) = {}
                      THEN [updated EXCEPT !.status = Working(state)]
                      ELSE updated)
            /\ UNCHANGED v2
      BY <1>3 DEF UpdateIssueStatus
    <2> DEFINE issues == [state.issues EXCEPT ![i].open = isOpen]
               updated == [state EXCEPT !.issues[i].open = isOpen]
               working == [updated EXCEPT !.status = Working(state)]
    <2> DEFINE issue == [state.issues[i] EXCEPT !.open = isOpen]
    <2>2. issues \in Seq(Issue)
      <3>1. state.issues \in Seq(Issue) /\ state.issues[i] \in Issue
        BY <1>1 DEF State
      <3>2. issue \in Issue
        BY <3>1 DEF Issue
      <3>3. issues = [state.issues EXCEPT ![i] = issue]
        OBVIOUS
      <3> HIDE DEF issue, issues
      <3>4. QED
        BY <3>1, <3>2, <3>3
    <2>3. updated = [state EXCEPT !.issues = issues]
      BY <1>1 DEF State
    <2> HIDE DEF issues
    <2>4. /\ updated \in State
          /\ updated.mode = state.mode /\ updated.retry = state.retry
      BY <1>1, <2>2, <2>3 DEF State
    <2> HIDE DEF updated
    <2>5. Working(state) \in {"in_progress", "blocked", "done"}
      BY DEF Working
    <2>6. /\ working \in State
          /\ working.mode = state.mode /\ working.retry = state.retry
      BY <2>4, <2>5 DEF State
    <2> HIDE DEF working
    <2>7. (Mutate(working) \/ Mutate(updated)) /\ UNCHANGED v2
      BY <2>1 DEF working, updated
    <2>8. QED
      BY <2>4, <2>6, <2>7, PlainMutateStep
  <1>4. CASE ClearIssues
    <2> DEFINE status == IF state.stage \in DoneStages THEN state.status
                         ELSE "in_progress"
               next == [state EXCEPT !.issues = <<>>, !.status = status]
    <2>1. /\ status \in {"in_progress", "blocked", "done"}
          /\ <<>> \in Seq(Issue)
      BY <1>1 DEF State
    <2>2. Mutate(next) /\ UNCHANGED v2
      BY <1>4 DEF ClearIssues
    <2> HIDE DEF status
    <2>3. next \in State /\ next.mode = state.mode /\ next.retry = state.retry
      BY <1>1, <2>1 DEF State
    <2> HIDE DEF next
    <2>4. QED
      BY <2>2, <2>3, PlainMutateStep
  <1>5. QED
    BY <1>2, <1>3, <1>4

(* The commands that record evidence, artifacts and choices keep it. *)
LEMMA RecordSteps ==
  ASSUME TypeOK, QuickBelow,
         \/ \E e \in OfferedEvidence : RecordEvidence(e)
         \/ ClearEvidence
         \/ \E kind \in OfferedArtifacts : LinkArtifact(kind)
         \/ \E kind \in OfferedArtifacts : ScaffoldAndLinkArtifact(kind)
         \/ \E parallel \in ParallelModes : SetParallelization(parallel)
         \/ \E summary \in {"default", "summary"} : SetMigrationContext(summary)
         \/ AppendMigrationContext
  PROVE  TypeOK' /\ QuickBelow'
  <1>1. state \in State
    BY DEF TypeOK
  <1>2. ASSUME NEW e \in OfferedEvidence, RecordEvidence(e)
        PROVE  TypeOK' /\ QuickBelow'
    <2> DEFINE next == [state EXCEPT !.evidence = @ \cup {e}]
    <2>1. next \in State /\ next.mode = state.mode /\ next.retry = state.retry
      BY <1>1, ControllerAssumption DEF ControllerAssumption, State
    <2>2. Mutate(next) /\ UNCHANGED v2
      BY <1>2 DEF RecordEvidence
    <2> HIDE DEF next
    <2>3. QED
      BY <2>1, <2>2, PlainMutateStep
  <1>3. CASE ClearEvidence
    <2> DEFINE next == [state EXCEPT !.evidence = {}]
    <2>1. next \in State /\ next.mode = state.mode /\ next.retry = state.retry
      BY <1>1 DEF State
    <2>2. Mutate(next) /\ UNCHANGED v2
      BY <1>3 DEF ClearEvidence
    <2> HIDE DEF next
    <2>3. QED
      BY <2>1, <2>2, PlainMutateStep
  <1>4. ASSUME NEW kind \in OfferedArtifacts,
               LinkArtifact(kind) \/ ScaffoldAndLinkArtifact(kind)
        PROVE  TypeOK' /\ QuickBelow'
    <2> DEFINE next == [state EXCEPT !.artifacts = @ \cup {kind}]
    <2>1. next \in State /\ next.mode = state.mode /\ next.retry = state.retry
      BY <1>1, ControllerAssumption DEF ControllerAssumption, State
    <2>2. Mutate(next) /\ UNCHANGED v2
      BY <1>4 DEF LinkArtifact, ScaffoldAndLinkArtifact
    <2> HIDE DEF next
    <2>3. QED
      BY <2>1, <2>2, PlainMutateStep
  <1>5. ASSUME NEW parallel \in ParallelModes, SetParallelization(parallel)
        PROVE  TypeOK' /\ QuickBelow'
    <2> DEFINE next == [state EXCEPT !.parallel = parallel]
    <2>1. next \in State /\ next.mode = state.mode /\ next.retry = state.retry
      BY <1>1, ControllerAssumption DEF ControllerAssumption, State
    <2>2. Mutate(next) /\ UNCHANGED v2
      BY <1>5 DEF SetParallelization
    <2> HIDE DEF next
    <2>3. QED
      BY <2>1, <2>2, PlainMutateStep
  <1>6. ASSUME NEW summary \in {"default", "summary"},
               SetMigrationContext(summary)
        PROVE  TypeOK' /\ QuickBelow'
    <2> DEFINE next == [state EXCEPT !.context = IF @ = "lists" THEN @
                                                 ELSE summary]
    <2>1. next \in State /\ next.mode = state.mode /\ next.retry = state.retry
      BY <1>1 DEF State
    <2>2. Mutate(next) /\ UNCHANGED v2
      BY <1>6 DEF SetMigrationContext
    <2> HIDE DEF next
    <2>3. QED
      BY <2>1, <2>2, PlainMutateStep
  <1>7. CASE AppendMigrationContext
    <2> DEFINE next == [state EXCEPT !.context = "lists"]
    <2>1. next \in State /\ next.mode = state.mode /\ next.retry = state.retry
      BY <1>1 DEF State
    <2>2. Mutate(next) /\ UNCHANGED v2
      BY <1>7 DEF AppendMigrationContext
    <2> HIDE DEF next
    <2>3. QED
      BY <2>1, <2>2, PlainMutateStep
  <1>8. QED
    BY <1>2, <1>3, <1>4, <1>5, <1>6, <1>7

(* All state commands.                                                     *)
LEMMA StateCommandStep ==
  TypeOK /\ QuickBelow /\ StateCommand => TypeOK' /\ QuickBelow'
  BY StartTaskStep, SetApprovalStep, AdvanceStageStep, RouteReworkStep,
     IssueSteps, RecordSteps DEF StateCommand

(* Only a command that gets through validation changes the item; the board *)
(* and the commands in progress stay.                                      *)
LEMMA StateCommandFrame ==
  StateCommand => Accepted(state', board') /\ UNCHANGED <<board, draft>>
  <1> USE DEF Mutate
  <1>1. ASSUME NEW mode \in StartModes, NEW source \in LaneSources,
               StartTask(mode, source)
        PROVE  Accepted(state', board') /\ UNCHANGED <<board, draft>>
    BY <1>1 DEF StartTask
  <1>2. ASSUME NEW gate, NEW approved, SetApproval(gate, approved)
        PROVE  Accepted(state', board') /\ UNCHANGED <<board, draft>>
    BY <1>2 DEF SetApproval
  <1>3. ASSUME NEW target, AdvanceStage(target)
        PROVE  Accepted(state', board') /\ UNCHANGED <<board, draft>>
    BY <1>3 DEF AdvanceStage
  <1>4. ASSUME NEW type, NEW repeat, RouteRework(type, repeat)
        PROVE  Accepted(state', board') /\ UNCHANGED <<board, draft>>
    BY <1>4 DEF RouteRework
  <1>5. ASSUME NEW id, RecordIssue(id)
        PROVE  Accepted(state', board') /\ UNCHANGED <<board, draft>>
    BY <1>5 DEF RecordIssue
  <1>6. ASSUME NEW id, NEW isOpen, UpdateIssueStatus(id, isOpen)
        PROVE  Accepted(state', board') /\ UNCHANGED <<board, draft>>
    BY <1>6 DEF UpdateIssueStatus
  <1>7. ASSUME ClearIssues \/ ClearEvidence \/ AppendMigrationContext
        PROVE  Accepted(state', board') /\ UNCHANGED <<board, draft>>
    BY <1>7 DEF ClearIssues, ClearEvidence, AppendMigrationContext
  <1>8. ASSUME NEW x, \/ RecordEvidence(x) \/ LinkArtifact(x)
                      \/ ScaffoldAndLinkArtifact(x) \/ SetParallelization(x)
                      \/ SetMigrationContext(x)
        PROVE  Accepted(state', board') /\ UNCHANGED <<board, draft>>
    BY <1>8 DEF RecordEvidence, LinkArtifact, ScaffoldAndLinkArtifact,
                SetParallelization, SetMigrationContext
  <1>9. QED
    BY <1>1, <1>2, <1>3, <1>4, <1>5, <1>6, <1>7, <1>8 DEF StateCommand

-----------------------------------------------------------------------------
(* The inductive invariant.  A board was valid for the stage its command   *)
(* read, and so is every board still to be written; nothing is said of the *)
(* stage the item is in by then.                                           *)
DraftsValid ==
  \A p \in Writers : draft[p].at = "write" =>
    /\ draft[p].stage \in TaskBoardStages
    /\ BoardValid(draft[p].tasks, draft[p].stage)
BoardHeld == board # NoBoard => BoardValid(board.tasks, board.stage)
IInv == TypeOK /\ QuickBelow /\ DraftsValid /\ BoardHeld

(* The tasks a command reads, and a task changed in them, are tasks.       *)
LEMMA BoardTasksType == TypeOK => boardTasks \in TaskSets
  <1>1. NoTasks \in TaskSets
    BY DEF NoTasks, TaskSets
  <1>2. QED
    BY <1>1 DEF TypeOK, boardTasks, Boards

(* A set of tasks stays one when a task of it is replaced. *)
LEMMA ChangedTaskType ==
  ASSUME NEW tasks \in TaskSets, NEW t \in DOMAIN tasks, NEW task \in Task
  PROVE  [tasks EXCEPT ![t] = task] \in TaskSets
  BY DEF TaskSets

(* What a set of tasks holds at a name of it is a task. *)
LEMMA TaskType ==
  ASSUME NEW tasks \in TaskSets, NEW t \in DOMAIN tasks
  PROVE  tasks[t] \in Task
  BY DEF TaskSets

(* A task with another developer, status or QA owner is a task. *)
LEMMA EditedTaskType ==
  ASSUME NEW task \in Task, NEW d \in Devs \cup {NoDev}, NEW status \in TaskStatuses
  PROVE  /\ [task EXCEPT !.dev = d, !.status = status] \in Task
         /\ [task EXCEPT !.qa = TRUE] \in Task
         /\ task.status \in TaskStatuses
  BY DEF Task

(* A board command that has prepared a valid board keeps the invariant.    *)
LEMMA PrepareStep ==
  ASSUME IInv, NEW p \in Writers, NEW tasks \in TaskSets,
         NEW reroute \in Reroute, Prepare(p, tasks, reroute)
  PROVE  IInv'
  <1> DEFINE ready == [at |-> "write", stage |-> state.stage,
                       tasks |-> tasks, reroute |-> reroute]
  <1>1. ready \in Draft
    BY DEF IInv, TypeOK, State, Draft
  <1>2. /\ state.stage \in TaskBoardStages
        /\ BoardValid(tasks, state.stage)
        /\ draft' = [draft EXCEPT ![p] = ready]
        /\ UNCHANGED <<state, board, v2, restarts>>
    BY DEF Prepare
  <1>3. /\ ready.at = "write" /\ ready.stage = state.stage
        /\ ready.tasks = tasks
    OBVIOUS
  <1> HIDE DEF ready
  <1>4. TypeOK'
    BY <1>1, <1>2, <1>3 DEF IInv, TypeOK
  <1>5. DraftsValid'
    BY <1>1, <1>2, <1>3 DEF IInv, TypeOK, DraftsValid
  <1>6. QED
    BY <1>2, <1>4, <1>5 DEF IInv, QuickBelow, BoardHeld

(* Every board command before its write.                                   *)
LEMMA PreparingStep ==
  ASSUME IInv, NEW p \in Writers,
         \/ \E t \in Tasks, status \in {"ready", "queued"} :
              CreateTask(p, t, status)
         \/ \E t \in Tasks, d \in Devs : ClaimTask(p, t, d)
         \/ \E t \in Tasks : AssignQaOwner(p, t)
         \/ \E t \in Tasks, d \in Devs : ReassignTask(p, t, d)
         \/ \E t \in Tasks : ReleaseTask(p, t)
         \/ \E t \in Tasks, next \in TaskStatuses : SetTaskStatus(p, t, next)
         \/ \E t \in Tasks, next \in {"claimed", "in_progress"},
               stage \in {"full_qa", "full_implementation"},
               fits \in BOOLEAN : SendTaskBack(p, t, next, stage, fits)
  PROVE  IInv'
  <1>1. boardTasks \in TaskSets
    BY BoardTasksType DEF IInv
  <1>2. NoReroute \in Reroute
    BY DEF NoReroute, Reroute
  <1>3. /\ {"ready", "queued", "claimed", "in_progress"} \subseteq TaskStatuses
    BY DEF TaskStatuses, TaskMoves
  <1>4. ASSUME NEW t \in Tasks, NEW status \in {"ready", "queued"},
               CreateTask(p, t, status)
        PROVE  IInv'
    <2> DEFINE created == [status |-> status, dev |-> NoDev, qa |-> FALSE]
               tasks == [u \in DOMAIN boardTasks \cup {t} |->
                           IF u = t THEN created ELSE boardTasks[u]]
    <2>1. created \in Task
      BY <1>3 DEF Task
    <2> HIDE DEF created
    <2>2. tasks \in TaskSets
      <3>1. DOMAIN boardTasks \cup {t} \in SUBSET Tasks
        BY <1>1 DEF TaskSets
      <3>2. \A u \in DOMAIN boardTasks : boardTasks[u] \in Task
        BY <1>1, TaskType
      <3>3. tasks \in [DOMAIN boardTasks \cup {t} -> Task]
        BY <2>1, <3>2
      <3>4. QED
        BY <3>1, <3>3 DEF TaskSets
    <2>3. Prepare(p, tasks, NoReroute)
      BY <1>4 DEF CreateTask, created
    <2> HIDE DEF tasks
    <2>4. QED
      BY <1>2, <2>2, <2>3, PrepareStep
  <1>5. ASSUME NEW t \in Tasks, NEW d \in Devs, ClaimTask(p, t, d)
        PROVE  IInv'
    <2> DEFINE task == [boardTasks[t] EXCEPT !.dev = d, !.status = "claimed"]
               tasks == [boardTasks EXCEPT ![t].dev = d,
                                           ![t].status = "claimed"]
    <2>1. t \in DOMAIN boardTasks
      BY <1>5 DEF ClaimTask
    <2>2. task \in Task
      <3>1. boardTasks[t] \in Task
        BY <1>1, <2>1, TaskType
      <3>2. QED
        BY <1>3, <3>1, EditedTaskType
    <2>3. tasks = [boardTasks EXCEPT ![t] = task]
      BY <1>1, <2>1 DEF TaskSets
    <2>4. Prepare(p, tasks, NoReroute)
      BY <1>5 DEF ClaimTask
    <2> HIDE DEF task, tasks
    <2>5. QED
      BY <1>1, <1>2, <2>1, <2>2, <2>3, <2>4, ChangedTaskType, PrepareStep
  <1>6. ASSUME NEW t \in Tasks, AssignQaOwner(p, t)
        PROVE  IInv'
    <2> DEFINE task == [boardTasks[t] EXCEPT !.qa = TRUE]
               tasks == [boardTasks EXCEPT ![t].qa = TRUE]
    <2>1. t \in DOMAIN boardTasks
      BY <1>6 DEF AssignQaOwner
    <2>2. task \in Task
      <3>1. boardTasks[t] \in Task
        BY <1>1, <2>1, TaskType
      <3>2. QED
        BY <1>3, <3>1, EditedTaskType
    <2>3. tasks = [boardTasks EXCEPT ![t] = task]
      BY <1>1, <2>1 DEF TaskSets
    <2>4. Prepare(p, tasks, NoReroute)
      BY <1>6 DEF AssignQaOwner
    <2> HIDE DEF task, tasks
    <2>5. QED
      BY <1>1, <1>2, <2>1, <2>2, <2>3, <2>4, ChangedTaskType, PrepareStep
  <1>7. ASSUME NEW t \in Tasks, NEW d \in Devs, ReassignTask(p, t, d)
        PROVE  IInv'
    <2> DEFINE task == [boardTasks[t] EXCEPT
                          !.dev = d,
                          !.status = IF @ = "ready" THEN "claimed" ELSE @]
               tasks == [boardTasks EXCEPT
                           ![t].dev = d,
                           ![t].status = IF @ = "ready" THEN "claimed" ELSE @]
    <2>1. t \in DOMAIN boardTasks
      BY <1>7 DEF ReassignTask
    <2>2. task \in Task
      <3>1. boardTasks[t] \in Task
        BY <1>1, <2>1, TaskType
      <3> DEFINE status == IF boardTasks[t].status = "ready" THEN "claimed"
                           ELSE boardTasks[t].status
      <3>2. status \in TaskStatuses
        BY <1>3, <3>1, EditedTaskType
      <3>3. task = [boardTasks[t] EXCEPT !.dev = d, !.status = status]
        BY <3>1 DEF Task
      <3> HIDE DEF status, task
      <3>4. QED
        BY <3>1, <3>2, <3>3, EditedTaskType
    <2>3. tasks = [boardTasks EXCEPT ![t] = task]
      BY <1>1, <2>1 DEF TaskSets
    <2>4. Prepare(p, tasks, NoReroute)
      BY <1>7 DEF ReassignTask
    <2> HIDE DEF task, tasks
    <2>5. QED
      BY <1>1, <1>2, <2>1, <2>2, <2>3, <2>4, ChangedTaskType, PrepareStep
  <1>8. ASSUME NEW t \in Tasks, ReleaseTask(p, t)
        PROVE  IInv'
    <2> DEFINE task == [boardTasks[t] EXCEPT
                          !.dev = NoDev,
                          !.status = IF @ = "claimed" THEN "ready" ELSE @]
               tasks == [boardTasks EXCEPT
                           ![t].dev = NoDev,
                           ![t].status = IF @ = "claimed" THEN "ready" ELSE @]
    <2>1. t \in DOMAIN boardTasks
      BY <1>8 DEF ReleaseTask
    <2>2. task \in Task
      <3>1. boardTasks[t] \in Task
        BY <1>1, <2>1, TaskType
      <3> DEFINE status == IF boardTasks[t].status = "claimed" THEN "ready"
                           ELSE boardTasks[t].status
      <3>2. status \in TaskStatuses
        BY <1>3, <3>1, EditedTaskType
      <3>3. task = [boardTasks[t] EXCEPT !.dev = NoDev, !.status = status]
        BY <3>1 DEF Task
      <3> HIDE DEF status, task
      <3>4. QED
        BY <3>1, <3>2, <3>3, EditedTaskType
    <2>3. tasks = [boardTasks EXCEPT ![t] = task]
      BY <1>1, <2>1 DEF TaskSets
    <2>4. Prepare(p, tasks, NoReroute)
      BY <1>8 DEF ReleaseTask
    <2> HIDE DEF task, tasks
    <2>5. QED
      BY <1>1, <1>2, <2>1, <2>2, <2>3, <2>4, ChangedTaskType, PrepareStep
  <1>9. ASSUME NEW t \in Tasks, NEW next \in TaskStatuses,
               NEW reroute \in Reroute, t \in DOMAIN boardTasks,
               Prepare(p, [boardTasks EXCEPT ![t].status = next], reroute)
        PROVE  IInv'
    <2> DEFINE task == [boardTasks[t] EXCEPT !.status = next]
               tasks == [boardTasks EXCEPT ![t].status = next]
    <2>1. task \in Task
      BY <1>1, <1>9, TaskType DEF Task
    <2>2. tasks = [boardTasks EXCEPT ![t] = task]
      BY <1>1, <1>9 DEF TaskSets
    <2>3. Prepare(p, tasks, reroute)
      BY <1>9
    <2> HIDE DEF task, tasks
    <2>4. QED
      BY <1>1, <1>9, <2>1, <2>2, <2>3, ChangedTaskType, PrepareStep
  <1>10. ASSUME NEW t \in Tasks, NEW next \in TaskStatuses,
                SetTaskStatus(p, t, next)
         PROVE  IInv'
    BY <1>2, <1>9, <1>10 DEF SetTaskStatus
  <1>11. ASSUME NEW t \in Tasks, NEW next \in {"claimed", "in_progress"},
                NEW stage \in {"full_qa", "full_implementation"},
                NEW fits \in BOOLEAN, SendTaskBack(p, t, next, stage, fits)
         PROVE  IInv'
    <2>1. [stage |-> stage, fits |-> fits] \in Reroute
      BY NamedStages DEF Reroute, TaskBoardStages
    <2>2. QED
      BY <1>3, <1>9, <1>11, <2>1 DEF SendTaskBack
  <1>12. QED
    BY <1>4, <1>5, <1>6, <1>7, <1>8, <1>10, <1>11

(* The write puts in place what was prepared.                              *)
LEMMA WriteBoardStep ==
  ASSUME IInv, NEW p \in Writers, WriteBoard(p)
  PROVE  IInv' /\ BoardValid(board'.tasks, board'.stage)
  <1> DEFINE written == [stage |-> draft[p].stage, tasks |-> draft[p].tasks]
             onward == [draft[p] EXCEPT !.at = "reroute", !.stage = "none",
                                        !.tasks = NoTasks]
             after == IF draft[p].reroute = NoReroute THEN Idle ELSE onward
  <1>1. draft[p] \in Draft /\ draft \in [Writers -> Draft]
    BY DEF IInv, TypeOK
  <1>2. /\ draft[p].stage \in TaskBoardStages
        /\ BoardValid(draft[p].tasks, draft[p].stage)
    BY DEF IInv, DraftsValid, WriteBoard
  <1>3. /\ written \in Boards
        /\ written.stage = draft[p].stage /\ written.tasks = draft[p].tasks
    BY <1>1, <1>2, NamedStages DEF Draft, Boards
  <1>4. NoTasks \in TaskSets
    BY DEF NoTasks, TaskSets
  <1>5. Idle \in Draft /\ Idle.at = "idle"
    BY <1>4 DEF Idle, Draft, NoReroute, Reroute
  <1>6. /\ onward \in Draft
        /\ onward.at = "reroute" /\ onward.reroute = draft[p].reroute
    BY <1>1, <1>4 DEF Draft
  <1>7. /\ board' = written
        /\ draft' = [draft EXCEPT ![p] = after]
        /\ UNCHANGED <<state, v2, restarts>>
    BY DEF WriteBoard
  <1> HIDE DEF written, onward
  <1>8. TypeOK'
    BY <1>1, <1>3, <1>5, <1>6, <1>7 DEF IInv, TypeOK
  <1>9. DraftsValid'
    BY <1>1, <1>5, <1>6, <1>7 DEF IInv, DraftsValid
  <1>10. BoardValid(board'.tasks, board'.stage)
    BY <1>2, <1>3, <1>7
  <1>11. QED
    BY <1>7, <1>8, <1>9, <1>10 DEF IInv, QuickBelow, BoardHeld

(* The item is moved only to a state that is one.                          *)
LEMMA RerouteItemStep ==
  ASSUME IInv, NEW p \in Writers, RerouteItem(p)
  PROVE  /\ IInv'
         /\ Accepted(state, board) => Accepted(state', board')
  <1> DEFINE next == [state EXCEPT !.stage = draft[p].reroute.stage,
                                   !.status = "in_progress"]
  <1>1. state \in State /\ draft \in [Writers -> Draft]
    BY DEF IInv, TypeOK
  <1>2. /\ next.stage = draft[p].reroute.stage
        /\ next.mode = state.mode /\ next.retry = state.retry
    BY <1>1 DEF State
  <1>3. Accepted(next, board) => next \in State /\ StateValid(next)
    <2> SUFFICES ASSUME Accepted(next, board)
                 PROVE  next \in State /\ StateValid(next)
      OBVIOUS
    <2>1. StateValid(next)
      BY DEF Accepted
    <2>2. next.stage \in ModeStages(state.mode)
      BY <1>2, <2>1 DEF StateValid
    <2>3. draft[p].reroute.stage \in Stages
      BY <1>1, <1>2, <2>2, StageOfMode DEF State
    <2>4. next \in State
      BY <1>1, <2>3 DEF State
    <2>5. QED
      BY <2>1, <2>4
  <1>4. /\ \/ state' = next /\ Accepted(next, board)
           \/ state' = state
        /\ draft' = [draft EXCEPT ![p] = Idle]
        /\ UNCHANGED <<board, v2, restarts>>
    BY DEF RerouteItem
  <1> HIDE DEF next
  <1>5. Idle \in Draft /\ Idle.at = "idle"
    BY DEF Idle, Draft, NoTasks, NoReroute, TaskSets, Reroute
  <1>6. TypeOK' /\ QuickBelow'
    BY <1>1, <1>2, <1>3, <1>4, <1>5 DEF IInv, TypeOK, QuickBelow
  <1>7. DraftsValid' /\ BoardHeld'
    BY <1>1, <1>4, <1>5 DEF IInv, DraftsValid, BoardHeld
  <1>8. QED
    BY <1>4, <1>6, <1>7 DEF IInv

-----------------------------------------------------------------------------
(* The invariant holds at first, and every step keeps it.                  *)
LEMMA InitInvariant == Init => IInv
  <1> SUFFICES ASSUME Init
               PROVE  IInv
    OBVIOUS
  <1>1. TypeOK
    BY InitType
  <1>2. state.retry = 0
    <2>1. PICK mode \in StartModes, source \in LaneSources,
               given \in SUBSET Granted :
            state = [FreshState(mode, source) EXCEPT
                       !.approved = given, !.evidence = Recorded]
      BY DEF Init
    <2>2. FreshState(mode, source).retry = 0
      BY DEF FreshState
    <2>3. FreshState(mode, source) \in State
      BY FreshType, ControllerAssumption DEF ControllerAssumption
    <2>4. QED
      BY <2>1, <2>2, <2>3 DEF State
  <1>3. QED
    BY <1>1, <1>2 DEF Init, IInv, QuickBelow, DraftsValid, BoardHeld, Idle,
                      ESCALATION_RETRY_THRESHOLD

(* Every step keeps the invariant. *)
LEMMA NextInvariant == IInv /\ [Next]_vars => IInv'
  <1> SUFFICES ASSUME IInv, [Next]_vars
               PROVE  IInv'
    OBVIOUS
  <1>1. CASE UNCHANGED vars
    BY <1>1 DEF vars, IInv, TypeOK, QuickBelow, DraftsValid, BoardHeld
  <1>2. CASE StateCommand
    BY <1>2, StateCommandStep, StateCommandFrame
       DEF IInv, DraftsValid, BoardHeld
  <1>3. ASSUME NEW p \in Writers, BoardCommand(p)
        PROVE  IInv'
    BY <1>3, PreparingStep, WriteBoardStep, RerouteItemStep DEF BoardCommand
  <1>4. QED
    BY <1>1, <1>2, <1>3 DEF Next

(* The inductive invariant is one.                                         *)
THEOREM Invariance == Spec => []IInv
  BY InitInvariant, NextInvariant, PTL DEF Spec

(* Item, board, unified copy and commands in progress keep their types.    *)
THEOREM TypeCorrectness == Spec => []TypeOK
  <1>1. IInv => TypeOK
    BY DEF IInv
  <1>2. QED
    BY <1>1, Invariance, PTL

(* However many processes write the board over each other, a task under    *)
(* way has what it depends on behind it.                                   *)
THEOREM BoardsHoldDependencies == Spec => []DependenciesHeld
  <1>1. IInv => DependenciesHeld
    BY DEF IInv, BoardHeld, BoardValid, DependencyState, DependenciesHeld
  <1>2. QED
    BY <1>1, Invariance, PTL

(* Stages of the task board belong to the full lane only.                  *)
LEMMA BoardStageMode ==
  ASSUME TypeOK, state.stage \in TaskBoardStages
  PROVE  state.mode = "full"
  BY ModeNames, QuickStages, MigrationStages
     DEF TypeOK, State, StateValid, TaskBoardStages

(* Of all steps, only a board written after its item left the stage it was *)
(* read in makes a readable item unreadable.                               *)
THEOREM OnlyLateWritesBreak == Spec => UsableUnlessWrittenLate
  <1>1. IInv /\ [Next]_vars =>
          [Accepted(state, board) => Accepted(state', board') \/ LateWrite]_vars
    <2> SUFFICES ASSUME IInv, Next, Accepted(state, board), ~ LateWrite
                 PROVE  Accepted(state', board')
      OBVIOUS
    <2>1. CASE StateCommand
      BY <2>1, StateCommandFrame
    <2>2. ASSUME NEW p \in Writers, WriteBoard(p)
          PROVE  Accepted(state', board')
      <3>1. state.stage = draft[p].stage /\ state.stage \in TaskBoardStages
        BY <2>2 DEF LateWrite, WriteBoard, IInv, DraftsValid
      <3>2. state.mode = "full"
        BY <3>1, BoardStageMode DEF IInv
      <3>3. BoardValid(board'.tasks, board'.stage)
        BY <2>2, WriteBoardStep
      <3>4. state' = state
        BY <2>2 DEF WriteBoard
      <3>5. QED
        BY <3>1, <3>2, <3>3, <3>4 DEF Accepted, ManagedStateValid
    <2>3. ASSUME NEW p \in Writers, RerouteItem(p)
          PROVE  Accepted(state', board')
      BY <2>3, RerouteItemStep
    <2>4. ASSUME NEW p \in Writers, BoardCommand(p),
                 ~ WriteBoard(p), ~ RerouteItem(p)
          PROVE  Accepted(state', board')
      <3>1. UNCHANGED <<state, board>>
        BY <2>4 DEF BoardCommand, CreateTask, ClaimTask, AssignQaOwner,
           ReassignTask, ReleaseTask, SetTaskStatus, SendTaskBack, Prepare
      <3>2. QED
        BY <3>1 DEF Accepted, ManagedStateValid
    <2>5. QED
      BY <2>1, <2>2, <2>3, <2>4 DEF Next
  <1>2. QED
    BY <1>1, Invariance, PTL DEF Spec, UsableUnlessWrittenLate

-----------------------------------------------------------------------------
(* A step that leaves lane, stage, approvals and the unified layer alone.  *)
SameLane ==
  /\ state'.stage = state.stage /\ state'.mode = state.mode
  /\ state'.approved = state.approved
  /\ state.artifacts \subseteq state'.artifacts
  /\ UNCHANGED <<v2, restarts>>

(* The commands that neither move the item nor tell the unified layer.     *)
LEMMA PlainCommands ==
  ASSUME state \in State,
         \/ \E id \in IssueIds : RecordIssue(id)
         \/ \E id \in IssueIds, isOpen \in BOOLEAN : UpdateIssueStatus(id, isOpen)
         \/ ClearIssues
         \/ \E e \in OfferedEvidence : RecordEvidence(e)
         \/ ClearEvidence
         \/ \E kind \in OfferedArtifacts : LinkArtifact(kind)
         \/ \E kind \in OfferedArtifacts : ScaffoldAndLinkArtifact(kind)
         \/ \E parallel \in ParallelModes : SetParallelization(parallel)
         \/ \E summary \in {"default", "summary"} : SetMigrationContext(summary)
         \/ AppendMigrationContext
  PROVE  SameLane
  <1> USE DEF State, Mutate, SameLane
  <1>1. ASSUME NEW id \in IssueIds, RecordIssue(id)
        PROVE  SameLane
    BY <1>1 DEF RecordIssue
  <1>2. ASSUME NEW id \in IssueIds, NEW isOpen \in BOOLEAN,
               UpdateIssueStatus(id, isOpen)
        PROVE  SameLane
    BY <1>2 DEF UpdateIssueStatus
  <1>3. ASSUME ClearIssues
        PROVE  SameLane
    BY <1>3 DEF ClearIssues
  <1>4. ASSUME NEW x, RecordEvidence(x)
        PROVE  SameLane
    BY <1>4 DEF RecordEvidence
  <1>5. ASSUME NEW x, LinkArtifact(x) \/ ScaffoldAndLinkArtifact(x)
        PROVE  SameLane
    BY <1>5 DEF LinkArtifact, ScaffoldAndLinkArtifact
  <1>6. ASSUME NEW x, SetParallelization(x)
        PROVE  SameLane
    BY <1>6 DEF SetParallelization
  <1>7. ASSUME NEW x, SetMigrationContext(x)
        PROVE  SameLane
    BY <1>7 DEF SetMigrationContext
  <1>8. ASSUME ClearEvidence \/ AppendMigrationContext
        PROVE  SameLane
    BY <1>8 DEF ClearEvidence, AppendMigrationContext
  <1>9. QED
    BY <1>1, <1>2, <1>3, <1>4, <1>5, <1>6, <1>7, <1>8

(* The unified layer, once in the item's stage, follows every move but     *)
(* those that nobody tells it of.                                          *)
THEOREM UnifiedStageFollows == Spec => V2StageFollows
  <1>1. TypeOK /\ [Next]_vars =>
          [(v2 # NoV2 /\ v2.stage = state.stage)
             => (v2'.stage = state'.stage \/ Unsynced)]_vars
    <2> SUFFICES ASSUME TypeOK, Next, v2 # NoV2, v2.stage = state.stage,
                        ~ Unsynced
                 PROVE  v2'.stage = state'.stage
      OBVIOUS
    <2>1. state \in State /\ v2 \in Copies /\ V2Base(state) = v2
      BY DEF TypeOK, V2Base
    <2>2. ASSUME NEW gate \in OfferedGates, NEW approved \in BOOLEAN,
                 SetApproval(gate, approved)
          PROVE  v2'.stage = state'.stage
      <3>1. v2'.stage = v2.stage
        BY <2>1, <2>2 DEF SetApproval, SyncApproval, Copies
      <3>2. state'.stage = state.stage
        BY <2>1, <2>2 DEF SetApproval, Mutate, State
      <3>3. QED
        BY <3>1, <3>2
    <2>3. ASSUME NEW target \in Stages, AdvanceStage(target)
          PROVE  v2'.stage = state'.stage
      <3>1. v2'.stage = target
        BY <2>1, <2>3 DEF AdvanceStage, SyncAdvance, Copies
      <3>2. state'.stage = target
        BY <2>1, <2>3 DEF AdvanceStage, Mutate, State
      <3>3. QED
        BY <3>1, <3>2
    <2>4. CASE StateCommand
      BY <2>1, <2>2, <2>3, <2>4, PlainCommands
         DEF StateCommand, Unsynced, SameLane
    <2>5. ASSUME NEW p \in Writers, BoardCommand(p)
          PROVE  v2'.stage = state'.stage
      <3>1. UNCHANGED <<state, v2>>
        BY <2>5 DEF Unsynced, BoardCommand, CreateTask, ClaimTask,
           AssignQaOwner, ReassignTask, ReleaseTask, SetTaskStatus,
           SendTaskBack, Prepare, WriteBoard
      <3>2. QED
        BY <3>1
    <2>6. QED
      BY <2>4, <2>5 DEF Next
  <1>2. QED
    BY <1>1, TypeCorrectness, PTL DEF Spec, V2StageFollows

-----------------------------------------------------------------------------
(* The approval gates of the quick lane.                                   *)
LEMMA QuickGates == ApprovalGates("quick") = {"quick_verified"}
  BY QuickStages DEF ApprovalGates, TRANSITION_GATES

(* The approval gates of the migration lane. *)
LEMMA MigrationGates ==
  ApprovalGates("migration") =
    {"baseline_to_strategy", "strategy_to_upgrade", "upgrade_to_code_review",
     "code_review_to_verify", "migration_verified"}
  BY MigrationStages DEF ApprovalGates, TRANSITION_GATES

(* The approval gates of the full lane. *)
LEMMA FullGates ==
  ApprovalGates("full") =
    {"product_to_solution", "solution_to_fullstack",
     "fullstack_to_code_review", "code_review_to_qa", "qa_to_done"}
  BY FullStages DEF ApprovalGates, TRANSITION_GATES

(* Two approvals never share a gate of the unified layer. *)
LEMMA LegacyInjective ==
  ASSUME NEW a \in DOMAIN LegacyToV2, NEW b \in DOMAIN LegacyToV2,
         LegacyToV2[a] = LegacyToV2[b]
  PROVE  a = b
  BY DEF LegacyToV2

(* A lane but the full one shares no gate with the full lane.              *)
LEMMA LanesDisjoint ==
  ASSUME NEW mode \in Modes, mode # "full"
  PROVE  Mapped(ApprovalGates(mode)) \cap Mapped(ApprovalGates("full")) = {}
  <1>1. ApprovalGates(mode) \cap ApprovalGates("full") = {}
    BY ModeNames, QuickGates, MigrationGates, FullGates
  <1>2. QED
    BY <1>1, LegacyInjective DEF Mapped

(* What an approval given or taken back does to the gates.                 *)
LEMMA MappedUpdate ==
  ASSUME NEW gates, NEW gate
  PROVE  /\ gate \in DOMAIN LegacyToV2 =>
              /\ Mapped(gates \cup {gate}) = Mapped(gates) \cup {LegacyToV2[gate]}
              /\ Mapped(gates \ {gate}) = Mapped(gates) \ {LegacyToV2[gate]}
         /\ gate \notin DOMAIN LegacyToV2 =>
              /\ Mapped(gates \cup {gate}) = Mapped(gates)
              /\ Mapped(gates \ {gate}) = Mapped(gates)
  BY LegacyInjective DEF Mapped

(* Rework keeps lane and approvals, or starts the full lane without any.   *)
LEMMA ReworkedLane ==
  ASSUME NEW s \in State, NEW type \in IssueTypes, NEW repeat \in BOOLEAN
  PROVE  LET r == Reworked(s, type, repeat) IN
         \/ r.mode = s.mode /\ r.approved = s.approved
         \/ s.mode # "full" /\ r.mode = "full" /\ r.approved = {}
  <1> DEFINE Kept(r, q) ==
               \/ r.mode = q.mode /\ r.approved = q.approved
               \/ q.mode # "full" /\ r.mode = "full" /\ r.approved = {}
             route == ReworkRoute(s.mode, type, s.laneSource)
             routed == IF route.escalate THEN Escalated(s)
                       ELSE [s EXCEPT !.stage = route.stage,
                                      !.status = IF route.blocked THEN "blocked"
                                                 ELSE "in_progress"]
  <1>1. ASSUME NEW q \in State
        PROVE  /\ Escalated(q).mode = "full" /\ Escalated(q).approved = {}
               /\ Escalated(q) \in State
    BY NamedStages, ModeNames DEF Escalated, State
  <1>2. /\ route.stage \in Stages /\ route.escalate \in BOOLEAN
        /\ route.blocked \in BOOLEAN
        /\ s.mode = "full" => ~ route.escalate
    BY SMTT(30), RouteType DEF State, ReworkRoute, Route
  <1> HIDE DEF route
  <1>3. routed \in State /\ Kept(routed, s)
    BY <1>1, <1>2 DEF State
  <1> HIDE DEF routed
  <1>4. ASSUME NEW q \in State
        PROVE  Kept(AfterRepeat(q), q)
    <2> DEFINE again == [q EXCEPT !.retry = @ + 1]
    <2>1. again \in State /\ again.mode = q.mode /\ again.approved = q.approved
      BY SMTT(30) DEF State
    <2> DEFINE back == [again EXCEPT !.stage = "migration_strategy", !.status = "blocked"]
               stuck == [again EXCEPT !.status = "blocked"]
    <2>2. \/ AfterRepeat(q) = again
          \/ AfterRepeat(q) = Escalated(again) /\ again.mode = "quick"
          \/ AfterRepeat(q) = back
          \/ AfterRepeat(q) = stuck
      BY ModeNames, <2>1 DEF AfterRepeat
    <2> HIDE DEF again
    <2>3. /\ back.mode = again.mode /\ back.approved = again.approved
          /\ stuck.mode = again.mode /\ stuck.approved = again.approved
      BY <2>1 DEF State
    <2> HIDE DEF back, stuck
    <2>4. CASE AfterRepeat(q) = Escalated(again) /\ again.mode = "quick"
      <3>1. Escalated(again).mode = "full" /\ Escalated(again).approved = {}
        BY <1>1, <2>1
      <3>2. AfterRepeat(q).mode = "full" /\ AfterRepeat(q).approved = {}
        BY <2>4, <3>1
      <3>3. q.mode # "full"
        BY <2>1, <2>4
      <3>4. QED
        BY <3>2, <3>3
    <2>5. CASE ~ (AfterRepeat(q) = Escalated(again) /\ again.mode = "quick")
      <3>1. AfterRepeat(q).mode = q.mode /\ AfterRepeat(q).approved = q.approved
        BY <2>1, <2>2, <2>3, <2>5
      <3>2. QED
        BY <3>1
    <2>6. QED
      BY <2>4, <2>5
  <1>5. Reworked(s, type, repeat) = IF repeat THEN AfterRepeat(routed)
                                    ELSE routed
    BY DEF Reworked, routed, route
  <1>6. QED
    BY <1>3, <1>4, <1>5

(* Rework keeps the artifacts, and leaves a lane from a quick item's third  *)
(* failed fix and from a routed migration only.                             *)
LEMMA ReworkedLeaves ==
  ASSUME NEW s \in State, NEW type \in IssueTypes, NEW repeat \in BOOLEAN,
         s.mode = "quick" => s.retry < ESCALATION_RETRY_THRESHOLD
  PROVE  LET r == Reworked(s, type, repeat) IN
         /\ r.artifacts = s.artifacts
         /\ r.mode # s.mode =>
              /\ r.mode = "full" /\ r.stage = "full_intake" /\ r.approved = {}
              /\ IF s.mode = "quick" THEN r.retry = ESCALATION_RETRY_THRESHOLD
                 ELSE s.laneSource = "orchestrator_routed"
  <1> DEFINE Leaves(r, q) ==
               /\ r.mode = "full" /\ r.stage = "full_intake" /\ r.approved = {}
               /\ r.artifacts = q.artifacts
             Stays(r, q) == r.mode = q.mode /\ r.artifacts = q.artifacts
             route == ReworkRoute(s.mode, type, s.laneSource)
             moved == [s EXCEPT !.stage = route.stage,
                                !.status = IF route.blocked THEN "blocked"
                                           ELSE "in_progress"]
             routed == IF route.escalate THEN Escalated(s) ELSE moved
  <1>1. ASSUME NEW q \in State
        PROVE  Escalated(q) \in State /\ Leaves(Escalated(q), q) /\ Escalated(q).retry = q.retry
    BY NamedStages, ModeNames DEF Escalated, State
  <1>t. s.mode \in Modes
    BY DEF State
  <1>2. /\ route.stage \in Stages /\ route.escalate \in BOOLEAN
        /\ route.blocked \in BOOLEAN
    BY <1>t, RouteType
  <1>e. route.escalate => s.mode = "migration" /\ s.laneSource = "orchestrator_routed"
    <2>1. s.mode \in {"quick", "full", "migration"}
      BY <1>t, ModeNames
    <2>2. s.laneSource \in {"user_explicit", "orchestrator_routed"}
      BY DEF State
    <2>3. CASE s.mode = "quick"
      BY <2>3 DEF ReworkRoute, Route
    <2>4. CASE s.mode = "full"
      BY <2>4 DEF ReworkRoute, Route
    <2>5. CASE s.mode = "migration" /\ type # "requirement_gap"
      BY <2>5 DEF ReworkRoute, Route
    <2>6. CASE s.mode = "migration" /\ type = "requirement_gap"
      BY <2>2, <2>6 DEF ReworkRoute, Route
    <2>7. QED
      BY <2>1, <2>3, <2>4, <2>5, <2>6
  <1> HIDE DEF route
  <1>3. moved \in State /\ Stays(moved, s) /\ moved.retry = s.retry
    BY <1>2 DEF State
  <1> HIDE DEF moved
  <1>4. ASSUME NEW q \in State
        PROVE  \/ /\ Stays(AfterRepeat(q), q)
                  /\ q.mode = "full" => AfterRepeat(q).stage = q.stage /\ AfterRepeat(q).approved = q.approved
               \/ /\ q.mode = "quick" /\ q.retry + 1 >= ESCALATION_RETRY_THRESHOLD
                  /\ Leaves(AfterRepeat(q), q) /\ AfterRepeat(q).retry = q.retry + 1
    <2> DEFINE again == [q EXCEPT !.retry = @ + 1]
    <2>1. /\ again \in State /\ again.mode = q.mode /\ again.artifacts = q.artifacts
          /\ again.retry = q.retry + 1 /\ again.stage = q.stage /\ again.approved = q.approved
      BY SMTT(30) DEF State
    <2> DEFINE back == [again EXCEPT !.stage = "migration_strategy", !.status = "blocked"]
               stuck == [again EXCEPT !.status = "blocked"]
    <2>2. \/ AfterRepeat(q) = again
          \/ /\ AfterRepeat(q) = Escalated(again) /\ again.mode = "quick"
             /\ ~(again.retry < ESCALATION_RETRY_THRESHOLD)
          \/ AfterRepeat(q) = back /\ again.mode = "migration"
          \/ AfterRepeat(q) = stuck
      BY ModeNames, <2>1 DEF AfterRepeat
    <2> HIDE DEF again
    <2>3. /\ back.mode = again.mode /\ back.artifacts = again.artifacts
          /\ stuck.mode = again.mode /\ stuck.artifacts = again.artifacts
          /\ stuck.stage = again.stage /\ stuck.approved = again.approved
      BY <2>1 DEF State
    <2> HIDE DEF back, stuck
    <2>4. Leaves(Escalated(again), again) /\ Escalated(again).retry = again.retry
      BY <1>1, <2>1
    <2>5. again.retry \in Nat
      BY <2>1 DEF State
    <2>6. CASE /\ AfterRepeat(q) = Escalated(again) /\ again.mode = "quick"
               /\ ~(again.retry < ESCALATION_RETRY_THRESHOLD)
      BY <2>1, <2>4, <2>5, <2>6 DEF ESCALATION_RETRY_THRESHOLD
    <2>7. CASE AfterRepeat(q) = again
      BY <2>1, <2>7
    <2>8. CASE AfterRepeat(q) = back /\ again.mode = "migration"
      BY <2>1, <2>3, <2>8
    <2>9. CASE AfterRepeat(q) = stuck
      BY <2>1, <2>3, <2>9
    <2>10. QED
      BY <2>2, <2>6, <2>7, <2>8, <2>9
  <1>5. Reworked(s, type, repeat) = IF repeat THEN AfterRepeat(routed)
                                    ELSE routed
    BY DEF Reworked, routed, moved, route
  <1>6. CASE route.escalate
    <2>1. routed = Escalated(s) /\ routed \in State
      BY <1>1, <1>6
    <2> HIDE DEF routed
    <2>2. /\ s.mode = "migration" /\ s.laneSource = "orchestrator_routed"
          /\ routed.mode = "full" /\ routed.stage = "full_intake" /\ routed.approved = {}
          /\ routed.artifacts = s.artifacts
      BY <1>1, <1>2, <1>e, <1>6, <2>1
    <2>3. /\ AfterRepeat(routed).mode = "full" /\ AfterRepeat(routed).stage = "full_intake"
          /\ AfterRepeat(routed).approved = {} /\ AfterRepeat(routed).artifacts = s.artifacts
      BY <1>4, <2>1, <2>2
    <2>4. QED
      BY <1>5, <2>2, <2>3
  <1>7. CASE ~route.escalate
    <2>1. routed = moved
      BY <1>7
    <2> HIDE DEF routed
    <2>2. routed \in State /\ Stays(routed, s) /\ routed.retry = s.retry
      BY <1>3, <2>1
    <2>3. s.retry \in Nat
      BY DEF State
    <2>4. /\ AfterRepeat(routed).artifacts = s.artifacts
          /\ AfterRepeat(routed).mode # s.mode =>
               /\ Leaves(AfterRepeat(routed), s)
               /\ s.mode = "quick" /\ AfterRepeat(routed).retry = ESCALATION_RETRY_THRESHOLD
      BY <1>4, <2>2, <2>3 DEF ESCALATION_RETRY_THRESHOLD
    <2>5. QED
      BY <1>5, <2>2, <2>4
  <1>8. QED
    BY <1>6, <1>7

(* What LaneLeftByRework says of a step, and the count it rests on.        *)
LaneLeft ==
  /\ state'.mode # state.mode =>
       /\ state'.mode = "full" /\ state'.stage = "full_intake"
       /\ state'.approved = {}
       /\ IF state.mode = "quick"
          THEN state'.retry = ESCALATION_RETRY_THRESHOLD
          ELSE state.laneSource = "orchestrator_routed"
  /\ state'.mode = "quick" => state'.retry < ESCALATION_RETRY_THRESHOLD
  /\ Tied(state) => Tied(state') /\ state'.mode = state.mode

(* An item leaves its lane at a quick item's third failed fix and at a gap *)
(* in a routed migration, for every number of fixes, starts and issues; an *)
(* item with an artifact that the full lane refuses does not (routeRework, *)
(* workflow-state-controller.js:4561).                                     *)
THEOREM LanesLeftByRework == Spec => LaneLeftByRework
  <1>1. IInv /\ IInv' /\ [Next]_vars => [restarts' = restarts => LaneLeft]_vars
    <2> SUFFICES ASSUME IInv, IInv', Next, restarts' = restarts
                 PROVE  LaneLeft
      OBVIOUS
    <2>1. state \in State /\ QuickBelow /\ QuickBelow'
      BY DEF IInv, TypeOK
    <2>2. ASSUME state'.mode = state.mode, state.artifacts \subseteq state'.artifacts
          PROVE  LaneLeft
      BY <2>1, <2>2 DEF LaneLeft, QuickBelow, Tied
    <2>3. ASSUME NEW gate \in OfferedGates, NEW approved \in BOOLEAN,
                 SetApproval(gate, approved)
          PROVE  LaneLeft
      BY <2>1, <2>2, <2>3 DEF SetApproval, Mutate, State
    <2>4. ASSUME NEW target \in Stages, AdvanceStage(target)
          PROVE  LaneLeft
      BY <2>1, <2>2, <2>4 DEF AdvanceStage, Mutate, State
    <2>5. ASSUME NEW mode \in StartModes, NEW source \in LaneSources,
                 StartTask(mode, source)
          PROVE  LaneLeft
      <3>1. restarts \in Nat /\ restarts' = restarts + 1
        BY <2>5 DEF StartTask, IInv, TypeOK
      <3>2. QED
        BY <3>1
    <2>6. ASSUME NEW type \in IssueTypes, NEW repeat \in BOOLEAN,
                 RouteRework(type, repeat)
          PROVE  LaneLeft
      <3>1. /\ state'.artifacts = state.artifacts
            /\ state'.mode # state.mode =>
                 /\ state'.mode = "full" /\ state'.stage = "full_intake" /\ state'.approved = {}
                 /\ IF state.mode = "quick" THEN state'.retry = ESCALATION_RETRY_THRESHOLD
                    ELSE state.laneSource = "orchestrator_routed"
        BY <2>1, <2>6, ReworkedLeaves DEF RouteRework, Mutate, QuickBelow
      <3>2. state'.artifacts \cap ForbiddenArtifacts[state'.mode] = {}
        BY DEF IInv, TypeOK, StateValid
      <3>3. QED
        BY <2>1, <3>1, <3>2 DEF LaneLeft, QuickBelow, Tied
    <2>7. CASE StateCommand
      BY <2>1, <2>2, <2>3, <2>4, <2>5, <2>6, <2>7, PlainCommands
         DEF StateCommand, SameLane
    <2>8. ASSUME NEW p \in Writers, RerouteItem(p)
          PROVE  LaneLeft
      BY <2>1, <2>2, <2>8 DEF RerouteItem, State
    <2>9. ASSUME NEW p \in Writers, BoardCommand(p), ~RerouteItem(p)
          PROVE  LaneLeft
      <3>1. state' = state
        BY <2>9 DEF BoardCommand, CreateTask, ClaimTask, AssignQaOwner, ReassignTask,
           ReleaseTask, SetTaskStatus, SendTaskBack, Prepare, WriteBoard
      <3>2. QED
        BY <2>2, <3>1
    <2>10. QED
      BY <2>7, <2>8, <2>9 DEF Next
  <1>2. QED
    BY <1>1, Invariance, PTL DEF Spec, LaneLeftByRework, LaneLeft

(* What makes the agreement inductive: before a restart, an item outside   *)
(* the full lane has told the unified layer of its own lane's gates only.  *)
GatesHeld ==
  /\ V2GatesAgree
  /\ restarts = 0 /\ state.mode # "full" =>
       v2Gates \subseteq Mapped(ApprovalGates(state.mode))

(* Steps that leave the approvals, the lane and the copy alone. *)
LEMMA GatesFrame ==
  ASSUME GatesHeld, state'.mode = state.mode,
         state'.approved = state.approved, v2Gates' = v2Gates,
         restarts' = restarts
  PROVE  GatesHeld'
  BY DEF GatesHeld, V2GatesAgree

(* The gates of the copy that a command syncs to.                          *)
LEMMA BaseGates ==
  ASSUME TypeOK
  PROVE  V2Base(state) \in Copies /\ V2Base(state).gates = v2Gates
  BY DEF TypeOK, V2Base, Copies, State, v2Gates

(* The gates agree at the start. *)
LEMMA InitGates == Init => GatesHeld
  <1> SUFFICES ASSUME Init
               PROVE  GatesHeld
    OBVIOUS
  <1>1. PICK mode \in StartModes, source \in LaneSources :
          LET given == Granted \cap ApprovalGates(mode) IN
          /\ state = [FreshState(mode, source) EXCEPT
                        !.approved = given, !.evidence = Recorded]
          /\ v2 = IF Mapped(given) = {} THEN NoV2
                  ELSE [mode |-> mode, stage |-> InitialStage(mode),
                        gates |-> Mapped(given)]
    BY DEF Init
  <1> DEFINE given == Granted \cap ApprovalGates(mode)
             fresh == FreshState(mode, source)
  <1>2. fresh \in State /\ fresh.mode = mode
    <2>1. fresh \in State
      BY FreshType, ControllerAssumption DEF ControllerAssumption
    <2>2. QED
      BY <2>1 DEF FreshState
  <1>3. state.mode = mode /\ state.approved = given
    <2> HIDE DEF fresh
    <2>1. state = [fresh EXCEPT !.approved = given, !.evidence = Recorded]
      BY <1>1 DEF fresh
    <2> HIDE DEF given
    <2>2. QED
      BY <1>2, <2>1 DEF State
  <1>4. v2Gates = Mapped(given)
    <2>1. CASE v2 = NoV2
      <3>1. /\ InitialStage(mode) \in Stages /\ mode \in Modes
            /\ Mapped(given) \subseteq Mapped(Gates)
        BY StageOfMode, ControllerAssumption
           DEF ControllerAssumption, Mapped
      <3>2. [mode |-> mode, stage |-> InitialStage(mode),
             gates |-> Mapped(given)] # NoV2
        BY <3>1, NoV2Assumption DEF Copies
      <3>3. QED
        BY <1>1, <2>1, <3>2 DEF v2Gates
    <2>2. CASE v2 # NoV2
      BY <1>1, <2>2 DEF v2Gates
    <2>3. QED
      BY <2>1, <2>2
  <1>5. Mapped(given) \subseteq Mapped(ApprovalGates(mode))
    BY DEF Mapped
  <1>6. QED
    BY <1>3, <1>4, <1>5 DEF GatesHeld, V2GatesAgree

(* An approval given or taken back reaches both copies.                    *)
LEMMA SetApprovalGates ==
  ASSUME TypeOK, GatesHeld, NEW gate, NEW approved \in BOOLEAN,
         SetApproval(gate, approved)
  PROVE  GatesHeld'
  <1> DEFINE given == IF approved THEN state.approved \cup {gate}
                      ELSE state.approved \ {gate}
             gates == IF approved THEN v2Gates \cup {LegacyToV2[gate]}
                      ELSE v2Gates \ {LegacyToV2[gate]}
  <1>1. /\ gate \in ApprovalGates(state.mode)
        /\ state' = [state EXCEPT !.approved = given]
        /\ restarts' = restarts
        /\ SyncApproval(state, gate, approved)
    BY DEF SetApproval, Mutate
  <1>2. state'.mode = state.mode /\ state'.approved = given
    <2> HIDE DEF given
    <2>1. QED
      BY <1>1 DEF TypeOK, State
  <1>3. CASE gate \notin DOMAIN LegacyToV2
    <2>1. v2Gates' = v2Gates
      BY <1>1, <1>3 DEF SyncApproval, v2Gates
    <2>2. Mapped(given) = Mapped(state.approved)
      BY <1>3, MappedUpdate
    <2> HIDE DEF given
    <2>3. QED
      BY <1>1, <1>2, <2>1, <2>2 DEF GatesHeld, V2GatesAgree
  <1>4. CASE gate \in DOMAIN LegacyToV2
    <2>1. v2' = [V2Base(state) EXCEPT !.gates = gates]
      BY <1>1, <1>4, BaseGates DEF SyncApproval
    <2>2. /\ LegacyToV2[gate] \in Mapped(ApprovalGates(state.mode))
          /\ LegacyToV2[gate] \in Mapped(Gates)
      BY <1>1, <1>4, MappedGate DEF TypeOK, State, Mapped
    <2>3. v2' \in Copies /\ v2'.gates = gates
      <3>1. gates \subseteq Mapped(Gates)
        BY <2>2, BaseGates DEF Copies
      <3> HIDE DEF gates
      <3>2. QED
        BY <2>1, <3>1, BaseGates DEF Copies
    <2>4. v2Gates' = gates
      BY <2>3, NoV2Assumption DEF v2Gates
    <2>5. Mapped(given) = IF approved
                          THEN Mapped(state.approved) \cup {LegacyToV2[gate]}
                          ELSE Mapped(state.approved) \ {LegacyToV2[gate]}
      BY <1>4, MappedUpdate
    <2> HIDE DEF given
    <2>6. V2GatesAgree'
      BY <1>1, <1>2, <2>2, <2>4, <2>5 DEF GatesHeld, V2GatesAgree
    <2>7. restarts' = 0 /\ state'.mode # "full" =>
            v2Gates' \subseteq Mapped(ApprovalGates(state'.mode))
      BY <1>1, <1>2, <2>2, <2>4 DEF GatesHeld
    <2>8. QED
      BY <2>6, <2>7 DEF GatesHeld
  <1>5. QED
    BY <1>3, <1>4

(* A new start has no approvals; the unified layer keeps what it has.      *)
LEMMA StartTaskGates ==
  ASSUME TypeOK, NEW mode, NEW source, StartTask(mode, source)
  PROVE  GatesHeld'
  <1>1. state'.approved = {} /\ restarts' # 0
    BY DEF StartTask, FreshState, TypeOK
  <1>2. QED
    BY <1>1 DEF GatesHeld, V2GatesAgree, Mapped

(* Rework keeps the approvals, or drops all with the lane they belong to.  *)
LEMMA RouteReworkGates ==
  ASSUME TypeOK, GatesHeld, NEW type \in IssueTypes, NEW repeat \in BOOLEAN,
         RouteRework(type, repeat)
  PROVE  GatesHeld'
  <1>1. /\ state' = Reworked(state, type, repeat)
        /\ v2' = v2 /\ restarts' = restarts
    BY DEF RouteRework, Mutate
  <1>2. v2Gates' = v2Gates
    BY <1>1 DEF v2Gates
  <1>3. CASE state'.mode = state.mode /\ state'.approved = state.approved
    BY <1>1, <1>2, <1>3, GatesFrame
  <1>4. CASE state.mode # "full" /\ state'.mode = "full" /\ state'.approved = {}
    <2>1. Mapped(ApprovalGates(state.mode)) \cap Mapped(ApprovalGates("full"))
            = {}
      BY <1>4, LanesDisjoint DEF TypeOK, State
    <2>2. Mapped({}) = {}
      BY DEF Mapped
    <2>3. QED
      BY <1>1, <1>2, <1>4, <2>1, <2>2 DEF GatesHeld, V2GatesAgree
  <1>5. QED
    BY <1>1, <1>3, <1>4, ReworkedLane DEF TypeOK

(* A move leaves the gates in agreement. *)
LEMMA AdvanceStageGates ==
  ASSUME TypeOK, GatesHeld, NEW target \in Stages, AdvanceStage(target)
  PROVE  GatesHeld'
  <1>1. /\ state'.mode = state.mode /\ state'.approved = state.approved
        /\ restarts' = restarts
    BY DEF AdvanceStage, Mutate, TypeOK, State
  <1>2. v2' \in Copies /\ v2'.gates = V2Base(state).gates
    BY BaseGates DEF AdvanceStage, SyncAdvance, Copies
  <1>3. v2Gates' = v2Gates
    BY <1>2, BaseGates, NoV2Assumption DEF v2Gates
  <1>4. QED
    BY <1>1, <1>3, GatesFrame

(* So does a board command that moves the item. *)
LEMMA RerouteItemGates ==
  ASSUME TypeOK, GatesHeld, NEW p \in Writers, RerouteItem(p)
  PROVE  GatesHeld'
  <1>1. /\ state'.mode = state.mode /\ state'.approved = state.approved
        /\ restarts' = restarts /\ v2' = v2
    BY DEF RerouteItem, TypeOK, State
  <1>2. QED
    BY <1>1, GatesFrame DEF v2Gates

(* Every step leaves the gates in agreement. *)
LEMMA NextGates == TypeOK /\ GatesHeld /\ [Next]_vars => GatesHeld'
  <1> SUFFICES ASSUME TypeOK, GatesHeld, [Next]_vars
               PROVE  GatesHeld'
    OBVIOUS
  <1>1. CASE UNCHANGED vars
    BY <1>1, GatesFrame DEF vars, v2Gates
  <1>2. ASSUME SameLane
        PROVE  GatesHeld'
    BY <1>2, GatesFrame DEF SameLane, v2Gates
  <1>3. CASE StateCommand
    BY <1>2, <1>3, StartTaskGates, SetApprovalGates, AdvanceStageGates,
       RouteReworkGates, PlainCommands DEF StateCommand, TypeOK
  <1>4. ASSUME NEW p \in Writers, BoardCommand(p)
        PROVE  GatesHeld'
    <2>1. CASE RerouteItem(p)
      BY <2>1, RerouteItemGates
    <2>2. CASE ~ RerouteItem(p)
      <3>1. UNCHANGED <<state, v2, restarts>>
        BY <1>4, <2>2 DEF BoardCommand, CreateTask, ClaimTask, AssignQaOwner,
           ReassignTask, ReleaseTask, SetTaskStatus, SendTaskBack, Prepare,
           WriteBoard
      <3>2. QED
        BY <3>1, GatesFrame DEF v2Gates
    <2>3. QED
      BY <2>1, <2>2
  <1>5. QED
    BY <1>1, <1>3, <1>4 DEF Next

(* The gates of the unified layer say what the approvals say.              *)
THEOREM UnifiedGatesAgree == Spec => []V2GatesAgree
  <1>1. Spec => []GatesHeld
    BY InitGates, NextGates, TypeCorrectness, PTL DEF Spec
  <1>2. GatesHeld => V2GatesAgree
    BY DEF GatesHeld
  <1>3. QED
    BY <1>1, <1>2, PTL

-----------------------------------------------------------------------------
(* A step with the slice board in view is a step of the item and the task  *)
(* board, or leaves them alone.                                            *)
LEMMA SliceCommandsStutter ==
  ASSUME NEW p \in Writers, SliceCommand(p)
  PROVE  UNCHANGED vars
  BY DEF SliceCommand, CreateMigrationSlice, ClaimMigrationSlice, AssignMigrationQaOwner,
         SetMigrationSliceStatus, PrepareSlices, WriteSlices

LEMMA StepsImplement == [SlicesNext]_allVars => [Next]_vars
  <1> SUFFICES ASSUME [SlicesNext]_allVars PROVE [Next]_vars
    OBVIOUS
  <1>1. CASE ItemCommand
    BY <1>1 DEF ItemCommand, Next
  <1>2. ASSUME NEW p \in Writers, BoardCommand(p) PROVE [Next]_vars
    BY <1>2 DEF Next
  <1>3. ASSUME NEW p \in Writers, SliceCommand(p) PROVE [Next]_vars
    BY <1>3, SliceCommandsStutter
  <1>4. CASE UNCHANGED allVars
    BY <1>4 DEF allVars
  <1>5. QED
    BY <1>1, <1>2, <1>3, <1>4 DEF SlicesNext

(* A strict migration with its slice board behaves like an item without    *)
(* one: what is proved of Spec holds with slices too.                      *)
THEOREM SlicesImplementCommands == SlicesSpec => Spec
  <1>1. SlicesInit => Init
    BY DEF SlicesInit
  <1>2. QED
    BY <1>1, StepsImplement, PTL DEF SlicesSpec, Spec

-----------------------------------------------------------------------------
(* A task that QA sends back takes its item to a stage of the full lane.   *)
Returns == {"none", "full_qa", "full_implementation"}
SentBack == \A p \in Writers : draft[p].reroute.stage \in Returns

LEMMA PrepareSentBack ==
  ASSUME TypeOK, SentBack, NEW p \in Writers, NEW tasks, NEW reroute,
         reroute.stage \in Returns, Prepare(p, tasks, reroute)
  PROVE  SentBack'
  BY DEF Prepare, SentBack, TypeOK

LEMMA BoardSentBack ==
  ASSUME TypeOK, SentBack, NEW p \in Writers, BoardCommand(p)
  PROVE  SentBack'
  <1>0. NoReroute.stage \in Returns
    BY DEF NoReroute, Returns
  <1>1. ASSUME NEW t \in Tasks, NEW status, CreateTask(p, t, status) PROVE SentBack'
    BY <1>0, <1>1, PrepareSentBack DEF CreateTask
  <1>2. ASSUME NEW t \in Tasks, NEW d, ClaimTask(p, t, d) PROVE SentBack'
    BY <1>0, <1>2, PrepareSentBack DEF ClaimTask
  <1>3. ASSUME NEW t \in Tasks, AssignQaOwner(p, t) PROVE SentBack'
    BY <1>0, <1>3, PrepareSentBack DEF AssignQaOwner
  <1>4. ASSUME NEW t \in Tasks, NEW d, ReassignTask(p, t, d) PROVE SentBack'
    BY <1>0, <1>4, PrepareSentBack DEF ReassignTask
  <1>5. ASSUME NEW t \in Tasks, ReleaseTask(p, t) PROVE SentBack'
    BY <1>0, <1>5, PrepareSentBack DEF ReleaseTask
  <1>6. ASSUME NEW t \in Tasks, NEW next, SetTaskStatus(p, t, next) PROVE SentBack'
    BY <1>0, <1>6, PrepareSentBack DEF SetTaskStatus
  <1>7. ASSUME NEW t \in Tasks, NEW next, NEW stage \in {"full_qa", "full_implementation"}, NEW fits,
               SendTaskBack(p, t, next, stage, fits)
        PROVE  SentBack'
    BY <1>7, PrepareSentBack DEF SendTaskBack, Returns
  <1>8. ASSUME WriteBoard(p) PROVE SentBack'
    BY <1>0, <1>8 DEF WriteBoard, SentBack, Idle, TypeOK, Draft
  <1>9. ASSUME RerouteItem(p) PROVE SentBack'
    BY <1>0, <1>9 DEF RerouteItem, SentBack, Idle, TypeOK
  <1>10. QED
    BY <1>1, <1>2, <1>3, <1>4, <1>5, <1>6, <1>7, <1>8, <1>9 DEF BoardCommand

(* So no board command brings an item into the review of a migration.      *)
LEMMA NoReviewByBoard ==
  ASSUME TypeOK, SentBack, NEW p \in Writers, BoardCommand(p), state'.stage \in ReviewStages
  PROVE  state'.stage = state.stage
  <1>1. CASE RerouteItem(p)
    <2>1. draft[p].reroute.stage \in Returns
      BY DEF SentBack
    <2>2. state' = state \/ state'.stage = draft[p].reroute.stage
      BY <1>1 DEF RerouteItem, TypeOK, State
    <2>3. QED
      BY <2>1, <2>2 DEF Returns, ReviewStages, SliceStages
  <1>2. CASE ~RerouteItem(p)
    BY <1>2 DEF BoardCommand, CreateTask, ClaimTask, AssignQaOwner, ReassignTask, ReleaseTask,
                SetTaskStatus, SendTaskBack, Prepare, WriteBoard
  <1>3. QED
    BY <1>1, <1>2

-----------------------------------------------------------------------------
(* The open slices of a board, and the inductive invariant: what a process *)
(* is about to write, if it read it in this review, has no open slice but  *)
(* new ones that nobody knows of.                                          *)
OpenOf(b) == {s \in DOMAIN b : b[s].status \notin SliceSettled}
SliceBoards == UNION {[ss -> [status : DOMAIN SliceMoves, owned : BOOLEAN, qa : BOOLEAN]] : ss \in SUBSET Slices}
Hand == [at : {"idle", "write"}, slices : SliceBoards, late : BOOLEAN]
HandTyped == slices \in SliceBoards /\ hand \in [Writers -> Hand]
HandsKnown ==
  \A p \in Writers :
    hand[p].at = "write" /\ ~hand[p].late /\ state.stage \in ReviewStages =>
      OpenOf(hand[p].slices) \subseteq open \cup (DOMAIN hand[p].slices \ DOMAIN slices)
SliceInv == IInv /\ SentBack /\ HandTyped /\ HandsKnown /\ SlicesReviewed

LEMMA InitSlices == SlicesInit => SliceInv
  <1> SUFFICES ASSUME SlicesInit PROVE SliceInv
    OBVIOUS
  <1>1. IInv
    BY InitInvariant DEF SlicesInit
  <1>2. SentBack
    BY DEF SlicesInit, Init, SentBack, Idle, NoReroute, Returns
  <1>3. HandTyped
    <2>1. NoTasks \in [{} -> [status : DOMAIN SliceMoves, owned : BOOLEAN, qa : BOOLEAN]]
      BY DEF NoTasks
    <2>2. NoTasks \in SliceBoards
      BY <2>1 DEF SliceBoards
    <2>3. QED
      BY <2>2 DEF SlicesInit, HandTyped, Hand, Empty
  <1>4. Unsettled = {}
    BY DEF SlicesInit, Unsettled, NoTasks
  <1>5. HandsKnown
    BY DEF SlicesInit, HandsKnown, Empty
  <1>6. QED
    BY <1>1, <1>2, <1>3, <1>4, <1>5 DEF SliceInv, SlicesReviewed

LEMMA ItemKeepsSlices ==
  ASSUME SliceInv, ItemCommand
  PROVE  HandTyped' /\ HandsKnown' /\ SlicesReviewed' /\ SentBack'
  <1> USE DEF SliceInv
  <1>1. UNCHANGED slices /\ Unsettled' = Unsettled
    BY DEF ItemCommand, Unsettled
  <1>2. SentBack'
    BY StateCommandFrame DEF ItemCommand, SentBack
  <1>3. SlicesReviewed'
    BY <1>1 DEF ItemCommand, SlicesReviewed, ReviewReady, ReviewStages, SliceStages
  <1>4. CASE state'.stage = state.stage
    <2>1. UNCHANGED <<hand, open>>
      BY <1>4 DEF ItemCommand
    <2>2. HandTyped'
      BY <1>1, <2>1 DEF HandTyped
    <2>3. HandsKnown'
      <3>1. state'.stage = state.stage /\ hand' = hand /\ open' = open /\ slices' = slices
        BY <1>1, <1>4, <2>1
      <3>2. HandsKnown
        OBVIOUS
      <3> HIDE DEF SliceInv
      <3>3. QED
        BY <3>1, <3>2 DEF HandsKnown, OpenOf
    <2>4. QED
      BY <1>2, <1>3, <2>2, <2>3
  <1>5. CASE state'.stage # state.stage
    <2>1. hand' = [p \in Writers |-> IF hand[p].at = "write" THEN [hand[p] EXCEPT !.late = TRUE] ELSE hand[p]]
      BY <1>5 DEF ItemCommand
    <2>2. \A p \in Writers : hand[p] \in Hand /\ (hand[p].at # "write" => hand'[p] = hand[p])
                             /\ (hand[p].at = "write" => hand'[p] = [hand[p] EXCEPT !.late = TRUE])
      BY <2>1 DEF HandTyped
    <2>3. HandTyped'
      BY <1>1, <2>1, <2>2 DEF HandTyped, Hand
    <2>4. HandsKnown'
      <3>1. ASSUME NEW p \in Writers, hand'[p].at = "write" PROVE hand'[p].late
        BY <2>2, <3>1 DEF Hand
      <3>2. QED
        BY <3>1 DEF HandsKnown
    <2>5. QED
      BY <1>2, <1>3, <2>3, <2>4
  <1>6. QED
    BY <1>4, <1>5

LEMMA PrepareKeepsSlices ==
  ASSUME SliceInv, NEW p \in Writers, NEW next \in SliceBoards, PrepareSlices(p, next),
         OpenOf(next) \subseteq OpenOf(slices) \cup (DOMAIN next \ DOMAIN slices)
  PROVE  HandTyped' /\ HandsKnown' /\ SlicesReviewed'
  <1> USE DEF SliceInv
  <1>1. UNCHANGED <<state, slices, open>>
    BY DEF PrepareSlices, vars
  <1>2. hand' = [hand EXCEPT ![p] = [at |-> "write", slices |-> next, late |-> FALSE]]
    BY DEF PrepareSlices
  <1>3. \A q \in Writers : hand'[q] = IF q = p THEN [at |-> "write", slices |-> next, late |-> FALSE] ELSE hand[q]
    BY <1>2 DEF HandTyped
  <1>4. HandTyped'
    BY <1>1, <1>2 DEF HandTyped, Hand
  <1>5. SlicesReviewed'
    BY <1>1 DEF SlicesReviewed, Unsettled
  <1>6. ASSUME NEW q \in Writers, hand'[q].at = "write", ~hand'[q].late, state.stage \in ReviewStages
        PROVE  OpenOf(hand'[q].slices) \subseteq open \cup (DOMAIN hand'[q].slices \ DOMAIN slices)
    <2>1. CASE q = p
      <3>1. hand'[q].slices = next
        BY <1>3, <2>1
      <3>2. OpenOf(slices) \subseteq open
        BY <1>6 DEF SlicesReviewed, Unsettled, OpenOf
      <3>3. QED
        BY <3>1, <3>2
    <2>2. CASE q # p
      BY <1>3, <1>6, <2>2 DEF HandsKnown
    <2>3. QED
      BY <2>1, <2>2
  <1>7. HandsKnown'
    BY <1>1, <1>6 DEF HandsKnown, OpenOf
  <1>8. QED
    BY <1>4, <1>5, <1>7

LEMMA WriteKeepsSlices ==
  ASSUME SliceInv, NEW p \in Writers, WriteSlices(p)
  PROVE  HandTyped' /\ HandsKnown' /\ SlicesReviewed'
  <1> USE DEF SliceInv
  <1>1. /\ UNCHANGED state /\ slices' = hand[p].slices /\ hand[p].at = "write"
        /\ open' = open \cup (DOMAIN slices' \ DOMAIN slices)
                         \cup (IF hand[p].late THEN Unsettled' ELSE {})
    BY DEF WriteSlices, vars
  <1>2. \A q \in Writers : hand'[q] = IF q = p THEN Empty ELSE hand[q]
    BY DEF WriteSlices, HandTyped
  <1>3. HandTyped'
    <2>1. Empty \in Hand
      <3>1. NoTasks \in [{} -> [status : DOMAIN SliceMoves, owned : BOOLEAN, qa : BOOLEAN]]
        BY DEF NoTasks
      <3>2. NoTasks \in SliceBoards
        BY <3>1 DEF SliceBoards
      <3>3. QED
        BY <3>2 DEF Empty, Hand
    <2>2. slices' \in SliceBoards
      BY <1>1 DEF HandTyped, Hand
    <2>3. QED
      BY <2>1, <2>2 DEF WriteSlices, HandTyped
  <1>4. Unsettled' = OpenOf(slices')
    BY DEF Unsettled, OpenOf
  <1>5. SlicesReviewed'
    <2>1. CASE hand[p].late
      BY <1>1, <2>1 DEF SlicesReviewed
    <2>2. CASE ~hand[p].late
      BY <1>1, <1>4, <2>2 DEF SlicesReviewed, HandsKnown
    <2>3. QED
      BY <2>1, <2>2
  <1>6. ASSUME NEW q \in Writers, hand'[q].at = "write", ~hand'[q].late, state.stage \in ReviewStages
        PROVE  OpenOf(hand'[q].slices) \subseteq open' \cup (DOMAIN hand'[q].slices \ DOMAIN slices')
    <2>1. q # p /\ hand'[q] = hand[q]
      BY <1>2, <1>6 DEF Empty
    <2>2. OpenOf(hand[q].slices) \subseteq open \cup (DOMAIN hand[q].slices \ DOMAIN slices)
      BY <1>6, <2>1 DEF HandsKnown
    <2>3. DOMAIN slices' \ DOMAIN slices \subseteq open' /\ open \subseteq open'
      BY <1>1
    <2>4. QED
      BY <2>1, <2>2, <2>3
  <1>7. HandsKnown'
    BY <1>1, <1>6 DEF HandsKnown, OpenOf
  <1>8. QED
    BY <1>3, <1>5, <1>7

(* A transition reopens no slice that is settled, and a slice that was not *)
(* there is new.                                                           *)
LEMMA ChangeKeepsSlices ==
  ASSUME SliceInv, NEW p \in Writers, NEW s \in DOMAIN slices,
         NEW slice \in [status : DOMAIN SliceMoves, owned : BOOLEAN, qa : BOOLEAN],
         slice.status \notin SliceSettled => slices[s].status \notin SliceSettled,
         PrepareSlices(p, [slices EXCEPT ![s] = slice])
  PROVE  HandTyped' /\ HandsKnown' /\ SlicesReviewed'
  <1> DEFINE next == [slices EXCEPT ![s] = slice]
  <1>1. slices \in SliceBoards
    BY DEF SliceInv, HandTyped
  <1>2. next \in SliceBoards
    BY <1>1 DEF SliceBoards
  <1>3. OpenOf(next) \subseteq OpenOf(slices)
    BY <1>1 DEF OpenOf, SliceBoards
  <1> HIDE DEF next
  <1>4. PrepareSlices(p, next)
    BY DEF next
  <1>5. QED
    BY <1>2, <1>3, <1>4, PrepareKeepsSlices

LEMMA SliceCommandKeepsSlices ==
  ASSUME SliceInv, NEW p \in Writers, SliceCommand(p)
  PROVE  HandTyped' /\ HandsKnown' /\ SlicesReviewed'
  <1> DEFINE Records == [status : DOMAIN SliceMoves, owned : BOOLEAN, qa : BOOLEAN]
  <1>1. slices \in SliceBoards /\ \A s \in DOMAIN slices : slices[s] \in Records
    BY DEF SliceInv, HandTyped, SliceBoards
  <1>2. ASSUME NEW s \in Slices, NEW status \in {"ready", "queued"}, CreateMigrationSlice(p, s, status)
        PROVE  HandTyped' /\ HandsKnown' /\ SlicesReviewed'
    <2> DEFINE next == [r \in DOMAIN slices \cup {s} |-> IF r = s THEN Slice(status, FALSE, FALSE) ELSE slices[r]]
    <2>1. Slice(status, FALSE, FALSE) \in Records
      BY DEF Slice, SliceMoves
    <2>2. next \in [DOMAIN slices \cup {s} -> Records] /\ DOMAIN slices \cup {s} \in SUBSET Slices
      BY <1>1, <2>1 DEF SliceBoards
    <2>3. next \in SliceBoards
      BY <2>2 DEF SliceBoards
    <2>4. OpenOf(next) \subseteq OpenOf(slices) \cup (DOMAIN next \ DOMAIN slices)
      BY <1>2 DEF OpenOf, CreateMigrationSlice
    <2>5. PrepareSlices(p, next)
      BY <1>2 DEF CreateMigrationSlice
    <2> HIDE DEF next
    <2>6. QED
      BY <2>3, <2>4, <2>5, PrepareKeepsSlices
  <1>3. ASSUME NEW s \in DOMAIN slices, ClaimMigrationSlice(p, s)
        PROVE  HandTyped' /\ HandsKnown' /\ SlicesReviewed'
    <2> DEFINE slice == [slices[s] EXCEPT !.owned = TRUE, !.status = "claimed"]
    <2>1. slice \in Records
      BY <1>1 DEF SliceMoves
    <2>2. slices[s].status \notin SliceSettled
      BY <1>3 DEF ClaimMigrationSlice, SliceTransition, SliceMoves, SliceSettled
    <2>3. PrepareSlices(p, [slices EXCEPT ![s] = slice])
      <3>1. [slices EXCEPT ![s].owned = TRUE, ![s].status = "claimed"] = [slices EXCEPT ![s] = slice]
        BY <1>1 DEF SliceBoards
      <3>2. QED
        BY <1>3, <3>1 DEF ClaimMigrationSlice
    <2> HIDE DEF slice
    <2>4. QED
      BY <2>1, <2>2, <2>3, ChangeKeepsSlices
  <1>4. ASSUME NEW s \in DOMAIN slices, AssignMigrationQaOwner(p, s)
        PROVE  HandTyped' /\ HandsKnown' /\ SlicesReviewed'
    <2> DEFINE slice == [slices[s] EXCEPT !.qa = TRUE]
    <2>1. slice \in Records /\ slice.status = slices[s].status
      BY <1>1
    <2>2. PrepareSlices(p, [slices EXCEPT ![s] = slice])
      BY <1>4 DEF AssignMigrationQaOwner
    <2> HIDE DEF slice
    <2>3. QED
      BY <2>1, <2>2, ChangeKeepsSlices
  <1>5. ASSUME NEW s \in DOMAIN slices, NEW next \in DOMAIN SliceMoves, SetMigrationSliceStatus(p, s, next)
        PROVE  HandTyped' /\ HandsKnown' /\ SlicesReviewed'
    <2> DEFINE slice == [slices[s] EXCEPT !.status = next]
    <2>1. slice \in Records /\ slice.status = next
      BY <1>1
    <2>2. next \notin SliceSettled => slices[s].status \notin SliceSettled
      BY <1>5 DEF SetMigrationSliceStatus, SliceTransition, SliceMoves, SliceSettled
    <2>3. PrepareSlices(p, [slices EXCEPT ![s] = slice])
      BY <1>5 DEF SetMigrationSliceStatus
    <2> HIDE DEF slice
    <2>4. QED
      BY <2>1, <2>2, <2>3, ChangeKeepsSlices
  <1>6. QED
    BY <1>2, <1>3, <1>4, <1>5, WriteKeepsSlices DEF SliceCommand

LEMMA StepSlices == SliceInv /\ [SlicesNext]_allVars => SliceInv'
  <1> SUFFICES ASSUME SliceInv, [SlicesNext]_allVars PROVE SliceInv'
    OBVIOUS
  <1> DEFINE Kept == HandTyped /\ HandsKnown /\ SlicesReviewed /\ SentBack
  <1>1. IInv'
    BY StepsImplement, NextInvariant DEF SliceInv
  <1>2. ASSUME ItemCommand PROVE Kept'
    BY <1>2, ItemKeepsSlices
  <1>3. ASSUME NEW p \in Writers, BoardCommand(p), UNCHANGED sliceVars PROVE Kept'
    <2>1. TypeOK /\ SentBack
      BY DEF SliceInv, IInv
    <2>2. state'.stage \in ReviewStages => state'.stage = state.stage
      BY <1>3, <2>1, NoReviewByBoard
    <2>3. slices' = slices /\ hand' = hand /\ open' = open
      BY <1>3 DEF sliceVars
    <2>4. SlicesReviewed' /\ HandTyped'
      BY <2>2, <2>3 DEF SliceInv, SlicesReviewed, Unsettled, HandTyped
    <2>5. HandsKnown'
      <3>1. HandsKnown
        BY DEF SliceInv
      <3>2. QED
        BY <2>2, <2>3, <3>1 DEF HandsKnown, OpenOf
    <2>6. SentBack'
      BY <1>3, <2>1, BoardSentBack
    <2>7. QED
      BY <2>4, <2>5, <2>6
  <1>4. ASSUME NEW p \in Writers, SliceCommand(p) PROVE Kept'
    <2>1. UNCHANGED draft
      BY <1>4, SliceCommandsStutter DEF vars
    <2>2. QED
      BY <1>4, <2>1, SliceCommandKeepsSlices DEF SliceInv, SentBack
  <1>5. ASSUME UNCHANGED allVars PROVE Kept'
    <2>1. state' = state /\ draft' = draft /\ slices' = slices /\ hand' = hand /\ open' = open
      BY <1>5 DEF allVars, vars, sliceVars
    <2>2. QED
      BY <2>1 DEF SliceInv, HandTyped, HandsKnown, OpenOf, SlicesReviewed, Unsettled, SentBack
  <1>6. QED
    BY <1>1, <1>2, <1>3, <1>4, <1>5 DEF SlicesNext, SliceInv

(* SlicesReviewed, for any number of processes that replace the slice      *)
(* board: no advance brings a migration into code review, and none to its  *)
(* end, with a slice open but the ones its persons know of.                *)
THEOREM SlicesAlwaysReviewed == SlicesSpec => []SlicesReviewed
  <1>1. SliceInv => SlicesReviewed
    BY DEF SliceInv
  <1>2. QED
    BY <1>1, InitSlices, StepSlices, PTL DEF SlicesSpec
=============================================================================
