-------------------------- MODULE WorkflowController --------------------------
(***************************************************************************)
(* src/openkit-runtime/lib/workflow-state-controller.js: the commands on   *)
(* one work item, its task board and the copy of its progress that the     *)
(* unified state layer keeps (v2).                                         *)
(*                                                                         *)
(* A state command reads the item, changes it, validates the result and    *)
(* persists it; a stale or invalid result is refused and changes nothing,  *)
(* so the command is one step here.  A board command reads the item and    *)
(* the board, validates the new board for the stage it read, and then      *)
(* replaces tasks.json whatever happened in between: two steps here, of    *)
(* one of several processes.  A task that QA sends back takes a third: the *)
(* stage of the item is changed after the board.                           *)
(*                                                                         *)
(* The owner of an item is left out: a valid state's owner is the one its  *)
(* stage has, and every command sets both.                                 *)
(***************************************************************************)
EXTENDS LaneRules, TaskBoard

CONSTANTS
  Writers,          \* processes that run board commands
  StartModes,       \* lanes the work item may be started in
  LaneSources,      \* who chose the lane
  Granted,          \* approvals given, and
  Recorded,         \*   evidence recorded, before the first stage is left
  OfferedGates,     \* what the commands are asked to approve, record, link
  OfferedEvidence,  \*   (evidence is cleared where some is offered)
  OfferedArtifacts,
  ParallelModes,    \* parallel modes that set-parallelization is given
  IssueIds,
  MaxIssues,        \* bound on the issues of an item
  MaxRetry,         \* bound on repeated failed fixes
  MaxRestarts,      \* bound on starting the same feature again
  NoBoard, NoV2     \* missing files

ASSUME ControllerAssumption ==
  /\ StartModes \subseteq Modes /\ Granted \subseteq Gates
  /\ Recorded \subseteq Evidence /\ OfferedEvidence \subseteq Evidence
  /\ OfferedArtifacts \subseteq Artifacts
  /\ ParallelModes \subseteq {"none", "limited", "enabled"}
  /\ LaneSources \subseteq {"orchestrator_routed", "user_explicit"}
  /\ MaxIssues \in Nat /\ MaxRetry \in Nat /\ MaxRestarts \in Nat

VARIABLES
  state,     \* state.json of the work item
  board,     \* tasks.json: the stage of its last write, and the tasks
  v2,        \* the item's state.json in the unified state layer
  draft,     \* per process: the board command in progress
  restarts

vars == <<state, board, v2, draft, restarts>>

V2Rules == INSTANCE WorkflowRules

Issue == [id : IssueIds, open : BOOLEAN]
State == [mode : Modes, stage : Stages,
          status : {"in_progress", "blocked", "done"},
          laneSource : {"orchestrator_routed", "user_explicit"},
          approved : SUBSET Gates, evidence : SUBSET Evidence,
          artifacts : SUBSET Artifacts, issues : Seq(Issue), retry : Nat,
          context : {"default", "summary", "lists"}, \* migration_context:
              \* untouched, its summaries set, its lists appended to
          escalated : BOOLEAN,
          parallel : {"none", "limited", "enabled"}]
TaskSets == UNION {[ts -> Task] : ts \in SUBSET Tasks}
Boards == [stage : Stages, tasks : TaskSets] \cup {NoBoard}
Copies == [mode : Modes, stage : Stages, gates : SUBSET Mapped(Gates)]
ASSUME NoV2Assumption == NoV2 \notin Copies
(* A command in progress: at "write" its board is ready, at "reroute" the  *)
(* board is written and the item still has to move ("fits": to a stage     *)
(* with the owner that the decision names).                                *)
Reroute == [stage : Stages \cup {"none"}, fits : BOOLEAN]
Draft == [at : {"idle", "write", "reroute"},
          stage : Stages \cup {"none"}, tasks : TaskSets, reroute : Reroute]
NoTasks == [t \in {} |-> 0]
NoReroute == [stage |-> "none", fits |-> FALSE]
Idle == [at |-> "idle", stage |-> "none", tasks |-> NoTasks,
         reroute |-> NoReroute]

(* validateStateObject: what a state file may hold.                        *)
StateValid(s) ==
  /\ s.stage \in ModeStages(s.mode)
  /\ s.approved \subseteq ApprovalGates(s.mode)
  /\ s.artifacts \cap ForbiddenArtifacts[s.mode] = {}
  /\ s.mode = "quick" => s.parallel = "none"
  /\ s.mode # "migration" => s.context = "default"
  /\ s.escalated => s.mode = "full"

(* Every file holds what its validator lets through, and a command whose    *)
(* board is written goes on only if it has a decision to apply.            *)
TypeOK ==
  /\ state \in State /\ StateValid(state)
  /\ board \in Boards
  /\ v2 \in Copies \cup {NoV2}
  /\ draft \in [Writers -> Draft]
  /\ \A p \in Writers : draft[p].at = "reroute" => draft[p].reroute # NoReroute
  /\ restarts \in Nat

-----------------------------------------------------------------------------
(* createFreshState.                                                       *)
FreshState(mode, source) ==
  [mode |-> mode, stage |-> InitialStage(mode), status |-> "in_progress",
   laneSource |-> source, approved |-> {}, evidence |-> {},
   artifacts |-> {}, issues |-> <<>>, retry |-> 0, context |-> "default",
   escalated |-> FALSE, parallel |-> "none"]

(* validatePrimaryArtifactContracts: no QA without a code review.          *)
ReviewRecorded(s) ==
  /\ s.stage \in {"full_qa", "full_done"} => "full_code_review" \in s.evidence
  /\ s.stage \in {"migration_verify", "migration_done"}
       /\ s.status # "blocked" => "migration_code_review" \in s.evidence

TaskBoardStages == {"full_solution", "full_implementation",
                    "full_code_review", "full_qa", "full_done"}

(* validateManagedState: the item and its board, as every command that     *)
(* reads them requires.  The board is judged by the stage of its last      *)
(* write, not by the stage the item is in.                                 *)
ManagedStateValid(s, b) ==
  /\ ReviewRecorded(s)
  /\ b # NoBoard => /\ s.mode = "full"
                    /\ s.stage \in TaskBoardStages
                    /\ BoardValid(b.tasks, b.stage)

Accepted(s, b) == StateValid(s) /\ ManagedStateValid(s, b)

(* Mutant: the mutation is persisted without validating its result.        *)
MutateUnchecked(next) ==
  /\ Accepted(state, board)
  /\ state' = next
  /\ UNCHANGED <<board, draft, restarts>>

(* mutate: what is read must be valid, and so must be what is persisted.   *)
Mutate(next) ==
  /\ Accepted(state, board)
  /\ Accepted(next, board)
  /\ state' = next
  /\ UNCHANGED <<board, draft, restarts>>

OpenIssues(s) == {i \in 1 .. Len(s.issues) : s.issues[i].open}
Working(s) == IF s.stage \in DoneStages THEN "done" ELSE "in_progress"

-----------------------------------------------------------------------------
(* The copy in the unified state layer.  It is created by the first        *)
(* command that syncs, in the mode the item has then; its own rules are    *)
(* asked, and overruled by a direct write when they disagree.              *)
V2Base(s) ==
  IF v2 = NoV2 THEN [mode |-> s.mode, stage |-> s.stage, gates |-> {}]
  ELSE v2

(* Mutant: a move that the unified layer's own rules refuse is not synced. *)
SyncAdvanceByTheRules(s, target) ==
  v2' = IF /\ V2Base(s).stage \in V2Rules!Stages(V2Base(s).mode)
           /\ V2Rules!MayAdvance(V2Base(s).mode, V2Base(s).gates,
                                 V2Base(s).stage, target)
        THEN [V2Base(s) EXCEPT !.stage = target] ELSE V2Base(s)

(* syncAdvanceStageToV2.                                                   *)
SyncAdvance(s, target) == v2' = [V2Base(s) EXCEPT !.stage = target]

(* Mutant: a rejected or withdrawn approval is not synced.                 *)
SyncApprovalGranted(s, gate, approved) ==
  v2' = IF gate \in DOMAIN LegacyToV2 /\ approved
        THEN [V2Base(s) EXCEPT !.gates = @ \cup {LegacyToV2[gate]}] ELSE v2

(* syncApprovalToV2: approvals the unified layer has no gate for are       *)
(* skipped, and do not create the copy either.                             *)
SyncApproval(s, gate, approved) ==
  v2' = IF gate \notin DOMAIN LegacyToV2 THEN v2
        ELSE [V2Base(s) EXCEPT
                !.gates = IF approved THEN @ \cup {LegacyToV2[gate]}
                          ELSE @ \ {LegacyToV2[gate]}]

-----------------------------------------------------------------------------
(* The item was started, and what Granted and Recorded name was approved   *)
(* and recorded in its first stage, which any of them may be.              *)
Init ==
  /\ \E mode \in StartModes, source \in LaneSources :
       LET given == Granted \cap ApprovalGates(mode) IN
       /\ state = [FreshState(mode, source) EXCEPT
                     !.approved = given, !.evidence = Recorded]
       /\ v2 = IF Mapped(given) = {} THEN NoV2
               ELSE [mode |-> mode, stage |-> InitialStage(mode),
                     gates |-> Mapped(given)]
  /\ board = NoBoard
  /\ draft = [p \in Writers |-> Idle]
  /\ restarts = 0

(* startTask for a feature that was started before: the state is replaced, *)
(* the board and the copy of the unified layer stay.                       *)
StartTask(mode, source) ==
  /\ restarts < MaxRestarts
  /\ Accepted(FreshState(mode, source), board)
  /\ state' = FreshState(mode, source)
  /\ restarts' = restarts + 1
  /\ UNCHANGED <<board, v2, draft>>

(* What an approval given in the stage it guards requires (setApproval).   *)
ApprovalReady(s, gate) ==
  /\ gate = "product_to_solution" /\ s.stage = "full_product" =>
       "scope_package" \in s.artifacts
  /\ gate = "strategy_to_upgrade" /\ s.stage = "migration_strategy" =>
       "solution_package" \in s.artifacts
  /\ gate = "solution_to_fullstack" /\ s.stage = "full_solution" =>
       /\ "solution_package" \in s.artifacts
       /\ board # NoBoard
       /\ FitForStage(board.tasks, "full_solution", s.parallel)

SetApproval(gate, approved) ==
  /\ gate \in ApprovalGates(state.mode)
  /\ approved => ApprovalReady(state, gate)
  /\ Mutate([state EXCEPT !.approved = IF approved THEN @ \cup {gate}
                                       ELSE @ \ {gate}])
  /\ SyncApproval(state, gate, approved)

(* autoScaffoldPrimaryArtifactIfNeeded.                                    *)
Scaffolded(stage) ==
  CASE stage = "full_product" -> {"scope_package"}
    [] stage \in {"full_solution", "migration_strategy"} ->
         {"solution_package"}
    [] OTHER -> {}

(* assertStageExitReadiness of the stage that a lane is closed from.       *)
ReadyToClose(s) ==
  /\ RequiredArtifacts(s.stage) \subseteq s.artifacts
  /\ EvidenceReady(s.stage, s.evidence)
  /\ OpenIssues(s) = {}

AdvanceStage(target) ==
  /\ target \in NextStages(state.mode, state.stage)
  /\ target \in {"full_implementation", "full_qa"} =>
       /\ board # NoBoard
       /\ FitForStage(board.tasks, target, state.parallel)
  /\ state.stage \in DOMAIN TRANSITION_GATES =>
       TRANSITION_GATES[state.stage] \in state.approved
  /\ ToolEvidence(target) \subseteq state.evidence
  /\ target \in DoneStages => ReadyToClose(state)
  /\ Mutate([state EXCEPT
               !.stage = target,
               !.status = IF target \in DoneStages THEN "done"
                          ELSE "in_progress",
               !.artifacts = @ \cup Scaffolded(target)])
  /\ SyncAdvance(state, target)

(* Escalation starts the full lane over, without the approvals.            *)
Escalated(s) ==
  [s EXCEPT !.mode = "full", !.stage = "full_intake",
            !.status = "in_progress", !.approved = {}, !.escalated = TRUE]

(* Mutant: one repeated fix too many before the lane is given up.          *)
AfterRepeatLate(s) ==
  LET again == [s EXCEPT !.retry = @ + 1] IN
  CASE again.retry <= ESCALATION_RETRY_THRESHOLD -> again
    [] again.mode = "quick" -> Escalated(again)
    [] again.mode = "migration" ->
         [again EXCEPT !.stage = "migration_strategy", !.status = "blocked"]
    [] OTHER -> [again EXCEPT !.status = "blocked"]

(* A fix that failed again: at the threshold a quick item changes lanes, a *)
(* migration goes back to its strategy, and both long lanes block.         *)
AfterRepeat(s) ==
  LET again == [s EXCEPT !.retry = @ + 1] IN
  CASE again.retry < ESCALATION_RETRY_THRESHOLD -> again
    [] OTHER ->
         CASE again.mode = "quick" -> Escalated(again)
           [] again.mode = "migration" ->
                [again EXCEPT !.stage = "migration_strategy",
                              !.status = "blocked"]
           [] OTHER -> [again EXCEPT !.status = "blocked"]

Reworked(s, type, repeat) ==
  LET route == ReworkRoute(s.mode, type, s.laneSource)
      routed == IF route.escalate THEN Escalated(s)
                ELSE [s EXCEPT !.stage = route.stage,
                               !.status = IF route.blocked THEN "blocked"
                                          ELSE "in_progress"]
  IN  IF repeat THEN AfterRepeat(routed) ELSE routed

(* routeRework, from any stage; the unified layer is not told.             *)
RouteRework(type, repeat) ==
  /\ repeat => state.retry < MaxRetry
  /\ Mutate(Reworked(state, type, repeat))
  /\ UNCHANGED v2

-----------------------------------------------------------------------------
RecordIssue(id) ==
  /\ Len(state.issues) < MaxIssues
  /\ Mutate([state EXCEPT !.issues = Append(@, [id |-> id, open |-> TRUE]),
                          !.status = "blocked"])
  /\ UNCHANGED v2

(* updateIssueStatus: the first issue with the id; the item is unblocked   *)
(* when none is left open.                                                 *)
UpdateIssueStatus(id, open) ==
  \E i \in 1 .. Len(state.issues) :
    /\ state.issues[i].id = id
    /\ \A j \in 1 .. i - 1 : state.issues[j].id # id
    /\ LET updated == [state EXCEPT !.issues[i].open = open] IN
       Mutate(IF OpenIssues(updated) = {}
              THEN [updated EXCEPT !.status = Working(state)] ELSE updated)
    /\ UNCHANGED v2

ClearIssues ==
  /\ Mutate([state EXCEPT !.issues = <<>>,
                          !.status = IF state.stage \in DoneStages THEN @
                                     ELSE "in_progress"])
  /\ UNCHANGED v2

RecordEvidence(e) ==
  /\ Mutate([state EXCEPT !.evidence = @ \cup {e}])
  /\ UNCHANGED v2

ClearEvidence ==
  /\ Mutate([state EXCEPT !.evidence = {}])
  /\ UNCHANGED v2

(* linkArtifact: the kinds with an order of their own; the others are only *)
(* checked against the lane.                                               *)
Linkable(s, kind) ==
  /\ kind = "scope_package" => s.mode = "full" /\ s.stage # "full_intake"
  /\ kind = "solution_package" =>
       /\ s.stage \notin {"full_intake", "full_product", "migration_intake"}
       /\ s.mode = "full" => /\ "scope_package" \in s.artifacts
                             /\ "product_to_solution" \in s.approved

LinkArtifact(kind) ==
  /\ Linkable(state, kind)
  /\ Mutate([state EXCEPT !.artifacts = @ \cup {kind}])
  /\ UNCHANGED v2

(* scaffoldAndLinkArtifact: a new file, only in the stages that write it.  *)
ScaffoldStages(kind) ==
  CASE kind = "task_card" -> ModeStages("quick")
    [] kind = "scope_package" -> {"full_product"}
    [] kind = "solution_package" -> {"full_solution", "migration_strategy"}
    [] kind = "migration_report" ->
         {"migration_baseline", "migration_strategy"}
    [] OTHER -> {}
ScaffoldAndLinkArtifact(kind) ==
  /\ kind \notin state.artifacts
  /\ state.stage \in ScaffoldStages(kind)
  /\ LinkArtifact(kind)

(* setParallelization.                                                     *)
SetParallelization(parallel) ==
  /\ state.mode # "quick"
  /\ state.stage \notin {"full_intake", "full_product", "migration_intake"}
  /\ state.mode = "full" =>
       /\ {"scope_package", "solution_package"} \subseteq state.artifacts
       /\ "product_to_solution" \in state.approved
  /\ Mutate([state EXCEPT !.parallel = parallel])
  /\ UNCHANGED v2

(* setMigrationContext; the summaries can be taken back, the lists not.    *)
SetMigrationContext(summary) ==
  /\ state.mode = "migration"
  /\ Mutate([state EXCEPT !.context = IF @ = "lists" THEN @ ELSE summary])
  /\ UNCHANGED v2

(* appendPreservedInvariant and the other commands that append.            *)
AppendMigrationContext ==
  /\ state.mode = "migration"
  /\ Mutate([state EXCEPT !.context = "lists"])
  /\ UNCHANGED v2

-----------------------------------------------------------------------------
(* withTaskBoard, up to the write: the item and the board are read and     *)
(* checked, the new board is checked for the stage that was read.          *)
boardTasks == IF board = NoBoard THEN NoTasks ELSE board.tasks

(* Mutant: the stage of the item is not asked for.                         *)
PrepareAnywhere(p, tasks, reroute) ==
  /\ draft[p] = Idle
  /\ Accepted(state, board)
  /\ state.mode = "full"
  /\ BoardValid(tasks, state.stage)
  /\ draft' = [draft EXCEPT ![p] =
                 [at |-> "write", stage |-> state.stage,
                  tasks |-> tasks, reroute |-> reroute]]
  /\ UNCHANGED <<state, board, v2, restarts>>

Prepare(p, tasks, reroute) ==
  /\ draft[p] = Idle
  /\ Accepted(state, board)
  /\ state.mode = "full" /\ state.stage \in TaskBoardStages
  /\ BoardValid(tasks, state.stage)
  /\ draft' = [draft EXCEPT ![p] =
                 [at |-> "write", stage |-> state.stage,
                  tasks |-> tasks, reroute |-> reroute]]
  /\ UNCHANGED <<state, board, v2, restarts>>

(* createTask, for a task that is ready or still queued.                   *)
CreateTask(p, t, status) ==
  /\ t \notin DOMAIN boardTasks
  /\ Prepare(p,
             [u \in DOMAIN boardTasks \cup {t} |->
                IF u = t THEN [status |-> status, dev |-> NoDev, qa |-> FALSE]
                ELSE boardTasks[u]], NoReroute)

(* claimTask: a task that somebody else owns is not taken over.            *)
ClaimTask(p, t, d) ==
  /\ t \in DOMAIN boardTasks
  /\ boardTasks[t].dev \in {NoDev, d}
  /\ TaskTransition(boardTasks[t], "claimed")
  /\ <<boardTasks[t].status, "claimed">> \notin QaFails
  /\ Prepare(p,
             [boardTasks EXCEPT ![t].dev = d, ![t].status = "claimed"],
             NoReroute)

AssignQaOwner(p, t) ==
  /\ t \in DOMAIN boardTasks
  /\ Prepare(p, [boardTasks EXCEPT ![t].qa = TRUE], NoReroute)

ReassignTask(p, t, d) ==
  /\ t \in DOMAIN boardTasks
  /\ Prepare(p,
             [boardTasks EXCEPT
                ![t].dev = d,
                ![t].status = IF @ = "ready" THEN "claimed" ELSE @],
             NoReroute)

ReleaseTask(p, t) ==
  /\ t \in DOMAIN boardTasks
  /\ Prepare(p,
             [boardTasks EXCEPT
                ![t].dev = NoDev,
                ![t].status = IF @ = "claimed" THEN "ready" ELSE @],
             NoReroute)

(* setTaskStatus.                                                          *)
SetTaskStatus(p, t, next) ==
  /\ t \in DOMAIN boardTasks
  /\ TaskTransition(boardTasks[t], next)
  /\ <<boardTasks[t].status, next>> \notin QaFails
  /\ Prepare(p, [boardTasks EXCEPT ![t].status = next], NoReroute)

(* setTaskStatus of a task that QA fails: with a finding and a decision    *)
(* where the item goes (decideQaFailLocalRework).                          *)
SendTaskBack(p, t, next, stage, fits) ==
  /\ t \in DOMAIN boardTasks
  /\ <<boardTasks[t].status, next>> \in QaFails
  /\ Prepare(p, [boardTasks EXCEPT ![t].status = next],
             [stage |-> stage, fits |-> fits])

(* writeTaskBoard: the board that was prepared, with its stage.            *)
WriteBoard(p) ==
  /\ draft[p].at = "write"
  /\ board' = [stage |-> draft[p].stage, tasks |-> draft[p].tasks]
  /\ draft' = [draft EXCEPT ![p] =
                 IF @.reroute = NoReroute THEN Idle
                 ELSE [@ EXCEPT !.at = "reroute", !.stage = "none", !.tasks = NoTasks]]
  /\ UNCHANGED <<state, v2, restarts>>

(* setTaskStatus goes on with mutateWorkItem, which may be refused: the    *)
(* board stays as written.                                                 *)
RerouteItem(p) ==
  LET next == [state EXCEPT !.stage = draft[p].reroute.stage,
                            !.status = "in_progress"] IN
  /\ draft[p].at = "reroute"
  /\ state' = IF /\ draft[p].reroute.fits
                 /\ Accepted(state, board) /\ Accepted(next, board)
              THEN next ELSE state
  /\ draft' = [draft EXCEPT ![p] = Idle]
  /\ UNCHANGED <<board, v2, restarts>>

-----------------------------------------------------------------------------
StateCommand ==
  \/ \E mode \in StartModes, source \in LaneSources : StartTask(mode, source)
  \/ \E g \in OfferedGates, approved \in BOOLEAN : SetApproval(g, approved)
  \/ \E target \in Stages : AdvanceStage(target)
  \/ \E type \in IssueTypes, repeat \in BOOLEAN : RouteRework(type, repeat)
  \/ \E id \in IssueIds : RecordIssue(id)
  \/ \E id \in IssueIds, open \in BOOLEAN : UpdateIssueStatus(id, open)
  \/ ClearIssues
  \/ \E e \in OfferedEvidence : RecordEvidence(e)
  \/ OfferedEvidence # {} /\ ClearEvidence
  \/ \E kind \in OfferedArtifacts : LinkArtifact(kind)
  \/ \E kind \in OfferedArtifacts : ScaffoldAndLinkArtifact(kind)
  \/ \E parallel \in ParallelModes : SetParallelization(parallel)
  \/ \E summary \in {"default", "summary"} : SetMigrationContext(summary)
  \/ AppendMigrationContext

BoardCommand(p) ==
  \/ \E t \in Tasks, status \in {"ready", "queued"} : CreateTask(p, t, status)
  \/ \E t \in Tasks, d \in Devs : ClaimTask(p, t, d)
  \/ \E t \in Tasks : AssignQaOwner(p, t)
  \/ \E t \in Tasks, d \in Devs : ReassignTask(p, t, d)
  \/ \E t \in Tasks : ReleaseTask(p, t)
  \/ \E t \in Tasks, next \in TaskStatuses : SetTaskStatus(p, t, next)
  \/ \E t \in Tasks, next \in {"claimed", "in_progress"},
        stage \in {"full_qa", "full_implementation"}, fits \in BOOLEAN :
        SendTaskBack(p, t, next, stage, fits)
  \/ WriteBoard(p)
  \/ RerouteItem(p)

Next == StateCommand \/ \E p \in Writers : BoardCommand(p)
Spec == Init /\ [][Next]_vars

-----------------------------------------------------------------------------
(* A task that is ready, claimed or in progress has everything it depends  *)
(* on behind it, whoever wrote the board last and over whose write         *)
(* (withTaskBoard replaces the whole file without a lock).                 *)
DependenciesHeld ==
  board # NoBoard =>
    \A t \in DOMAIN board.tasks :
      board.tasks[t].status \in Unstarted =>
        \A d \in Deps[t] : /\ d \in DOMAIN board.tasks
                           /\ board.tasks[d].status \in DependencySatisfied

(* No sequence of commands leaves a work item that every later command     *)
(* refuses to read (readWorkItemContext, mutate), with one exception: a    *)
(* task board that was prepared before the item left the stage it was read *)
(* in, and written after.  Of the state and the task board only: a slice   *)
(* board beside them (MigrationSlices) may be written late as well.        *)
LateWrite ==
  \E p \in Writers : WriteBoard(p) /\ draft[p].stage # state.stage
UsableUnlessWrittenLate ==
  [][Accepted(state, board) => Accepted(state', board') \/ LateWrite]_vars

(* The gates of the unified layer say what the approvals of the item's     *)
(* lane say, through rework, promotion to another lane and withdrawn       *)
(* approvals (syncApprovalToV2); a feature that is started again loses     *)
(* its approvals, and the unified layer keeps the gates.                   *)
v2Gates == IF v2 = NoV2 THEN {} ELSE v2.gates
V2GatesAgree ==
  /\ Mapped(state.approved) \subseteq v2Gates
  /\ restarts = 0 =>
       v2Gates \cap Mapped(ApprovalGates(state.mode)) = Mapped(state.approved)

(* Once the unified layer is in the item's stage, it leaves it only by     *)
(* rework, by a task sent back and by a new start, which nobody tells it   *)
(* of: every advance reaches both (syncAdvanceStageToV2), the moves that   *)
(* the unified layer's own table or gates refuse as well.                  *)
Unsynced ==
  \/ \E type \in IssueTypes, repeat \in BOOLEAN : RouteRework(type, repeat)
  \/ \E mode \in StartModes, source \in LaneSources : StartTask(mode, source)
  \/ \E p \in Writers : RerouteItem(p)
V2StageFollows ==
  [][(v2 # NoV2 /\ v2.stage = state.stage)
       => (v2'.stage = state'.stage \/ Unsynced)]_vars

(* An item leaves its lane by rework only for the full one, which it starts  *)
(* over without approvals: a quick item exactly at its third failed fix,     *)
(* however its commands are ordered, and a migration at a gap in the         *)
(* requirements if the user did not choose the lane (routeRework).  But with *)
(* an artifact that the full lane does not take, a task card or a migration  *)
(* report, it stays for good: the rework that would move it is refused, its  *)
(* failed fix is not counted, and a quick item goes on with two of them.  A  *)
(* new start is not meant.                                                   *)
Tied(s) == s.artifacts \cap ForbiddenArtifacts["full"] # {}
LaneLeftByRework ==
  [][restarts' = restarts =>
       /\ state'.mode # state.mode =>
            /\ state'.mode = "full" /\ state'.stage = "full_intake"
            /\ state'.approved = {}
            /\ IF state.mode = "quick"
               THEN state'.retry = ESCALATION_RETRY_THRESHOLD
               ELSE state.laneSource = "orchestrator_routed"
       /\ state'.mode = "quick" => state'.retry < ESCALATION_RETRY_THRESHOLD
       /\ Tied(state) => Tied(state') /\ state'.mode = state.mode]_vars

(* What src/context/core/workflow.md says (lines 195, 325): where the user   *)
(* chose the lane, no finding escalates it.  The code promotes a quick item  *)
(* whoever chose its lane (routeRework), and a test asks it to               *)
(* (workflow-state-controller.test.js:1313).                                 *)
UserKeepsLane == state.laneSource = "user_explicit" => ~state.escalated
=============================================================================
