----------------------------- MODULE Delegation -----------------------------
(* Delegated work on the task boards of full-delivery items:                 *)
(* src/runtime/managers/delegation-supervisor.js chooses a task by what      *)
(* src/openkit-runtime/lib/runtime-summary.js says of the active item,       *)
(* moves it by commands of the workflow controller whose refusals it does    *)
(* not see (the kernel answers null), and has the background manager start   *)
(* a run, which moves the task on when it completes.                         *)
(*                                                                           *)
(* A process dispatches without a pause, but persons and other processes run *)
(* commands between its own. A command is one step here (its read and its    *)
(* write are two in WorkflowController).                                     *)
EXTENDS TaskBoard

CONSTANTS
    Items,      \* full-delivery work items; all boards have the ids Tasks
    Procs,      \* processes with a supervisor and a background manager
    Agent,      \* the owner that dispatch claims for
    Runs,
    Chained,    \* tasks that a sequential constraint puts after another
    Boards,     \* the boards of the items to begin with
    Shapes,     \* what the tasks are: class, files, kind
    Plans,      \* parallelization: mode, limit of active tasks, safe files
    NoLimit, None,
    MaxMoves, MaxCrashes

Classes == {"exclusive", "parallel_limited", "parallel_safe"}
ItemStages == {"full_implementation", "full_code_review", "full_qa"}
TaskSets == UNION {[S -> Task] : S \in SUBSET Tasks}
ASSUME DelegationAssumption ==
    /\ IsFiniteSet(Tasks) /\ None \notin Items \union Tasks \union Procs \union Runs
    /\ Agent \in Devs
    /\ Boards \subseteq [Items -> [stage : ItemStages, tasks : TaskSets]]
    /\ Chained \subseteq {t \in Tasks : Deps[t] # {}}
    /\ \A s \in Shapes, t \in Tasks : s[t].class \in Classes /\ s[t].kind \in {"dev", "qa"}
    /\ \A pl \in Plans : pl.mode \in {"none", "limited", "enabled"} /\ pl.max \in Nat \union {NoLimit}
    /\ MaxMoves \in Nat /\ MaxCrashes \in Nat

VARIABLES
    shape, plan,
    stage,      \* stage[w]: stage of the item
    board,      \* board[w]: tasks.json, the stage of its last write and the tasks
    active,     \* the active work item
    draft,      \* draft[p]: the dispatch or completion p is in the middle of
    runs,
    moves, crashes

fixed == <<shape, plan>>
vars  == <<shape, plan, stage, board, active, draft, runs, moves, crashes>>

(* clear: the task is on the board it was chosen by, that of the active item,  *)
(* and nobody changed the board, the stage or the active item since. own: the  *)
(* claim was accepted, and neither a person nor another run moved the task     *)
(* since. cut: the process that completed the run ended before it had moved    *)
(* the task on.                                                                *)
Idle  == [at |-> "idle", item |-> None, task |-> None, run |-> None, clear |-> FALSE, own |-> FALSE]
NoRun == [status |-> "none", proc |-> None, item |-> None, task |-> None, own |-> FALSE, cut |-> FALSE]
----------------------------------------------------------------------------
(* validateTaskAllocation: what may be active side by side.                  *)
SharesFile(t, u) == shape[t].files \intersect shape[u].files # {}
Outside(t) == shape[t].class = "parallel_limited" /\ ~(shape[t].files \subseteq plan.zones)

Limits(A) ==
    /\ plan.mode = "none" => Cardinality(A) <= 1
    /\ plan.max # NoLimit => Cardinality(A) <= plan.max
    /\ \A t, u \in A : t # u => shape[t].class # "exclusive" /\ ~SharesFile(t, u) /\ ~Outside(t)
AllocationValid(w) == BoardValid(board[w].tasks, stage[w]) /\ Limits(ActiveTasks(board[w].tasks))

Rank(b, t) ==
    CASE b.stage = "full_qa" -> IF b.tasks[t].status = "qa_ready" THEN 400 ELSE 350
      [] shape[t].class = "exclusive" -> 300
      [] shape[t].class = "parallel_limited" -> 200
      [] OTHER -> 100

\* Mutant: the limit of tracks is compared with what is active now, not with
\* what would be.
RoomUpToLimit(A, t) ==
    /\ \A u \in A : shape[u].class # "exclusive" /\ ~SharesFile(t, u)
    /\ A # {} => shape[t].class # "exclusive" /\ ~Outside(t) /\ plan.mode # "none"
    /\ plan.max # NoLimit => Cardinality(A) <= plan.max
Room(A, t) ==
    /\ \A u \in A : shape[u].class # "exclusive" /\ ~SharesFile(t, u)
    /\ A # {} => shape[t].class # "exclusive" /\ ~Outside(t) /\ plan.mode # "none"
    /\ plan.max # NoLimit => Cardinality(A) < plan.max

\* getTaskDispatchability, by the stage of the last write of the board. A task
\* that a sequential constraint puts after another stays blocked by it.
Dispatchable(b) ==
    {t \in DOMAIN b.tasks :
        /\ IF b.stage = "full_qa" THEN b.tasks[t].status \in {"qa_ready", "dev_done"}
           ELSE b.tasks[t].status = "ready" /\ shape[t].kind # "qa"
        /\ \A d \in Deps[t] : d \in DOMAIN b.tasks /\ b.tasks[d].status \in DependencySatisfied
        /\ t \notin Chained
        /\ Room(ActiveTasks(b.tasks), t)}

\* selectTaskForDispatch: of the tasks that can be dispatched on the board of
\* the active item, the first that is on this item's board too. (The choice by
\* the statuses alone, where the summary has no health, is left out.)
Selectable(w) == Dispatchable(board[active]) \intersect DOMAIN board[w].tasks
Selected(w) == {t \in Selectable(w) : \A u \in Selectable(w) : Rank(board[active], u) <= Rank(board[active], t)}
----------------------------------------------------------------------------
Readable(w) == BoardValid(board[w].tasks, board[w].stage)
Apply(w, t, task) == [board[w].tasks EXCEPT ![t] = task]
Written(w, tasks) == [board EXCEPT ![w] = [stage |-> stage[w], tasks |-> tasks]]

\* withTaskBoard: the command that makes this of the task, if it is accepted.
Accepts(w, t, task) == Readable(w) /\ BoardValid(Apply(w, t, task), stage[w])
Command(w, t, task, allowed) ==
    board' = IF allowed /\ Accepts(w, t, task) THEN Written(w, Apply(w, t, task)) ELSE board

TaskOf(p) == board[draft[p].item].tasks[draft[p].task]
Moved(task, next) == [task EXCEPT !.status = next]
\* setTaskStatus by process p, which has no finding of QA to offer.
Advance(p, next) ==
    Command(draft[p].item, draft[p].task, Moved(TaskOf(p), next),
            TaskTransition(TaskOf(p), next) /\ <<TaskOf(p).status, next>> \notin QaFails)

\* What a change of the tasks T on the board of w means for the drafts of others.
Noticed(w, T) ==
    [q \in Procs |-> IF draft[q].item # w THEN draft[q]
                     ELSE [draft[q] EXCEPT !.clear = FALSE, !.own = @ /\ draft[q].task \notin T]]
\* Process p goes on to d.
Step(p, d) ==
    draft' = [(IF board' = board THEN draft ELSE Noticed(draft[p].item, {draft[p].task})) EXCEPT ![p] = d]
Goes(p, at) == Step(p, [draft[p] EXCEPT !.at = at])
\* The runs after somebody other than run r moved the tasks T.
Parted(w, T, r) == [s \in Runs |-> IF s # r /\ runs[s].item = w /\ runs[s].task \in T
                                   THEN [runs[s] EXCEPT !.own = FALSE] ELSE runs[s]]

\* dispatchReadyTask: a task is chosen, unless what is active now breaks the
\* limits already.
Choose(p, w) ==
    /\ draft[p] = Idle
    /\ Readable(w) /\ AllocationValid(w)
    /\ \E t \in Selected(w) :
          draft' = [draft EXCEPT ![p] = [Idle EXCEPT !.item = w, !.task = t, !.clear = (w = active),
                   !.at = IF stage[w] = "full_qa" \/ board[w].tasks[t].status \in {"qa_ready", "dev_done"}
                          THEN "assign" ELSE "claim"]]
    /\ UNCHANGED <<fixed, stage, board, active, runs, moves, crashes>>

\* claimTask: a task that another owns is not taken.
Claim(p) ==
    /\ draft[p].at = "claim"
    /\ LET task == TaskOf(p) taken == [task EXCEPT !.status = "claimed", !.dev = Agent]
           mine == task.dev \in {NoDev, Agent} /\ task.status \in {"ready", "blocked"} IN
       /\ Command(draft[p].item, draft[p].task, taken, mine)
       /\ Step(p, [draft[p] EXCEPT !.at = "begin", !.own = mine /\ Accepts(draft[p].item, draft[p].task, taken)])
    /\ UNCHANGED <<fixed, stage, active, runs, moves, crashes>>

Begin(p) ==
    /\ draft[p].at = "begin"
    /\ Advance(p, "in_progress")
    /\ Step(p, [draft[p] EXCEPT !.at = "spawn", !.own = @ /\ board' # board])
    /\ UNCHANGED <<fixed, stage, active, runs, moves, crashes>>

\* The run is started whatever became of the two commands.
Spawn(p) ==
    /\ draft[p].at = "spawn"
    /\ \E r \in Runs :
          /\ runs[r] = NoRun
          /\ runs' = [runs EXCEPT ![r] = [status |-> "running", proc |-> p, item |-> draft[p].item,
                         task |-> draft[p].task, own |-> draft[p].own, cut |-> FALSE]]
    /\ draft' = [draft EXCEPT ![p] = Idle]
    /\ UNCHANGED <<fixed, stage, board, active, moves, crashes>>

\* The way of a task to QA: an owner, qa_ready if it is only dev_done, and
\* qa_in_progress.
AssignQaOwner(p) ==
    /\ draft[p].at = "assign"
    /\ Command(draft[p].item, draft[p].task, [TaskOf(p) EXCEPT !.qa = TRUE], TRUE)
    /\ Goes(p, "qaReady")
    /\ UNCHANGED <<fixed, stage, active, runs, moves, crashes>>

QaReady(p) ==
    /\ draft[p].at = "qaReady"
    /\ IF TaskOf(p).status = "dev_done" THEN Advance(p, "qa_ready") ELSE UNCHANGED board
    /\ Goes(p, "qaBegin")
    /\ UNCHANGED <<fixed, stage, active, runs, moves, crashes>>

QaBegin(p) ==
    /\ draft[p].at = "qaBegin"
    /\ Advance(p, "qa_in_progress")
    /\ Step(p, Idle)
    /\ UNCHANGED <<fixed, stage, active, runs, moves, crashes>>

\* The delegation tool without dispatchReadyTask: a run and nothing else.
SpawnOnly(p, w, t) ==
    /\ draft[p] = Idle
    /\ moves < MaxMoves
    /\ moves' = moves + 1
    /\ \E r \in Runs : /\ runs[r] = NoRun
                       /\ runs' = [runs EXCEPT ![r] = [NoRun EXCEPT !.status = "running", !.proc = p, !.item = w, !.task = t]]
    /\ UNCHANGED <<fixed, stage, board, active, draft, crashes>>
----------------------------------------------------------------------------
(* BackgroundManager: a run is completed or cancelled by the process that    *)
(* started it, whatever its status is, and its task moved on by the bridge.  *)
Mine(p, r) == draft[p] = Idle /\ runs[r].proc = p /\ runs[r].status \in {"running", "cancelled", "completed"}

Cancel(p, r) ==
    /\ Mine(p, r)
    /\ runs' = [runs EXCEPT ![r].status = "cancelled"]
    /\ UNCHANGED <<fixed, stage, board, active, draft, moves, crashes>>

Complete(p, r) ==
    /\ Mine(p, r)
    /\ runs' = [runs EXCEPT ![r].status = "completed"]
    /\ draft' = [draft EXCEPT ![p] = [Idle EXCEPT !.at = "finish", !.item = runs[r].item, !.task = runs[r].task, !.run = r]]
    /\ UNCHANGED <<fixed, stage, board, active, moves, crashes>>

\* Mutant: the task of a completed run goes straight to QA.
FinishAsQaReady(p) ==
    /\ draft[p].at = "finish"
    /\ IF TaskOf(p).status = "in_progress" THEN Advance(p, "qa_ready") ELSE UNCHANGED board
    /\ IF board' # board THEN Goes(p, "finishQa") ELSE Step(p, Idle)
    /\ runs' = IF board' = board THEN runs ELSE Parted(draft[p].item, {draft[p].task}, draft[p].run)
    /\ UNCHANGED <<fixed, stage, active, moves, crashes>>
\* onRunCompleted
Finish(p) ==
    /\ draft[p].at = "finish"
    /\ IF TaskOf(p).status = "in_progress" THEN Advance(p, "dev_done") ELSE UNCHANGED board
    /\ IF board' # board THEN Goes(p, "finishQa") ELSE Step(p, Idle)
    /\ runs' = IF board' = board THEN runs ELSE Parted(draft[p].item, {draft[p].task}, draft[p].run)
    /\ UNCHANGED <<fixed, stage, active, moves, crashes>>

FinishQa(p) ==
    /\ draft[p].at = "finishQa"
    /\ IF TaskOf(p).qa THEN Advance(p, "qa_ready") ELSE UNCHANGED board
    /\ Step(p, Idle)
    /\ runs' = IF board' = board THEN runs ELSE Parted(draft[p].item, {draft[p].task}, draft[p].run)
    /\ UNCHANGED <<fixed, stage, active, moves, crashes>>

\* A run that p is completing, with its task still to be moved.
Unmoved(p, r) == draft[p].at = "finish" /\ draft[p].run = r /\ TaskOf(p).status = "in_progress"

\* A process that has a dispatch or a run ends: what it knew of them is gone,
\* and no other process completes or cancels its runs.
Crash(p) ==
    /\ crashes < MaxCrashes
    /\ draft[p] # Idle \/ \E r \in Runs : runs[r].proc = p
    /\ crashes' = crashes + 1
    /\ draft' = [draft EXCEPT ![p] = Idle]
    /\ runs' = [r \in Runs |-> IF runs[r].proc # p THEN runs[r]
                               ELSE [runs[r] EXCEPT !.proc = None, !.cut = Unmoved(p, r)]]
    /\ UNCHANGED <<fixed, stage, board, active, moves>>
----------------------------------------------------------------------------
(* Persons: commands on a task, the stage of an item, the active item.       *)
Person == moves < MaxMoves /\ moves' = moves + 1 /\ UNCHANGED <<fixed, crashes>>

\* setTaskStatus, assignQaOwner, reassignTask and releaseTask.
Changes(task) ==
    {Moved(task, s) : s \in {x \in TaskMoves[task.status] : TaskTransition(task, x) /\ <<task.status, x>> \notin QaFails}}
    \union {[task EXCEPT !.qa = TRUE]}
    \union {[task EXCEPT !.dev = d, !.status = IF @ = "ready" THEN "claimed" ELSE @] : d \in Devs}
    \union {[task EXCEPT !.dev = NoDev, !.status = IF @ = "claimed" THEN "ready" ELSE @]}

Handle(w, t) ==
    /\ Person
    /\ \E task \in Changes(board[w].tasks[t]) \ {board[w].tasks[t]} :
          /\ Accepts(w, t, task)
          /\ board' = Written(w, Apply(w, t, task))
    /\ runs' = Parted(w, {t}, None)
    /\ draft' = Noticed(w, {t})
    /\ UNCHANGED <<stage, active>>

\* A task QA sends back, with the stage the decision names. In full_qa a board
\* that has the task is not valid: commands on its other tasks are refused.
Blocked(t, s) == IF s = "full_qa" THEN Tasks ELSE {t}
SendBack(w, t) ==
    /\ Person
    /\ \E x \in {"claimed", "in_progress"}, s \in {"full_qa", "full_implementation"} :
          LET task == Moved(board[w].tasks[t], x) IN
          /\ TaskTransition(board[w].tasks[t], x) /\ <<board[w].tasks[t].status, x>> \in QaFails
          /\ Accepts(w, t, task)
          /\ board' = Written(w, Apply(w, t, task))
          /\ stage' = [stage EXCEPT ![w] = s]
          /\ runs' = Parted(w, Blocked(t, s), None)
          /\ draft' = Noticed(w, Blocked(t, s))
    /\ UNCHANGED active

\* The item advances or is sent back; the board keeps the stage it was written
\* in.
MoveStage(w) ==
    /\ Person
    /\ Readable(w)
    /\ \/ stage[w] = "full_implementation" /\ stage' = [stage EXCEPT ![w] = "full_code_review"]
       \/ /\ stage[w] = "full_code_review"
          /\ FitForStage(board[w].tasks, "full_qa", plan.mode)
          /\ stage' = [stage EXCEPT ![w] = "full_qa"]
       \/ stage[w] # "full_implementation" /\ stage' = [stage EXCEPT ![w] = "full_implementation"]
    /\ draft' = [q \in Procs |-> IF draft[q].item = w THEN [draft[q] EXCEPT !.clear = FALSE] ELSE draft[q]]
    /\ UNCHANGED <<board, active, runs>>

Select(w) ==
    /\ Person
    /\ active # w
    /\ active' = w
    /\ draft' = [q \in Procs |-> [draft[q] EXCEPT !.clear = FALSE]]
    /\ UNCHANGED <<stage, board, runs>>

Init ==
    /\ shape \in Shapes /\ plan \in Plans
    /\ board \in Boards
    /\ stage = [w \in Items |-> board[w].stage]
    /\ \A w \in Items : Readable(w)
    /\ active \in Items
    /\ draft = [p \in Procs |-> Idle]
    /\ runs = [r \in Runs |-> NoRun]
    /\ moves = 0 /\ crashes = 0

Dispatch(p) == Claim(p) \/ Begin(p) \/ Spawn(p) \/ AssignQaOwner(p) \/ QaReady(p) \/ QaBegin(p)
Next ==
    \/ \E p \in Procs : \/ \E w \in Items : Choose(p, w) \/ \E t \in DOMAIN board[w].tasks : SpawnOnly(p, w, t)
                        \/ Dispatch(p)
                        \/ \E r \in Runs : Complete(p, r) \/ Cancel(p, r)
                        \/ Finish(p) \/ FinishQa(p) \/ Crash(p)
    \/ \E w \in Items : \/ \E t \in DOMAIN board[w].tasks : Handle(w, t) \/ SendBack(w, t)
                        \/ MoveStage(w) \/ Select(w)
Spec == Init /\ [][Next]_vars
----------------------------------------------------------------------------
Ends(p) == draft[p].clear /\ draft[p].at \in {"spawn", "qaBegin"} /\ draft'[p] = Idle
\* What runtime-summary says can be dispatched, the controller's check of the
\* allocation accepts once it is: a dispatch onto the active item that nobody
\* disturbed leaves the active tasks of the item within their limits. (Of a
\* dispatch onto another item nothing is promised: its task is chosen by what is
\* active on the board of the active item.) A task is told apart from one
\* that must stay in the safe zones only when it is that one itself: beside a
\* limited task which is outside of them already, any other is started
\* (runtime-summary.js:762, where the controller refuses at line 1286).
DispatchKeepsLimits ==
    [][\A p \in Procs : Ends(p) =>
          LET A == ActiveTasks(board'[draft[p].item].tasks) IN
          Limits(A) \/ \E u \in A \ {draft[p].task} : Outside(u)]_vars

\* A run and the task it took agree, whoever else dispatches and whatever
\* process ends, until a person or another run moves the task, or a person has
\* QA send another task of the item back into the QA stage: the completion is
\* then refused, and the kernel does not say so (line 3626 of the controller sets
\* the stage beside a board that it does not fit). The task is in progress while
\* the run is running and handed on when it has completed; but when the process
\* ended between the two writes of the completion (work-item-bridge.js:46 and
\* :51), it is in progress under a completed run from then on, and no process
\* makes that good. A run that is cancelled may have completed before, and its
\* task may be either; nothing takes a task back from a cancelled run.
RunAndTaskAgree ==
    \A r \in Runs :
        LET task == board[runs[r].item].tasks[runs[r].task]
            handedOn == task.status \in {"dev_done", "qa_ready", "qa_in_progress"} IN
        runs[r].own /\ (\A p \in Procs : draft[p].run # r) =>
            /\ runs[r].status = "running" => task.status = "in_progress"
            /\ runs[r].status = "completed" => IF runs[r].cut THEN task.status = "in_progress" ELSE handedOn
            /\ runs[r].status = "cancelled" => task.status = "in_progress" \/ handedOn
============================================================================
