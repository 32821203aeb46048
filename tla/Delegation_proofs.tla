-------------------------- MODULE Delegation_proofs --------------------------
(***************************************************************************)
(* Proofs about Delegation, for any number of items, tasks, processes and  *)
(* runs, of moves and of deaths: a run and the task it took agree, and a   *)
(* dispatch that nobody disturbed keeps the limits of the allocation.      *)
(***************************************************************************)
EXTENDS Delegation, FiniteSetTheorems, TLAPS

Status(w, t) == board[w].tasks[t].status
On(w, t)     == w \in Items /\ t \in DOMAIN board[w].tasks
Active(w)    == ActiveTasks(board[w].tasks)

DraftSteps == {"idle", "claim", "begin", "spawn", "assign", "qaReady", "qaBegin", "finish", "finishQa"}
BoardsTyped ==
  /\ board \in [Items -> [stage : ItemStages, tasks : TaskSets]]
  /\ stage \in [Items -> ItemStages]
  /\ \A w \in Items : Readable(w)
DraftsTyped ==
  /\ draft \in [Procs -> [at : DraftSteps, item : Items \union {None}, task : Tasks \union {None},
                          run : Runs \union {None}, clear : BOOLEAN, own : BOOLEAN]]
  /\ \A p \in Procs : draft[p].at # "idle" => On(draft[p].item, draft[p].task)
RunsTyped ==
  /\ runs \in [Runs -> [status : {"none", "running", "completed", "cancelled"}, proc : Procs \union {None},
                        item : Items \union {None}, task : Tasks \union {None}, own : BOOLEAN, cut : BOOLEAN]]
  /\ \A r \in Runs : runs[r].status # "none" => On(runs[r].item, runs[r].task)
PlanTyped == plan \in Plans /\ active \in Items

(* A completion is about the run its process has, and the task of that run. *)
Finishing == {"finish", "finishQa"}
Finishes(p) ==
  draft[p].at \in Finishing =>
    LET r == draft[p].run IN
    /\ r \in Runs /\ runs[r].proc = p /\ runs[r].status = "completed"
    /\ runs[r].item = draft[p].item /\ runs[r].task = draft[p].task

(* A dispatch that owns its task knows where the task is.                  *)
DraftAgrees(p) ==
  draft[p].own =>
    LET s == Status(draft[p].item, draft[p].task) IN
    /\ draft[p].at \in {"begin", "spawn"}
    /\ draft[p].at = "begin" => s = "claimed"
    /\ draft[p].at = "spawn" => s = "in_progress" /\ stage[draft[p].item] # "full_qa"

(* A run that owns its task: RunAndTaskAgree, and what it needs while its  *)
(* completion is under way.  A task in progress keeps its item out of the  *)
(* stage in which its completion would be refused.                         *)
HandedOn == {"dev_done", "qa_ready", "qa_in_progress"}
AtFinish(r) == \E p \in Procs : draft[p].at = "finish" /\ draft[p].run = r
RunAgrees(r) ==
  runs[r].own =>
    LET s == Status(runs[r].item, runs[r].task) IN
    /\ runs[r].status # "none"
    /\ s \in {"in_progress"} \union HandedOn
    /\ s = "in_progress" => stage[runs[r].item] # "full_qa"
    /\ runs[r].status = "running" => s = "in_progress"
    /\ runs[r].status = "completed" /\ ~AtFinish(r) /\ ~runs[r].cut => s \in HandedOn
    /\ runs[r].cut => /\ s = "in_progress"
                      /\ runs[r].status = "completed" /\ runs[r].proc = None

(* A dispatch that nobody disturbed: the limits hold, with room for the    *)
(* task, until it is active; then they hold with it.                       *)
Within(A, t) == Limits(A) \/ \E u \in A \ {t} : Outside(u)
ClearAgrees(p) ==
  draft[p].clear =>
    LET w == draft[p].item t == draft[p].task s == Status(w, t) IN
    /\ draft[p].at \in {"claim", "assign", "qaReady"} => Limits(Active(w)) /\ Room(Active(w), t)
    /\ draft[p].at \in {"begin", "spawn", "qaBegin"} => Within(Active(w), t)
    /\ draft[p].at = "claim" => s = "ready"
    /\ draft[p].at = "begin" => s \in {"ready", "claimed"}
    /\ draft[p].at \in {"assign", "qaReady", "qaBegin"} => s \in {"ready", "dev_done", "qa_ready"}

Types == BoardsTyped /\ DraftsTyped /\ RunsTyped /\ PlanTyped
IInv == /\ Types
        /\ \A p \in Procs : Finishes(p) /\ DraftAgrees(p) /\ ClearAgrees(p)
        /\ \A r \in Runs : RunAgrees(r)
-----------------------------------------------------------------------------
(* What the commands do to a board.                                        *)

(* An accepted command makes task of t on the board of w.                  *)
Move(w, t, task) ==
  On(w, t) /\ task \in Task /\ Accepts(w, t, task) /\ board' = Written(w, Apply(w, t, task))

(* The tasks of a board are tasks. *)
LEMMA BoardTasks ==
  ASSUME BoardsTyped, NEW w \in Items
  PROVE  /\ DOMAIN board[w].tasks \subseteq Tasks
         /\ \A t \in DOMAIN board[w].tasks : board[w].tasks[t] \in Task
         /\ board[w].tasks \in [DOMAIN board[w].tasks -> Task]
         /\ Active(w) \subseteq Tasks /\ IsFiniteSet(Active(w))
  <1>1. board[w].tasks \in TaskSets
    BY DEF BoardsTyped
  <1>2. PICK S \in SUBSET Tasks : board[w].tasks \in [S -> Task]
    BY <1>1 DEF TaskSets
  <1>3. Active(w) \subseteq Tasks
    BY <1>2 DEF Active, ActiveTasks
  <1>4. IsFiniteSet(Active(w))
    BY <1>3, DelegationAssumption, FS_Subset
  <1>5. QED
    BY <1>2, <1>3, <1>4

(* A move changes its task and nothing else, and leaves boards boards.     *)
LEMMA MoveTasks ==
  ASSUME BoardsTyped, NEW w, NEW t, NEW task, Move(w, t, task), stage' \in [Items -> ItemStages]
  PROVE  /\ BoardsTyped'
         /\ \A v \in Items : v # w => board'[v] = board[v]
         /\ \A v, u : On(v, u) => On(v, u)'
         /\ \A v, u : On(v, u) /\ ~(v = w /\ u = t) => board'[v].tasks[u] = board[v].tasks[u]
         /\ board'[w].tasks[t] = task
         /\ DOMAIN board'[w].tasks = DOMAIN board[w].tasks
  <1> DEFINE made == [stage |-> stage[w], tasks |-> Apply(w, t, task)]
  <1>1. w \in Items /\ t \in DOMAIN board[w].tasks /\ board' = [board EXCEPT ![w] = made]
    BY DEF Move, On, Written
  <1>2. board \in [Items -> [stage : ItemStages, tasks : TaskSets]] /\ stage \in [Items -> ItemStages]
    BY DEF BoardsTyped
  <1>3. board'[w] = made /\ \A v \in Items : v # w => board'[v] = board[v]
    BY <1>1, <1>2
  <1>4. /\ Apply(w, t, task) \in [DOMAIN board[w].tasks -> Task]
        /\ Apply(w, t, task)[t] = task
        /\ \A u \in DOMAIN board[w].tasks : u # t => Apply(w, t, task)[u] = board[w].tasks[u]
    BY <1>1, BoardTasks DEF Apply, Move
  <1>5. Apply(w, t, task) \in TaskSets
    BY <1>1, <1>4, BoardTasks DEF TaskSets
  <1>6. made \in [stage : ItemStages, tasks : TaskSets]
    BY <1>1, <1>2, <1>5
  <1>7. board' \in [Items -> [stage : ItemStages, tasks : TaskSets]]
    BY <1>1, <1>2, <1>6
  <1>8. BoardValid(made.tasks, made.stage)
    BY DEF Move, Accepts
  <1>9. ASSUME NEW v \in Items PROVE BoardValid(board'[v].tasks, board'[v].stage)
    BY <1>3, <1>8 DEF BoardsTyped, Readable
  <1>10. BoardsTyped'
    BY <1>7, <1>9 DEF BoardsTyped, Readable
  <1>11. DOMAIN board'[w].tasks = DOMAIN board[w].tasks
    BY <1>3, <1>4
  <1>12. \A v, u : On(v, u) => On(v, u)'
    BY <1>3, <1>11 DEF On
  <1>13. \A v, u : On(v, u) /\ ~(v = w /\ u = t) => board'[v].tasks[u] = board[v].tasks[u]
    BY <1>3, <1>4 DEF On
  <1>14. QED
    BY <1>3, <1>4, <1>10, <1>11, <1>12, <1>13

(* A task that finds room beside what is active keeps the limits when it   *)
(* becomes active, unless one of the others is outside of the safe zones.  *)
LEMMA AddTask ==
  ASSUME PlanTyped, NEW A, IsFiniteSet(A), NEW t, Limits(A), Room(A, t)
  PROVE  Within(A \union {t}, t)
  <1>1. CASE t \in A
    BY <1>1 DEF Within
  <1>2. ASSUME t \notin A, \A u \in A : ~Outside(u) PROVE Limits(A \union {t})
    <2>1. Cardinality(A \union {t}) = Cardinality(A) + 1 /\ Cardinality(A) \in Nat
      BY <1>2, FS_AddElement, FS_CardinalityType
    <2>2. plan.mode = "none" => Cardinality(A \union {t}) <= 1
      BY <2>1, FS_EmptySet DEF Room
    <2>3. plan.max # NoLimit => Cardinality(A \union {t}) <= plan.max
      BY <2>1, DelegationAssumption DEF Room, PlanTyped
    <2>4. ASSUME NEW u \in A \union {t}, NEW v \in A \union {t}, u # v
          PROVE  shape[u].class # "exclusive" /\ ~SharesFile(u, v) /\ ~Outside(u)
      <3>1. CASE u \in A /\ v \in A
        BY <3>1, <2>4 DEF Limits
      <3>2. CASE u = t /\ v \in A
        BY <3>2 DEF Room
      <3>3. CASE u \in A /\ v = t
        BY <3>3, <1>2 DEF Room, SharesFile
      <3>4. QED
        BY <2>4, <3>1, <3>2, <3>3
    <2>5. QED
      BY <2>2, <2>3, <2>4 DEF Limits
  <1>3. QED
    BY <1>1, <1>2 DEF Within

(* What TaskTransition says of the statuses the proof asks about.          *)
LEMMA TransitionsFrom ==
  ASSUME NEW task \in Task, NEW next, TaskTransition(task, next)
  PROVE  /\ task.status # next /\ next \in TaskStatuses
         /\ next = "claimed" => task.status \in {"ready", "blocked", "qa_in_progress"}
         /\ next = "in_progress" => task.status \in {"claimed", "blocked", "qa_in_progress"}
         /\ next = "dev_done" => task.status = "in_progress"
         /\ next = "qa_ready" => task.status = "dev_done"
         /\ next = "qa_in_progress" => task.status = "qa_ready"
  BY DEF TaskTransition, TaskMoves, Task, TaskStatuses

(* The completion of a run is not refused: a task in progress has a        *)
(* developer, and nothing but the QA stage minds a task that is dev_done.  *)
LEMMA FinishAccepted ==
  ASSUME BoardsTyped, NEW w, NEW t, On(w, t), Status(w, t) = "in_progress", stage[w] # "full_qa",
         stage[w] \in ItemStages
  PROVE  /\ TaskTransition(board[w].tasks[t], "dev_done")
         /\ Accepts(w, t, Moved(board[w].tasks[t], "dev_done"))
  <1> DEFINE b == board[w].tasks
             c == Apply(w, t, Moved(b[t], "dev_done"))
  <1>1. w \in Items /\ t \in DOMAIN b /\ b \in [DOMAIN b -> Task] /\ b[t].status = "in_progress"
    BY BoardTasks DEF On, Status
  <1>2. Readable(w) /\ DOMAIN b # {} /\ DependencyState(b)
    BY <1>1 DEF BoardsTyped, Readable, BoardValid
  <1>3. b[t].dev # NoDev
    BY <1>1, <1>2 DEF DependencyState
  <1>4. TaskTransition(b[t], "dev_done")
    BY <1>1, <1>3 DEF TaskTransition, TaskMoves, NeedsDev, NeedsQa
  <1>5. /\ DOMAIN c = DOMAIN b
        /\ c[t].status = "dev_done" /\ c[t].dev = b[t].dev /\ c[t].qa = b[t].qa
        /\ \A u \in DOMAIN b : u # t => c[u] = b[u]
    BY <1>1 DEF Apply, Moved, Task
  <1>6. DependencyState(c)
    <2> SUFFICES ASSUME NEW u \in DOMAIN b
                 PROVE  /\ Deps[u] \subseteq DOMAIN b
                        /\ c[u].status \in Unstarted => \A d \in Deps[u] : c[d].status \in DependencySatisfied
                        /\ c[u].status \in {"claimed", "in_progress", "dev_done"} => c[u].dev # NoDev
                        /\ c[u].status \in {"qa_in_progress", "done", "blocked"} => c[u].qa
      BY <1>5 DEF DependencyState
    <2>1. Deps[u] \subseteq DOMAIN b
      BY <1>2 DEF DependencyState
    <2>2. ASSUME c[u].status \in Unstarted, NEW d \in Deps[u] PROVE c[d].status \in DependencySatisfied
      <3>1. u # t /\ c[u] = b[u]
        BY <1>5, <2>2 DEF Unstarted
      <3>2. b[d].status \in DependencySatisfied
        BY <1>2, <2>2, <3>1 DEF DependencyState
      <3>3. QED
        BY <1>5, <2>1, <2>2, <3>2 DEF DependencySatisfied
    <2>3. /\ c[u].status \in {"claimed", "in_progress", "dev_done"} => c[u].dev # NoDev
          /\ c[u].status \in {"qa_in_progress", "done", "blocked"} => c[u].qa
      <3>1. CASE u = t
        BY <3>1, <1>3, <1>5
      <3>2. CASE u # t
        BY <3>2, <1>2, <1>5 DEF DependencyState
      <3>3. QED
        BY <3>1, <3>2
    <2>4. QED
      BY <2>1, <2>2, <2>3
  <1>7. AggregateRules(c, stage[w])
    BY <1>1, <1>5 DEF AggregateRules, ItemStages, ImplementationReady
  <1>8. QED
    BY <1>1, <1>2, <1>4, <1>5, <1>6, <1>7 DEF Accepts, BoardValid

(* A command is refused or moves its task.                                 *)
LEMMA CommandMoves ==
  ASSUME BoardsTyped, NEW w, NEW t, On(w, t), NEW task \in Task, NEW allowed, Command(w, t, task, allowed)
  PROVE  board' = board \/ (allowed /\ Move(w, t, task))
  BY DEF Command, Move

(* What a status makes of a task is a task. *)
LEMMA MovedTask ==
  ASSUME NEW task \in Task, NEW next \in TaskStatuses
  PROVE  /\ Moved(task, next) \in Task /\ Moved(task, next).status = next
         /\ Moved(task, next).dev = task.dev /\ Moved(task, next).qa = task.qa
  BY DEF Moved, Task

(* A process that moves a task on is refused, or changes the status.       *)
LEMMA AdvanceMoves ==
  ASSUME BoardsTyped, NEW p, On(draft[p].item, draft[p].task), stage' \in [Items -> ItemStages],
         NEW next \in TaskStatuses, Advance(p, next)
  PROVE  \/ board' = board
         \/ /\ TaskTransition(TaskOf(p), next) /\ <<TaskOf(p).status, next>> \notin QaFails
            /\ Move(draft[p].item, draft[p].task, Moved(TaskOf(p), next))
            /\ board' # board
  <1> DEFINE w == draft[p].item
             t == draft[p].task
             task == Moved(TaskOf(p), next)
  <1>1. On(w, t) /\ TaskOf(p) = board[w].tasks[t] /\ TaskOf(p) \in Task
    BY BoardTasks DEF On, TaskOf
  <1>2. task \in Task /\ task.status = next
    BY <1>1, MovedTask
  <1>3. CASE board' = board
    BY <1>3
  <1>4. CASE board' # board
    <2>1. TaskTransition(TaskOf(p), next) /\ <<TaskOf(p).status, next>> \notin QaFails
      BY <1>4 DEF Advance, Command
    <2>2. Move(w, t, task)
      BY <1>1, <1>2, <1>4 DEF Advance, Command, Move
    <2>3. QED
      BY <1>4, <2>1, <2>2
  <1>5. QED
    BY <1>3, <1>4
-----------------------------------------------------------------------------
(* What the moves of one actor leave of what the others know.              *)

(* The stage of the item may change with the move when all that own one of *)
(* its tasks are told, should it be the QA stage.                          *)
StageWith(w, T) ==
  stage' = stage \/ \E s \in ItemStages : stage' = [stage EXCEPT ![w] = s] /\ (s = "full_qa" => T = Tasks)
SameRun(r) ==
  /\ runs'[r].status = runs[r].status /\ runs'[r].proc = runs[r].proc
  /\ runs'[r].item = runs[r].item /\ runs'[r].task = runs[r].task
  /\ runs'[r].cut = runs[r].cut

(* The stages stay stages. *)
LEMMA StageTyped ==
  ASSUME BoardsTyped, NEW w \in Items, NEW T, StageWith(w, T)
  PROVE  /\ stage' \in [Items -> ItemStages]
         /\ \A v \in Items : v # w => stage'[v] = stage[v]
         /\ stage'[w] = stage[w] \/ stage'[w] # "full_qa" \/ T = Tasks
  BY DEF BoardsTyped, StageWith

(* A process that is told of a move keeps what it still may rely on.       *)
LEMMA Watched ==
  ASSUME Types, NEW q \in Procs, Finishes(q), DraftAgrees(q), ClearAgrees(q),
         NEW w, NEW t, NEW task, Move(w, t, task), NEW T, t \in T, StageWith(w, T),
         draft'[q] = Noticed(w, T)[q], UNCHANGED fixed, \A r \in Runs : SameRun(r)
  PROVE  /\ Finishes(q)' /\ DraftAgrees(q)' /\ ClearAgrees(q)'
         /\ draft'[q].at = draft[q].at /\ draft'[q].run = draft[q].run
         /\ draft'[q].item = draft[q].item /\ draft'[q].task = draft[q].task
  <1>1. w \in Items /\ On(w, t) /\ stage' \in [Items -> ItemStages]
    BY StageTyped DEF Move, On, Types
  <1>2. /\ draft'[q].at = draft[q].at /\ draft'[q].run = draft[q].run
        /\ draft'[q].item = draft[q].item /\ draft'[q].task = draft[q].task
        /\ draft[q].item = w => draft'[q].clear = FALSE /\ (draft'[q].own => draft[q].own /\ draft[q].task \notin T)
        /\ draft[q].item # w => draft'[q].clear = draft[q].clear /\ draft'[q].own = draft[q].own
    <2>1. draft[q] \in [at : DraftSteps, item : Items \union {None}, task : Tasks \union {None},
                        run : Runs \union {None}, clear : BOOLEAN, own : BOOLEAN]
      BY DEF Types, DraftsTyped
    <2>2. Noticed(w, T)[q] = IF draft[q].item # w THEN draft[q]
                     ELSE [draft[q] EXCEPT !.clear = FALSE, !.own = @ /\ draft[q].task \notin T]
      BY DEF Noticed
    <2>3. CASE draft[q].item # w
      BY <2>2, <2>3
    <2>4. CASE draft[q].item = w
      BY <2>1, <2>2, <2>4
    <2>5. QED
      BY <2>3, <2>4
  <1>3. Finishes(q)'
    BY <1>2 DEF Finishes, SameRun
  <1>4. DraftAgrees(q)'
    <2> SUFFICES ASSUME draft'[q].own PROVE DraftAgrees(q)'
      BY DEF DraftAgrees
    <2> DEFINE v == draft[q].item
               u == draft[q].task
    <2>1. draft[q].own /\ draft[q].at \in {"begin", "spawn"} /\ On(v, u) /\ v \in Items
      BY <1>2 DEF DraftAgrees, Types, DraftsTyped, On
    <2>2. ~(v = w /\ u = t)
      BY <1>2
    <2>3. board'[v].tasks[u] = board[v].tasks[u]
      BY <1>1, <2>1, <2>2, MoveTasks DEF Types
    <2>4. stage'[v] = "full_qa" => stage[v] = "full_qa"
      <3>1. CASE v = w
        <4>1. T # Tasks
          BY <1>2, <2>1, <3>1, BoardTasks DEF On, Types
        <4>2. QED
          BY <3>1, <4>1, <2>1, StageTyped DEF Types
      <3>2. CASE v # w
        BY <1>1, <2>1, <3>2, StageTyped DEF Types
      <3>3. QED
        BY <3>1, <3>2
    <2>5. QED
      BY <1>2, <2>1, <2>3, <2>4 DEF DraftAgrees, Status
  <1>5. ClearAgrees(q)'
    <2> SUFFICES ASSUME draft'[q].clear PROVE ClearAgrees(q)'
      BY DEF ClearAgrees
    <2>1. draft[q].item # w /\ draft[q].clear
      BY <1>2
    <2>2. CASE draft[q].at = "idle"
      BY <1>2, <2>2 DEF ClearAgrees
    <2>3. CASE draft[q].at # "idle"
      <3>1. draft[q].item \in Items
        BY <2>3 DEF Types, DraftsTyped, On
      <3>2. board'[draft[q].item] = board[draft[q].item]
        BY <1>1, <2>1, <3>1, MoveTasks DEF Types
      <3>3. QED
        BY <1>2, <2>1, <3>2
        DEF ClearAgrees, Active, Status, Within, Limits, Room, Outside, SharesFile, fixed
    <2>4. QED
      BY <2>2, <2>3
  <1>6. QED
    BY <1>2, <1>3, <1>4, <1>5

(* What may become of a task while a run owns it.                          *)
Harmless(s, next) ==
  next = s \/ s \notin {"in_progress"} \union HandedOn \/ (s \in HandedOn /\ next \in HandedOn)

(* A run whose task is not moved, or is handed on further, still agrees.   *)
LEMMA RunKept ==
  ASSUME Types, NEW r \in Runs, RunAgrees(r), NEW w, NEW t, NEW task, Move(w, t, task),
         stage' \in [Items -> ItemStages], SameRun(r), AtFinish(r) => AtFinish(r)',
         runs'[r].own => /\ runs[r].own
                         /\ stage'[runs[r].item] = "full_qa" => stage[runs[r].item] = "full_qa"
                         /\ runs[r].item = w /\ runs[r].task = t => Harmless(Status(w, t), task.status)
  PROVE  RunAgrees(r)'
  <1> SUFFICES ASSUME runs'[r].own PROVE RunAgrees(r)'
    BY DEF RunAgrees
  <1> DEFINE v == runs[r].item
             u == runs[r].task
  <1>1. On(v, u) /\ runs[r].own /\ runs[r].status # "none"
    BY DEF RunAgrees, Types, RunsTyped
  <1>2. CASE v = w /\ u = t
    <2>1. board'[v].tasks[u] = task
      BY <1>2, MoveTasks DEF Types
    <2>2. \/ task.status = Status(v, u)
          \/ Status(v, u) \in HandedOn /\ task.status \in HandedOn
      BY <1>1, <1>2 DEF RunAgrees, Harmless
    <2>3. QED
      BY <1>1, <2>1, <2>2 DEF RunAgrees, SameRun, Status, HandedOn
  <1>3. CASE ~(v = w /\ u = t)
    <2>1. board'[v].tasks[u] = board[v].tasks[u]
      BY <1>1, <1>3, MoveTasks DEF Types
    <2>2. QED
      BY <1>1, <2>1 DEF RunAgrees, SameRun, Status
  <1>4. QED
    BY <1>2, <1>3

(* A process that nobody disturbs keeps what it knows.                     *)
LEMMA DraftStays ==
  ASSUME NEW q \in Procs, Finishes(q), DraftAgrees(q), ClearAgrees(q), draft'[q] = draft[q],
         UNCHANGED <<fixed, stage, board>>, draft[q].at \in Finishing => SameRun(draft[q].run)
  PROVE  Finishes(q)' /\ DraftAgrees(q)' /\ ClearAgrees(q)'
  <1>1. Finishes(q)'
    BY DEF Finishes, SameRun
  <1>2. DraftAgrees(q)'
    BY DEF DraftAgrees, Status
  <1>3. ClearAgrees(q)'
    BY DEF ClearAgrees, Active, Status, Within, Limits, Room, Outside, SharesFile, fixed
  <1>4. QED
    BY <1>1, <1>2, <1>3

(* A run on boards that stay agrees as before.                             *)
LEMMA RunStays ==
  ASSUME NEW r \in Runs, RunAgrees(r), UNCHANGED <<stage, board>>, SameRun(r),
         runs'[r].own => runs[r].own, AtFinish(r) => AtFinish(r)'
  PROVE  RunAgrees(r)'
  BY DEF RunAgrees, SameRun, Status

(* Runs that are parted from their task lose that and no more.             *)
LEMMA PartedRuns ==
  ASSUME RunsTyped, NEW w, NEW T, NEW r, runs' = Parted(w, T, r)
  PROVE  /\ \A s \in Runs : SameRun(s)
         /\ \A s \in Runs : runs'[s].own =>
              runs[s].own /\ (s = r \/ runs[s].item # w \/ runs[s].task \notin T)
         /\ runs' \in [Runs -> [status : {"none", "running", "completed", "cancelled"}, proc : Procs \union {None},
                        item : Items \union {None}, task : Tasks \union {None}, own : BOOLEAN, cut : BOOLEAN]]
  <1> SUFFICES ASSUME NEW s \in Runs
               PROVE  /\ SameRun(s)
                      /\ runs'[s].own => runs[s].own /\ (s = r \/ runs[s].item # w \/ runs[s].task \notin T)
                      /\ runs'[s] \in [status : {"none", "running", "completed", "cancelled"},
                            proc : Procs \union {None}, item : Items \union {None},
                            task : Tasks \union {None}, own : BOOLEAN, cut : BOOLEAN]
    BY DEF Parted
  <1>1. /\ runs'[s] = IF s # r /\ runs[s].item = w /\ runs[s].task \in T
                      THEN [runs[s] EXCEPT !.own = FALSE] ELSE runs[s]
        /\ runs[s] \in [status : {"none", "running", "completed", "cancelled"}, proc : Procs \union {None},
                        item : Items \union {None}, task : Tasks \union {None}, own : BOOLEAN, cut : BOOLEAN]
    BY DEF Parted, RunsTyped
  <1>2. QED
    BY <1>1 DEF SameRun

(* What a step of the process leaves to the others, whether its command is *)
(* refused or moves its task.                                              *)
LEMMA ProcessStep ==
  ASSUME IInv, NEW p \in Procs, draft[p].at # "idle", NEW task,
         board' = board \/ Move(draft[p].item, draft[p].task, task),
         NEW d \in [at : DraftSteps, item : Items \union {None}, task : Tasks \union {None},
                    run : Runs \union {None}, clear : BOOLEAN, own : BOOLEAN],
         d.at # "idle" => d.item = draft[p].item /\ d.task = draft[p].task,
         Step(p, d), UNCHANGED <<fixed, stage, active>>,
         runs' = runs \/ runs' = Parted(draft[p].item, {draft[p].task}, draft[p].run)
  PROVE  /\ Types' /\ draft'[p] = d
         /\ \A r \in Runs : SameRun(r) /\ (runs'[r].own => runs[r].own)
         /\ \A q \in Procs \ {p} : /\ Finishes(q)' /\ DraftAgrees(q)' /\ ClearAgrees(q)'
                                   /\ draft'[q].at = draft[q].at /\ draft'[q].run = draft[q].run
  <1> DEFINE w == draft[p].item
             t == draft[p].task
  <1>1. On(w, t) /\ BoardsTyped /\ DraftsTyped /\ RunsTyped /\ stage' \in [Items -> ItemStages]
    BY DEF IInv, Types, DraftsTyped, BoardsTyped
  <1>2. /\ BoardsTyped'
        /\ \A v, u : On(v, u) => On(v, u)'
    <2>1. CASE board' = board
      BY <1>1, <2>1 DEF BoardsTyped, Readable, On
    <2>2. CASE board' # board
      BY <1>1, <2>2, MoveTasks
    <2>3. QED
      BY <2>1, <2>2
  <1>3. /\ \A r \in Runs : SameRun(r) /\ (runs'[r].own => runs[r].own)
        /\ runs' \in [Runs -> [status : {"none", "running", "completed", "cancelled"}, proc : Procs \union {None},
                        item : Items \union {None}, task : Tasks \union {None}, own : BOOLEAN, cut : BOOLEAN]]
    <2>1. CASE runs' = runs
      BY <1>1, <2>1 DEF SameRun, RunsTyped
    <2>2. CASE runs' = Parted(w, {t}, draft[p].run)
      BY <1>1, <2>2, PartedRuns
    <2>3. QED
      BY <2>1, <2>2
  <1>4. RunsTyped'
    BY <1>1, <1>2, <1>3 DEF RunsTyped, SameRun
  <1>5. /\ draft'[p] = d
        /\ \A q \in Procs \ {p} : draft'[q] = IF board' = board THEN draft[q] ELSE Noticed(w, {t})[q]
        /\ DOMAIN draft' = Procs /\ draft' = [x \in Procs |-> draft'[x]]
    <2>1. DOMAIN draft = Procs /\ DOMAIN Noticed(w, {t}) = Procs
      BY <1>1 DEF DraftsTyped, Noticed
    <2>2. CASE board' = board
      BY <2>1, <2>2, <1>1 DEF Step, DraftsTyped
    <2>3. CASE board' # board
      BY <2>1, <2>3 DEF Step, Noticed
    <2>4. QED
      BY <2>2, <2>3
  <1>6. ASSUME NEW q \in Procs \ {p}
        PROVE  /\ Finishes(q)' /\ DraftAgrees(q)' /\ ClearAgrees(q)'
               /\ draft'[q].at = draft[q].at /\ draft'[q].run = draft[q].run
               /\ draft'[q].item = draft[q].item /\ draft'[q].task = draft[q].task
    <2>1. CASE board' = board
      BY <1>3, <1>5, <2>1, DraftStays DEF IInv, Finishes
    <2>2. CASE board' # board
      <3>1. draft'[q] = Noticed(w, {t})[q] /\ StageWith(w, {t}) /\ Move(w, t, task)
        BY <1>5, <2>2 DEF StageWith
      <3>2. QED
        BY <1>3, <3>1, Watched DEF IInv
    <2>3. QED
      BY <2>1, <2>2
  <1>7. DraftsTyped'
    <2>1. ASSUME NEW q \in Procs
          PROVE  draft'[q] \in [at : DraftSteps, item : Items \union {None}, task : Tasks \union {None},
                                run : Runs \union {None}, clear : BOOLEAN, own : BOOLEAN]
      <3>1. draft[q] \in [at : DraftSteps, item : Items \union {None}, task : Tasks \union {None},
                          run : Runs \union {None}, clear : BOOLEAN, own : BOOLEAN]
        BY <1>1 DEF DraftsTyped
      <3>2. Noticed(w, {t})[q] \in [at : DraftSteps, item : Items \union {None}, task : Tasks \union {None},
                                run : Runs \union {None}, clear : BOOLEAN, own : BOOLEAN]
        BY <3>1 DEF Noticed
      <3>3. QED
        BY <1>5, <3>1, <3>2
    <2>2. ASSUME NEW q \in Procs, draft'[q].at # "idle"
          PROVE  draft'[q].item \in Items /\ draft'[q].task \in DOMAIN board'[draft'[q].item].tasks
      <3>1. PICK v, u : v = draft'[q].item /\ u = draft'[q].task
        OBVIOUS
      <3>2. CASE q = p
        BY <1>1, <1>2, <1>5, <2>2, <3>1, <3>2 DEF On
      <3>3. CASE q # p
        <4>1. v = draft[q].item /\ u = draft[q].task /\ draft[q].at # "idle"
          BY <1>6, <2>2, <3>1, <3>3
        <4>2. On(v, u)
          BY <1>1, <4>1 DEF DraftsTyped
        <4>3. QED
          BY <1>2, <3>1, <4>2 DEF On
      <3>4. QED
        BY <3>2, <3>3
    <2>3. QED
      BY <1>5, <2>1, <2>2 DEF DraftsTyped, On
  <1>8. PlanTyped'
    BY DEF IInv, Types, PlanTyped, fixed
  <1>9. QED
    BY <1>2, <1>3, <1>4, <1>5, <1>6, <1>7, <1>8 DEF Types

(* The active tasks after a move. *)
LEMMA ActiveAfter ==
  ASSUME BoardsTyped, NEW w, NEW t, NEW task, Move(w, t, task), stage' \in [Items -> ItemStages]
  PROVE  Active(w)' = IF task.status \in {"claimed", "in_progress", "qa_ready", "qa_in_progress"}
                      THEN Active(w) \union {t} ELSE Active(w) \ {t}
  <1>1. On(w, t) /\ w \in Items
    BY DEF Move, On
  <1>2. /\ DOMAIN board'[w].tasks = DOMAIN board[w].tasks /\ board'[w].tasks[t] = task
        /\ \A u \in DOMAIN board[w].tasks : u # t => board'[w].tasks[u] = board[w].tasks[u]
    BY <1>1, MoveTasks DEF On
  <1>3. QED
    BY <1>1, <1>2 DEF Active, ActiveTasks, On

(* The runs after a step of a process that is not completing one.          *)
LEMMA RunsAfterStep ==
  ASSUME IInv, NEW p \in Procs, draft[p].at # "finish", NEW w, NEW t, NEW task,
         board' = board \/ (Move(w, t, task) /\ Harmless(Status(w, t), task.status)),
         UNCHANGED stage, \A r \in Runs : SameRun(r) /\ (runs'[r].own => runs[r].own),
         \A q \in Procs \ {p} : draft'[q].at = draft[q].at /\ draft'[q].run = draft[q].run
  PROVE  \A r \in Runs : RunAgrees(r)'
  <1> SUFFICES ASSUME NEW r \in Runs PROVE RunAgrees(r)'
    OBVIOUS
  <1>1. AtFinish(r) => AtFinish(r)'
    BY DEF AtFinish
  <1>2. stage' \in [Items -> ItemStages] /\ Types /\ RunAgrees(r)
    BY DEF IInv, Types, BoardsTyped
  <1>3. QED
    BY <1>1, <1>2, RunStays, RunKept

(* What a process is in the middle of is a task of a board. *)
LEMMA DraftTask ==
  ASSUME Types, NEW p \in Procs, draft[p].at # "idle"
  PROVE  /\ On(draft[p].item, draft[p].task)
         /\ TaskOf(p) = board[draft[p].item].tasks[draft[p].task] /\ TaskOf(p) \in Task
         /\ Status(draft[p].item, draft[p].task) = TaskOf(p).status
         /\ draft[p].item \in Items /\ draft[p].task \in Tasks
         /\ draft[p] \in [at : DraftSteps, item : Items \union {None}, task : Tasks \union {None},
                          run : Runs \union {None}, clear : BOOLEAN, own : BOOLEAN]
  <1>1. On(draft[p].item, draft[p].task)
    BY DEF Types, DraftsTyped
  <1>2. QED
    BY <1>1, BoardTasks DEF On, TaskOf, Status, Types, DraftsTyped
-----------------------------------------------------------------------------
(* One lemma for every action.                                             *)

(* Choose: the limits hold and there is room for the task. *)
LEMMA ChooseKeeps ==
  ASSUME IInv, NEW p \in Procs, NEW w \in Items, Choose(p, w)
  PROVE  IInv'
  <1>1. PICK t \in Selected(w) :
          draft' = [draft EXCEPT ![p] = [Idle EXCEPT !.item = w, !.task = t, !.clear = (w = active),
                   !.at = IF stage[w] = "full_qa" \/ board[w].tasks[t].status \in {"qa_ready", "dev_done"}
                          THEN "assign" ELSE "claim"]]
    BY DEF Choose
  <1> DEFINE d == draft'[p]
  <1>2. t \in DOMAIN board[w].tasks /\ t \in Dispatchable(board[active]) /\ t \in Tasks
    BY <1>1, BoardTasks DEF Selected, Selectable, IInv, Types
  <1>3. /\ d.item = w /\ d.task = t /\ d.run = None /\ d.clear = (w = active) /\ d.own = FALSE
        /\ d.at = IF stage[w] = "full_qa" \/ board[w].tasks[t].status \in {"qa_ready", "dev_done"}
                  THEN "assign" ELSE "claim"
        /\ \A q \in Procs : q # p => draft'[q] = draft[q]
        /\ draft' \in [Procs -> [at : DraftSteps, item : Items \union {None}, task : Tasks \union {None},
                          run : Runs \union {None}, clear : BOOLEAN, own : BOOLEAN]]
    BY <1>1, <1>2 DEF IInv, Types, DraftsTyped, Idle, DraftSteps
  <1>4. UNCHANGED <<fixed, stage, board, active, runs>> /\ draft[p] = Idle
    BY DEF Choose
  <1>5. Types'
    <2>1. DraftsTyped'
      BY <1>2, <1>3, <1>4 DEF IInv, Types, DraftsTyped, On
    <2>2. QED
      BY <2>1, <1>4 DEF IInv, Types, BoardsTyped, Readable, RunsTyped, On, PlanTyped, fixed
  <1>6. \A q \in Procs \ {p} : Finishes(q)' /\ DraftAgrees(q)' /\ ClearAgrees(q)'
    BY <1>3, <1>4, DraftStays DEF IInv, SameRun
  <1>7. Finishes(p)' /\ DraftAgrees(p)'
    BY <1>3 DEF Finishes, DraftAgrees, Finishing
  <1>8. ClearAgrees(p)'
    <2> SUFFICES ASSUME w = active PROVE ClearAgrees(p)'
      BY <1>3 DEF ClearAgrees
    <2>1. Limits(Active(w)) /\ Room(Active(w), t)
      BY <1>2 DEF Choose, AllocationValid, Active, Dispatchable
    <2>2. IF board[w].stage = "full_qa" THEN Status(w, t) \in {"qa_ready", "dev_done"} ELSE Status(w, t) = "ready"
      BY <1>2 DEF Dispatchable, Status
    <2>3. d.at = "claim" => Status(w, t) = "ready"
      BY <1>3, <2>2 DEF Status
    <2>4. Status(w, t) \in {"ready", "dev_done", "qa_ready"}
      BY <2>2
    <2>5. QED
      BY <1>3, <1>4, <2>1, <2>3, <2>4
      DEF ClearAgrees, Active, Status, Within, Limits, Room, Outside, SharesFile, fixed
  <1>9. \A r \in Runs : RunAgrees(r)'
    <2>1. \A r \in Runs : AtFinish(r) => AtFinish(r)'
      BY <1>3, <1>4 DEF AtFinish, Idle
    <2>2. QED
      BY <1>4, <2>1, RunStays DEF IInv, SameRun
  <1>10. QED
    BY <1>5, <1>6, <1>7, <1>8, <1>9 DEF IInv

(* Claim: the task that is taken was nobody's to take. *)
LEMMA ClaimKeeps ==
  ASSUME IInv, NEW p \in Procs, Claim(p), NEW w, NEW t, w = draft[p].item, t = draft[p].task
  PROVE  IInv'
  <1> DEFINE task == TaskOf(p)
             taken == [task EXCEPT !.status = "claimed", !.dev = Agent]
             mine == task.dev \in {NoDev, Agent} /\ task.status \in {"ready", "blocked"}
             d == [draft[p] EXCEPT !.at = "begin", !.own = mine /\ Accepts(w, t, taken)]
  <1>1. /\ draft[p].at = "claim" /\ Command(w, t, taken, mine) /\ Step(p, d)
        /\ UNCHANGED <<fixed, stage, active, runs>>
    BY DEF Claim
  <1>2. /\ On(w, t) /\ task = board[w].tasks[t] /\ task \in Task /\ Status(w, t) = task.status
        /\ draft[p] \in [at : DraftSteps, item : Items \union {None}, task : Tasks \union {None},
                          run : Runs \union {None}, clear : BOOLEAN, own : BOOLEAN]
    BY <1>1, DraftTask DEF IInv
  <1>3. taken \in Task /\ taken.status = "claimed"
    BY <1>2, DelegationAssumption DEF Task, TaskStatuses, TaskMoves
  <1>4. board' = board \/ (mine /\ Move(w, t, taken) /\ Status(w, t) \in {"ready", "blocked"})
    BY <1>1, <1>2, <1>3, CommandMoves DEF IInv, Types
  <1>5. /\ d \in [at : DraftSteps, item : Items \union {None}, task : Tasks \union {None},
                  run : Runs \union {None}, clear : BOOLEAN, own : BOOLEAN]
        /\ d.at = "begin" /\ d.item = w /\ d.task = t /\ d.clear = draft[p].clear
        /\ d.own => mine /\ Accepts(w, t, taken)
    BY <1>2 DEF DraftSteps
  <1> HIDE DEF task, taken, mine, d
  <1>6. /\ Types' /\ draft'[p] = d
        /\ \A r \in Runs : SameRun(r) /\ (runs'[r].own => runs[r].own)
        /\ \A q \in Procs \ {p} : /\ Finishes(q)' /\ DraftAgrees(q)' /\ ClearAgrees(q)'
                                  /\ draft'[q].at = draft[q].at /\ draft'[q].run = draft[q].run
    BY <1>1, <1>4, <1>5, ProcessStep
  <1>7. \A r \in Runs : RunAgrees(r)'
    BY <1>1, <1>3, <1>4, <1>6, RunsAfterStep DEF Harmless, HandedOn
  <1>8. Finishes(p)'
    BY <1>5, <1>6 DEF Finishes, Finishing
  <1>9. Types /\ BoardsTyped /\ stage' \in [Items -> ItemStages] /\ PlanTyped /\ w \in Items
    BY <1>1, <1>2 DEF IInv, Types, BoardsTyped, On
  <1>10. DraftAgrees(p)'
    <2> SUFFICES ASSUME d.own PROVE DraftAgrees(p)'
      BY <1>6 DEF DraftAgrees
    <2>1. Move(w, t, taken)
      BY <1>1, <1>2, <1>3, <1>5 DEF Command, Move
    <2>2. board'[w].tasks[t] = taken
      BY <1>9, <2>1, MoveTasks
    <2>3. QED
      BY <1>3, <1>5, <1>6, <2>2 DEF DraftAgrees, Status
  <1>11. ClearAgrees(p)'
    <2> SUFFICES ASSUME draft[p].clear PROVE ClearAgrees(p)'
      BY <1>5, <1>6 DEF ClearAgrees
    <2>1. Limits(Active(w)) /\ Room(Active(w), t) /\ Status(w, t) = "ready"
      BY <1>1 DEF IInv, ClearAgrees
    <2>2. CASE board' = board
      <3>1. Active(w)' = Active(w) /\ Status(w, t)' = Status(w, t)
        BY <2>2 DEF Active, Status
      <3>2. Within(Active(w), t)
        BY <2>1 DEF Within
      <3>3. QED
        BY <1>1, <1>5, <1>6, <2>1, <3>1, <3>2 DEF ClearAgrees, Within, Limits, Outside, SharesFile, fixed
    <2>3. CASE Move(w, t, taken)
      <3>1. Active(w)' = Active(w) \union {t} /\ board'[w].tasks[t] = taken
        BY <1>3, <1>9, <2>3, ActiveAfter, MoveTasks
      <3>2. Within(Active(w) \union {t}, t)
        BY <1>9, <2>1, AddTask, BoardTasks
      <3>3. QED
        BY <1>1, <1>3, <1>5, <1>6, <3>1, <3>2
        DEF ClearAgrees, Status, Within, Limits, Outside, SharesFile, fixed
    <2>4. QED
      BY <1>4, <2>2, <2>3
  <1>12. QED
    BY <1>6, <1>7, <1>8, <1>10, <1>11 DEF IInv

(* Begin: a task is put in progress from claimed or blocked, never beside  *)
(* a run, and not in the QA stage.                                         *)
LEMMA BeginKeeps ==
  ASSUME IInv, NEW p \in Procs, Begin(p), NEW w, NEW t, w = draft[p].item, t = draft[p].task
  PROVE  IInv'
  <1> DEFINE task == Moved(TaskOf(p), "in_progress")
             d == [draft[p] EXCEPT !.at = "spawn", !.own = @ /\ board' # board]
  <1>1. /\ draft[p].at = "begin" /\ Advance(p, "in_progress") /\ Step(p, d)
        /\ UNCHANGED <<fixed, stage, active, runs>>
    BY DEF Begin
  <1>2. /\ On(w, t) /\ TaskOf(p) = board[w].tasks[t] /\ TaskOf(p) \in Task /\ Status(w, t) = TaskOf(p).status
        /\ draft[p] \in [at : DraftSteps, item : Items \union {None}, task : Tasks \union {None},
                          run : Runs \union {None}, clear : BOOLEAN, own : BOOLEAN]
    BY <1>1, DraftTask DEF IInv
  <1>3. Types /\ BoardsTyped /\ stage' \in [Items -> ItemStages] /\ PlanTyped /\ w \in Items
    BY <1>1, <1>2 DEF IInv, Types, BoardsTyped, On
  <1>4. task \in Task /\ task.status = "in_progress" /\ "in_progress" \in TaskStatuses
    BY <1>2, MovedTask DEF TaskStatuses, TaskMoves
  <1>5. \/ board' = board
        \/ Move(w, t, task) /\ board' # board /\ Status(w, t) \in {"claimed", "blocked"}
    BY <1>2, <1>3, <1>4, <1>1, AdvanceMoves, TransitionsFrom DEF QaFails
  <1>6. /\ d \in [at : DraftSteps, item : Items \union {None}, task : Tasks \union {None},
                  run : Runs \union {None}, clear : BOOLEAN, own : BOOLEAN]
        /\ d.at = "spawn" /\ d.item = w /\ d.task = t /\ d.clear = draft[p].clear
        /\ d.own => board' # board
    BY <1>2 DEF DraftSteps
  <1> HIDE DEF d
  <1>7. /\ Types' /\ draft'[p] = d
        /\ \A r \in Runs : SameRun(r) /\ (runs'[r].own => runs[r].own)
        /\ \A q \in Procs \ {p} : /\ Finishes(q)' /\ DraftAgrees(q)' /\ ClearAgrees(q)'
                                  /\ draft'[q].at = draft[q].at /\ draft'[q].run = draft[q].run
    BY <1>1, <1>5, <1>6, ProcessStep
  <1>8. \A r \in Runs : RunAgrees(r)'
    BY <1>1, <1>4, <1>5, <1>7, RunsAfterStep DEF Harmless, HandedOn
  <1>9. Finishes(p)'
    BY <1>6, <1>7 DEF Finishes, Finishing
  <1>10. DraftAgrees(p)'
    <2> SUFFICES ASSUME d.own PROVE DraftAgrees(p)'
      BY <1>7 DEF DraftAgrees
    <2>1. Move(w, t, task)
      BY <1>5, <1>6
    <2>2. board'[w].tasks[t] = task
      BY <1>3, <2>1, MoveTasks
    <2>3. stage[w] # "full_qa"
      <3>1. Apply(w, t, task)[t] = task /\ t \in DOMAIN Apply(w, t, task)
        BY <1>2 DEF Apply, On
      <3>2. QED
        BY <1>4, <2>1, <3>1 DEF Move, Accepts, BoardValid, AggregateRules, DependencySatisfied
    <2>4. QED
      BY <1>1, <1>4, <1>6, <1>7, <2>2, <2>3 DEF DraftAgrees, Status
  <1>11. ClearAgrees(p)'
    <2> SUFFICES ASSUME draft[p].clear PROVE ClearAgrees(p)'
      BY <1>6, <1>7 DEF ClearAgrees
    <2>1. Within(Active(w), t) /\ Status(w, t) \in {"ready", "claimed"}
      BY <1>1 DEF IInv, ClearAgrees
    <2>2. Active(w)' = Active(w)
      <3>1. CASE board' = board
        BY <3>1 DEF Active
      <3>2. CASE Move(w, t, task) /\ Status(w, t) \in {"claimed", "blocked"}
        <4>1. Active(w)' = Active(w) \union {t}
          BY <1>3, <1>4, <3>2, ActiveAfter
        <4>2. t \in Active(w)
          BY <1>2, <2>1, <3>2 DEF Active, ActiveTasks, Status, On
        <4>3. QED
          BY <4>1, <4>2
      <3>3. QED
        BY <1>5, <3>1, <3>2
    <2>3. QED
      BY <1>1, <1>6, <1>7, <2>1, <2>2 DEF ClearAgrees, Within, Limits, Outside, SharesFile, fixed
  <1>12. QED
    BY <1>7, <1>8, <1>9, <1>10, <1>11 DEF IInv

(* AssignQaOwner: no status changes. *)
LEMMA AssignQaOwnerKeeps ==
  ASSUME IInv, NEW p \in Procs, AssignQaOwner(p), NEW w, NEW t, w = draft[p].item, t = draft[p].task
  PROVE  IInv'
  <1> DEFINE task == [TaskOf(p) EXCEPT !.qa = TRUE]
             d == [draft[p] EXCEPT !.at = "qaReady"]
  <1>1. /\ draft[p].at = "assign" /\ Step(p, d)
        /\ UNCHANGED <<fixed, stage, active, runs>>
    BY DEF AssignQaOwner, Goes
  <1>2. /\ On(w, t) /\ TaskOf(p) = board[w].tasks[t] /\ TaskOf(p) \in Task /\ Status(w, t) = TaskOf(p).status
        /\ draft[p] \in [at : DraftSteps, item : Items \union {None}, task : Tasks \union {None},
                          run : Runs \union {None}, clear : BOOLEAN, own : BOOLEAN]
    BY <1>1, DraftTask DEF IInv
  <1>3. Types /\ BoardsTyped /\ stage' \in [Items -> ItemStages] /\ PlanTyped /\ w \in Items
    BY <1>1, <1>2 DEF IInv, Types, BoardsTyped, On
  <1>4. task \in Task /\ task.status = Status(w, t)
    BY <1>2 DEF Task
  <1>5. board' = board \/ Move(w, t, task)
    BY <1>2, <1>3, <1>4, CommandMoves DEF AssignQaOwner
  <1>6. /\ d \in [at : DraftSteps, item : Items \union {None}, task : Tasks \union {None},
                  run : Runs \union {None}, clear : BOOLEAN, own : BOOLEAN]
        /\ d.at = "qaReady" /\ d.own = FALSE /\ d.item = w /\ d.task = t /\ d.clear = draft[p].clear
    BY <1>1, <1>2, DelegationAssumption DEF DraftSteps, IInv, DraftAgrees, Idle
  <1> HIDE DEF task, d
  <1>7. /\ Types' /\ draft'[p] = d
        /\ \A r \in Runs : SameRun(r) /\ (runs'[r].own => runs[r].own)
        /\ \A q \in Procs \ {p} : /\ Finishes(q)' /\ DraftAgrees(q)' /\ ClearAgrees(q)'
                                  /\ draft'[q].at = draft[q].at /\ draft'[q].run = draft[q].run
    BY <1>1, <1>5, <1>6, ProcessStep
  <1>8. \A r \in Runs : RunAgrees(r)'
    BY <1>1, <1>4, <1>5, <1>7, RunsAfterStep DEF Harmless, HandedOn
  <1>9. Finishes(p)' /\ DraftAgrees(p)'
    BY <1>6, <1>7 DEF Finishes, Finishing, DraftAgrees
  <1>10. ClearAgrees(p)'
    <2> SUFFICES ASSUME draft[p].clear PROVE ClearAgrees(p)'
      BY <1>6, <1>7 DEF ClearAgrees
    <2>1. Limits(Active(w)) /\ Room(Active(w), t) /\ Status(w, t) \in {"ready", "dev_done", "qa_ready"}
      BY <1>1 DEF IInv, ClearAgrees
    <2>2. Active(w)' = Active(w) /\ Status(w, t)' = Status(w, t)
      <3>1. CASE board' = board
        BY <3>1 DEF Active, Status
      <3>2. CASE Move(w, t, task)
        <4>1. board'[w].tasks[t] = task
          BY <1>3, <3>2, MoveTasks
        <4>2. Active(w)' = IF task.status \in {"claimed", "in_progress", "qa_ready", "qa_in_progress"}
                           THEN Active(w) \union {t} ELSE Active(w) \ {t}
          BY <1>3, <3>2, ActiveAfter
        <4>3. t \in Active(w) <=> task.status \in {"claimed", "in_progress", "qa_ready", "qa_in_progress"}
          BY <1>2, <1>4 DEF Active, ActiveTasks, Status, On
        <4>4. QED
          BY <1>4, <4>1, <4>2, <4>3 DEF Status
      <3>3. QED
        BY <1>5, <3>1, <3>2
    <2>3. QED
      BY <1>1, <1>6, <1>7, <2>1, <2>2 DEF ClearAgrees, Limits, Room, Outside, SharesFile, fixed
  <1>11. QED
    BY <1>7, <1>8, <1>9, <1>10 DEF IInv

(* QaReady: a task that is done joins the active ones. *)
LEMMA QaReadyKeeps ==
  ASSUME IInv, NEW p \in Procs, QaReady(p), NEW w, NEW t, w = draft[p].item, t = draft[p].task
  PROVE  IInv'
  <1> DEFINE task == Moved(TaskOf(p), "qa_ready")
             d == [draft[p] EXCEPT !.at = "qaBegin"]
  <1>1. /\ draft[p].at = "qaReady" /\ Step(p, d)
        /\ UNCHANGED <<fixed, stage, active, runs>>
    BY DEF QaReady, Goes
  <1>2. /\ On(w, t) /\ TaskOf(p) = board[w].tasks[t] /\ TaskOf(p) \in Task /\ Status(w, t) = TaskOf(p).status
        /\ draft[p] \in [at : DraftSteps, item : Items \union {None}, task : Tasks \union {None},
                          run : Runs \union {None}, clear : BOOLEAN, own : BOOLEAN]
    BY <1>1, DraftTask DEF IInv
  <1>3. Types /\ BoardsTyped /\ stage' \in [Items -> ItemStages] /\ PlanTyped /\ w \in Items
    BY <1>1, <1>2 DEF IInv, Types, BoardsTyped, On
  <1>4. task \in Task /\ task.status = "qa_ready" /\ "qa_ready" \in TaskStatuses
    BY <1>2, MovedTask DEF TaskStatuses, TaskMoves
  <1>5. board' = board \/ (Move(w, t, task) /\ Status(w, t) = "dev_done")
    BY <1>1, <1>2, <1>3, <1>4, AdvanceMoves, TransitionsFrom DEF QaReady
  <1>6. /\ d \in [at : DraftSteps, item : Items \union {None}, task : Tasks \union {None},
                  run : Runs \union {None}, clear : BOOLEAN, own : BOOLEAN]
        /\ d.at = "qaBegin" /\ d.own = FALSE /\ d.item = w /\ d.task = t /\ d.clear = draft[p].clear
    BY <1>1, <1>2, DelegationAssumption DEF DraftSteps, IInv, DraftAgrees, Idle
  <1> HIDE DEF task, d
  <1>7. /\ Types' /\ draft'[p] = d
        /\ \A r \in Runs : SameRun(r) /\ (runs'[r].own => runs[r].own)
        /\ \A q \in Procs \ {p} : /\ Finishes(q)' /\ DraftAgrees(q)' /\ ClearAgrees(q)'
                                  /\ draft'[q].at = draft[q].at /\ draft'[q].run = draft[q].run
    BY <1>1, <1>5, <1>6, ProcessStep
  <1>8. \A r \in Runs : RunAgrees(r)'
    BY <1>1, <1>4, <1>5, <1>7, RunsAfterStep DEF Harmless, HandedOn
  <1>9. Finishes(p)' /\ DraftAgrees(p)'
    BY <1>6, <1>7 DEF Finishes, Finishing, DraftAgrees
  <1>10. ClearAgrees(p)'
    <2> SUFFICES ASSUME draft[p].clear PROVE ClearAgrees(p)'
      BY <1>6, <1>7 DEF ClearAgrees
    <2>1. Limits(Active(w)) /\ Room(Active(w), t) /\ Status(w, t) \in {"ready", "dev_done", "qa_ready"}
      BY <1>1 DEF IInv, ClearAgrees
    <2>2. CASE board' = board
      <3>1. Active(w)' = Active(w) /\ Status(w, t)' = Status(w, t)
        BY <2>2 DEF Active, Status
      <3>2. Within(Active(w), t)
        BY <2>1 DEF Within
      <3>3. QED
        BY <1>1, <1>6, <1>7, <2>1, <3>1, <3>2 DEF ClearAgrees, Within, Limits, Outside, SharesFile, fixed
    <2>3. CASE Move(w, t, task)
      <3>1. Active(w)' = Active(w) \union {t} /\ board'[w].tasks[t] = task
        BY <1>3, <1>4, <2>3, ActiveAfter, MoveTasks
      <3>2. Within(Active(w) \union {t}, t)
        BY <1>3, <2>1, AddTask, BoardTasks
      <3>3. QED
        BY <1>1, <1>4, <1>6, <1>7, <3>1, <3>2
        DEF ClearAgrees, Status, Within, Limits, Outside, SharesFile, fixed
    <2>4. QED
      BY <1>5, <2>2, <2>3
  <1>11. QED
    BY <1>7, <1>8, <1>9, <1>10 DEF IInv

(* QaBegin: the last step of a dispatch to QA. *)
LEMMA QaBeginKeeps ==
  ASSUME IInv, NEW p \in Procs, QaBegin(p), NEW w, NEW t, w = draft[p].item, t = draft[p].task
  PROVE  IInv'
  <1> DEFINE task == Moved(TaskOf(p), "qa_in_progress")
             d == Idle
  <1>1. /\ draft[p].at = "qaBegin" /\ Step(p, d)
        /\ UNCHANGED <<fixed, stage, active, runs>>
    BY DEF QaBegin, Goes
  <1>2. /\ On(w, t) /\ TaskOf(p) = board[w].tasks[t] /\ TaskOf(p) \in Task /\ Status(w, t) = TaskOf(p).status
        /\ draft[p] \in [at : DraftSteps, item : Items \union {None}, task : Tasks \union {None},
                          run : Runs \union {None}, clear : BOOLEAN, own : BOOLEAN]
    BY <1>1, DraftTask DEF IInv
  <1>3. Types /\ BoardsTyped /\ stage' \in [Items -> ItemStages] /\ PlanTyped /\ w \in Items
    BY <1>1, <1>2 DEF IInv, Types, BoardsTyped, On
  <1>4. task \in Task /\ task.status = "qa_in_progress" /\ "qa_in_progress" \in TaskStatuses
    BY <1>2, MovedTask DEF TaskStatuses, TaskMoves
  <1>5. board' = board \/ (Move(w, t, task) /\ Status(w, t) = "qa_ready")
    BY <1>1, <1>2, <1>3, <1>4, AdvanceMoves, TransitionsFrom DEF QaBegin
  <1>6. /\ d \in [at : DraftSteps, item : Items \union {None}, task : Tasks \union {None},
                  run : Runs \union {None}, clear : BOOLEAN, own : BOOLEAN]
        /\ d.at = "idle" /\ d.own = FALSE /\ d.clear = FALSE
    BY <1>1, <1>2, DelegationAssumption DEF DraftSteps, IInv, DraftAgrees, Idle
  <1> HIDE DEF task, d
  <1>7. /\ Types' /\ draft'[p] = d
        /\ \A r \in Runs : SameRun(r) /\ (runs'[r].own => runs[r].own)
        /\ \A q \in Procs \ {p} : /\ Finishes(q)' /\ DraftAgrees(q)' /\ ClearAgrees(q)'
                                  /\ draft'[q].at = draft[q].at /\ draft'[q].run = draft[q].run
    BY <1>1, <1>5, <1>6, ProcessStep
  <1>8. \A r \in Runs : RunAgrees(r)'
    BY <1>1, <1>4, <1>5, <1>7, RunsAfterStep DEF Harmless, HandedOn
  <1>9. Finishes(p)' /\ DraftAgrees(p)'
    BY <1>6, <1>7 DEF Finishes, Finishing, DraftAgrees
  <1>10. ClearAgrees(p)'
    BY <1>6, <1>7 DEF ClearAgrees
  <1>11. QED
    BY <1>7, <1>8, <1>9, <1>10 DEF IInv

(* The types where the boards stay: the drafts and the runs are typed, and *)
(* those that are about a task are about one on a board.                   *)
LEMMA StillTypes ==
  ASSUME Types, UNCHANGED <<fixed, stage, board, active>>,
         draft' \in [Procs -> [at : DraftSteps, item : Items \union {None}, task : Tasks \union {None},
                               run : Runs \union {None}, clear : BOOLEAN, own : BOOLEAN]],
         \A p \in Procs : draft'[p].at # "idle" => On(draft'[p].item, draft'[p].task),
         runs' \in [Runs -> [status : {"none", "running", "completed", "cancelled"}, proc : Procs \union {None},
                             item : Items \union {None}, task : Tasks \union {None}, own : BOOLEAN, cut : BOOLEAN]],
         \A r \in Runs : runs'[r].status # "none" => On(runs'[r].item, runs'[r].task)
  PROVE  Types'
  BY DEF Types, BoardsTyped, Readable, DraftsTyped, RunsTyped, On, PlanTyped, fixed

(* Spawn: the run has what its dispatch knew. *)
LEMMA SpawnKeeps ==
  ASSUME IInv, NEW p \in Procs, Spawn(p)
  PROVE  IInv'
  <1>1. PICK r \in Runs : runs[r] = NoRun /\ runs' = [runs EXCEPT ![r] = [status |-> "running", proc |-> p,
                            item |-> draft[p].item, task |-> draft[p].task, own |-> draft[p].own,
                            cut |-> FALSE]]
    BY DEF Spawn
  <1>2. /\ draft[p].at = "spawn" /\ draft' = [draft EXCEPT ![p] = Idle]
        /\ UNCHANGED <<fixed, stage, board, active>>
    BY DEF Spawn
  <1>3. /\ On(draft[p].item, draft[p].task) /\ draft[p].item \in Items /\ draft[p].task \in Tasks
        /\ draft[p].own \in BOOLEAN
    BY <1>2, DraftTask DEF IInv
  <1>4. /\ draft'[p] = Idle /\ \A q \in Procs \ {p} : draft'[q] = draft[q]
        /\ runs'[r] = [status |-> "running", proc |-> p, item |-> draft[p].item, task |-> draft[p].task,
                       own |-> draft[p].own, cut |-> FALSE]
        /\ \A s \in Runs \ {r} : runs'[s] = runs[s]
    BY <1>1, <1>2 DEF IInv, Types, DraftsTyped, RunsTyped
  <1>5. Types'
    <2>1. draft' \in [Procs -> [at : DraftSteps, item : Items \union {None}, task : Tasks \union {None},
                               run : Runs \union {None}, clear : BOOLEAN, own : BOOLEAN]]
      BY <1>2 DEF IInv, Types, DraftsTyped, Idle, DraftSteps
    <2>2. runs' \in [Runs -> [status : {"none", "running", "completed", "cancelled"}, proc : Procs \union {None},
                             item : Items \union {None}, task : Tasks \union {None}, own : BOOLEAN, cut : BOOLEAN]]
      BY <1>1, <1>3 DEF IInv, Types, RunsTyped
    <2>3. \A q \in Procs : draft'[q].at # "idle" => On(draft'[q].item, draft'[q].task)
      BY <1>4 DEF IInv, Types, DraftsTyped, Idle
    <2>4. \A s \in Runs : runs'[s].status # "none" => On(runs'[s].item, runs'[s].task)
      BY <1>3, <1>4 DEF IInv, Types, RunsTyped
    <2>5. QED
      BY <1>2, <2>1, <2>2, <2>3, <2>4, StillTypes DEF IInv
  <1>6. \A q \in Procs \ {p} : Finishes(q)' /\ DraftAgrees(q)' /\ ClearAgrees(q)'
    <2> SUFFICES ASSUME NEW q \in Procs \ {p} PROVE Finishes(q)' /\ DraftAgrees(q)' /\ ClearAgrees(q)'
      OBVIOUS
    <2>1. draft[q].at \in Finishing => draft[q].run # r /\ draft[q].run \in Runs
      BY <1>1 DEF IInv, Finishes, NoRun
    <2>2. QED
      BY <1>2, <1>4, <2>1, DraftStays DEF IInv, SameRun
  <1>7. Finishes(p)' /\ DraftAgrees(p)' /\ ClearAgrees(p)'
    BY <1>4 DEF Idle, Finishes, Finishing, DraftAgrees, ClearAgrees
  <1>8. ASSUME NEW s \in Runs PROVE RunAgrees(s)'
    <2>1. CASE s = r
      BY <1>2, <1>4, <2>1 DEF IInv, DraftAgrees, RunAgrees, Status
    <2>2. CASE s # r
      <3>1. AtFinish(s) => AtFinish(s)'
        BY <1>2, <1>4 DEF AtFinish
      <3>2. QED
        BY <1>2, <1>4, <2>2, <3>1, RunStays DEF IInv, SameRun
    <2>3. QED
      BY <2>1, <2>2
  <1>9. QED
    BY <1>5, <1>6, <1>7, <1>8 DEF IInv

(* SpawnOnly: the run owns no task. *)
LEMMA SpawnOnlyKeeps ==
  ASSUME IInv, NEW p \in Procs, NEW w \in Items, NEW t \in DOMAIN board[w].tasks, SpawnOnly(p, w, t)
  PROVE  IInv'
  <1> DEFINE new == [NoRun EXCEPT !.status = "running", !.proc = p, !.item = w, !.task = t]
  <1>1. PICK r \in Runs : runs[r] = NoRun /\ runs' = [runs EXCEPT ![r] = new]
    BY DEF SpawnOnly
  <1>2. UNCHANGED <<fixed, stage, board, active, draft>>
    BY DEF SpawnOnly
  <1>3. /\ new \in [status : {"none", "running", "completed", "cancelled"}, proc : Procs \union {None},
                    item : Items \union {None}, task : Tasks \union {None}, own : BOOLEAN, cut : BOOLEAN]
        /\ new.item = w /\ new.task = t /\ new.own = FALSE
    BY BoardTasks DEF NoRun, IInv, Types
  <1> HIDE DEF new
  <1>4. runs'[r] = new /\ \A s \in Runs \ {r} : runs'[s] = runs[s]
    BY <1>1 DEF IInv, Types, RunsTyped
  <1>5. Types'
    <2>1. runs' \in [Runs -> [status : {"none", "running", "completed", "cancelled"}, proc : Procs \union {None},
                             item : Items \union {None}, task : Tasks \union {None}, own : BOOLEAN, cut : BOOLEAN]]
      BY <1>1, <1>3 DEF IInv, Types, RunsTyped
    <2>2. \A s \in Runs : runs'[s].status # "none" => On(runs'[s].item, runs'[s].task)
      BY <1>3, <1>4 DEF IInv, Types, RunsTyped, On
    <2>3. QED
      BY <1>2, <2>1, <2>2, StillTypes DEF IInv, Types, DraftsTyped
  <1>6. ASSUME NEW q \in Procs PROVE Finishes(q)' /\ DraftAgrees(q)' /\ ClearAgrees(q)'
    <2>1. draft[q].at \in Finishing => draft[q].run # r /\ draft[q].run \in Runs
      BY <1>1 DEF IInv, Finishes, NoRun
    <2>2. QED
      BY <1>2, <1>4, <2>1, DraftStays DEF IInv, SameRun
  <1>7. ASSUME NEW s \in Runs PROVE RunAgrees(s)'
    <2>1. CASE s = r
      BY <1>3, <1>4, <2>1 DEF RunAgrees
    <2>2. CASE s # r
      BY <1>2, <1>4, <2>2, RunStays DEF IInv, SameRun, AtFinish
    <2>3. QED
      BY <2>1, <2>2
  <1>8. QED
    BY <1>5, <1>6, <1>7 DEF IInv

(* Cancel: nothing takes a task back from a cancelled run. *)
LEMMA CancelKeeps ==
  ASSUME IInv, NEW p \in Procs, NEW r \in Runs, Cancel(p, r)
  PROVE  IInv'
  <1>1. /\ draft[p] = Idle /\ runs[r].proc = p /\ runs[r].status \in {"running", "cancelled", "completed"}
        /\ UNCHANGED <<fixed, stage, board, active, draft>>
    BY DEF Cancel, Mine
  <1>2. /\ runs'[r].status = "cancelled" /\ runs'[r].proc = runs[r].proc /\ runs'[r].item = runs[r].item
        /\ runs'[r].task = runs[r].task /\ runs'[r].own = runs[r].own /\ runs'[r].cut = runs[r].cut
        /\ \A s \in Runs \ {r} : runs'[s] = runs[s]
        /\ runs' \in [Runs -> [status : {"none", "running", "completed", "cancelled"}, proc : Procs \union {None},
                             item : Items \union {None}, task : Tasks \union {None}, own : BOOLEAN, cut : BOOLEAN]]
    BY DEF Cancel, IInv, Types, RunsTyped
  <1>3. Types'
    <2>1. \A s \in Runs : runs'[s].status # "none" => On(runs'[s].item, runs'[s].task)
      BY <1>1, <1>2 DEF IInv, Types, RunsTyped
    <2>2. QED
      BY <1>1, <1>2, <2>1, StillTypes DEF IInv, Types, DraftsTyped
  <1>4. ASSUME NEW q \in Procs PROVE Finishes(q)' /\ DraftAgrees(q)' /\ ClearAgrees(q)'
    <2>1. draft[q].at \in Finishing => draft[q].run # r /\ draft[q].run \in Runs
      BY <1>1 DEF IInv, Finishes, Finishing, Idle
    <2>2. QED
      BY <1>1, <1>2, <2>1, DraftStays DEF IInv, SameRun
  <1>5. ASSUME NEW s \in Runs PROVE RunAgrees(s)'
    <2>1. CASE s = r
      <3> SUFFICES ASSUME runs'[s].own PROVE RunAgrees(s)'
        BY DEF RunAgrees
      <3>1. runs[s].own /\ RunAgrees(s)
        BY <1>2, <2>1 DEF IInv
      <3>2. ~runs[s].cut
        BY <1>1, <2>1, <3>1, DelegationAssumption DEF RunAgrees
      <3>3. ~runs'[s].cut
        BY <1>2, <2>1, <3>2
      <3>4. QED
        BY <1>1, <1>2, <2>1, <3>1, <3>3 DEF RunAgrees, Status
    <2>2. CASE s # r
      BY <1>1, <1>2, <2>2, RunStays DEF IInv, SameRun, AtFinish
    <2>3. QED
      BY <2>1, <2>2
  <1>6. QED
    BY <1>3, <1>4, <1>5 DEF IInv

(* Complete: the completion of the run is under way. *)
LEMMA CompleteKeeps ==
  ASSUME IInv, NEW p \in Procs, NEW r \in Runs, Complete(p, r)
  PROVE  IInv'
  <1> DEFINE d == [Idle EXCEPT !.at = "finish", !.item = runs[r].item, !.task = runs[r].task, !.run = r]
  <1>1. /\ draft[p] = Idle /\ runs[r].proc = p /\ runs[r].status \in {"running", "cancelled", "completed"}
        /\ UNCHANGED <<fixed, stage, board, active>> /\ draft' = [draft EXCEPT ![p] = d]
    BY DEF Complete, Mine
  <1>2. /\ runs'[r].status = "completed" /\ runs'[r].proc = runs[r].proc /\ runs'[r].item = runs[r].item
        /\ runs'[r].task = runs[r].task /\ runs'[r].own = runs[r].own /\ runs'[r].cut = runs[r].cut
        /\ \A s \in Runs \ {r} : runs'[s] = runs[s]
        /\ runs' \in [Runs -> [status : {"none", "running", "completed", "cancelled"}, proc : Procs \union {None},
                             item : Items \union {None}, task : Tasks \union {None}, own : BOOLEAN, cut : BOOLEAN]]
    BY DEF Complete, IInv, Types, RunsTyped
  <1>3. /\ d \in [at : DraftSteps, item : Items \union {None}, task : Tasks \union {None},
                  run : Runs \union {None}, clear : BOOLEAN, own : BOOLEAN]
        /\ d.at = "finish" /\ d.item = runs[r].item /\ d.task = runs[r].task /\ d.run = r
        /\ d.clear = FALSE /\ d.own = FALSE
    BY DEF Idle, DraftSteps, IInv, Types, RunsTyped
  <1> HIDE DEF d
  <1>4. draft'[p] = d /\ \A q \in Procs \ {p} : draft'[q] = draft[q]
    BY <1>1 DEF IInv, Types, DraftsTyped
  <1>5. Types'
    <2>1. \A s \in Runs : runs'[s].status # "none" => On(runs'[s].item, runs'[s].task)
      BY <1>1, <1>2 DEF IInv, Types, RunsTyped
    <2>2. draft' \in [Procs -> [at : DraftSteps, item : Items \union {None}, task : Tasks \union {None},
                               run : Runs \union {None}, clear : BOOLEAN, own : BOOLEAN]]
      BY <1>1, <1>3 DEF IInv, Types, DraftsTyped
    <2>3. \A q \in Procs : draft'[q].at # "idle" => On(draft'[q].item, draft'[q].task)
      BY <1>1, <1>3, <1>4 DEF IInv, Types, DraftsTyped, RunsTyped
    <2>4. QED
      BY <1>1, <1>2, <2>1, <2>2, <2>3, StillTypes DEF IInv
  <1>6. ASSUME NEW q \in Procs, q # p PROVE Finishes(q)' /\ DraftAgrees(q)' /\ ClearAgrees(q)'
    <2>1. draft[q].at \in Finishing => draft[q].run # r /\ draft[q].run \in Runs
      BY <1>1, <1>6 DEF IInv, Finishes, Finishing, Idle
    <2>2. QED
      BY <1>1, <1>2, <1>4, <1>6, <2>1, DraftStays DEF IInv, SameRun
  <1>7. Finishes(p)' /\ DraftAgrees(p)' /\ ClearAgrees(p)'
    BY <1>1, <1>2, <1>3, <1>4 DEF Finishes, DraftAgrees, ClearAgrees
  <1>8. ASSUME NEW s \in Runs PROVE RunAgrees(s)'
    <2>1. CASE s = r
      <3>1. AtFinish(s)'
        BY <1>3, <1>4, <2>1 DEF AtFinish
      <3> SUFFICES ASSUME runs'[s].own PROVE RunAgrees(s)'
        BY DEF RunAgrees
      <3>2. runs[s].own /\ RunAgrees(s)
        BY <1>2, <2>1 DEF IInv
      <3>3. ~runs[s].cut
        BY <1>1, <2>1, <3>2, DelegationAssumption DEF RunAgrees
      <3>4. ~runs'[s].cut
        BY <1>2, <2>1, <3>3
      <3>5. QED
        BY <1>1, <1>2, <2>1, <3>1, <3>2, <3>4 DEF RunAgrees, Status
    <2>2. CASE s # r
      <3>1. AtFinish(s) => AtFinish(s)'
        BY <1>1, <1>4 DEF AtFinish, Idle
      <3>2. QED
        BY <1>1, <1>2, <2>2, <3>1, RunStays DEF IInv, SameRun
    <2>3. QED
      BY <2>1, <2>2
  <1>9. QED
    BY <1>5, <1>6, <1>7, <1>8 DEF IInv

(* Finish: the completion of a run that owns its task is not refused.      *)
LEMMA FinishKeeps ==
  ASSUME IInv, NEW p \in Procs, Finish(p), NEW w, NEW t, NEW r,
         w = draft[p].item, t = draft[p].task, r = draft[p].run
  PROVE  IInv'
  <1> DEFINE task == Moved(TaskOf(p), "dev_done")
             d == IF board' = board THEN Idle ELSE [draft[p] EXCEPT !.at = "finishQa"]
  <1>1. /\ draft[p].at = "finish" /\ Step(p, d)
        /\ runs' = IF board' = board THEN runs ELSE Parted(w, {t}, r)
        /\ UNCHANGED <<fixed, stage, active>>
    BY DEF Finish, Goes
  <1>2. /\ On(w, t) /\ TaskOf(p) = board[w].tasks[t] /\ TaskOf(p) \in Task /\ Status(w, t) = TaskOf(p).status
        /\ draft[p] \in [at : DraftSteps, item : Items \union {None}, task : Tasks \union {None},
                          run : Runs \union {None}, clear : BOOLEAN, own : BOOLEAN]
    BY <1>1, DraftTask DEF IInv
  <1>3. /\ Types /\ BoardsTyped /\ RunsTyped /\ stage \in [Items -> ItemStages]
        /\ stage' \in [Items -> ItemStages] /\ PlanTyped /\ w \in Items
    BY <1>1, <1>2 DEF IInv, Types, BoardsTyped, On
  <1>4. task \in Task /\ task.status = "dev_done" /\ "dev_done" \in TaskStatuses
    BY <1>2, MovedTask DEF TaskStatuses, TaskMoves
  <1>5. board' = board \/ (Move(w, t, task) /\ Status(w, t) = "in_progress" /\ board' # board)
    BY <1>1, <1>2, <1>3, <1>4, AdvanceMoves, TransitionsFrom DEF Finish
  <1>6. /\ r \in Runs /\ runs[r].proc = p /\ runs[r].status = "completed"
        /\ runs[r].item = w /\ runs[r].task = t
    BY <1>1 DEF IInv, Finishes, Finishing
  <1>7. board' = board => Status(w, t) # "in_progress" \/ stage[w] = "full_qa"
    <2> SUFFICES ASSUME board' = board, Status(w, t) = "in_progress", stage[w] # "full_qa" PROVE FALSE
      OBVIOUS
    <2>1. TaskTransition(TaskOf(p), "dev_done") /\ Accepts(w, t, task)
      BY <1>2, <1>3, FinishAccepted
    <2>2. board' = Written(w, Apply(w, t, task))
      BY <1>1, <1>2, <2>1 DEF Finish, Advance, Command, QaFails
    <2>3. Move(w, t, task)
      BY <1>2, <1>4, <2>1, <2>2 DEF Move
    <2>4. board'[w].tasks[t] = task
      BY <1>3, <2>3, MoveTasks
    <2>5. QED
      BY <1>2, <1>4, <2>4
  <1>8. /\ d \in [at : DraftSteps, item : Items \union {None}, task : Tasks \union {None},
                  run : Runs \union {None}, clear : BOOLEAN, own : BOOLEAN]
        /\ d.own = FALSE
        /\ board' = board => d.at = "idle" /\ d.clear = FALSE
        /\ board' # board => d.at = "finishQa" /\ d.item = w /\ d.task = t /\ d.run = r /\ d.clear = draft[p].clear
    BY <1>1, <1>2, DelegationAssumption DEF DraftSteps, IInv, DraftAgrees, Idle
  <1> HIDE DEF task, d
  <1>9. /\ Types' /\ draft'[p] = d
        /\ \A s \in Runs : SameRun(s) /\ (runs'[s].own => runs[s].own)
        /\ \A q \in Procs \ {p} : /\ Finishes(q)' /\ DraftAgrees(q)' /\ ClearAgrees(q)'
                                  /\ draft'[q].at = draft[q].at /\ draft'[q].run = draft[q].run
    BY <1>1, <1>5, <1>8, ProcessStep
  <1>10. Finishes(p)' /\ DraftAgrees(p)' /\ ClearAgrees(p)'
    BY <1>6, <1>8, <1>9 DEF Finishes, Finishing, DraftAgrees, ClearAgrees, SameRun
  <1>11. ASSUME NEW s \in Runs PROVE RunAgrees(s)'
    <2>1. s # r => (AtFinish(s) => AtFinish(s)')
      BY <1>1, <1>9 DEF AtFinish
    <2>2. RunAgrees(s)
      BY DEF IInv
    <2>3. CASE board' = board
      <3>1. CASE s = r
        BY <1>1, <1>6, <1>7, <1>9, <2>2, <2>3, <3>1, DelegationAssumption DEF RunAgrees, SameRun, Status
      <3>2. CASE s # r
        BY <1>1, <1>9, <2>1, <2>2, <2>3, <3>2, RunStays
      <3>3. QED
        BY <3>1, <3>2
    <2>4. CASE Move(w, t, task) /\ Status(w, t) = "in_progress" /\ board' # board
      <3>1. CASE s = r
        <4>1. board'[w].tasks[t] = task
          BY <1>3, <2>4, MoveTasks
        <4>2. runs'[s].item = w /\ runs'[s].task = t /\ runs'[s].status = "completed"
          BY <1>6, <1>9, <3>1 DEF SameRun
        <4>3. QED
          <5>1. ~runs[s].cut \/ ~runs[s].own
            BY <1>6, <2>2, <3>1, DelegationAssumption DEF RunAgrees
          <5>2. QED
            BY <1>4, <1>9, <4>1, <4>2, <5>1 DEF RunAgrees, SameRun, Status, HandedOn
      <3>2. CASE s # r
        <4>1. PICK T : T = {t} /\ runs' = Parted(w, T, r)
          BY <1>1, <2>4
        <4>2. runs'[s].own => runs[s].own /\ (s = r \/ runs[s].item # w \/ runs[s].task \notin T)
          <5>1. RunsTyped /\ runs' = Parted(w, T, r)
            BY <1>3, <4>1
          <5>2. QED
            BY <5>1, PartedRuns
        <4>3. stage' = stage
          BY <1>1
        <4>4. QED
          BY <1>3, <1>9, <2>1, <2>2, <2>4, <3>2, <4>1, <4>2, <4>3, RunKept
      <3>3. QED
        BY <3>1, <3>2
    <2>5. QED
      BY <1>5, <2>3, <2>4
  <1>12. QED
    BY <1>9, <1>10, <1>11 DEF IInv

(* FinishQa: a task that is handed on is handed on further. *)
LEMMA FinishQaKeeps ==
  ASSUME IInv, NEW p \in Procs, FinishQa(p), NEW w, NEW t, w = draft[p].item, t = draft[p].task
  PROVE  IInv'
  <1> DEFINE task == Moved(TaskOf(p), "qa_ready")
  <1>1. /\ draft[p].at = "finishQa" /\ Step(p, Idle)
        /\ runs' = runs \/ runs' = Parted(w, {t}, draft[p].run)
        /\ UNCHANGED <<fixed, stage, active>>
    BY DEF FinishQa
  <1>2. /\ On(w, t) /\ TaskOf(p) = board[w].tasks[t] /\ TaskOf(p) \in Task /\ Status(w, t) = TaskOf(p).status
    BY <1>1, DraftTask DEF IInv
  <1>3. Types /\ BoardsTyped /\ stage' \in [Items -> ItemStages]
    BY <1>1, <1>2 DEF IInv, Types, BoardsTyped
  <1>4. task \in Task /\ task.status = "qa_ready" /\ "qa_ready" \in TaskStatuses
    BY <1>2, MovedTask DEF TaskStatuses, TaskMoves
  <1>5. board' = board \/ (Move(w, t, task) /\ Status(w, t) = "dev_done")
    BY <1>1, <1>2, <1>3, <1>4, AdvanceMoves, TransitionsFrom DEF FinishQa
  <1>6. /\ Idle \in [at : DraftSteps, item : Items \union {None}, task : Tasks \union {None},
                     run : Runs \union {None}, clear : BOOLEAN, own : BOOLEAN]
        /\ Idle.at = "idle" /\ Idle.own = FALSE /\ Idle.clear = FALSE
    BY DEF DraftSteps, Idle
  <1> HIDE DEF task
  <1>7. /\ Types' /\ draft'[p] = Idle
        /\ \A r \in Runs : SameRun(r) /\ (runs'[r].own => runs[r].own)
        /\ \A q \in Procs \ {p} : /\ Finishes(q)' /\ DraftAgrees(q)' /\ ClearAgrees(q)'
                                  /\ draft'[q].at = draft[q].at /\ draft'[q].run = draft[q].run
    BY <1>1, <1>5, <1>6, ProcessStep
  <1>8. \A r \in Runs : RunAgrees(r)'
    BY <1>1, <1>4, <1>5, <1>7, RunsAfterStep DEF Harmless, HandedOn
  <1>9. Finishes(p)' /\ DraftAgrees(p)' /\ ClearAgrees(p)'
    BY <1>6, <1>7 DEF Finishes, Finishing, DraftAgrees, ClearAgrees
  <1>10. QED
    BY <1>7, <1>8, <1>9 DEF IInv

(* Crash: the runs of the process stay as they are, and nobody's; one that *)
(* was being completed is cut when its task has not been moved.            *)
LEMMA CrashKeeps ==
  ASSUME IInv, NEW p \in Procs, Crash(p)
  PROVE  IInv'
  <1>1. draft' = [draft EXCEPT ![p] = Idle] /\ UNCHANGED <<fixed, stage, board, active>>
    BY DEF Crash
  <1>2. ASSUME NEW s \in Runs
        PROVE  /\ runs[s].proc # p => runs'[s] = runs[s]
               /\ runs[s].proc = p => /\ runs'[s].status = runs[s].status /\ runs'[s].item = runs[s].item
                                      /\ runs'[s].task = runs[s].task /\ runs'[s].own = runs[s].own
                                      /\ runs'[s].proc = None /\ runs'[s].cut = Unmoved(p, s)
               /\ runs'[s] \in [status : {"none", "running", "completed", "cancelled"}, proc : Procs \union {None},
                             item : Items \union {None}, task : Tasks \union {None}, own : BOOLEAN, cut : BOOLEAN]
    <2>1. /\ runs'[s] = IF runs[s].proc # p THEN runs[s]
                        ELSE [runs[s] EXCEPT !.proc = None, !.cut = Unmoved(p, s)]
          /\ runs[s] \in [status : {"none", "running", "completed", "cancelled"}, proc : Procs \union {None},
                             item : Items \union {None}, task : Tasks \union {None}, own : BOOLEAN, cut : BOOLEAN]
      BY DEF Crash, IInv, Types, RunsTyped
    <2>2. Unmoved(p, s) \in BOOLEAN
      BY DEF Unmoved
    <2>3. QED
      BY <2>1, <2>2
  <1>3. draft'[p] = Idle /\ \A q \in Procs \ {p} : draft'[q] = draft[q]
    BY <1>1 DEF IInv, Types, DraftsTyped
  <1>4. Types'
    <2>1. runs' \in [Runs -> [status : {"none", "running", "completed", "cancelled"}, proc : Procs \union {None},
                             item : Items \union {None}, task : Tasks \union {None}, own : BOOLEAN, cut : BOOLEAN]]
      BY <1>2 DEF Crash
    <2>2. \A s \in Runs : runs'[s].status # "none" => On(runs'[s].item, runs'[s].task)
      BY <1>2 DEF IInv, Types, RunsTyped
    <2>3. draft' \in [Procs -> [at : DraftSteps, item : Items \union {None}, task : Tasks \union {None},
                               run : Runs \union {None}, clear : BOOLEAN, own : BOOLEAN]]
      BY <1>1 DEF IInv, Types, DraftsTyped, Idle, DraftSteps
    <2>4. \A q \in Procs : draft'[q].at # "idle" => On(draft'[q].item, draft'[q].task)
      BY <1>3 DEF IInv, Types, DraftsTyped, Idle
    <2>5. QED
      BY <1>1, <2>1, <2>2, <2>3, <2>4, StillTypes DEF IInv
  <1>5. ASSUME NEW q \in Procs, q # p PROVE Finishes(q)' /\ DraftAgrees(q)' /\ ClearAgrees(q)'
    <2>1. draft[q].at \in Finishing => draft[q].run \in Runs /\ runs[draft[q].run].proc # p
      BY <1>5 DEF IInv, Finishes
    <2>2. QED
      BY <1>1, <1>2, <1>3, <1>5, <2>1, DraftStays DEF IInv, SameRun
  <1>6. Finishes(p)' /\ DraftAgrees(p)' /\ ClearAgrees(p)'
    BY <1>3 DEF Idle, Finishes, Finishing, DraftAgrees, ClearAgrees
  <1>7. ASSUME NEW s \in Runs PROVE RunAgrees(s)'
    <2> SUFFICES ASSUME runs'[s].own PROVE RunAgrees(s)'
      BY DEF RunAgrees
    <2>1. /\ runs[s].own /\ RunAgrees(s) /\ Status(runs[s].item, runs[s].task)' = Status(runs[s].item, runs[s].task)
          /\ stage' = stage
      BY <1>1, <1>2 DEF IInv, Status
    <2>2. CASE runs[s].proc # p
      <3>1. AtFinish(s) => AtFinish(s)'
        <4> SUFFICES ASSUME NEW q \in Procs, draft[q].at = "finish", draft[q].run = s PROVE AtFinish(s)'
          BY DEF AtFinish
        <4>1. runs[s].proc = q
          BY DEF IInv, Finishes, Finishing
        <4>2. QED
          BY <1>3, <2>2, <4>1 DEF AtFinish
      <3>2. QED
        BY <1>2, <2>1, <2>2, <3>1 DEF RunAgrees, Status
    <2>3. CASE runs[s].proc = p
      <3>1. AtFinish(s) => draft[p].at = "finish" /\ draft[p].run = s
        BY <2>3 DEF AtFinish, IInv, Finishes, Finishing
      <3>2. ~runs[s].cut
        BY <2>1, <2>3, DelegationAssumption DEF RunAgrees
      <3>3. AtFinish(s) => /\ runs[s].status = "completed"
                           /\ TaskOf(p).status = Status(runs[s].item, runs[s].task)
        BY <3>1 DEF IInv, Finishes, Finishing, TaskOf, Status
      <3>4. Unmoved(p, s) => AtFinish(s)
        BY DEF Unmoved, AtFinish
      <3>5. QED
        BY <1>2, <2>1, <2>3, <3>1, <3>2, <3>3, <3>4 DEF RunAgrees, Status, Unmoved
    <2>4. QED
      BY <2>2, <2>3
  <1>8. QED
    BY <1>4, <1>5, <1>6, <1>7 DEF IInv

(* A command of a person, of which everybody else is told. *)
LEMMA PersonMove ==
  ASSUME IInv, NEW w, NEW t, NEW task, NEW T, Move(w, t, task), t \in T, StageWith(w, T),
         runs' = Parted(w, T, None), draft' = Noticed(w, T), UNCHANGED <<fixed, active>>
  PROVE  IInv'
  <1>1. /\ Types /\ BoardsTyped /\ DraftsTyped /\ RunsTyped /\ w \in Items
        /\ stage' \in [Items -> ItemStages]
    BY StageTyped DEF IInv, Types, Move, On
  <1>2. /\ \A r \in Runs : SameRun(r)
        /\ \A r \in Runs : runs'[r].own => runs[r].own /\ (runs[r].item # w \/ runs[r].task \notin T)
        /\ runs' \in [Runs -> [status : {"none", "running", "completed", "cancelled"}, proc : Procs \union {None},
                        item : Items \union {None}, task : Tasks \union {None}, own : BOOLEAN, cut : BOOLEAN]]
    BY <1>1, PartedRuns, DelegationAssumption
  <1>3. ASSUME NEW q \in Procs
        PROVE  /\ Finishes(q)' /\ DraftAgrees(q)' /\ ClearAgrees(q)'
               /\ draft'[q].at = draft[q].at /\ draft'[q].run = draft[q].run
               /\ draft'[q].item = draft[q].item /\ draft'[q].task = draft[q].task
    <2>1. draft'[q] = Noticed(w, T)[q] /\ Finishes(q) /\ DraftAgrees(q) /\ ClearAgrees(q) /\ UNCHANGED fixed
      BY DEF IInv
    <2>2. QED
      BY <1>1, <1>2, <2>1, Watched
  <1>4. BoardsTyped' /\ \A v, u : On(v, u) => On(v, u)'
    BY <1>1, MoveTasks
  <1>5. DraftsTyped'
    <2>1. ASSUME NEW q \in Procs
          PROVE  draft'[q] \in [at : DraftSteps, item : Items \union {None}, task : Tasks \union {None},
                                run : Runs \union {None}, clear : BOOLEAN, own : BOOLEAN]
      <3>1. draft[q] \in [at : DraftSteps, item : Items \union {None}, task : Tasks \union {None},
                          run : Runs \union {None}, clear : BOOLEAN, own : BOOLEAN]
        BY <1>1 DEF DraftsTyped
      <3>2. QED
        BY <3>1 DEF Noticed
    <2>2. ASSUME NEW q \in Procs, draft'[q].at # "idle"
          PROVE  draft'[q].item \in Items /\ draft'[q].task \in DOMAIN board'[draft'[q].item].tasks
      <3>1. PICK v, u : v = draft[q].item /\ u = draft[q].task
        OBVIOUS
      <3>2. On(v, u)
        BY <1>1, <1>3, <2>2, <3>1 DEF DraftsTyped
      <3>3. QED
        BY <1>3, <1>4, <3>1, <3>2 DEF On
    <2>3. draft' = [q \in Procs |-> draft'[q]]
      BY DEF Noticed
    <2>4. QED
      BY <2>1, <2>2, <2>3 DEF DraftsTyped, On
  <1>6. RunsTyped'
    <2>1. ASSUME NEW r \in Runs, runs'[r].status # "none"
          PROVE  runs'[r].item \in Items /\ runs'[r].task \in DOMAIN board'[runs'[r].item].tasks
      <3>1. PICK v, u : v = runs[r].item /\ u = runs[r].task
        OBVIOUS
      <3>2. On(v, u) /\ v = runs'[r].item /\ u = runs'[r].task
        BY <1>1, <1>2, <2>1, <3>1 DEF RunsTyped, SameRun
      <3>3. QED
        BY <1>4, <3>2 DEF On
    <2>2. QED
      BY <1>2, <2>1 DEF RunsTyped, On
  <1>7. PlanTyped'
    BY DEF IInv, Types, PlanTyped, fixed
  <1>8. ASSUME NEW r \in Runs PROVE RunAgrees(r)'
    <2> SUFFICES ASSUME runs'[r].own PROVE RunAgrees(r)'
      BY DEF RunAgrees
    <2>1. AtFinish(r) => AtFinish(r)'
      BY <1>3 DEF AtFinish
    <2>2. RunAgrees(r) /\ runs[r].own /\ (runs[r].item # w \/ runs[r].task \notin T)
      BY <1>2 DEF IInv
    <2>3. On(runs[r].item, runs[r].task) /\ runs[r].item \in Items /\ runs[r].task \in Tasks
      BY <1>1, <2>2, BoardTasks DEF RunAgrees, RunsTyped, On
    <2>4. stage'[runs[r].item] = "full_qa" => stage[runs[r].item] = "full_qa"
      <3>1. CASE runs[r].item = w
        <4>1. T # Tasks
          BY <2>2, <2>3, <3>1
        <4>2. QED
          BY <1>1, <3>1, <4>1, StageTyped
      <3>2. CASE runs[r].item # w
        BY <1>1, <2>3, <3>2, StageTyped
      <3>3. QED
        BY <3>1, <3>2
    <2>5. QED
      BY <1>1, <1>2, <2>1, <2>2, <2>4, RunKept
  <1>9. QED
    BY <1>3, <1>4, <1>5, <1>6, <1>7, <1>8 DEF IInv, Types

(* Handle: one command on one task. *)
LEMMA HandleKeeps ==
  ASSUME IInv, NEW w \in Items, NEW t \in DOMAIN board[w].tasks, Handle(w, t)
  PROVE  IInv'
  <1>1. PICK task \in Changes(board[w].tasks[t]) :
          Accepts(w, t, task) /\ board' = Written(w, Apply(w, t, task))
    BY DEF Handle
  <1>2. board[w].tasks[t] \in Task
    BY BoardTasks DEF IInv, Types
  <1>3. task \in Task
    <2> DEFINE b == board[w].tasks[t]
    <2>1. b.status \in TaskStatuses /\ TaskMoves[b.status] \subseteq TaskStatuses
      BY <1>2 DEF Task, TaskMoves, TaskStatuses
    <2>2. \A s \in TaskMoves[b.status] : Moved(b, s) \in Task
      BY <1>2, <2>1, MovedTask
    <2>3. [b EXCEPT !.qa = TRUE] \in Task
      BY <1>2 DEF Task
    <2>4. {"ready", "claimed"} \subseteq TaskStatuses
      BY DEF TaskMoves, TaskStatuses
    <2>5. \A d \in Devs : [b EXCEPT !.dev = d, !.status = IF @ = "ready" THEN "claimed" ELSE @] \in Task
      BY <1>2, <2>1, <2>4 DEF Task
    <2>6. [b EXCEPT !.dev = NoDev, !.status = IF @ = "claimed" THEN "ready" ELSE @] \in Task
      BY <1>2, <2>1, <2>4 DEF Task
    <2>7. QED
      BY <1>1, <2>2, <2>3, <2>5, <2>6 DEF Changes
  <1>4. Move(w, t, task) /\ StageWith(w, {t}) /\ UNCHANGED <<fixed, active>>
    BY <1>1, <1>3 DEF Move, On, StageWith, Handle, Person
  <1>5. PICK T : T = {t}
    OBVIOUS
  <1>6. t \in T /\ StageWith(w, T) /\ runs' = Parted(w, T, None) /\ draft' = Noticed(w, T)
    BY <1>4, <1>5 DEF Handle
  <1>7. QED
    BY <1>4, <1>6, PersonMove

(* SendBack: with the QA stage, all of the item is told. *)
LEMMA SendBackKeeps ==
  ASSUME IInv, NEW w \in Items, NEW t \in DOMAIN board[w].tasks, SendBack(w, t)
  PROVE  IInv'
  <1>1. PICK x \in {"claimed", "in_progress"}, s \in {"full_qa", "full_implementation"} :
          LET task == Moved(board[w].tasks[t], x) IN
          /\ Accepts(w, t, task)
          /\ board' = Written(w, Apply(w, t, task))
          /\ stage' = [stage EXCEPT ![w] = s]
          /\ runs' = Parted(w, Blocked(t, s), None)
          /\ draft' = Noticed(w, Blocked(t, s))
    BY DEF SendBack
  <1>2. board[w].tasks[t] \in Task /\ t \in Tasks
    BY BoardTasks DEF IInv, Types
  <1>3. Moved(board[w].tasks[t], x) \in Task
    BY <1>2, MovedTask DEF TaskStatuses, TaskMoves
  <1>4. PICK T : T = Blocked(t, s)
    OBVIOUS
  <1>5. t \in T /\ StageWith(w, T)
    BY <1>1, <1>2, <1>4 DEF StageWith, Blocked, ItemStages
  <1>6. Move(w, t, Moved(board[w].tasks[t], x)) /\ UNCHANGED <<fixed, active>>
    BY <1>1, <1>3 DEF Move, On, SendBack, Person
  <1>7. QED
    BY <1>1, <1>4, <1>5, <1>6, PersonMove

(* The drafts stay where they are, and nobody is undisturbed that was not. *)
LEMMA OnlyDisturbed ==
  ASSUME IInv, UNCHANGED <<fixed, board, runs>>, stage' \in [Items -> ItemStages], active' \in Items,
         draft' \in [Procs -> [at : DraftSteps, item : Items \union {None}, task : Tasks \union {None},
                               run : Runs \union {None}, clear : BOOLEAN, own : BOOLEAN]],
         \A q \in Procs : /\ draft'[q].at = draft[q].at /\ draft'[q].run = draft[q].run
                          /\ draft'[q].item = draft[q].item /\ draft'[q].task = draft[q].task
                          /\ draft'[q].own = draft[q].own /\ (draft'[q].clear => draft[q].clear),
         \A v, u : On(v, u) /\ Status(v, u) = "in_progress" /\ stage[v] # "full_qa" => stage'[v] # "full_qa"
  PROVE  IInv'
  <1>1. Types'
    BY DEF IInv, Types, BoardsTyped, Readable, DraftsTyped, RunsTyped, On, PlanTyped, fixed
  <1>2. ASSUME NEW q \in Procs PROVE Finishes(q)' /\ DraftAgrees(q)' /\ ClearAgrees(q)'
    <2>1. Finishes(q)'
      BY DEF IInv, Finishes
    <2>2. DraftAgrees(q)'
      <3> SUFFICES ASSUME draft[q].own PROVE DraftAgrees(q)'
        BY DEF DraftAgrees
      <3>1. DraftAgrees(q) /\ draft[q].at # "idle"
        BY DEF IInv, DraftAgrees
      <3>2. On(draft[q].item, draft[q].task) /\ draft[q].item \in Items
        BY <3>1, DraftTask DEF IInv
      <3>3. QED
        BY <3>1, <3>2 DEF DraftAgrees, Status
    <2>3. ClearAgrees(q)'
      <3>1. ClearAgrees(q)
        BY DEF IInv
      <3>2. QED
        BY <3>1 DEF ClearAgrees, Active, Status, Within, Limits, Room, Outside, SharesFile, fixed
    <2>4. QED
      BY <2>1, <2>2, <2>3
  <1>3. ASSUME NEW r \in Runs PROVE RunAgrees(r)'
    <2> SUFFICES ASSUME runs[r].own PROVE RunAgrees(r)'
      BY DEF RunAgrees
    <2>1. RunAgrees(r)
      BY DEF IInv
    <2>2. On(runs[r].item, runs[r].task) /\ runs[r].item \in Items
      BY <2>1 DEF IInv, Types, RunsTyped, RunAgrees, On
    <2>3. QED
      BY <2>1, <2>2 DEF RunAgrees, Status, AtFinish
  <1>4. QED
    BY <1>1, <1>2, <1>3 DEF IInv

(* MoveStage: the QA stage takes no board with a task in progress. *)
LEMMA MoveStageKeeps ==
  ASSUME IInv, NEW w \in Items, MoveStage(w)
  PROVE  IInv'
  <1>1. /\ UNCHANGED <<fixed, board, runs, active>> /\ active' \in Items
        /\ draft' = [q \in Procs |-> IF draft[q].item = w THEN [draft[q] EXCEPT !.clear = FALSE] ELSE draft[q]]
    BY DEF MoveStage, Person, IInv, Types, PlanTyped
  <1>2. PICK s \in ItemStages : /\ stage' = [stage EXCEPT ![w] = s]
                                /\ s = "full_qa" => BoardValid(board[w].tasks, "full_qa")
    BY DEF MoveStage, ItemStages, FitForStage
  <1>3. stage' \in [Items -> ItemStages]
    BY <1>2 DEF IInv, Types, BoardsTyped
  <1>4. /\ draft' \in [Procs -> [at : DraftSteps, item : Items \union {None}, task : Tasks \union {None},
                               run : Runs \union {None}, clear : BOOLEAN, own : BOOLEAN]]
        /\ \A q \in Procs : /\ draft'[q].at = draft[q].at /\ draft'[q].run = draft[q].run
                            /\ draft'[q].item = draft[q].item /\ draft'[q].task = draft[q].task
                            /\ draft'[q].own = draft[q].own /\ (draft'[q].clear => draft[q].clear)
    BY <1>1 DEF IInv, Types, DraftsTyped
  <1>5. ASSUME NEW v, NEW u, On(v, u), Status(v, u) = "in_progress", stage[v] # "full_qa"
        PROVE  stage'[v] # "full_qa"
    <2>1. CASE v = w
      BY <1>2, <1>5, <2>1 DEF On, Status, BoardValid, AggregateRules, DependencySatisfied, IInv, Types, BoardsTyped
    <2>2. CASE v # w
      BY <1>2, <1>5, <2>2 DEF IInv, Types, BoardsTyped, On
    <2>3. QED
      BY <2>1, <2>2
  <1>6. QED
    BY <1>1, <1>3, <1>4, <1>5, OnlyDisturbed

(* Select: another item is the active one. *)
LEMMA SelectKeeps ==
  ASSUME IInv, NEW w \in Items, Select(w)
  PROVE  IInv'
  <1>1. /\ UNCHANGED <<fixed, board, runs, stage>> /\ active' \in Items
        /\ draft' = [q \in Procs |-> [draft[q] EXCEPT !.clear = FALSE]]
    BY DEF Select, Person
  <1>2. /\ draft' \in [Procs -> [at : DraftSteps, item : Items \union {None}, task : Tasks \union {None},
                               run : Runs \union {None}, clear : BOOLEAN, own : BOOLEAN]]
        /\ \A q \in Procs : /\ draft'[q].at = draft[q].at /\ draft'[q].run = draft[q].run
                            /\ draft'[q].item = draft[q].item /\ draft'[q].task = draft[q].task
                            /\ draft'[q].own = draft[q].own /\ (draft'[q].clear => draft[q].clear)
    BY <1>1 DEF IInv, Types, DraftsTyped
  <1>3. QED
    BY <1>1, <1>2, OnlyDisturbed DEF IInv, Types, BoardsTyped
-----------------------------------------------------------------------------
(* The invariant holds to begin with: nobody dispatches, nothing runs. *)
LEMMA InitInvariant == Init => IInv
  <1> SUFFICES ASSUME Init PROVE IInv
    OBVIOUS
  <1>1. Types
    <2>1. BoardsTyped
      <3>1. board \in [Items -> [stage : ItemStages, tasks : TaskSets]]
        BY DelegationAssumption DEF Init
      <3>2. stage \in [Items -> ItemStages]
        BY <3>1 DEF Init
      <3>3. QED
        BY <3>1, <3>2 DEF Init, BoardsTyped
    <2>2. DraftsTyped
      BY DEF Init, DraftsTyped, Idle, DraftSteps
    <2>3. RunsTyped
      BY DEF Init, RunsTyped, NoRun
    <2>4. QED
      BY <2>1, <2>2, <2>3 DEF Init, Types, PlanTyped
  <1>2. \A p \in Procs : Finishes(p) /\ DraftAgrees(p) /\ ClearAgrees(p)
    BY DEF Init, Idle, Finishes, Finishing, DraftAgrees, ClearAgrees
  <1>3. \A r \in Runs : RunAgrees(r)
    BY DEF Init, NoRun, RunAgrees
  <1>4. QED
    BY <1>1, <1>2, <1>3 DEF IInv

(* Every step keeps the invariant. *)
LEMMA NextInvariant == IInv /\ [Next]_vars => IInv'
  <1> SUFFICES ASSUME IInv, [Next]_vars PROVE IInv'
    OBVIOUS
  <1>1. ASSUME NEW p \in Procs, NEW w \in Items, Choose(p, w) PROVE IInv'
    BY <1>1, ChooseKeeps
  <1>2. ASSUME NEW p \in Procs, NEW w \in Items, NEW t \in DOMAIN board[w].tasks, SpawnOnly(p, w, t) PROVE IInv'
    BY <1>2, SpawnOnlyKeeps
  <1>3. ASSUME NEW p \in Procs, Claim(p) PROVE IInv'
    BY <1>3, ClaimKeeps
  <1>4. ASSUME NEW p \in Procs, Begin(p) PROVE IInv'
    BY <1>4, BeginKeeps
  <1>5. ASSUME NEW p \in Procs, Spawn(p) PROVE IInv'
    BY <1>5, SpawnKeeps
  <1>6. ASSUME NEW p \in Procs, AssignQaOwner(p) PROVE IInv'
    BY <1>6, AssignQaOwnerKeeps
  <1>7. ASSUME NEW p \in Procs, QaReady(p) PROVE IInv'
    BY <1>7, QaReadyKeeps
  <1>8. ASSUME NEW p \in Procs, QaBegin(p) PROVE IInv'
    BY <1>8, QaBeginKeeps
  <1>9. ASSUME NEW p \in Procs, NEW r \in Runs, Complete(p, r) \/ Cancel(p, r) PROVE IInv'
    BY <1>9, CompleteKeeps, CancelKeeps
  <1>10. ASSUME NEW p \in Procs, Finish(p) PROVE IInv'
    BY <1>10, FinishKeeps
  <1>11. ASSUME NEW p \in Procs, FinishQa(p) PROVE IInv'
    BY <1>11, FinishQaKeeps
  <1>12. ASSUME NEW p \in Procs, Crash(p) PROVE IInv'
    BY <1>12, CrashKeeps
  <1>13. ASSUME NEW w \in Items, NEW t \in DOMAIN board[w].tasks, Handle(w, t) \/ SendBack(w, t) PROVE IInv'
    BY <1>13, HandleKeeps, SendBackKeeps
  <1>14. ASSUME NEW w \in Items, MoveStage(w) \/ Select(w) PROVE IInv'
    BY <1>14, MoveStageKeeps, SelectKeeps
  <1>15. CASE UNCHANGED vars
    <2>1. UNCHANGED <<fixed, board, runs, stage, active, draft>>
      BY <1>15 DEF vars, fixed
    <2>2. QED
      BY <2>1, OnlyDisturbed DEF IInv, Types, BoardsTyped, DraftsTyped, PlanTyped
  <1>16. QED
    BY <1>1, <1>2, <1>3, <1>4, <1>5, <1>6, <1>7, <1>8, <1>9, <1>10, <1>11, <1>12, <1>13, <1>14, <1>15
    DEF Next, Dispatch

(* The invariant of delegation. *)
THEOREM DelegationInvariant == Spec => []IInv
  BY InitInvariant, NextInvariant, PTL DEF Spec

(* A run and the task it took agree, for every number of items, tasks,     *)
(* processes, runs, moves and deaths, and whatever the tasks are           *)
(* (delegation-supervisor.js:306, background-manager.js:48).               *)
THEOREM RunsAndTasksAgree == Spec => []RunAndTaskAgree
  <1>1. IInv => RunAndTaskAgree
    BY DEF IInv, RunAgrees, AtFinish, RunAndTaskAgree, Status, HandedOn
  <1>2. QED
    BY <1>1, DelegationInvariant, PTL
-----------------------------------------------------------------------------
(* Who is told of a move goes on where it is. *)
LEMMA ToldStays ==
  ASSUME DraftsTyped, NEW p \in Procs, NEW w, NEW T
  PROVE  Noticed(w, T)[p].at = draft[p].at
  <1>1. draft[p] \in [at : DraftSteps, item : Items \union {None}, task : Tasks \union {None},
                      run : Runs \union {None}, clear : BOOLEAN, own : BOOLEAN]
    BY DEF DraftsTyped
  <1>2. QED
    BY <1>1 DEF Noticed

(* A step of one process leaves the others where they are. *)
LEMMA OthersStay ==
  ASSUME DraftsTyped, NEW p \in Procs, NEW q \in Procs, q # p, NEW d, Step(q, d)
  PROVE  draft'[p].at = draft[p].at
  <1>1. DOMAIN draft = Procs /\ DOMAIN Noticed(draft[q].item, {draft[q].task}) = Procs
    BY DEF DraftsTyped, Noticed
  <1>2. CASE board' = board
    BY <1>1, <1>2 DEF Step
  <1>3. CASE board' # board
    BY <1>1, <1>3, ToldStays DEF Step
  <1>4. QED
    BY <1>2, <1>3

(* The last step of a dispatch moves no board, or is the last of QA's.     *)
LEMMA LastSteps ==
  ASSUME IInv, NEW p \in Procs, draft[p].at \in {"spawn", "qaBegin"}, draft'[p] = Idle, [Next]_vars
  PROVE  (board' = board /\ UNCHANGED fixed) \/ QaBegin(p)
  <1>1. DraftsTyped
    BY DEF IInv, Types
  <1>2. draft'[p].at # draft[p].at
    BY DEF Idle
  <1>3. ASSUME NEW q \in Procs, NEW d, Step(q, d), draft[q].at \notin {"spawn", "qaBegin"} PROVE FALSE
    BY <1>1, <1>2, <1>3, OthersStay
  <1>4. ASSUME NEW q \in Procs, Claim(q) \/ Begin(q) \/ AssignQaOwner(q) \/ QaReady(q) PROVE FALSE
    BY <1>3, <1>4 DEF Claim, Begin, AssignQaOwner, QaReady, Goes
  <1>5. ASSUME NEW q \in Procs, QaBegin(q) PROVE q = p
    BY <1>1, <1>2, <1>5, OthersStay DEF QaBegin
  <1>6. ASSUME NEW q \in Procs, Finish(q) \/ FinishQa(q) PROVE FALSE
    <2>1. PICK d : Step(q, d)
      BY <1>6 DEF Finish, FinishQa, Goes
    <2>2. QED
      BY <1>3, <1>6, <2>1 DEF Finish, FinishQa
  <1>7. ASSUME NEW w \in Items, NEW t \in DOMAIN board[w].tasks, Handle(w, t) \/ SendBack(w, t) PROVE FALSE
    <2>1. PICK T : draft' = Noticed(w, T)
      BY <1>7 DEF Handle, SendBack
    <2>2. QED
      BY <1>1, <1>2, <2>1, ToldStays
  <1>8. ASSUME NEW q \in Procs,
               \/ \E w \in Items : Choose(q, w) \/ \E t \in DOMAIN board[w].tasks : SpawnOnly(q, w, t)
               \/ Spawn(q) \/ Crash(q)
               \/ \E r \in Runs : Complete(q, r) \/ Cancel(q, r)
        PROVE  board' = board /\ UNCHANGED fixed
    BY <1>8 DEF Choose, SpawnOnly, Spawn, Crash, Complete, Cancel
  <1>9. ASSUME NEW w \in Items, MoveStage(w) \/ Select(w) PROVE board' = board /\ UNCHANGED fixed
    BY <1>9 DEF MoveStage, Select, Person
  <1>10. CASE UNCHANGED vars
    BY <1>10 DEF vars, fixed
  <1>11. QED
    BY <1>4, <1>5, <1>6, <1>7, <1>8, <1>9, <1>10 DEF Next, Dispatch

(* A dispatch that nobody disturbed ends within the limits. *)
LEMMA DispatchEndsWithin ==
  ASSUME IInv, NEW p \in Procs, [Next]_vars, Ends(p)
  PROVE  LET A == ActiveTasks(board'[draft[p].item].tasks) IN
         Limits(A) \/ \E u \in A \ {draft[p].task} : Outside(u)
  <1>1. /\ draft[p].clear /\ draft[p].at \in {"spawn", "qaBegin"} /\ draft'[p] = Idle
    BY DEF Ends
  <1>2. PICK w, t : w = draft[p].item /\ t = draft[p].task
    OBVIOUS
  <1>3. Within(Active(w), t) /\ (draft[p].at = "qaBegin" => Status(w, t) \in {"ready", "dev_done", "qa_ready"})
    BY <1>1, <1>2 DEF IInv, ClearAgrees
  <1>4. CASE board' = board
    BY <1>2, <1>3, <1>4 DEF Within, Active
  <1>5. CASE QaBegin(p) /\ board' # board
    <2> DEFINE task == Moved(TaskOf(p), "qa_in_progress")
    <2>1. /\ On(w, t) /\ TaskOf(p) = board[w].tasks[t] /\ TaskOf(p) \in Task /\ Status(w, t) = TaskOf(p).status
          /\ BoardsTyped /\ stage' \in [Items -> ItemStages] /\ w \in Items
      BY <1>1, <1>2, <1>5, DraftTask DEF IInv, Types, BoardsTyped, QaBegin
    <2>2. task \in Task /\ task.status = "qa_in_progress" /\ "qa_in_progress" \in TaskStatuses
      BY <2>1, MovedTask DEF TaskStatuses, TaskMoves
    <2>3. Move(w, t, task) /\ Status(w, t) = "qa_ready"
      BY <1>2, <1>5, <2>1, <2>2, AdvanceMoves, TransitionsFrom DEF QaBegin
    <2>4. Active(w)' = Active(w) \union {t}
      BY <2>1, <2>2, <2>3, ActiveAfter
    <2>5. t \in Active(w)
      BY <2>1, <2>3 DEF Active, ActiveTasks, Status, On
    <2>6. ActiveTasks(board'[w].tasks) = Active(w)
      BY <2>4, <2>5 DEF Active, ActiveTasks
    <2>7. QED
      BY <1>2, <1>3, <2>6 DEF Within
  <1>6. QED
    BY <1>1, <1>4, <1>5, LastSteps

(* What can be dispatched keeps the limits of the allocation, for every    *)
(* plan and every shape of the tasks (runtime-summary.js:762,              *)
(* workflow-state-controller.js:1286).                                     *)
THEOREM DispatchesKeepLimits == Spec => DispatchKeepsLimits
  <1>1. IInv /\ [Next]_vars =>
          [\A p \in Procs : Ends(p) =>
             LET A == ActiveTasks(board'[draft[p].item].tasks) IN
             Limits(A) \/ \E u \in A \ {draft[p].task} : Outside(u)]_vars
    BY DispatchEndsWithin
  <1>2. QED
    BY <1>1, DelegationInvariant, PTL DEF Spec, DispatchKeepsLimits
=============================================================================
