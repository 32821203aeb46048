------------------------------ MODULE TaskBoard ------------------------------
(***************************************************************************)
(* The rules of the execution task board of a full-delivery work item      *)
(* (src/openkit-runtime/lib/task-board-rules.js).  A board holds some of   *)
(* the Tasks; a task is its status, its developer and whether a QA owner   *)
(* was assigned.                                                           *)
(***************************************************************************)
EXTENDS Naturals, FiniteSets

CONSTANTS Tasks, Devs, NoDev,
          Deps   \* depends_on of every task

ASSUME BoardAssumption ==
  /\ NoDev \notin Devs
  /\ Deps \in [Tasks -> SUBSET Tasks]
  /\ \A t \in Tasks : t \notin Deps[t]

(* TRANSITIONS: the statuses that may follow each status.                  *)
TaskMoves ==
  [queued         |-> {"ready", "cancelled"},
   ready          |-> {"claimed", "cancelled"},
   claimed        |-> {"in_progress", "cancelled"},
   in_progress    |-> {"dev_done", "cancelled"},
   dev_done       |-> {"qa_ready", "cancelled"},
   qa_ready       |-> {"qa_in_progress", "cancelled"},
   qa_in_progress |-> {"done", "blocked", "claimed", "in_progress",
                       "cancelled"},
   blocked        |-> {"claimed", "in_progress", "cancelled"},
   done           |-> {"cancelled"},
   cancelled      |-> {}]
TaskStatuses == DOMAIN TaskMoves
Task == [status : TaskStatuses, dev : Devs \cup {NoDev}, qa : BOOLEAN]

ImplementationReady == {"ready", "claimed", "in_progress", "dev_done",
                        "qa_ready", "qa_in_progress"}
DependencySatisfied == {"dev_done", "qa_ready", "qa_in_progress", "done",
                        "cancelled"}
Unstarted == {"ready", "claimed", "in_progress"}

(* validateTaskTransition: the moves that need a developer, a QA owner, or *)
(* a finding of QA against the task.                                       *)
NeedsDev == {<<"claimed", "in_progress">>, <<"in_progress", "dev_done">>}
NeedsQa == {<<"dev_done", "qa_ready">>, <<"qa_ready", "qa_in_progress">>,
            <<"qa_in_progress", "done">>, <<"qa_in_progress", "blocked">>}
QaFails == {<<"qa_in_progress", "claimed">>,
            <<"qa_in_progress", "in_progress">>}
TaskTransition(task, next) ==
  /\ next \in TaskMoves[task.status]
  /\ <<task.status, next>> \in NeedsDev => task.dev # NoDev
  /\ <<task.status, next>> \in NeedsQa => task.qa

(* Mutant: a queued task may start before what it depends on.              *)
DependencyStateLoose(tasks) == \A t \in DOMAIN tasks : Deps[t] \subseteq DOMAIN tasks

(* validateDependencyReferences and validateDependencyState.               *)
DependencyState(tasks) ==
  \A t \in DOMAIN tasks :
    /\ Deps[t] \subseteq DOMAIN tasks
    /\ tasks[t].status \in Unstarted =>
         \A d \in Deps[t] : tasks[d].status \in DependencySatisfied
    /\ tasks[t].status \in {"claimed", "in_progress", "dev_done"} =>
         tasks[t].dev # NoDev
    /\ tasks[t].status \in {"qa_in_progress", "done", "blocked"} => tasks[t].qa

(* validateAggregateRules (no command records an issue on a board).        *)
AggregateRules(tasks, stage) ==
  /\ stage = "full_implementation" =>
       \E t \in DOMAIN tasks : tasks[t].status \in ImplementationReady
  /\ stage = "full_qa" =>
       \A t \in DOMAIN tasks : tasks[t].status \in DependencySatisfied
  /\ stage = "full_done" =>
       \A t \in DOMAIN tasks : tasks[t].status \in {"done", "cancelled"}

(* validateTaskBoard: a board is valid for a stage.                        *)
BoardValid(tasks, stage) ==
  /\ DOMAIN tasks # {}
  /\ DependencyState(tasks)
  /\ AggregateRules(tasks, stage)

(* requireValidTaskBoard: without parallel work, one active task at most.  *)
ActiveTasks(tasks) ==
  {t \in DOMAIN tasks :
     tasks[t].status \in {"claimed", "in_progress", "qa_ready",
                          "qa_in_progress"}}
FitForStage(tasks, stage, parallel) ==
  /\ BoardValid(tasks, stage)
  /\ parallel = "none" => Cardinality(ActiveTasks(tasks)) <= 1
=============================================================================
