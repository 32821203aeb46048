# OpenKit: TLA+ models of its workflow state

OpenKit is a workflow kit that coding agents drive from the command line and
from an MCP server. Its own logic is about state kept in small JSON files under
`.opencode/`: which stage a work item is in, who approved what, which session
owns a worktree. There is no daemon. Every CLI command, MCP server and editor
plugin is a process of its own that reads files, decides, and writes files, so
what can go wrong is what happens between a read and a write, and between one
write and the next. That is what these modules are about.

Paths in this document are relative to the repository root.

## The system

| Part | State | Operations | Talks to |
|---|---|---|---|
| Lane rules: `src/runtime/state/{transitions,transition-engine,gate-registry}.js` | none (tables) | validate a move, required gates of a move | the state manager |
| Workflow state manager: `src/runtime/state/workflow-state-manager.js`, `transaction-log.js` | `work-items/<id>/state.json`, `workflow-state.json` (mirror), `state-transitions.log`; in memory a cache that is never reloaded and a transaction snapshot | initialize, getState, advanceStage, setApproval, recordIssue, resolveIssue, recordEvidence, begin/commit/rollback | the controller (best-effort sync), the MCP kernel adapter |
| Atomic JSON update: `src/runtime/sessions/atomic-json.js` | one JSON file and its lock | readJson, atomicJsonUpdate | every index of the session layer |
| Session layer: `src/runtime/sessions/*.js` | `.opencode/sessions/index.json`, `.opencode/work-items/index.json`, per session `meta.json` and `heartbeat.json`, the worktree | launch, resume, kill, abandon, finish, shutdown, orphan scan, downgrade | git, the launcher, the CLI |
| Work item store: `src/openkit-runtime/lib/work-item-store.js`, `state-guard.js` | `work-items/<id>/state.json` (legacy schema), `work-items/index.json`, the mirror | read, write, activate, bootstrap | the controller |
| Workflow controller: `src/openkit-runtime/lib/workflow-state-controller.js` | everything in the store, the v2 state beside it | some sixty commands: start task, set approval, advance, route rework, issues, evidence, task board, slices, background runs, releases | the store, the state manager, the policy engine, the session layer |
| Lane, board and slice rules: `workflow-state-rules.js`, `task-board-rules.js`, `migration-slice-rules.js`, `parallel-execution-rules.js`, `sequential-constraints.js` | none | validate a stage, a task status change, a parallel zone | the controller |
| Supervisor dialogue: `supervisor-dialogue-store.js`, `src/runtime/supervisor/*.js`, `supervisor-dialogue-manager.js` | `work-items/<id>/supervisor-dialogue.json`: events for an external supervisor, its messages, the keys of recent proposals | append, dispatch, record an attempt, judge and record a message | the controller (announces), the supervisor over a command or HTTP |
| Background runs and delegation: `delegation-supervisor.js`, `background-manager.js`, `work-item-bridge.js`, `runtime-summary.js` | runs in memory, in `background-runs/` and in the workflow store | choose and dispatch a task, spawn, complete and cancel a run, move its task on | the controller through the kernel adapter |
| Project graph: `src/runtime/analysis/project-graph-db.js` and builders, `project-graph-manager.js`, `syntax-index-manager.js` | SQLite tables of files, imports, symbols, references and calls; a parse cache per process | index a file, remove one, query | tools and hooks of the plugin, an editor that writes the files |
| Releases: `release-store.js` | one JSON file and an index | candidate, hotfix, approvals, status | the controller |
| Other managers: `src/runtime/managers/*.js` | session, model and profile records | record, read | hooks and tools of the plugin |
| Hooks, recovery, kernel adapter, tools: `src/runtime/{hooks,recovery,tools}`, `workflow-kernel.js` | caches | read-mostly wrappers over the controller | the editor plugin |
| Installation and profiles: `src/install`, `src/global`, `src/cli`, `src/mcp-server`, `src/global/mcp` | installed files, profiles, MCP configuration, secrets | install, upgrade, uninstall, configure | the file system, the keychain |
| Parsers and searches, audit, capabilities, permissions, release notes | none that outlives a call | pure functions over files and command lines | the tools |

### What is hard

- **Two processes, one file.** The state manager and the legacy store take no
  lock. A cache or a snapshot may be older than the file it is written over.
- **One call, several files.** A mutation writes two to five files in turn. A
  failing write or a process that dies leaves a prefix of them.
- **Locked and unlocked writers together.** `work-items/index.json` is updated
  under a lock by the session layer and rewritten without one by the store.
- **Deciding from an old read.** Kill, resume and the orphan scan look at an
  index or a pid, wait, and then write what they concluded.
- **Two state machines for one work item.** The controller's lanes and the
  unified lanes have different gates, and one is mirrored into the other.
- **State used after an `await`.** A dispatcher marks by number the events it had
  listed before it sent them; an indexing call stamps a file with a time it takes
  after it has read it.
- **Commands whose refusal nobody sees.** The kernel adapter answers `null` to a
  refused command, and the delegation supervisor goes on.
- **One question answered twice.** What may run beside what is decided by the
  summary when a task is chosen and by the controller when it is checked.

### What makes each part correct

- State manager: a stage is only reached through its gates; nothing on disk
  beside `state.json` runs ahead of it; a single manager sees what is on disk.
- Atomic JSON: no committed update is lost; readers never see half a file.
- Store: a state is replaced only by one made from it; a failed command leaves what
  it found; the next command on an item repairs what a death has left.
- Sessions: a work item has at most one live session, and the two indexes agree.
- Controller: done means approved; rework invalidates what it must; the unified
  state never claims more than the lane's approvals.
- Slices: what a migration is verified with has been reviewed.
- Dialogue: what counts as delivered was accepted; a proposal is taken up once;
  blocked work calls for a human.
- Delegation: a run and the task it took agree; a dispatch keeps the limits.
- Graph: what is called unchanged is current; rows refer to rows that are there.

## The modules

| Module | Models | Extends or uses |
|---|---|---|
| `WorkflowRules` | transition table, stage order, gate registry, the two checks of an advance | |
| `WorkflowStateManager` | the state manager, several processes, file writes, failures, deaths | `WorkflowRules` |
| `AtomicUpdate` | what an update of a shared JSON file promises | |
| `AtomicJson` | lock, read, rename of `atomic-json.js`; implements `AtomicUpdate` | `AtomicUpdate` |
| `Sessions` | sessions from launch to finish, servers and terminals | rests on `AtomicUpdate` |
| `LaneRules` | the controller's lanes, approvals, rework routes, artifacts and evidence | |
| `TaskBoard` | statuses, dependencies and validity of a full-delivery task board | |
| `WorkflowController` | the commands on one work item, its board and its copy in the unified layer | `LaneRules`, `TaskBoard`, `WorkflowRules` |
| `MigrationSlices` | the slice board of a strict migration, beside the commands on the item | `WorkflowController` |
| `AtomicCommands` | what a command promises of the state of a work item | |
| `WorkItemStore` | state, mirror and index as commands, a start, a bootstrap and a selection read and write them; implements `AtomicCommands` | `AtomicCommands` |
| `SupervisorDialogue` | events to the supervisor, its answers and its messages | |
| `Delegation` | dispatch of tasks to background runs, and the runs until their tasks are handed on | `TaskBoard` |
| `ProjectGraph` | `indexFile` over the tables of the project graph | |
| `MC*` | instances for TLC | the module of that name |
| `*_proofs` | theorems; those about `MigrationSlices` are in `WorkflowController_proofs` | the module of that name, `TLAPS` |

A definition whose comment begins with *Mutant* is a plausible mistake in the
definition that follows it. No action uses it; it stands beside the definition
to show that the properties tell the two apart.

### State manager

One `WorkflowStateManager` instance per process (`Managers`), each built for one
work item. `cache` and `tx` are `this._state` and `this._txSnapshot`; `primary`,
`mirror` and `log` are the three files of `_persist` and the transaction log.
Calls are synchronous, so processes interleave between file accesses only: a
mutation is `Mutate` (memory first, as in the code), then `PersistPrimary`,
`PersistMirror` and `AppendLog`, and `WriteFails` or `Crash` may come before any
of them. `rev` stands for the timestamps of a state; an issue is an id and
whether it is resolved; evidence is an id. `granted` and `durable` are history
variables. The stage owner, the text of issues and evidence, log queries and
the migration of state files older than 2.0 are left out, and so is the name of the
temporary file, which two processes share that persist in the same millisecond
(`workflow-state-manager.js:690`, `:706`).

### Atomic JSON

The content of a file is the set of updates in it. `Begin` is the call up to
`existsSync`; `TruncateForDefault` and `WriteDefault` are the unlocked write of a
default value, which is not one step because `writeFileSync` truncates first;
`Acquire` and `LockTimeout`, `Read`, `Rename` or `MutatorThrows`, `Release` follow.
The lock library is external: a lock directory that its live maker refreshes,
that survives its maker (`Crash`), and that counts for nothing once it is stale
(`Expire`, and `Pause` for a holder suspended longer than that). `durable` and `erased`
are history: what was renamed into place, and whether a default value was written over
it. `AtomicUpdate` is a promise that may lapse for good, and `Lapsed` says by what: the
first default value written over an update, or the first holder suspended too long.
Until then default values may be written in the middle of any call. A caller that dies
between the two steps of the default write leaves a file without JSON in it, which
every later call refuses to read.

### Sessions

Actors are the servers (the MCP server of a session: heartbeat, shutdown
handler, bootstrap tool) and the terminals in which a user types `sessions
resume`, `kill`, `abandon` and `finish`. Each command is entered (`Resume`, ...) with
the reads it decides by, and then carries out the rest of its steps (`ResumeSteps`,
...) one locked update, signal or file operation at a time. `Interrupted` is a
command that dies or times out on a lock. The bootstrap tool and the controller
update `work-items/index.json` by a read and a later write without the lock
(`PointRead`/`PointWrite`, `MutateRead`/`MutateWrite`). With `Exclusive`, a session is
attached to by a new server only when its last server is dead; the runs assume
it, because `resume` prints an environment and looks at no process, so that two
servers of one session can bind it twice. `Settled` starts a run with sessions
that are bound and at work. All sessions have a quick lane; the git steps of
`finish` and the worktree question of `abandon` are left out. A locked update
is one step, so the promise of `AtomicUpdate` is taken not to have lapsed: the first write
of an index that does not exist yet, and holders suspended too long, are not in this
model.

### Controller

`state` is what the commands read and write of `state.json`; `board` is `tasks.json`
with the stage of its last write, by which the code judges a board it reads; `v2`
is the item's copy in the unified state layer. A state command is one action:
`mutate` reads, changes, validates and persists, and `Mutate` requires both the
state that is read and the state that results to be valid, as the code does. A
board command is two steps, `Prepare` (read, check, validate the new board for
the stage just read) and `WriteBoard` (replace the file, whatever happened since);
a task that QA fails takes a third, `RerouteItem`, which may be refused after the
board is written.

Left out or abstracted: the owner of an item (a function of its stage in every
valid state); evidence, which is which of five kinds of entry is on record;
fields no command sets (`blocked_by`, issues on a board); tasks created in other
statuses than `ready` and `queued`; worktrees, routing profile,
releases and reporting. `syncAdvanceStageToV2` and `syncApprovalToV2` ask
the unified layer and write its file directly when it refuses, so a sync always
arrives, and commit and sync are one step here. Also left out are the sequential
constraints applied to a board when it is viewed (`workflow-state-controller.js:804`)
and the enforcement mode `warn` of the policy, in which an advance without its tool
evidence goes on and records an issue instead (`:4316`); the default is to refuse.
`UsableUnlessWrittenLate` judges readability by the state and the task board; whether a
slice board beside them is valid it does not ask.

### Migration slices

`slices` is `migration-slices.json`, and a command on it is two steps like a command
on the task board: `PrepareSlices` (read, check the new board against the stage) and
`WriteSlices`. `ItemCommand` is a command of `WorkflowController` with what the code
asks of the slice board added: `validateManagedState` before and after, and settled
slices before code review and before the end. `open` is a history variable: the
slices that were open in a review in a way its persons know of.

### Work item store

A command is the sequence of file accesses of `mutateWorkItem`, `startTask`,
`bootstrapWorkflow` or `selectActiveWorkItem`: `Boot*` (`bootstrapRuntimeStore`), `Read`,
`Check` (`guardWrite`), `WriteState`, `Validate`, `WriteMirror`, `Verify`, `WriteIndex`,
and on failure `Undo*`; the selection has steps of its own. A state is its revision
and the revision it was made from. Files are written in place: a reader that comes
while a writer is in the middle finds the file cut short (`BadState`, ...), and a
process that dies there leaves it so (`Half`). A file that does not parse makes the
command throw (`GivesUp`). `Exclusive` says that no two commands write the state of
one item at the same time; without it two commands past `Check` lose one of them,
since the check and the write are not one access. Left out: the record of a
worktree, and the hash behind a revision.

### Supervisor dialogue

Every function of the store reads the whole file and writes it back, and is one
step. A command commits and then appends its events one by one (`Commit`,
`AppendEvent`, `AppendFails`). `dispatchPending` is two steps around its `await`,
`Dispatch` and `Answer`, and calls overlap. `Answers` are what the adapter makes of the
reply, and `Taken` is what the supervisor has taken of the payload: after a failure
or a time-out, the part that was answered for or all of it. `accepted`, `epoch` (how
often a store that cannot be parsed was replaced), `ids` and `stray` are history. What
a call listed is the set of the events: they go in the order of their numbers. A message is
its id, its proposal key and what `adjudicateInboundMessage` tells it by. A writer that
cannot even record the degraded marker (`workflow-state-controller.js:769`) goes on, and
leaves in the store what a death leaves (`Die`). Left out:
the checkpoint, the words of a message, and two processes that read and write the
file at the same instant.

### Delegation

A process dispatches without a pause, and other processes and persons run commands
in between: `Choose` (`selectTaskForDispatch` by the health of the *active* item),
`Claim`, `Begin`, `Spawn`, or `AssignQaOwner`, `QaReady`, `QaBegin`. A command that the
controller refuses changes nothing and stops nothing. `Complete` and `Cancel` look at
no status; `Finish` and `FinishQa` are the bridge that moves the task on. A command is
one step here; that its read and its write are two is the subject of
`WorkflowController`. `shape` and `plan` say what the tasks are and what may run side
by side; they do not change. `clear`, `own` and `cut` in a draft or a run are history:
that the task is on the board it was chosen by, the active item's, and nobody touched
that board since; that nobody else moved the task meanwhile; that the process which
completed the run died before it had moved the task on. `DispatchKeepsLimits` is about
`clear` dispatches only, so about dispatches onto the active item: the task of another
item is chosen by what is active on the wrong board, and nothing is promised of it. Left
out: the choice by raw task statuses when the runtime status says nothing of the
board's health (`delegation-supervisor.js:78-89`), and the `complete-background-run`
command (`workflow-state.js:1340`), which changes the row of the run in the workflow
store and moves no task.

### Project graph

A call of `indexFile` reads the file (from the parse cache of its process or the
disk), takes a time stamp, and writes in three transactions: node, edges and symbols
(`Commit`), references (`Track`, `replaceRefsForNode`), calls (`BuildCalls`,
`replaceCallsForNode`). Calls of one process interleave where the code awaits (`Awaits`),
calls of two processes anywhere. Foreign keys and cascades are part of the steps: a
row that refers to one that is gone fails its transaction (`TrackingFails`). An editor
writes and removes files, with a time stamp of its own for each write. `raced` is
history: the last write of a file fell between a read of it and its stamp. A file is
the files it imports and whether it exports something. Left out: queries, the
tables of embeddings, sessions, type flow and patterns, and syntax trees.

## The runs

| Run | Asks | Instance |
|---|---|---|
| `state_manager_shared` | `TypeOK`, `StageEarned`, `MirrorNotAhead`, `LogNotAhead` | two managers on one quick item, both with transactions, 4 mutations, 1 failed write, 1 death |
| `state_manager_own` | `CacheCoherent`, `SnapshotDurable`, `MirrorFresh`, `DiskFollowsFSM`, `RecordsSurvive` | two managers on an item each, 5 mutations, 1 death, no failed write |
| `atomic_json` | `OneWriter`, `NothingLost`, `ImplementsAtomicUpdate`, `LockIsGivenBack` | three processes, three updates, two deaths, a suspended holder, the file in place or missing |
| `sessions_life` | `TypeOK`, `ReapedAreDead`, `GoneStaysGone`, `OwnerIsBound` | two sessions, items and servers from nothing, two commands, a controller write, an interruption |
| `sessions_commands` | `SettledItemsUnowned`, `CommandsEnd` | one session at work, two terminals, four commands |
| `controller_lanes` | `TypeOK`, `V2GatesAgree`, `LaneLeftByRework`, `V2StageFollows` | every lane and lane source, one issue, three failed fixes, one restart, no board |
| `lane_authority` | `UserKeepsLane` (violated) | a quick item or a migration whose lane the user chose, three failed fixes |
| `controller_board` | `SlicesReviewed`, `DependenciesHeld`, `UsableUnlessWrittenLate` | full delivery with two tasks, or strict migration with two slices, the second after the first; one board process beside the state commands |
| `store_commands` | `TypeOK`, `ImplementsCommands`, `FailureLeavesNoTrace`, `SuccessSettles` | two processes, two items, three commands, a death, a refused state |
| `dialogue` | `TypeOK`, `ProposalsTakenOnce`, `HumanIsCalled`, `DeliveredWasAccepted` | two writers, two overlapping calls and three in all, five kinds of message, a death, two events to a payload, two keys remembered |
| `delegation` | `RunAndTaskAgree`, `DispatchKeepsLimits` | two processes, two items, two tasks, two runs, one move of a person, a death |
| `project_graph` | `TypeOK`, `UnchangedMeansCurrent`, `RowsResolve`, `ImportsKept` | two files that import each other, two processes, two calls at a time and three in all, two edits, a death |

Between them the runs fire every action. All of them pass but `lane_authority`, which
shows a disagreement of the code with its documentation: TLC finds a quick item, its
lane chosen by the user, promoted by its third repeated failure (see "Seen while
modelling").

### Bounds

All counters in guards are bounds: `MaxMutations`, `MaxFaults`, `MaxCrashes`,
`MaxPauses`, `MaxCommands`, `MaxIssues`, `MaxRetry`, `MaxRestarts`, `MaxRefusals`,
`MaxCalls`, `MaxDeaths`, `MaxMoves`, `MaxEdits`, and `Bounds` of the dialogue. They are chosen so
that the case a property is about happens, and a mutant of the code breaks every
property within them.

- Two managers and four mutations are what a stale overwrite needs: load twice,
  approve and advance in one, write from the old cache in the other. A failed
  write and a death may each fall between any two of the file writes. The quick
  lane's first gate is the only one offered, so the longer lanes are covered by
  the theorem and not by the run.
- `MaxMutations = 5` in `state_manager_own` is a transaction, an issue and its
  resolution, evidence, and an advance.
- Three processes are needed for a lock that a second process takes over from a
  dead one while a third waits, and for a default value written while a second
  process reads and a third is about to write its own.
- Two commands in `sessions_life` are enough for a kill or an abandon beside a
  resume; four commands in two terminals, in `sessions_commands`, for resume and
  finish to interleave twice. The first run checks one state of each orbit under
  permutation of sessions, items and servers, the second has no symmetry because
  it checks liveness.
- In `controller_lanes` most approvals and evidence are there from the start, so
  that the search is about orders; two gates, the reviews and the QA report are
  offered to the commands. `MaxRetry = 3` is the threshold of the code.
- In `controller_board` one board process suffices for a late write: the state
  commands are the second actor. Two board processes overwriting each other are
  covered by the proof. Offering the solution package lets a command write the
  one that a rework straight into `full_solution` went without. The run tells
  states apart without `v2`, which no command reads; `controller_lanes` checks
  the types of `v2`. A QA report is not offered, so a full item does not reach its
  end here; it does in `controller_lanes`.
- Three commands in `store_commands` are a command that leaves something behind, one
  beside it, and one that finds it. A store begins with an index, with the mirror of
  an older version only, or empty.
- In `dialogue` the limit of a payload and of the remembered keys are smaller than in
  the code (two each), so that a payload is not all there is and a key is
  forgotten. Three calls are two that overlap and one after them: a late failure of
  one of the first reopens what the other had settled, and the third sends it, or
  does not. Events and messages meet in the file only, so `Bounds` gives them
  together: five messages alone (the same key three times with two others between),
  four events alone, and both in smaller numbers.
- In `delegation` a task may have to stay in the safe zones, of which there are none,
  or only one task may be active. A second item has the first task only, owned by
  somebody or off the board: the choice by the active item picks a task for the board
  of the other. On a third board one task is new and one is with QA.
- In `project_graph` three calls are one that finds the graph as another left it,
  and one beside it. Two edits give a file a second content, or take it away and
  bring it back.

The runs may stop when the bounds are used up, so they do not check deadlock.

### Fairness

`AtomicJson!FairSpec` has weak fairness of each process's own steps (a live
process runs on; the lock library's retries make waiting for a lock a step that
ends in acquisition or a time-out) and of `Expire` (time passes). A death may
come at any moment and is never required. `Sessions!FairSpec` has weak fairness of
the steps of a command that was entered: the process of a command runs. Users,
servers and signals owe nothing; in particular a server may ignore every signal,
and `CommandsEnd` holds because the poll of `kill` has a deadline (`GiveUp`).

## Seen while modelling

What follows is how the code behaves, and the models with it. None of it breaks a
property of a passing run: those are stated so that they are what holds regardless.
One disagreement with the documentation has a run of its own (`lane_authority`).

State manager. `advanceStage` keeps the new stage in memory when its write fails,
against its comment; `resolveIssue` marks the first issue with an id, resolved or not.

Atomic JSON. The default value of a missing file is written outside the lock, and
may erase an update committed in between (`atomic-json.js:28-35`; the comment there
calls the second write harmless): a caller finds no file, another one creates it and
makes its update, and then the first one writes the default.

Sessions. Two servers of one session can bind it twice, and a heartbeat of one can
bring the directory of a deleted session back, so that a late bind restores its
`meta.json`; this is why two of the theorems assume `Exclusive`. Every controller command rebuilds
the index entry of its item without `current_session_id`
(`workflow-state-controller.js:599`), so the first one after a bind takes away the
owner that `bootstrap-workflow.js:10-11` sets; and a server that writes back a stale
index can bring back the owner of a settled item, which is why
`SettledItemsUnowned` is about instances in which nobody bootstraps. The controller and the
bootstrap tool write `work-items/index.json` without the lock that the design
(`docs/superpowers/specs/2026-05-09-multi-session-isolation-design.md:175`) asks of all
writers. The git steps of `finish` come before its indexes are updated, and the orphan
scan has no caller.

Controller. Two board commands can both succeed and the second undo the first. Once
an item has a board, a requirement gap cannot be routed to `full_product`
(`src/context/core/issue-routing.md:64`): the item with its board is invalid in that stage,
and no command removes a board. An item promoted to the full lane keeps its old mode
in the unified layer. `full_done` may be entered with tasks unfinished, and approvals
that a rework jumped over are never asked for again (the definition of done that
names them is only printed).

The third repeated failure of a quick item promotes it to the full lane, whatever its
`lane_source` (`workflow-state-controller.js:4596`), and a test asks for it
(`src/openkit-runtime/tests/workflow-state-controller.test.js:1313`). The documentation
does not: where the user chose the lane, "auto-escalation is disabled; only the user can
authorize a lane change" (`src/context/core/workflow.md:195`, also `:325`), and the quick
lane never escalates by itself (`src/context/core/workflow.md:226`,
`src/context/core/issue-routing.md:46` and `:95`). `lane_authority` is the run that shows
it. A migration obeys its `lane_source`. Promotion is refused to an item with an artifact
that the full lane forbids (`validateArtifactSignatureForMode`,
`workflow-state-controller.js:1557`): a quick item with a linked task card stays in its
lane, every third failure is refused and not counted, and the item goes on with two
counted fixes for as long as it fails; likewise a routed migration with a migration
report at a gap in the requirements. `LaneLeftByRework` says all of this of every step:
when an item leaves its lane, what it is like then, and that such an item never does.

Slices. A requirement gap moves a migration straight to `migration_verify`, without
the check of the slices. With a slice board, promotion to the full lane is always
refused. A slice command prepared before a review may make a verified slice open
again. `SlicesReviewed` names these three. A slice board, like a task board, may be
written after its item has moved where it is not valid, and then makes the item
unreadable; no property is about that.

Store. A start that fails puts back what it found when it read the files; by then a
bootstrap has unlinked the mirror of the prior workflow (`workflow-state-controller.js:2260`)
and a checkout without an index has got one, and these stay. `FailureLeavesNoTrace` is
about what comes after the read. A failed selection leaves the mirror at the item it could not select.
Archiving the prior workflow of a checkout without an index unlinks the only copy of
its state (`workflow-state-controller.js:2208` says otherwise). A mirror cut short
blocks every command on every item. A command on an item that is not active puts back
the active pointer it read. A command that read the state of a start which was then
refused writes without a check (`AtomicCommands!Revive`).

Dialogue. Events are numbered anew after the store was lost, and a call in progress
marks the new ones by the old numbers. A late overlapping call overwrites delivered as
failed, and skipped as failed: then the event is due again below others that are sent
already, and the next call that succeeds marks everything up to its last event
(`markSupervisorEventsDelivered`), the reopened one too, which nobody accepted. This
takes three calls; it was the proof of `DeliveredWasAccepted` that did not go through
without it, and TLC then showed it (`Reopened` names it). A key that is repeated keeps its
place among the remembered ones (`rememberDedupe`), so a proposal sent again and again
is taken up a second time once enough others have come since it was *first* seen. A death
between commit and append loses the announcement for good.

Delegation. A limited task that is already active outside of the safe zones does not
keep another from being started (`runtime-summary.js:762`), which the controller refuses
(`workflow-state-controller.js:1286`, `workflow.md:124`). A sequential constraint adds a
`blocked_by` that is never taken away, so a chained task is never dispatched. A task
that is `qa_ready` counts as active itself and is not handed to QA where only one may
be active. `tasks.json` keeps the stage of its last write, so after an advance to
`full_qa` nothing is handed to QA before some board command. A task that its owner
left `ready` is dispatched again and again. A cancelled run leaves its task in
progress, and a death between `Begin` and `Spawn` leaves a task in progress with no
run. A completion is several writes: a process that dies after the run is marked
completed and before its task is `dev_done` (`work-item-bridge.js:46`, `:51`) leaves a
completed run whose task is in progress for good, since nobody completes a run twice
for it; dying after the task is `dev_done` leaves it so, or with a QA owner, and nothing
goes on from there by itself; and dying before the stored run is written leaves it
running there, though the manager had completed it in memory (`background-manager.js:52`).
`RunAndTaskAgree` says which of the two a completed run's task is in, by `cut`. Nothing outside of tests calls `complete`. In the persistent store a run is listed
twice, the index is read, changed and written without a lock by two stores, and an index
that does not parse makes the store begin empty. A task that QA sends back by a
decision that names `full_qa` is in progress in a stage that has no such tasks: commands
on the item's other tasks are then refused, the completion of their runs included.

Graph. A write between a read and its time stamp leaves the old graph behind as
unchanged. When a file is indexed, references to its symbols go, and those of
importers that have not changed do not come back; `indexProject` records references to
files indexed before only; deleting a file takes the imports of its importers along. A
death after the first transaction leaves the new symbols without their references. When a file
vanishes while it is read, `syntax-index-manager.js:282` calls a method that the cache
does not have. An import of a missing file is recorded with the extension `.js`. The
file watcher is never started, so nothing is claimed of what must eventually be indexed.

## What is proved

TLAPS checks these for every value of the constants that satisfies the named
assumptions of the modules.

**`WorkflowStateManager_proofs`**: `TypeCorrectness`, `StagesAreEarned`,
`MirrorFollows`, `LogFollows`, for any number of processes, items, lanes, failing
writes and deaths. None of the properties is inductive alone. `IInv` adds `WriteOrder`:
between the first write of a call and its end, what memory holds is in `durable`;
without it the mirror could be written from a state never on disk. `StageEarned`
is inductive because it speaks of every copy at once (disk, its history, caches,
snapshots): a stale cache written over a newer file only moves one earned copy
over another, and `granted` never shrinks. The lemma it rests on is that a valid
forward move enters a stage whose gates up to there are those up to the previous
stage and the required ones.

The second half of the module is about the same specification under two assumptions,
`NoFaults` (no write fails) and `OnePerItem` (every item has a manager of its own); the
managers still share the mirror, and processes still die anywhere.
`SnapshotsAreDurable` needs the first only. `CachesAreCoherent`, `DiskAlwaysFollows`,
`RecordsAlwaysSurvive` and `MirrorAlwaysFresh` need both: with a second manager the
cache is stale by design. The invariant says of a manager in the middle of a call how
far what it holds is from the file (`WriterCoherent`), and of the mirror who still owes
it the last state (`MirrorDue`).

**`AtomicJson_proofs`**: `TypeCorrectness`, `WritersExclude`, `UpdatesSurvive`, and
`Refinement`: the calls implement `AtomicUpdate`, with `file` for `applied` and `Lapsed` for
`lapsed`. They hold for any number of processes, updates, deaths and suspended holders,
with or without the file at first; the only assumptions are those on the constants.
`IInv` says that a process past `Acquire` has the lock, that what it read is still what
the file holds, and that a file which is not whole holds nothing that could be missed:
so a default write before the first update harms nobody, not even a call that has read
the file already.

**`WorkflowController_proofs`**: `TypeCorrectness`, `BoardsHoldDependencies`,
`LanesLeftByRework`, `OnlyLateWritesBreak`, `UnifiedStageFollows`, `UnifiedGatesAgree`,
for any number of board processes, tasks, developers, issues and restarts. `IInv`
carries, beside types and the count of failed fixes of a quick item, that each board still to be
written was valid for the stage it was prepared in (`DraftsValid`), and that each
written board is valid for the stage stored with it (`BoardHeld`); it says nothing
of the item's stage by then, and `OnlyLateWritesBreak` is exactly what is left.
`UnifiedGatesAgree` needs more than the agreement itself: before a restart an item
outside the full lane has told the unified layer of gates of its own lane only
(`GatesHeld`), and no two lanes share a gate (`LanesDisjoint`), so that promotion,
which drops all approvals, agrees with a layer that drops none.

Of `MigrationSlices`, in the same module: `SlicesImplementCommands` (with a slice board an
item does what it does without, so the theorems above hold of the composition) and
`SlicesAlwaysReviewed`, for any number of processes and slices. The invariant adds that a
prepared slice board whose item has moved knows that it is late.

**`Sessions_proofs`**: `SessionsTyped` and `TheReapedAreDead` for all constants;
`GoneForGood` and `OwnersAreBound` under `Exclusive`; `NobodyOwnsTheSettled` where every item
is bound from the start, nobody writes the index without its lock and no command is
interrupted. None of the properties is inductive: each speaks of commands at rest or of
what a step just wrote, and the invariants say what the *rest* of a command will
do. `Seen`: a kill whose list no longer has its confirmation has seen the server
dead. `Cleared`: an abandon past the deletion has left no `meta.json`, and a bind about
to rename has an unbound session or none. `Bound`: every owner that is still in
somebody's hands (a snapshot, a list with `own` in it) is one that is bound. `Mended`: a
settled item that has an owner is the object of a command that will reopen it or
clear the owner, and that cannot give up any more. The lemmas about lists (`HeadLeft`,
`JoinFits`, `HeadAfter`, `JoinAfter`) carry "x comes before y" over heads, tails and
concatenations.

**`ProjectGraph_proofs`**: `GraphTyped`, `RowsAlwaysResolve`, `ImportsAlwaysKept`,
`UnchangedIsCurrent`, for any files, processes and calls; from `NoneAssumption` (the
missing node is not a node). `RowsResolve` needs that ids are never used again and
that a call which holds an id of a symbol holds it for the file it was given to
(`SymbolsOwned`). `UnchangedMeansCurrent` needs `StampInv`: one time stamp means one
content wherever it is held (disk, cache, call, node), unless a file was written in
the window.

**`WorkItemStore_proofs`**: `StoreTyped`, `FailuresLeaveNoTrace` and `SuccessesSettle` for any
number of processes, items, commands, refusals and deaths; `StoreImplementsCommands`
under `Exclusive` (no two commands write the state of one item at the same time), which
the code does not enforce. `TInv` adds to the types that what a command puts back was never
cut short (`Fitting`). For the refinement, `state` is mapped to what it would be if every
command that may still fail had put back what it found (`Settled`), and `WInv` says that what a
command has read or written still stands (`Stands`), that only one writes an item, and
that a checkout of an older version holds a workflow that no command made (`Adoptable`).
Every step is shown to be a step of `AtomicCommands` or none, so the commands on other
items, which do overwrite mirror and index, are harmless to a state. `FInv` describes the
three files, step by step of a command nobody ran beside, in terms of what it found; the
rollback undoes exactly that.

**`Delegation_proofs`**: `RunsAndTasksAgree` and `DispatchesKeepLimits`, for any items, tasks,
processes, runs, plans, moves and deaths. Neither property is inductive: a run agrees
with its task because the dispatch it comes from did (`DraftAgrees`), and a completion is
under way only for a run of its own process whose task has not moved (`Finishes`,
`RunAgrees`); the run it dies with is `cut`, and its task stays in progress from then on
because nothing but a person or another run moves it. A dispatch that nobody disturbed keeps the limits because at each of its steps
either there is room for its task or the task is active already (`ClearAgrees`). The
lemmas say what each command does to a board, and that `Limits` and `Room` speak of the active
tasks only. The proof of `RunsAndTasksAgree` found the property too strong: a QA failure that
keeps the item in `full_qa` also keeps the runs of other tasks from completing (see above),
which the history variable `own` did not count (`Blocked` now does, and the third board of
`MCDelegation` makes the run meet it).

**`SupervisorDialogue_proofs`**: `DialogueTyped`, `DeliveredAccepted`, `ProposalTakenOnce` and
`HumanCalled`, all from one invariant (`DialogueInvariant`), for any writers, calls, messages, keys,
limits and deaths. Numbers: events are numbered by their place, and the cursor is the
highest that is delivered (`Numbered`). Delivery: the numbers a call holds still mean the
events it sent (`Named`), it sent every unsent event up to its last one (`Covered`), and
no unsent event is below a delivered one (`Above`); the mark of everything up to a number
is right because of these, and the last two hold until `stray` is set. Proposals: the
remembered keys are distinct (`KeysOnce`), and a proposal that was taken up is among them
or as many other keys have come since (`KeptOrSpent`): the keys behind it in the queue
came later. The call for a human: what a committed command has still to append ends in
it (`Followed`). The lemmas about `Highest`, `Cursor` and `First` need that a bounded set of
numbers has a greatest one (from the well-foundedness of the natural numbers).
Both `DeliveredWasAccepted` and `ProposalsTakenOnce` were stated too strongly before: the runs
were too small to see it (two calls, one key remembered).

Only model-checked: the liveness properties `LockIsGivenBack` and `CommandsEnd`. Every
other property of a passing run is stated by a theorem, some of them under the
assumptions named above. Liveness under fairness and ENABLED are out of the prover's reach, as is induction
over data; no module here needs a recursive operator.
`TypeOK` of `Sessions` assumes `NamesAssumption` (no item is called like the two special
values of `meta.json`).

## Not modelled, and why

`PROJECT.json` lists every part with its files.

- **Releases.** `setReleaseStatus` sets any status and checks nothing; what a release
  is ready for is reported and never enforced. There is no promise to check.
- **Installation, profiles, launch.** One process copies files and merges settings,
  once, at the user's request. The launcher is modelled as far as it launches
  sessions (`Sessions!LaunchMeta`, `LaunchEntry`).
- **MCP configuration and secrets.** A command writes the profile, the custom catalogue
  and the global `opencode.json` in turn, and refuses entries it did not make. This is
  the part most worth a module next: a death between the files leaves an entry that the
  next run takes for somebody else's.
- **Session migration, reconciliation, orphan scan.** One-shot conversions at launch
  that take no part in the locks; the orphan scan has no caller.
- **Runtime guards, hooks, recovery, workflow views, tools, command line.** They decide
  from state that the parts above write, or call them, and keep none.
- **Other managers.** Records of one file and one writer each.
- **Parsers and searches, audit, capabilities, permissions, release notes.** Pure
  functions over texts; their interest is in data that a model would leave out.
- **Invocation log, scaffolder.** Append-only; the controller model stands for them by
  which kinds of evidence and artifacts are there.

Within the modelled parts, each section of "The modules" ends with what is left out.

## What is next

1. `McpConfiguration`: the files of an MCP command, deaths between them, and the
   ownership of entries, by which a later command tells its own from others'.
2. Proofs with fewer assumptions: what is left of `ImplementsCommands` without `Exclusive`
   (a command past the check loses another, and nothing worse), and of
   `NobodyOwnsTheSettled` with interrupted commands.
3. Further writers of `Sessions`: the conversion of the index at launch, the orphan
   scan, the git steps of `finish`.
4. Commit and sync to the unified layer as two steps of `WorkflowController`, on top of
   the steps of `WorkItemStore`.
5. The records of background runs in the persistent and the workflow store.
