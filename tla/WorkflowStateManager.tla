------------------------ MODULE WorkflowStateManager ------------------------
(***************************************************************************)
(* src/runtime/state/workflow-state-manager.js: the class through which    *)
(* the workflow state of a work item is read and written.                  *)
(*                                                                         *)
(* Several managers (one per process) may serve the same work item.  Each  *)
(* keeps the state it loaded in memory and never loads it again, so its    *)
(* view may be older than the file.  A mutation changes memory first, then *)
(* writes three files one after the other: state.json of the work item,    *)
(* the workflow-state.json mirror that all work items share, and the       *)
(* work item's log.  The calls are synchronous, so managers interleave     *)
(* between file writes only: every action below ends at one.  A write may  *)
(* fail (the call throws) and a process may die between any two writes.    *)
(***************************************************************************)
EXTENDS WorkflowRules, Sequences

CONSTANTS
  Managers,      \* WorkflowStateManager instances, one per process
  Items,         \* work item ids
  ItemOf,        \* the work item each manager was constructed for
  ModeOf,        \* the mode each work item was created in
  OfferedGates,  \* the gates whose approval is requested
  IssueIds, EvidenceIds,
  Transactional, \* the managers whose callers use transactions
  NoState,       \* a null cache or snapshot, a missing file
  MaxMutations,  \* bound on mutations and transactions, over all managers
  MaxFaults,     \* bound on failing writes
  MaxCrashes     \* bound on process deaths

ASSUME ConstantsAssumption ==
  /\ ItemOf \in [Managers -> Items]
  /\ ModeOf \in [Items -> Lanes]
  /\ OfferedGates \subseteq UNIFIED_GATES
  /\ Transactional \subseteq Managers
  /\ MaxMutations \in Nat /\ MaxFaults \in Nat /\ MaxCrashes \in Nat

VARIABLES
  primary,   \* per work item: work-items/<id>/state.json
  mirror,    \* workflow-state.json; "of" names the item written last
  log,       \* per work item: the entries of state-transitions.log, as a set
  cache,     \* per manager: this._state
  tx,        \* per manager: this._txSnapshot
  pc,        \* per manager: the file the call in progress writes next
  op,        \* per manager: the call in progress
  rev,       \* mutations and transactions so far; stamps states (updated_at)
  granted,   \* history: gates ever set true by their authority
  durable,   \* history: states state.json has ever held
  faults, crashes

memory == <<cache, tx, pc, op>>
history == <<rev, granted, durable, faults, crashes>>
vars == <<primary, mirror, log, cache, tx, pc, op,
          rev, granted, durable, faults, crashes>>

Issue == [id : IssueIds, resolved : BOOLEAN]
AllStages == UNION {Stages(mode) : mode \in Lanes}
State == [stage : AllStages, gates : SUBSET GateIds, issues : Seq(Issue),
          evidence : SUBSET EvidenceIds, rev : Nat]
ASSUME NoStateAssumption == NoState \notin State

Operations == {"none", "initialize", "advanceStage", "setApproval",
               "recordIssue", "resolveIssue", "recordEvidence",
               "commit", "rollback"}
LogEntry == [operation : Operations, rev : Nat]
Steps == {"idle", "primary", "mirror", "log"}

TypeOK ==
  /\ primary \in [Items -> State \cup {NoState}]
  /\ mirror \in [of : Items, state : State] \cup {NoState}
  /\ log \in [Items -> SUBSET LogEntry]
  /\ cache \in [Managers -> State \cup {NoState}]
  /\ tx \in [Managers -> State \cup {NoState}]
  /\ pc \in [Managers -> Steps]
  /\ op \in [Managers -> Operations]
  /\ rev \in Nat /\ faults \in Nat /\ crashes \in Nat
  /\ granted \in [Items -> SUBSET GateIds]
  /\ durable \in [Items -> SUBSET State]
  \* A write in progress and an open transaction have a state in memory.
  /\ \A m \in Managers :
       pc[m] # "idle" \/ tx[m] # NoState => cache[m] \in State

FreshState(i) ==
  [stage |-> initialStage[ModeOf[i]], gates |-> {}, issues |-> <<>>,
   evidence |-> {}, rev |-> rev + 1]

Init ==
  /\ primary = [i \in Items |-> NoState]
  /\ mirror = NoState
  /\ log = [i \in Items |-> {}]
  /\ cache = [m \in Managers |-> NoState]
  /\ tx = [m \in Managers |-> NoState]
  /\ pc = [m \in Managers |-> "idle"]
  /\ op = [m \in Managers |-> "none"]
  /\ rev = 0 /\ faults = 0 /\ crashes = 0
  /\ granted = [i \in Items |-> {}]
  /\ durable = [i \in Items |-> {}]

-----------------------------------------------------------------------------
(* getState: the cached state if there is one, else what state.json holds. *)
Loaded(m) == IF cache[m] # NoState THEN cache[m] ELSE primary[ItemOf[m]]
Ready(m) == pc[m] = "idle" /\ Loaded(m) # NoState

(* The part every mutation shares: memory takes the new state before any   *)
(* file is written, and the first write is next.                           *)
Mutate(m, operation, state) ==
  /\ rev < MaxMutations
  /\ rev' = rev + 1
  /\ cache' = [cache EXCEPT ![m] = [state EXCEPT !.rev = rev + 1]]
  /\ op' = [op EXCEPT ![m] = operation]
  /\ pc' = [pc EXCEPT ![m] = "primary"]
  /\ UNCHANGED <<primary, mirror, log, tx, durable, faults, crashes>>

(* getState, and every call that loads the state and then throws.          *)
Load(m) ==
  /\ Ready(m) /\ cache[m] = NoState
  /\ cache' = [cache EXCEPT ![m] = Loaded(m)]
  /\ UNCHANGED <<primary, mirror, log, tx, pc, op, history>>

(* initialize, state.json present: take what is on disk, whatever is       *)
(* cached.                                                                 *)
InitializeExisting(m) ==
  /\ pc[m] = "idle" /\ primary[ItemOf[m]] # NoState
  /\ cache' = [cache EXCEPT ![m] = primary[ItemOf[m]]]
  /\ UNCHANGED <<primary, mirror, log, tx, pc, op, history>>

(* Mutant: the fresh state is not saved.                                   *)
InitializeFreshUnsaved(m) ==
  /\ pc[m] = "idle" /\ primary[ItemOf[m]] = NoState
  /\ rev < MaxMutations
  /\ rev' = rev + 1
  /\ cache' = [cache EXCEPT ![m] = FreshState(ItemOf[m])]
  /\ UNCHANGED <<primary, mirror, log, tx, pc, op, granted, durable,
                 faults, crashes>>

(* initialize, no state.json: a fresh state, persisted but not logged.     *)
InitializeFresh(m) ==
  /\ pc[m] = "idle" /\ primary[ItemOf[m]] = NoState
  /\ rev < MaxMutations
  /\ rev' = rev + 1
  /\ cache' = [cache EXCEPT ![m] = FreshState(ItemOf[m])]
  /\ op' = [op EXCEPT ![m] = "initialize"]
  /\ pc' = [pc EXCEPT ![m] = "primary"]
  /\ UNCHANGED <<primary, mirror, log, tx, granted, durable,
                 faults, crashes>>

(* Mutant: the engine's table is consulted, the gate registry is not.      *)
AdvanceStageUngated(m, targetStage) ==
  LET state == Loaded(m) IN
  /\ Ready(m)
  /\ ValidTransition(ModeOf[ItemOf[m]], state.stage, targetStage)
  /\ Mutate(m, "advanceStage", [state EXCEPT !.stage = targetStage])
  /\ UNCHANGED granted

AdvanceStage(m, targetStage) ==
  LET state == Loaded(m) IN
  /\ Ready(m)
  /\ MayAdvance(ModeOf[ItemOf[m]], state.gates, state.stage, targetStage)
  /\ Mutate(m, "advanceStage", [state EXCEPT !.stage = targetStage])
  /\ UNCHANGED granted

(* Any registered gate, of any lane and at any stage, may be set or        *)
(* revoked by its authority.                                               *)
SetApproval(m, gate, approved, approver) ==
  LET state == Loaded(m) IN
  /\ Ready(m)
  /\ gate.authority = approver
  /\ Mutate(m, "setApproval",
            [state EXCEPT !.gates = IF approved THEN @ \cup {gate.id}
                                    ELSE @ \ {gate.id}])
  /\ granted' = IF approved
                THEN [granted EXCEPT ![ItemOf[m]] = @ \cup {gate.id}]
                ELSE granted

(* Mutant: recording an issue again replaces its earlier entries.          *)
RecordIssueReplacing(m, id) ==
  LET state == Loaded(m)
      Other(issue) == issue.id # id
  IN
  /\ Ready(m)
  /\ Mutate(m, "recordIssue",
            [state EXCEPT !.issues =
               Append(SelectSeq(@, Other), [id |-> id, resolved |-> FALSE])])
  /\ UNCHANGED granted

RecordIssue(m, id) ==
  LET state == Loaded(m) IN
  /\ Ready(m)
  /\ Mutate(m, "recordIssue",
            [state EXCEPT !.issues =
               Append(@, [id |-> id, resolved |-> FALSE])])
  /\ UNCHANGED granted

(* findIndex: the first entry with the id, resolved or not.                *)
FirstIssue(issues, id) ==
  CHOOSE n \in DOMAIN issues :
    /\ issues[n].id = id
    /\ \A k \in 1 .. n - 1 : issues[k].id # id

ResolveIssue(m, id) ==
  LET state == Loaded(m) IN
  /\ Ready(m)
  /\ \E n \in DOMAIN state.issues : state.issues[n].id = id
  /\ Mutate(m, "resolveIssue",
            [state EXCEPT
               !.issues[FirstIssue(state.issues, id)].resolved = TRUE])
  /\ UNCHANGED granted

RecordEvidence(m, e) ==
  LET state == Loaded(m) IN
  /\ Ready(m)
  /\ Mutate(m, "recordEvidence", [state EXCEPT !.evidence = @ \cup {e}])
  /\ UNCHANGED granted

-----------------------------------------------------------------------------
(* Mutant: the snapshot is taken from disk and memory stays unloaded.      *)
BeginTransactionUnloaded(m) ==
  /\ m \in Transactional
  /\ Ready(m) /\ tx[m] = NoState
  /\ tx' = [tx EXCEPT ![m] = Loaded(m)]
  /\ rev < MaxMutations /\ rev' = rev + 1
  /\ UNCHANGED <<primary, mirror, log, cache, pc, op, granted,
                 durable, faults, crashes>>

(* Mutant: a rollback puts memory back and forgets the files.              *)
RollbackInMemory(m) ==
  /\ pc[m] = "idle" /\ tx[m] # NoState
  /\ cache' = [cache EXCEPT ![m] = tx[m]]
  /\ tx' = [tx EXCEPT ![m] = NoState]
  /\ UNCHANGED <<primary, mirror, log, pc, op, history>>

(* Transactions: a snapshot of memory, put back and persisted on rollback. *)
BeginTransaction(m) ==
  /\ m \in Transactional
  /\ Ready(m) /\ tx[m] = NoState
  /\ cache' = [cache EXCEPT ![m] = Loaded(m)]
  /\ tx' = [tx EXCEPT ![m] = Loaded(m)]
  /\ rev < MaxMutations /\ rev' = rev + 1
  /\ UNCHANGED <<primary, mirror, log, pc, op, granted, durable,
                 faults, crashes>>

CommitTransaction(m) ==
  /\ pc[m] = "idle" /\ tx[m] # NoState
  /\ log' = [log EXCEPT ![ItemOf[m]] =
               @ \cup {[operation |-> "commit", rev |-> cache[m].rev]}]
  /\ tx' = [tx EXCEPT ![m] = NoState]
  /\ UNCHANGED <<primary, mirror, cache, pc, op, history>>

RollbackTransaction(m) ==
  /\ pc[m] = "idle" /\ tx[m] # NoState
  /\ cache' = [cache EXCEPT ![m] = tx[m]]
  /\ op' = [op EXCEPT ![m] = "rollback"]
  /\ pc' = [pc EXCEPT ![m] = "primary"]
  /\ UNCHANGED <<primary, mirror, log, tx, history>>

-----------------------------------------------------------------------------
(* The call is over, returned or thrown; its local variables go.           *)
End(m) ==
  /\ pc' = [pc EXCEPT ![m] = "idle"]
  /\ op' = [op EXCEPT ![m] = "none"]

(* _persist, first half: rename the new state.json into place.             *)
PersistPrimary(m) ==
  /\ pc[m] = "primary"
  /\ primary' = [primary EXCEPT ![ItemOf[m]] = cache[m]]
  /\ durable' = [durable EXCEPT ![ItemOf[m]] = @ \cup {cache[m]}]
  /\ pc' = [pc EXCEPT ![m] = "mirror"]
  /\ UNCHANGED <<mirror, log, cache, tx, op, rev, granted, faults,
                 crashes>>

(* Mutant: the mirror is written first.                                    *)
PersistMirrorFirst(m) ==
  /\ pc[m] \in {"primary", "mirror"}
  /\ mirror' = [of |-> ItemOf[m], state |-> cache[m]]
  /\ pc' = [pc EXCEPT ![m] = IF pc[m] = "primary" THEN "primary" ELSE "log"]
  /\ UNCHANGED <<primary, log, cache, tx, op, history>>

(* Mutant: the mirror is refreshed on a stage change only.                 *)
PersistMirrorOnAdvance(m) ==
  /\ pc[m] = "mirror"
  /\ mirror' = IF op[m] \in {"initialize", "advanceStage"}
               THEN [of |-> ItemOf[m], state |-> cache[m]] ELSE mirror
  /\ pc' = [pc EXCEPT ![m] = "log"]
  /\ UNCHANGED <<primary, log, cache, tx, op, history>>

(* _persist, second half: the mirror.  The call then goes on: initialize   *)
(* is over, a rollback drops its snapshot, every call but initialize logs. *)
PersistMirror(m) ==
  /\ pc[m] = "mirror"
  /\ mirror' = [of |-> ItemOf[m], state |-> cache[m]]
  /\ \/ /\ op[m] = "initialize"
        /\ End(m)
        /\ UNCHANGED tx
     \/ /\ op[m] # "initialize"
        /\ pc' = [pc EXCEPT ![m] = "log"]
        /\ tx' = IF op[m] = "rollback" THEN [tx EXCEPT ![m] = NoState] ELSE tx
        /\ UNCHANGED op
  /\ UNCHANGED <<primary, log, cache, history>>

(* Mutant: the log is written ahead of the files.                          *)
AppendLogFirst(m) ==
  /\ pc[m] \in {"primary", "log"}
  /\ log' = [log EXCEPT ![ItemOf[m]] =
               @ \cup {[operation |-> op[m], rev |-> cache[m].rev]}]
  /\ IF pc[m] = "log" THEN End(m) ELSE UNCHANGED <<pc, op>>
  /\ UNCHANGED <<primary, mirror, cache, tx, history>>

AppendLog(m) ==
  /\ pc[m] = "log"
  /\ log' = [log EXCEPT ![ItemOf[m]] =
               @ \cup {[operation |-> op[m], rev |-> cache[m].rev]}]
  /\ End(m)
  /\ UNCHANGED <<primary, mirror, cache, tx, history>>

(* A write fails: the call throws, memory stays as the call left it.       *)
WriteFails(m) ==
  /\ pc[m] # "idle" /\ faults < MaxFaults
  /\ faults' = faults + 1
  /\ End(m)
  /\ UNCHANGED <<primary, mirror, log, cache, tx, rev, granted, durable,
                 crashes>>

(* The process dies; a new one starts with a new manager.                  *)
Crash(m) ==
  /\ crashes < MaxCrashes
  /\ crashes' = crashes + 1
  /\ cache' = [cache EXCEPT ![m] = NoState]
  /\ tx' = [tx EXCEPT ![m] = NoState]
  /\ End(m)
  /\ UNCHANGED <<primary, mirror, log, rev, granted, durable, faults>>

-----------------------------------------------------------------------------
Call(m) ==
  \/ Load(m)
  \/ InitializeExisting(m)
  \/ InitializeFresh(m)
  \/ \E targetStage \in AllStages : AdvanceStage(m, targetStage)
  \/ \E gate \in OfferedGates, approved \in BOOLEAN :
       SetApproval(m, gate, approved, gate.authority)
  \/ \E id \in IssueIds : RecordIssue(m, id) \/ ResolveIssue(m, id)
  \/ \E e \in EvidenceIds : RecordEvidence(m, e)
  \/ BeginTransaction(m)
  \/ CommitTransaction(m)
  \/ RollbackTransaction(m)

Write(m) == PersistPrimary(m) \/ PersistMirror(m) \/ AppendLog(m)

Next == \E m \in Managers : Call(m) \/ Write(m) \/ WriteFails(m) \/ Crash(m)

Spec == Init /\ [][Next]_vars
-----------------------------------------------------------------------------
(* What a state claims about the gates of work item i is true: its stage   *)
(* belongs to the item's lane, and every gate it records, and every gate   *)
(* on the way to its stage, was once set by its authority.                 *)
Earned(i, state) ==
  /\ state.stage \in Stages(ModeOf[i])
  /\ state.gates \subseteq granted[i]
  /\ GatesUpTo(ModeOf[i], state.stage) \subseteq granted[i]

(* A stage is earned: whatever managers, crashes and failed writes do to   *)
(* each other (stale caches, lost updates, rollbacks), no copy of a work   *)
(* item's state - on disk now or ever, in a manager's memory, or kept for  *)
(* a rollback - stands past a gate of its lane that the gate's authority   *)
(* never set, nor records such a gate as met.                              *)
StageEarned ==
  /\ \A i \in Items : primary[i] # NoState => Earned(i, primary[i])
  /\ \A i \in Items : \A state \in durable[i] : Earned(i, state)
  /\ \A m \in Managers : cache[m] # NoState => Earned(ItemOf[m], cache[m])
  /\ \A m \in Managers : tx[m] # NoState => Earned(ItemOf[m], tx[m])

(* The mirror is written second: it only ever shows a state that           *)
(* state.json has held, even when a crash or a failed write separates the  *)
(* two renames.                                                            *)
MirrorNotAhead ==
  mirror # NoState => mirror.state \in durable[mirror.of]

(* The audit trail never tells of a mutation or a rollback whose state did *)
(* not reach state.json (a commit entry may, after a failed write).        *)
LogNotAhead ==
  \A i \in Items : \A entry \in log[i] :
    entry.operation # "commit" =>
      \E state \in durable[i] : state.rev = entry.rev

(* The inductive invariant of the proofs: between the first write of a     *)
(* call and its end, what memory holds has reached state.json.             *)
WriteOrder ==
  \A m \in Managers :
    pc[m] \in {"mirror", "log"} => cache[m] \in durable[ItemOf[m]]
IInv == TypeOK /\ StageEarned /\ WriteOrder /\ MirrorNotAhead /\ LogNotAhead

(* With one manager per work item and no failing write, a manager at rest  *)
(* has either loaded nothing or holds exactly what state.json holds, over  *)
(* crashes and transactions too: the cache that is never reloaded is safe  *)
(* there.                                                                  *)
CacheCoherent ==
  \A m \in Managers :
    pc[m] = "idle" => cache[m] \in {NoState, primary[ItemOf[m]]}

(* While writes do not fail, what a rollback would publish has been on     *)
(* disk before: no transaction resurrects a state that was never saved.    *)
SnapshotDurable ==
  \A m \in Managers : tx[m] # NoState => tx[m] \in durable[ItemOf[m]]

(* With one manager per work item and no failing write, state.json moves   *)
(* from stage to stage as the transition table says, and forward through a *)
(* gate only when it records the gate as met; only a rollback jumps.       *)
DiskFollowsFSM ==
  [][\A i \in Items :
       primary[i] # NoState /\ primary'[i].stage # primary[i].stage =>
         \/ MayAdvance(ModeOf[i], primary[i].gates, primary[i].stage,
                       primary'[i].stage)
         \/ \E m \in Managers : ItemOf[m] = i /\ op[m] = "rollback"]_vars

(* With one manager per work item, nothing recorded is lost: issues and    *)
(* evidence once in state.json stay there, in order, unless a rollback     *)
(* takes them back.                                                        *)
RecordsSurvive ==
  [][\A i \in Items :
       primary[i] # NoState =>
         \/ /\ primary[i].evidence \subseteq primary'[i].evidence
            /\ Len(primary[i].issues) <= Len(primary'[i].issues)
            /\ \A n \in DOMAIN primary[i].issues :
                 /\ primary'[i].issues[n].id = primary[i].issues[n].id
                 /\ primary[i].issues[n].resolved =>
                      primary'[i].issues[n].resolved
         \/ \E m \in Managers : ItemOf[m] = i /\ op[m] = "rollback"]_vars

(* With one manager per work item, and as long as no process died and no   *)
(* write failed, the mirror agrees with state.json of the work item        *)
(* written last whenever every manager is at rest: "written after every    *)
(* mutation".                                                              *)
MirrorFresh ==
  /\ \A m \in Managers : pc[m] = "idle"
  /\ crashes = 0 /\ mirror # NoState
  => mirror.state = primary[mirror.of]
=============================================================================
