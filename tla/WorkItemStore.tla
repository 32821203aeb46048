--------------------------- MODULE WorkItemStore ---------------------------
(* The files under .opencode/work-items and how a command of the controller  *)
(* writes them: src/openkit-runtime/lib/work-item-store.js, state-guard.js   *)
(* and persistManagedState in workflow-state-controller.js. A process runs   *)
(* synchronous code; others run between its reads and its writes. A file is  *)
(* written in place, so a reader may find it cut short while it is written.  *)
EXTENDS Naturals, FiniteSets

CONSTANTS
    Procs,          \* processes that run commands
    Items,          \* work item ids
    None,           \* a missing file, no item, a revision that is not given
    Half,           \* the content of a file whose writer died
    MaxCommands,    \* bound on the commands that begin
    MaxCrashes,     \* bound on the deaths
    MaxRefusals,    \* bound on states that validateManagedState refuses
    Exclusive       \* no two commands write one item at the same time

VARIABLES
    state,      \* state[i]: work-items/<i>/state.json
    mirror,     \* workflow-state.json
    index,      \* work-items/index.json
    pc,         \* pc[p]: the step process p takes next
    cmd,        \* cmd[p]: the locals of its command
    found,      \* found[p]: the files as p read them, while no other command ran since
    begun, deaths, refused

files   == <<state, mirror, index>>
budget  == <<begun, deaths, refused>>
vars    == <<state, mirror, index, pc, cmd, found, begun, deaths, refused>>

\* A state is told apart by its revision, and names the one it was made from
\* (a fresh state was made from none).
Docs    == [item : Items, rev : Nat, from : Nat \union {None}]
Indexes == [active : Items \union {None}, items : SUBSET Items]

ASSUME StoreAssumption ==
    /\ None # Half /\ None \notin Items
    /\ None \notin Docs /\ Half \notin Docs /\ None \notin Indexes /\ Half \notin Indexes
    /\ Exclusive \in BOOLEAN
    /\ MaxCommands \in Nat /\ MaxCrashes \in Nat /\ MaxRefusals \in Nat

Kinds == {"mutate", "start", "bootstrap", "select"}
BootSteps   == {"boot", "bootEmpty", "bootState", "bootIndex", "bootMirror"}
UndoSteps   == {"undoState", "undoMirror", "undoIndex"}
SelectSteps == {"selIndex", "selRead", "selMirror", "selVerify", "selUndo", "selUndoIndex"}
Steps == {"idle", "archive", "read", "check", "write", "validate", "mirror", "verify", "index"}
         \union BootSteps \union UndoSteps \union SelectSteps

\* rev is the revision the command makes, before is the state to put back, prev the mirror, idx the index as it was read.
Command == [kind : Kinds \union {None}, rev : Nat, item : Items \union {None},
            expect : Docs \union {None}, expectMirror : Docs \union {None},
            active : Items \union {None}, idx : Indexes \union {None},
            before : Docs \union {None}, prev : Docs \union {None}, next : Docs \union {None}]
NoCommand == [kind |-> None, rev |-> 0, item |-> None, expect |-> None, expectMirror |-> None, active |-> None,
              idx |-> None, before |-> None, prev |-> None, next |-> None]
----------------------------------------------------------------------------
Exists(f)  == f # None
Parses(f)  == f \notin {None, Half}
EmptyIndex == [active |-> None, items |-> {}]

\* The item whose state p is changing, from the write to the end of the command.
Writing(p) == pc[p] \in {"write", "validate", "mirror", "verify", "index", "bootState", "bootIndex", "bootMirror"}
                        \union UndoSteps
Target(p)  == IF pc[p] \in BootSteps THEN cmd[p].next.item ELSE cmd[p].item
MayWrite(p, i) == Exclusive => \A q \in Procs \ {p} : Writing(q) => Target(q) # i

\* Which file the next step of a process writes.
WritesState(q, i) == pc[q] \in {"write", "undoState", "bootState"} /\ Target(q) = i
WritesMirror(q)   == pc[q] \in {"mirror", "undoMirror", "bootMirror", "selMirror"}
WritesIndex(q)    == pc[q] \in {"index", "undoIndex", "bootIndex", "bootEmpty", "selIndex", "selUndoIndex"}

\* readJson fails on a file that its writer left, or has at the moment, truncated.
BadState(p, i) == state[i] = Half \/ \E q \in Procs \ {p} : WritesState(q, i)
BadMirror(p)   == mirror = Half \/ (Exists(mirror) /\ \E q \in Procs \ {p} : WritesMirror(q))
BadIndex(p)    == index = Half \/ \E q \in Procs \ {p} : WritesIndex(q)

Go(p, step) == pc' = [pc EXCEPT ![p] = step]
Set(p, c)   == cmd' = [cmd EXCEPT ![p] = c]
End(p) == /\ Go(p, "idle")
          /\ Set(p, NoCommand)
          /\ found' = [found EXCEPT ![p] = None]

\* upsertIndexEntry, with the pointer that is written beside it
Upsert(idx, i, active) == [active |-> active, items |-> idx.items \union {i}]
----------------------------------------------------------------------------
\* The id of a bootstrapped item is random.
Fresh(i) == /\ state[i] = None
            /\ Parses(mirror) => mirror.item # i
            /\ \A q \in Procs : cmd[q].item # i

(* A command begins. bootstrapWorkflow unlinks the mirror first; the others  *)
(* begin with ensureWorkItemStoreReady.                                       *)
Begin(p, k, i) ==
    /\ pc[p] = "idle"
    /\ begun < MaxCommands
    /\ k = "bootstrap" => Fresh(i)
    /\ begun' = begun + 1
    /\ Go(p, IF k = "bootstrap" THEN "archive" ELSE "boot")
    /\ Set(p, [NoCommand EXCEPT !.kind = k, !.item = i, !.rev = begun + 1])
    /\ found' = [q \in Procs |-> None]
    /\ UNCHANGED <<state, mirror, index, deaths, refused>>

\* An active workflow is a conflict unless the caller asks to archive it.
Conflict(p) ==
    /\ pc[p] = "archive" /\ Parses(mirror)
    /\ End(p)
    /\ UNCHANGED <<state, mirror, index, budget>>

ArchivePrior(p) ==
    /\ pc[p] = "archive"
    /\ mirror' = IF Parses(mirror) THEN None ELSE mirror
    /\ Go(p, "boot")
    /\ UNCHANGED <<state, index, cmd, found, budget>>

\* bootstrapRuntimeStore: nothing to do, an empty index, or the legacy state.
Boot(p) ==
    /\ pc[p] = "boot"
    /\ IF Exists(index) THEN Parses(index) /\ Go(p, "read") /\ UNCHANGED cmd
       ELSE IF ~Exists(mirror) THEN Go(p, "bootEmpty") /\ UNCHANGED cmd
       ELSE /\ Parses(mirror) /\ MayWrite(p, mirror.item)
            /\ Go(p, "bootState")
            /\ Set(p, [cmd[p] EXCEPT !.next = mirror])
    /\ UNCHANGED <<files, found, budget>>

BootEmpty(p) ==
    /\ pc[p] = "bootEmpty"
    /\ index' = EmptyIndex
    /\ Go(p, "read")
    /\ UNCHANGED <<state, mirror, cmd, found, budget>>

BootState(p) ==
    /\ pc[p] = "bootState"
    /\ state' = [state EXCEPT ![cmd[p].next.item] = cmd[p].next]
    /\ Go(p, "bootIndex")
    /\ UNCHANGED <<mirror, index, cmd, found, budget>>

BootIndex(p) ==
    /\ pc[p] = "bootIndex"
    /\ index' = Upsert(EmptyIndex, cmd[p].next.item, cmd[p].next.item)
    /\ Go(p, "bootMirror")
    /\ UNCHANGED <<state, mirror, cmd, found, budget>>

\* refreshCompatibilityMirror; then the command goes on.
BootMirror(p) ==
    /\ pc[p] = "bootMirror"
    /\ Parses(index) /\ index.active # None /\ Parses(state[index.active])
    /\ mirror' = state[index.active]
    /\ Go(p, "read")
    /\ Set(p, [cmd[p] EXCEPT !.next = None])
    /\ UNCHANGED <<state, index, found, budget>>
----------------------------------------------------------------------------
(* The command reads the index, the state and the mirror, checks the state   *)
(* and computes the next one, or refuses. mutate takes the active item when  *)
(* it is given none; select goes on to setActiveWorkItem.                    *)
Subject(p) == IF cmd[p].item = None THEN index.active ELSE cmd[p].item
Fetched(p, i) ==
    [cmd[p] EXCEPT !.item = i,
        !.expect = IF Parses(state[i]) THEN state[i] ELSE None,
        !.expectMirror = IF index.active = i /\ Parses(state[i]) /\ Parses(mirror) THEN mirror ELSE None,
        !.active = IF cmd[p].kind = "mutate" /\ index.active # None THEN index.active ELSE i,
        !.next = [item |-> i, rev |-> cmd[p].rev,
                  from |-> IF cmd[p].kind = "mutate" THEN state[i].rev ELSE None]]
Alone(p) == \A q \in Procs \ {p} : pc[q] = "idle"
Found(p) == found' = [found EXCEPT ![p] = IF Alone(p) THEN [state |-> state, mirror |-> mirror, index |-> index] ELSE None]

Read(p) ==
    /\ pc[p] = "read" /\ cmd[p].kind # "select"
    /\ Parses(index)
    /\ Subject(p) # None
    /\ state[Subject(p)] # Half
    /\ cmd[p].kind = "mutate" => Exists(state[Subject(p)])
    /\ (index.active = Subject(p) /\ Exists(state[Subject(p)])) => mirror # Half
    /\ Set(p, Fetched(p, Subject(p)))
    /\ Go(p, "check")
    /\ Found(p)
    /\ UNCHANGED <<files, budget>>

\* Mutant: the check compares the item and not the revision.
StaleByItem(p) == LET c == cmd[p] IN
                  Parses(state[c.item]) /\ c.expect # None /\ state[c.item].item # c.expect.item

\* guardWrite: the state must be the one the command read. An item that has
\* no state is not checked, nor is a command that read none.
Stale(p) == LET c == cmd[p] IN
            Exists(state[c.item]) /\ c.expect # None /\ state[c.item] # c.expect

Check(p) ==
    /\ pc[p] = "check"
    /\ LET c == cmd[p] IN
       /\ Parses(index) /\ state[c.item] # Half /\ mirror # Half
       /\ ~Stale(p)
       /\ MayWrite(p, c.item)
       /\ Set(p, [c EXCEPT !.idx = index, !.before = state[c.item], !.prev = mirror])
    /\ Go(p, "write")
    /\ UNCHANGED <<files, found, budget>>

\* The mutator refuses, the check of the revision fails, or a file does not parse.
Reads(p) == pc[p] \in {"read", "check", "boot", "bootMirror"}
GivesUp(p) ==
    /\ Reads(p)
    /\ \/ pc[p] = "read"
       \/ pc[p] = "check" /\ Stale(p)
       \/ BadIndex(p) \/ BadMirror(p)
       \/ cmd[p].item # None /\ BadState(p, cmd[p].item)
       \/ /\ pc[p] = "bootMirror"
          /\ (Parses(index) /\ index.active # None) => (BadState(p, index.active) \/ ~Exists(state[index.active]))
    /\ End(p)
    /\ UNCHANGED <<files, budget>>
----------------------------------------------------------------------------
(* persistManagedState, after the check.                                      *)
WriteState(p) ==
    /\ pc[p] = "write"
    /\ state' = [state EXCEPT ![cmd[p].item] = cmd[p].next]
    /\ Go(p, "validate")
    /\ UNCHANGED <<mirror, index, cmd, found, budget>>

\* Only the mirror of the active item is refreshed, if it is the one expected.
Refreshes(p) == cmd[p].active = cmd[p].item
MirrorStale(p) == Parses(mirror) /\ cmd[p].expectMirror # None /\ mirror # cmd[p].expectMirror

\* Mutant: the mirror is refreshed only if there is one to compare.
ValidateExisting(p) ==
    /\ pc[p] = "validate"
    /\ Refreshes(p) => mirror # Half /\ ~MirrorStale(p)
    /\ Go(p, IF Refreshes(p) /\ cmd[p].expectMirror # None THEN "mirror" ELSE "index")
    /\ UNCHANGED <<files, cmd, found, budget>>

Validate(p) ==
    /\ pc[p] = "validate"
    /\ Refreshes(p) => mirror # Half /\ ~MirrorStale(p)
    /\ Go(p, IF Refreshes(p) THEN "mirror" ELSE "index")
    /\ UNCHANGED <<files, cmd, found, budget>>

WriteMirror(p) ==
    /\ pc[p] = "mirror"
    /\ mirror' = cmd[p].next
    /\ Go(p, "verify")
    /\ UNCHANGED <<state, index, cmd, found, budget>>

Verify(p) ==
    /\ pc[p] = "verify"
    /\ mirror = cmd[p].next
    /\ Go(p, "index")
    /\ UNCHANGED <<files, cmd, found, budget>>

WriteIndex(p) ==
    /\ pc[p] = "index"
    /\ index' = Upsert(cmd[p].idx, cmd[p].item, cmd[p].active)
    /\ End(p)
    /\ UNCHANGED <<state, mirror, budget>>

\* validateManagedState refuses the state that was written.
Refused(p) ==
    /\ pc[p] = "validate"
    /\ refused < MaxRefusals
    /\ refused' = refused + 1
    /\ Go(p, "undoState")
    /\ UNCHANGED <<files, cmd, found, begun, deaths>>

\* The mirror is not the one expected, before or after it is written, or cut short.
MirrorConflict(p) ==
    /\ \/ pc[p] = "validate" /\ Refreshes(p) /\ (MirrorStale(p) \/ BadMirror(p))
       \/ pc[p] = "verify" /\ (mirror # cmd[p].next \/ BadMirror(p))
    /\ Go(p, "undoState")
    /\ UNCHANGED <<files, cmd, found, budget>>

\* Mutant: a state that did not exist is not removed again.
UndoStateExisting(p) ==
    /\ pc[p] = "undoState"
    /\ state' = [state EXCEPT ![cmd[p].item] = IF Exists(cmd[p].before) THEN cmd[p].before ELSE @]
    /\ Go(p, "undoMirror")
    /\ UNCHANGED <<mirror, index, cmd, found, budget>>

\* The three files are put back as the command had read them.
UndoState(p) ==
    /\ pc[p] = "undoState"
    /\ state' = [state EXCEPT ![cmd[p].item] = cmd[p].before]
    /\ Go(p, "undoMirror")
    /\ UNCHANGED <<mirror, index, cmd, found, budget>>

UndoMirror(p) ==
    /\ pc[p] = "undoMirror"
    /\ mirror' = cmd[p].prev
    /\ Go(p, "undoIndex")
    /\ UNCHANGED <<state, index, cmd, found, budget>>

\* Mutant: the mirror that was read goes back over the index.
UndoIndexMixed(p) ==
    /\ pc[p] = "undoIndex"
    /\ index' = cmd[p].prev
    /\ End(p)
    /\ UNCHANGED <<state, mirror, budget>>

UndoIndex(p) ==
    /\ pc[p] = "undoIndex"
    /\ index' = cmd[p].idx
    /\ End(p)
    /\ UNCHANGED <<state, mirror, budget>>
----------------------------------------------------------------------------
(* selectActiveWorkItem: setActiveWorkItem, then the mirror. active is the   *)
(* item to go back to.                                                        *)
SelectRead(p) ==
    /\ pc[p] = "read" /\ cmd[p].kind = "select"
    /\ Parses(index) /\ cmd[p].item \in index.items /\ Parses(state[cmd[p].item])
    /\ Set(p, [cmd[p] EXCEPT !.active = index.active, !.idx = index])
    /\ Go(p, "selIndex")
    /\ Found(p)
    /\ UNCHANGED <<files, budget>>

SelectIndex(p) ==
    /\ pc[p] = "selIndex"
    /\ index' = [cmd[p].idx EXCEPT !.active = cmd[p].item]
    /\ Go(p, "selRead")
    /\ UNCHANGED <<state, mirror, cmd, found, budget>>

SelectFetch(p) ==
    /\ pc[p] = "selRead"
    /\ Parses(state[cmd[p].item]) /\ mirror # Half
    /\ Set(p, [cmd[p] EXCEPT !.next = state[cmd[p].item]])
    /\ Go(p, "selMirror")
    /\ UNCHANGED <<files, found, budget>>

SelectMirror(p) ==
    /\ pc[p] = "selMirror"
    /\ mirror' = cmd[p].next
    /\ Go(p, "selVerify")
    /\ UNCHANGED <<state, index, cmd, found, budget>>

SelectVerify(p) ==
    /\ pc[p] = "selVerify"
    /\ mirror = cmd[p].next
    /\ End(p)
    /\ UNCHANGED <<files, budget>>

\* The selection fails; the pointer is put back, the mirror is not.
SelectFails(p) ==
    /\ \/ pc[p] = "selRead" /\ (BadMirror(p) \/ BadState(p, cmd[p].item) \/ ~Exists(state[cmd[p].item]))
       \/ pc[p] = "selVerify" /\ (mirror # cmd[p].next \/ BadMirror(p))
    /\ IF cmd[p].active \in {None, cmd[p].item} THEN End(p) ELSE Go(p, "selUndo") /\ UNCHANGED <<cmd, found>>
    /\ UNCHANGED <<files, budget>>

SelectRefused(p) ==
    /\ pc[p] = "selVerify" /\ mirror = cmd[p].next
    /\ refused < MaxRefusals
    /\ refused' = refused + 1
    /\ IF cmd[p].active \in {None, cmd[p].item} THEN End(p) ELSE Go(p, "selUndo") /\ UNCHANGED <<cmd, found>>
    /\ UNCHANGED <<files, begun, deaths>>

SelectUndo(p) ==
    /\ pc[p] = "selUndo"
    /\ IF Parses(index) /\ cmd[p].active \in index.items /\ Parses(state[cmd[p].active])
       THEN Go(p, "selUndoIndex") /\ Set(p, [cmd[p] EXCEPT !.idx = index]) /\ UNCHANGED found
       ELSE End(p)
    /\ UNCHANGED <<files, budget>>

SelectUndoIndex(p) ==
    /\ pc[p] = "selUndoIndex"
    /\ index' = [cmd[p].idx EXCEPT !.active = cmd[p].active]
    /\ End(p)
    /\ UNCHANGED <<state, mirror, budget>>
----------------------------------------------------------------------------
(* A process dies; the file it was writing may be left cut short.             *)
Die(p) ==
    /\ pc[p] # "idle"
    /\ deaths < MaxCrashes
    /\ deaths' = deaths + 1
    /\ End(p)
    /\ \/ UNCHANGED files
       \/ \E i \in Items : /\ WritesState(p, i)
                           /\ state' = [state EXCEPT ![i] = Half]
                           /\ UNCHANGED <<mirror, index>>
       \/ WritesMirror(p) /\ mirror' = Half /\ UNCHANGED <<state, index>>
       \/ WritesIndex(p) /\ index' = Half /\ UNCHANGED <<state, mirror>>
    /\ UNCHANGED <<begun, refused>>

\* A store with an index, a checkout of an older version with a mirror only, or nothing.
Init ==
    /\ \/ \E i \in Items :
             LET d == [item |-> i, rev |-> 0, from |-> None] IN
             /\ mirror = d
             /\ \/ index = [active |-> i, items |-> {i}] /\ state = [j \in Items |-> IF j = i THEN d ELSE None]
                \/ index = None /\ state = [j \in Items |-> None]
       \/ mirror = None /\ index = None /\ state = [j \in Items |-> None]
    /\ pc = [p \in Procs |-> "idle"]
    /\ cmd = [p \in Procs |-> NoCommand]
    /\ found = [p \in Procs |-> None]
    /\ begun = 0 /\ deaths = 0 /\ refused = 0

Bootstrap(p) == Conflict(p) \/ ArchivePrior(p) \/ Boot(p) \/ BootEmpty(p) \/ BootState(p) \/ BootIndex(p) \/ BootMirror(p)
Persist(p) == \/ Read(p) \/ Check(p) \/ GivesUp(p)
              \/ WriteState(p) \/ Validate(p) \/ WriteMirror(p) \/ Verify(p) \/ WriteIndex(p)
              \/ Refused(p) \/ MirrorConflict(p) \/ UndoState(p) \/ UndoMirror(p) \/ UndoIndex(p)
Select(p) == \/ SelectRead(p) \/ SelectIndex(p) \/ SelectFetch(p) \/ SelectMirror(p) \/ SelectVerify(p)
             \/ SelectFails(p) \/ SelectRefused(p) \/ SelectUndo(p) \/ SelectUndoIndex(p)
BeginAny(p) == \/ \E i \in Items \union {None} : Begin(p, "mutate", i)
               \/ \E i \in Items, k \in Kinds \ {"mutate"} : Begin(p, k, i)
Next == \E p \in Procs : BeginAny(p) \/ Bootstrap(p) \/ Persist(p) \/ Select(p) \/ Die(p)
Spec == Init /\ [][Next]_vars
----------------------------------------------------------------------------
TypeOK ==
    /\ state \in [Items -> Docs \union {None, Half}]
    /\ mirror \in Docs \union {None, Half}
    /\ index \in Indexes \union {None, Half}
    /\ pc \in [Procs -> Steps]
    /\ cmd \in [Procs -> Command]
    /\ found \in [Procs -> [state : [Items -> Docs \union {None, Half}], mirror : Docs \union {None, Half},
                            index : Indexes \union {None, Half}] \union {None}]
    /\ begun \in 0 .. MaxCommands /\ deaths \in 0 .. MaxCrashes /\ refused \in 0 .. MaxRefusals

\* The state of an item that commands have left: while a command may still put
\* back what it found, what it found counts.
Tentative(p, i) == pc[p] \in {"validate", "mirror", "verify", "index", "undoState"} /\ cmd[p].item = i
Settled == [i \in Items |-> IF \E p \in Procs : Tentative(p, i)
                            THEN cmd[CHOOSE p \in Procs : Tentative(p, i)].before
                            ELSE state[i]]
Commands == INSTANCE AtomicCommands WITH doc <- Settled

\* Whatever the commands on other items do to the mirror and the index, and
\* wherever a process dies, the state of an item changes as AtomicCommands
\* says: no command publishes over a state it has not read, and none leaves
\* the item at a state that it failed to publish.
ImplementsCommands == Commands!Spec

\* A command that fails, and that no other command ran beside, leaves every
\* file as it found it when it read them (persistManagedState, line 697; a
\* failed selection leaves the mirror of the item it could not select, unless
\* it never wrote). What it wrote before it read is not put back: a bootstrap
\* has unlinked the mirror of the prior workflow by then (bootstrapWorkflow),
\* and an older checkout has got its index (bootstrapRuntimeStore).
FailureLeavesNoTrace ==
    [][\A p \in Procs :
        (pc[p] \in UndoSteps \union {"selUndo", "selUndoIndex"} /\ pc'[p] = "idle" /\ deaths' = deaths /\ found[p] # None)
        => LET f == found[p] IN
           \/ cmd[p].kind # "select" /\ <<state', mirror', index'>> = <<f.state, f.mirror, f.index>>
           \/ cmd[p].kind = "select" /\ state' = f.state
              /\ (index' = f.index \/ ~Parses(state[cmd[p].active]) \/ cmd[p].active \notin f.index.items)]_vars

\* Whatever races and deaths have left in the three files, a command on the
\* active item that succeeds, with no other beside it, brings them together.
SuccessSettles ==
    [][\A p \in Procs :
        (pc[p] \in {"index", "selVerify"} /\ pc'[p] = "idle" /\ deaths' = deaths /\ refused' = refused
         /\ found[p] # None /\ (pc[p] = "index" => Refreshes(p)))
        => /\ index'.active = cmd[p].item /\ cmd[p].item \in index'.items
           /\ mirror' = state'[cmd[p].item]]_vars
============================================================================
