------------------------------ MODULE Sessions ------------------------------
(***************************************************************************)
(* src/runtime/sessions: the sessions of one repository, from launch to    *)
(* finish.  Three files are shared by every process: sessions/index.json,  *)
(* work-items/index.json and each session's meta.json.  The actors are     *)
(*   - servers, the MCP server of a session: heartbeat, shutdown handler,  *)
(*     and the bootstrap tool that binds the session to a new work item;   *)
(*   - terminals, in which the user runs resume, kill, abandon and finish. *)
(*                                                                         *)
(* An update of an index under its lock is one step: AtomicJson shows that *)
(* it implements AtomicUpdate.  The bootstrap tool and the workflow        *)
(* controller write work-items/index.json without the lock, and that is a  *)
(* step that reads and a later one that writes.  All sessions have a quick *)
(* lane: they have no worktree.                                            *)
(***************************************************************************)
EXTENDS Naturals, Sequences

CONSTANTS
  Sessions,     \* session ids
  Items,        \* work item ids
  Servers,      \* MCP server processes
  Terminals,    \* shells the user types commands in
  None,
  Settled,      \* whether to start with every session bound and at work
  Exclusive,    \* whether a session is attached to again only once its
                \* last server is dead
  MaxCommands,  \* bound on commands
  MaxMutations, \* bound on controller commands
  MaxCrashes    \* bound on commands that die or time out on a lock

ASSUME ConstantsAssumption ==
  /\ Settled \in BOOLEAN /\ Exclusive \in BOOLEAN
  /\ None \notin Sessions \cup Items \cup Servers
  /\ MaxCommands \in Nat /\ MaxMutations \in Nat /\ MaxCrashes \in Nat
  /\ Settled => /\ \E f \in [Sessions -> Items] :
                     \A s, t \in Sessions : f[s] = f[t] => s = t
                /\ \E f \in [Sessions -> Servers] :
                     \A s, t \in Sessions : f[s] = f[t] => s = t

VARIABLES
  meta,      \* per session, meta.json: no file, unbound, or the work item
  entry,     \* per session, sessions/index.json: its status there, if any
  beat,      \* per session, heartbeat.json: the server in it
  items,     \* per work item, work-items/index.json: its status and owner
  passed,    \* work items whose final gate is approved
  server,    \* per server: unborn, running, shut (its handler ran), dead
  home,      \* per server: the session in its environment
  pc,        \* per server: the step its tool call takes next
  target,    \* per server: the work item of that call
  snapshot,  \* per server: the index that call has read
  signalled, \* servers with a SIGTERM or SIGINT to handle
  doomed,    \* servers with a SIGKILL
  todo,      \* per terminal: what its command has left to do
  subject,   \* per terminal: the session it is about
  object,    \* per terminal: the work item it read from meta.json
  quarry,    \* per terminal: the server it read from heartbeat.json
  reaped,    \* history: servers whose session a kill has marked orphan
  gone,      \* history: sessions removed from the index
  commands, mutations, crashes

files == <<meta, entry, beat, items>>
agents == <<server, home, pc, target, snapshot, signalled, doomed>>
shells == <<todo, subject, object, quarry>>
counters == <<commands, mutations, crashes>>
vars == <<files, passed, agents, shells, reaped, gone, counters>>

Item == [status : {"absent", "in_progress", "done", "abandoned"},
         owner : Sessions \cup {None}]
Unbound == "unbound"
NoFile == "none"
Live == {"running", "shut"}

ASSUME NamesAssumption == Items \cap {Unbound, NoFile} = {}

TypeOK ==
  /\ meta \in [Sessions -> Items \cup {Unbound, NoFile}]
  /\ entry \in [Sessions -> {"absent", "active", "orphan", "closed"}]
  /\ beat \in [Sessions -> Servers \cup {None}]
  /\ items \in [Items -> Item]
  /\ passed \in SUBSET Items
  /\ server \in [Servers -> {"unborn", "running", "shut", "dead"}]
  /\ home \in [Servers -> Sessions \cup {None}]
  /\ target \in [Servers -> Items \cup {None}]
  /\ snapshot \in [Servers -> [Items -> Item]]
  /\ signalled \in SUBSET Servers /\ doomed \in SUBSET Servers
  /\ subject \in [Terminals -> Sessions \cup {None}]
  /\ object \in [Terminals -> Items \cup {None}]
  /\ quarry \in [Terminals -> Servers \cup {None}]

Injective(f) == \A x, y \in DOMAIN f : f[x] = f[y] => x = y
OwnItem == CHOOSE f \in [Sessions -> Items] : Injective(f)
OwnServer == CHOOSE f \in [Sessions -> Servers] : Injective(f)
NoItem == [status |-> "absent", owner |-> None]
NoSnapshot == [i \in Items |-> NoItem]

(* Nothing launched yet; or every session bound and at the end of its lane *)
(* (resumed after the approval of the gate, which see).                    *)
Init ==
  /\ meta = [s \in Sessions |-> IF Settled THEN OwnItem[s] ELSE NoFile]
  /\ entry = [s \in Sessions |-> IF Settled THEN "active" ELSE "absent"]
  /\ beat = [s \in Sessions |-> IF Settled THEN OwnServer[s] ELSE None]
  /\ items = [i \in Items |->
       IF Settled /\ \E s \in Sessions : OwnItem[s] = i
       THEN [status |-> "in_progress",
             owner |-> CHOOSE s \in Sessions : OwnItem[s] = i]
       ELSE NoItem]
  /\ passed = IF Settled THEN Items ELSE {}
  /\ home = [v \in Servers |->
       IF Settled /\ \E s \in Sessions : OwnServer[s] = v
       THEN CHOOSE s \in Sessions : OwnServer[s] = v ELSE None]
  /\ server = [v \in Servers |-> IF home[v] = None THEN "unborn" ELSE "running"]
  /\ pc = [v \in Servers |-> "idle"]
  /\ target = [v \in Servers |-> None]
  /\ snapshot = [v \in Servers |-> NoSnapshot]
  /\ signalled = {} /\ doomed = {}
  /\ todo = [t \in Terminals |-> <<>>]
  /\ subject = [t \in Terminals |-> None]
  /\ object = [t \in Terminals |-> None]
  /\ quarry = [t \in Terminals |-> None]
  /\ reaped = {} /\ gone = {}
  /\ commands = 0 /\ mutations = 0 /\ crashes = 0

-----------------------------------------------------------------------------
(* Updates of the indexes: each changes an entry that is there, and only   *)
(* addSessionEntry makes one.                                              *)

UpdateEntry(s, status) ==
  entry' = [entry EXCEPT ![s] = IF @ = "absent" THEN @ ELSE status]

Owned(index, i, s) ==
  [index EXCEPT ![i].owner = IF index[i].status = "absent" THEN @ ELSE s]
WithStatus(index, i, status) ==
  [index EXCEPT ![i].status = IF @ = "absent" THEN @ ELSE status]

-----------------------------------------------------------------------------
(* The launcher: meta.json, then the index entry, then it spawns.          *)
LaunchMeta(s) ==
  /\ meta[s] = NoFile /\ entry[s] = "absent" /\ s \notin gone
  /\ meta' = [meta EXCEPT ![s] = Unbound]
  /\ UNCHANGED <<entry, beat, items, passed, agents, shells, reaped, gone, counters>>

LaunchEntry(s) ==
  /\ meta[s] = Unbound /\ entry[s] = "absent"
  /\ entry' = [entry EXCEPT ![s] = "active"]
  /\ UNCHANGED <<meta, beat, items, passed, agents, shells, reaped, gone, counters>>

(* A server starts in an environment that names the session, the           *)
(* launcher's or one printed by resume, and writes its first heartbeat.    *)
StartServer(v, s) ==
  /\ server[v] = "unborn" /\ entry[s] # "absent"
  /\ Exclusive => \A w \in Servers : home[w] = s => server[w] = "dead"
  /\ server' = [server EXCEPT ![v] = "running"]
  /\ home' = [home EXCEPT ![v] = s]
  /\ beat' = [beat EXCEPT ![s] = v]
  /\ UNCHANGED <<meta, entry, items, passed, pc, target, snapshot, signalled,
                 doomed, shells, reaped, gone, counters>>

(* The heartbeat timer, with mkdir -p of the session's directory.          *)
Heartbeat(v) ==
  /\ server[v] = "running" /\ pc[v] = "idle" /\ beat[home[v]] # v
  /\ beat' = [beat EXCEPT ![home[v]] = v]
  /\ UNCHANGED <<meta, entry, items, passed, agents, shells, reaped, gone, counters>>

(* The user presses Ctrl-C.                                                *)
Interrupt(v) ==
  /\ server[v] = "running" /\ v \notin signalled
  /\ signalled' = signalled \cup {v}
  /\ UNCHANGED <<files, passed, server, home, pc, target, snapshot, doomed,
                 shells, reaped, gone, counters>>

(* The handler of SIGTERM and SIGINT, once: it stops the heartbeat and     *)
(* closes the entry; the process lives on.                                 *)
Shutdown(v) ==
  /\ server[v] = "running" /\ pc[v] = "idle" /\ v \in signalled
  /\ server' = [server EXCEPT ![v] = "shut"]
  /\ UpdateEntry(home[v], "closed")
  /\ UNCHANGED <<meta, beat, items, passed, home, pc, target, snapshot,
                 signalled, doomed, shells, reaped, gone, counters>>

(* A process exits, crashes, or dies of SIGKILL; nothing is written.       *)
Die(v) ==
  /\ server[v] \in Live
  /\ server' = [server EXCEPT ![v] = "dead"]
  /\ pc' = [pc EXCEPT ![v] = "idle"]
  /\ snapshot' = [snapshot EXCEPT ![v] = NoSnapshot]
  /\ UNCHANGED <<files, passed, home, target, signalled, doomed, shells, reaped,
                 gone, counters>>

-----------------------------------------------------------------------------
(* The bootstrap tool: one synchronous call of a server that other         *)
(* processes see as several accesses to files.                             *)
GoTo(v, step) == pc' = [pc EXCEPT ![v] = step]
ReadIndex(v) == snapshot' = [snapshot EXCEPT ![v] = items]
DropIndex(v) == snapshot' = [snapshot EXCEPT ![v] = NoSnapshot]
idleRest == <<passed, server, home, signalled, doomed, shells, reaped, gone, counters>>

(* A session that is bound is refused.  The call may also end here, when   *)
(* another workflow is active.                                             *)
Bootstrap(v, i) ==
  /\ server[v] = "running" /\ pc[v] = "idle"
  /\ meta[home[v]] \notin Items
  /\ items[i].status = "absent" /\ \A w \in Servers : target[w] # i
  /\ target' = [target EXCEPT ![v] = i]
  /\ GoTo(v, IF meta[home[v]] = NoFile THEN "publish" ELSE "publishThenBind")
  /\ ReadIndex(v)
  /\ UNCHANGED <<files, idleRest>>

(* startTask writes the index it has read, with the new work item.         *)
PublishItem(v) ==
  /\ server[v] \in Live /\ pc[v] \in {"publish", "publishThenBind"}
  /\ items' = [snapshot[v] EXCEPT ![target[v]] =
                 [status |-> "in_progress", owner |-> None]]
  /\ GoTo(v, IF pc[v] = "publish" THEN "idle" ELSE "bind")
  /\ DropIndex(v)
  /\ UNCHANGED <<meta, entry, beat, target, idleRest>>

(* bindSessionMeta: meta.json must exist and be unbound ...                *)
BindCheck(v) ==
  /\ server[v] \in Live /\ pc[v] = "bind"
  /\ GoTo(v, IF meta[home[v]] = Unbound THEN "rename" ELSE "idle")
  /\ UNCHANGED <<files, target, snapshot, idleRest>>

(* Mutant: the session's directory is made when it is missing.             *)
BindRenameMkdir(v) ==
  /\ server[v] \in Live /\ pc[v] = "rename"
  /\ meta' = [meta EXCEPT ![home[v]] = target[v]] /\ GoTo(v, "look")
  /\ UNCHANGED <<entry, beat, items, target, snapshot, idleRest>>

(* ... and is replaced, if its directory is still there.                   *)
BindRename(v) ==
  /\ server[v] \in Live /\ pc[v] = "rename"
  /\ IF meta[home[v]] = NoFile /\ beat[home[v]] = None
     THEN GoTo(v, "idle") /\ UNCHANGED meta
     ELSE meta' = [meta EXCEPT ![home[v]] = target[v]] /\ GoTo(v, "look")
  /\ UNCHANGED <<entry, beat, items, target, snapshot, idleRest>>

(* Mutant: the work item it points to is the first one in the index.       *)
PointReadFirst(v) ==
  /\ server[v] \in Live /\ pc[v] = "look"
  /\ ReadIndex(v)
  /\ \E i \in Items : /\ items[i].status # "absent"
                      /\ target' = [target EXCEPT ![v] = i]
  /\ GoTo(v, "point")
  /\ UNCHANGED <<files, idleRest>>

(* setCurrentSessionIdSync: read the index ...                             *)
PointRead(v) ==
  /\ server[v] \in Live /\ pc[v] = "look"
  /\ ReadIndex(v)
  /\ GoTo(v, "point")
  /\ UNCHANGED <<files, target, idleRest>>

(* ... and rename over it a copy that points the work item to the session. *)
PointWrite(v) ==
  /\ server[v] \in Live /\ pc[v] = "point"
  /\ items' = Owned(snapshot[v], target[v], home[v])
  /\ GoTo(v, "idle")
  /\ DropIndex(v)
  /\ UNCHANGED <<meta, entry, beat, target, idleRest>>

-----------------------------------------------------------------------------
(* The workflow controller, in a tool call of a server: it reads the index *)
(* with the state of a work item, and writes the index back with a new     *)
(* entry for the work item, made from that state alone.  The state knows   *)
(* nothing of owners, nor of an item that was abandoned.                   *)
MutateRead(v, i) ==
  /\ server[v] = "running" /\ pc[v] = "idle"
  /\ mutations < MaxMutations /\ items[i].status # "absent"
  /\ mutations' = mutations + 1
  /\ target' = [target EXCEPT ![v] = i]
  /\ ReadIndex(v)
  /\ GoTo(v, "write")
  /\ UNCHANGED <<files, passed, server, home, signalled, doomed, shells, reaped,
                 gone, commands, crashes>>

MutateWrite(v) ==
  /\ server[v] \in Live /\ pc[v] = "write"
  /\ \E status \in {"in_progress", "done"} :
       /\ status = "done" => target[v] \in passed
       /\ items' = [snapshot[v] EXCEPT ![target[v]] =
                      [status |-> status, owner |-> None]]
  /\ passed' \in {passed, passed \cup {target[v]}}
  /\ GoTo(v, "idle")
  /\ DropIndex(v)
  /\ UNCHANGED <<meta, entry, beat, server, home, target, signalled, doomed,
                 shells, reaped, gone, counters>>

-----------------------------------------------------------------------------
(* Commands.  A command reads what it needs, refuses or not, and then has  *)
(* a number of steps to do, in order; another process may come between any *)
(* two of them.                                                            *)

IfBound(i, steps) == IF i = None THEN <<>> ELSE steps

(* Mutant: the status comes before the owner.                              *)
ResumeStepsStatusFirst(i) ==
  <<"activate">> \o IfBound(i, <<"reopen", "own">>)

ResumeSteps(i) == <<"activate">> \o IfBound(i, <<"own", "reopen">>)

AbandonSteps(i) ==
  IfBound(i, <<"abandon", "disown">>) \o <<"delete", "remove">>
FinishSteps == <<"done", "disown", "close">>
KillSteps(i) ==
  <<"terminate", "escalate", "confirm", "orphan">> \o IfBound(i, <<"disown">>)

(* Mutant: a session that is not bound is taken for a bound one.           *)
BoundItemUnchecked(s) == meta[s]

BoundItem(s) == IF meta[s] \in Items THEN meta[s] ELSE None

(* The user, who knows the session from the index, enters a command that   *)
(* is not refused.                                                         *)
Enter(t, s, steps, v) ==
  /\ todo[t] = <<>> /\ commands < MaxCommands
  /\ entry[s] # "absent" /\ meta[s] # NoFile
  /\ commands' = commands + 1
  /\ todo' = [todo EXCEPT ![t] = steps]
  /\ subject' = [subject EXCEPT ![t] = s]
  /\ object' = [object EXCEPT ![t] = BoundItem(s)]
  /\ quarry' = [quarry EXCEPT ![t] = v]
  /\ UNCHANGED <<files, passed, agents, reaped, gone, mutations, crashes>>

(* Whatever the status of the session or of its work item.                 *)
Resume(t, s) == Enter(t, s, ResumeSteps(BoundItem(s)), None)

(* The session's server may well be alive.                                 *)
Abandon(t, s) == Enter(t, s, AbandonSteps(BoundItem(s)), None)

(* resolveSession and the gate: the owner must be this session.            *)
Finish(t, s) ==
  /\ meta[s] \in passed /\ items[meta[s]].owner = s
  /\ Enter(t, s, FinishSteps, None)

(* The server in heartbeat.json must be alive.  With --abandon, an         *)
(* abandon follows.                                                        *)
Kill(t, s) ==
  /\ beat[s] # None /\ server[beat[s]] \in Live
  /\ \E tail \in {<<>>, <<"thenAbandon">>} :
       Enter(t, s, KillSteps(BoundItem(s)) \o tail, beat[s])

-----------------------------------------------------------------------------
Doing(t, step) == todo[t] # <<>> /\ Head(todo[t]) = step
Done(t) == todo' = [todo EXCEPT ![t] = Tail(@)]
shellRest == <<subject, object, quarry, counters>>

(* resume, and its two updates of the work item.                           *)
Activate(t) ==
  /\ Doing(t, "activate") /\ Done(t)
  /\ UpdateEntry(subject[t], "active")
  /\ UNCHANGED <<meta, beat, items, passed, agents, reaped, gone, shellRest>>

Own(t) ==
  /\ Doing(t, "own") /\ Done(t)
  /\ items' = Owned(items, object[t], subject[t])
  /\ UNCHANGED <<meta, entry, beat, passed, agents, reaped, gone, shellRest>>

Reopen(t) ==
  /\ Doing(t, "reopen") /\ Done(t)
  /\ items' = WithStatus(items, object[t], "in_progress")
  /\ UNCHANGED <<meta, entry, beat, passed, agents, reaped, gone, shellRest>>

(* finish, abandon and kill clear the owner of the work item.              *)
Disown(t) ==
  /\ Doing(t, "disown") /\ Done(t)
  /\ items' = Owned(items, object[t], None)
  /\ UNCHANGED <<meta, entry, beat, passed, agents, reaped, gone, shellRest>>

(* finish: the work item first, the session last.                          *)
MarkDone(t) ==
  /\ Doing(t, "done") /\ Done(t)
  /\ items' = WithStatus(items, object[t], "done")
  /\ UNCHANGED <<meta, entry, beat, passed, agents, reaped, gone, shellRest>>

Close(t) ==
  /\ Doing(t, "close") /\ Done(t)
  /\ UpdateEntry(subject[t], "closed")
  /\ UNCHANGED <<meta, beat, items, passed, agents, reaped, gone, shellRest>>

(* abandon: status, (owner,) the session's directory, its entry.           *)
MarkAbandoned(t) ==
  /\ Doing(t, "abandon") /\ Done(t)
  /\ items' = WithStatus(items, object[t], "abandoned")
  /\ UNCHANGED <<meta, entry, beat, passed, agents, reaped, gone, shellRest>>

DeleteDir(t) ==
  /\ Doing(t, "delete") /\ Done(t)
  /\ meta' = [meta EXCEPT ![subject[t]] = NoFile]
  /\ beat' = [beat EXCEPT ![subject[t]] = None]
  /\ UNCHANGED <<entry, items, passed, agents, reaped, gone, shellRest>>

RemoveEntry(t) ==
  /\ Doing(t, "remove") /\ Done(t)
  /\ entry' = [entry EXCEPT ![subject[t]] = "absent"]
  /\ gone' = gone \cup {subject[t]}
  /\ UNCHANGED <<meta, beat, items, passed, agents, reaped, shellRest>>

-----------------------------------------------------------------------------
(* kill: SIGTERM; three seconds later, SIGKILL if that did not do.         *)
Terminate(t) ==
  /\ Doing(t, "terminate") /\ Done(t)
  /\ signalled' = signalled \cup {quarry[t]}
  /\ UNCHANGED <<files, passed, server, home, pc, target, snapshot, doomed,
                 reaped, gone, shellRest>>

Escalate(t) ==
  /\ Doing(t, "escalate") /\ Done(t)
  /\ doomed' = IF server[quarry[t]] \in Live THEN doomed \cup {quarry[t]} ELSE doomed
  /\ UNCHANGED <<files, passed, server, home, pc, target, snapshot, signalled,
                 reaped, gone, shellRest>>

(* Mutant: the kill is taken to have worked.                               *)
ConfirmUnseen(t) ==
  /\ Doing(t, "confirm") /\ Done(t)
  /\ UNCHANGED <<files, passed, agents, reaped, gone, shellRest>>

(* The process is polled until it is gone ...                              *)
Confirm(t) ==
  /\ Doing(t, "confirm") /\ server[quarry[t]] = "dead" /\ Done(t)
  /\ UNCHANGED <<files, passed, agents, reaped, gone, shellRest>>

(* Mutant: the polling has no deadline.                                    *)
GiveUpNever(t) ==
  /\ Doing(t, "confirm") /\ server[quarry[t]] \in Live
  /\ UNCHANGED vars

(* ... or the time is up, and the command fails.                           *)
GiveUp(t) ==
  /\ Doing(t, "confirm") /\ server[quarry[t]] \in Live
  /\ todo' = [todo EXCEPT ![t] = <<>>]
  /\ UNCHANGED <<files, passed, agents, reaped, gone, shellRest>>

MarkOrphan(t) ==
  /\ Doing(t, "orphan") /\ Done(t)
  /\ UpdateEntry(subject[t], "orphan")
  /\ reaped' = reaped \cup {quarry[t]}
  /\ UNCHANGED <<meta, beat, items, passed, agents, gone, shellRest>>

(* --abandon: abandonSession reads meta.json again.                        *)
ThenAbandon(t) ==
  /\ Doing(t, "thenAbandon")
  /\ object' = [object EXCEPT ![t] = BoundItem(subject[t])]
  /\ todo' = [todo EXCEPT ![t] =
       IF meta[subject[t]] = NoFile THEN <<>> ELSE AbandonSteps(BoundItem(subject[t]))]
  /\ UNCHANGED <<files, passed, agents, reaped, gone, subject, quarry, counters>>

(* A command dies, or an update of it times out on the lock.               *)
Interrupted(t) ==
  /\ todo[t] # <<>> /\ crashes < MaxCrashes
  /\ crashes' = crashes + 1
  /\ todo' = [todo EXCEPT ![t] = <<>>]
  /\ UNCHANGED <<files, passed, agents, reaped, gone, subject, object, quarry,
                 commands, mutations>>

Progress(t) ==
  \/ Activate(t) \/ Own(t) \/ Reopen(t) \/ Disown(t) \/ MarkDone(t) \/ Close(t)
  \/ MarkAbandoned(t) \/ DeleteDir(t) \/ RemoveEntry(t)
  \/ Terminate(t) \/ Escalate(t) \/ Confirm(t) \/ GiveUp(t) \/ MarkOrphan(t)
  \/ ThenAbandon(t)

ServerStep(v) ==
  \/ \E s \in Sessions : StartServer(v, s)
  \/ Heartbeat(v) \/ Interrupt(v) \/ Shutdown(v) \/ Die(v)
  \/ \E i \in Items : Bootstrap(v, i) \/ MutateRead(v, i)
  \/ PublishItem(v) \/ BindCheck(v) \/ BindRename(v)
  \/ PointRead(v) \/ PointWrite(v) \/ MutateWrite(v)

Next ==
  \/ \E s \in Sessions : LaunchMeta(s) \/ LaunchEntry(s)
  \/ \E v \in Servers : ServerStep(v)
  \/ \E t \in Terminals :
       \/ \E s \in Sessions :
            Resume(t, s) \/ Abandon(t, s) \/ Finish(t, s) \/ Kill(t, s)
       \/ Progress(t) \/ Interrupted(t)

Spec == Init /\ [][Next]_vars

(* A command that was entered runs; the user and the servers need not act. *)
FairSpec == Spec /\ \A t \in Terminals : WF_vars(Progress(t))
-----------------------------------------------------------------------------
(* Only the session that is bound to a work item owns it, as long as that  *)
(* session exists: resume, a late bind and a stale copy of the index never *)
(* hand it to another one.                                                 *)
OwnerIsBound ==
  \A i \in Items : items[i].owner # None =>
    meta[items[i].owner] \in {i, NoFile}

(* A session a kill has marked orphan has lost its process for good, so    *)
(* its shutdown handler cannot turn the orphan into a closed session.      *)
ReapedAreDead == \A v \in reaped : server[v] = "dead"

(* An abandoned session is gone: no heartbeat, late bind, shutdown or      *)
(* command that was under way brings its entry or its meta.json back.      *)
GoneStaysGone == \A s \in gone : entry[s] = "absent" /\ meta[s] = NoFile

(* With all commands at rest, a work item that is done or abandoned has no *)
(* owner.  No lock spans the two updates every command makes: that setting *)
(* goes owner first, and clearing status first, is what makes it so.       *)
AtRest == \A t \in Terminals : todo[t] = <<>>
SettledItemsUnowned ==
  AtRest => \A i \in Items :
    items[i].status \in {"done", "abandoned"} => items[i].owner = None

(* A command ends, even on a process that no signal can kill.              *)
CommandsEnd == \A t \in Terminals : todo[t] # <<>> ~> todo[t] = <<>>
=============================================================================
