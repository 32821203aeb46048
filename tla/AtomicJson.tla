----------------------------- MODULE AtomicJson -----------------------------
(***************************************************************************)
(* src/runtime/sessions/atomic-json.js: the read-modify-write of a JSON    *)
(* file that several processes share, under a lock directory made by the   *)
(* proper-lockfile library.  The session layer keeps both of its indexes   *)
(* this way.                                                               *)
(*                                                                         *)
(* The content of the file is abstracted to the set of updates in it: a    *)
(* mutator adds its own to what was read, or throws.  A process may die,   *)
(* or be suspended, between any two accesses to the file or the lock.      *)
(***************************************************************************)
EXTENDS Naturals

CONSTANTS
  Procs,       \* processes
  Updates,     \* updates, each made at most once
  MaxCrashes,  \* bound on process deaths
  MaxPauses    \* bound on lock holders suspended past the lock's lifetime

Unheld == {"free", "orphaned", "expired"}

ASSUME ConstantsAssumption ==
  /\ Updates # {}
  /\ Procs \cap Unheld = {}
  /\ MaxCrashes \in Nat /\ MaxPauses \in Nat

VARIABLES
  file,     \* the updates in the file
  form,     \* of the file: missing, truncated (no JSON in it) or whole
  lock,     \* the lock directory: the live process that made and refreshes
            \* it, or else none, its maker died, or nobody refreshed it
  pc,       \* per process: the step its call takes next
  update,   \* per process: the update of its call
  current,  \* per process: what its call read under the lock
  begun,    \* updates some call has been made for
  durable,  \* history: updates renamed into place
  erased,   \* history: whether a default value was written over updates
  crashes, pauses

vars == <<file, form, lock, pc, update, current, begun, durable, erased, crashes, pauses>>

Content == SUBSET Updates
Steps == {"idle", "truncate", "default", "lock", "read", "mutate", "release"}
Critical == {"read", "mutate", "release"}

TypeOK ==
  /\ file \in Content /\ form \in {"missing", "truncated", "whole"}
  /\ lock \in Procs \cup Unheld
  /\ pc \in [Procs -> Steps]
  /\ update \in [Procs -> Updates]
  /\ current \in [Procs -> Content]
  /\ begun \in Content /\ durable \in Content /\ erased \in BOOLEAN
  /\ crashes \in Nat /\ pauses \in Nat

Init ==
  /\ file = {} /\ form \in {"missing", "whole"}
  /\ lock = "free"
  /\ pc = [p \in Procs |-> "idle"]
  /\ update = [p \in Procs |-> CHOOSE u \in Updates : TRUE]
  /\ current = [p \in Procs |-> {}]
  /\ begun = {} /\ durable = {} /\ erased = FALSE
  /\ crashes = 0 /\ pauses = 0

-----------------------------------------------------------------------------
GoTo(p, step) == pc' = [pc EXCEPT ![p] = step]
counters == <<crashes, pauses>>
history == <<durable, erased>>

(* The call, up to existsSync: a file that is missing is written first,    *)
(* outside the lock.                                                       *)
Begin(p, u) ==
  /\ pc[p] = "idle" /\ u \notin begun
  /\ begun' = begun \cup {u}
  /\ update' = [update EXCEPT ![p] = u]
  /\ GoTo(p, IF form = "missing" THEN "truncate" ELSE "lock")
  /\ UNCHANGED <<file, form, lock, current, history, counters>>

(* writeFileSync of the default value: opened for writing, then written.   *)
(* A file renamed over the open one in between is out of its reach.        *)
TruncateForDefault(p) ==
  /\ pc[p] = "truncate"
  /\ file' = {} /\ form' = "truncated"
  /\ erased' = (erased \/ durable # {})
  /\ GoTo(p, "default")
  /\ UNCHANGED <<lock, update, current, begun, durable, counters>>

WriteDefault(p) ==
  /\ pc[p] = "default"
  /\ \/ form' = "whole"
     \/ erased /\ UNCHANGED form   \* the file another call truncated since
  /\ GoTo(p, "lock")
  /\ UNCHANGED <<file, lock, update, current, begun, history, counters>>

(* Mutant: any lock is considered stale.                                   *)
AcquireAnyLock(p) ==
  /\ pc[p] = "lock"
  /\ lock' = p
  /\ GoTo(p, "read")
  /\ UNCHANGED <<file, form, update, current, begun, history, counters>>

(* lockfile.lock: makes the directory, or takes over one that is stale.    *)
Acquire(p) ==
  /\ pc[p] = "lock" /\ lock \in {"free", "expired"}
  /\ lock' = p
  /\ GoTo(p, "read")
  /\ UNCHANGED <<file, form, update, current, begun, history, counters>>

(* The retries run out while others have the lock: the call throws.        *)
LockTimeout(p) ==
  /\ pc[p] = "lock" /\ lock \notin {"free", "expired"}
  /\ GoTo(p, "idle")
  /\ UNCHANGED <<file, form, lock, update, current, begun, history, counters>>

(* Mutant: the current value is read before the lock is taken.             *)
ReadEarly(p) ==
  /\ \/ pc[p] = "lock" /\ UNCHANGED pc
     \/ pc[p] = "read" /\ GoTo(p, "mutate")
  /\ current' = IF pc[p] = "lock" THEN [current EXCEPT ![p] = file] ELSE current
  /\ UNCHANGED <<file, form, lock, update, begun, history, counters>>

(* Under the lock: read and parse.  No JSON in the file is an error.       *)
Read(p) ==
  /\ pc[p] = "read"
  /\ IF form = "whole"
     THEN GoTo(p, "mutate") /\ current' = [current EXCEPT ![p] = file]
     ELSE GoTo(p, "release") /\ UNCHANGED current
  /\ UNCHANGED <<file, form, lock, update, begun, history, counters>>

(* Mutant: the result is written in place, not to a file renamed over it.  *)
RenameInPlace(p) ==
  /\ pc[p] = "mutate"
  /\ \/ /\ form = "whole" /\ form' = "truncated" /\ file' = {}
        /\ UNCHANGED <<pc, durable>>
     \/ /\ form = "truncated" /\ form' = "whole"
        /\ file' = current[p] \cup {update[p]}
        /\ durable' = durable \cup {update[p]}
        /\ GoTo(p, "release")
  /\ UNCHANGED <<lock, update, current, begun, erased, counters>>

(* The mutator's result is renamed into place.                             *)
Rename(p) ==
  /\ pc[p] = "mutate"
  /\ file' = current[p] \cup {update[p]} /\ form' = "whole"
  /\ durable' = durable \cup {update[p]}
  /\ GoTo(p, "release")
  /\ UNCHANGED <<lock, update, current, begun, erased, counters>>

(* Mutant: the error escapes without the finally block.                    *)
MutatorThrowsLocked(p) ==
  /\ pc[p] = "mutate"
  /\ GoTo(p, "idle")
  /\ UNCHANGED <<file, form, lock, update, current, begun, history, counters>>

(* The mutator throws (a duplicate session id), or a write of it fails.    *)
MutatorThrows(p) ==
  /\ pc[p] = "mutate"
  /\ GoTo(p, "release")
  /\ UNCHANGED <<file, form, lock, update, current, begun, history, counters>>

(* finally: the lock directory goes, whoever made it.                      *)
Release(p) ==
  /\ pc[p] = "release"
  /\ lock' = "free"
  /\ GoTo(p, "idle")
  /\ UNCHANGED <<file, form, update, current, begun, history, counters>>

-----------------------------------------------------------------------------
(* A process dies; the lock it holds stays, and so does a file it had      *)
(* just opened for writing.                                                *)
Crash(p) ==
  /\ pc[p] # "idle" /\ crashes < MaxCrashes
  /\ crashes' = crashes + 1
  /\ lock' = IF lock = p THEN "orphaned" ELSE lock
  /\ GoTo(p, "idle")
  /\ UNCHANGED <<file, form, update, current, begun, history, pauses>>

(* The stale time passes over a lock nobody refreshes.                     *)
Expire ==
  /\ lock = "orphaned"
  /\ lock' = "expired"
  /\ UNCHANGED <<file, form, pc, update, current, begun, history, counters>>

(* ... or over the lock of a holder that is suspended for that long.       *)
Pause(p) ==
  /\ lock = p /\ pauses < MaxPauses
  /\ pauses' = pauses + 1
  /\ lock' = "expired"
  /\ UNCHANGED <<file, form, pc, update, current, begun, history, crashes>>

Step(p) ==
  \/ TruncateForDefault(p) \/ WriteDefault(p) \/ Acquire(p) \/ LockTimeout(p)
  \/ Read(p) \/ Rename(p) \/ MutatorThrows(p) \/ Release(p)

Next ==
  \/ \E p \in Procs : \/ \E u \in Updates : Begin(p, u)
                      \/ Step(p) \/ Crash(p) \/ Pause(p)
  \/ Expire

Spec == Init /\ [][Next]_vars

(* A live process goes on with its call, and time passes.                  *)
FairSpec == Spec /\ WF_vars(Expire) /\ \A p \in Procs : WF_vars(Step(p))
-----------------------------------------------------------------------------
(* Whatever dies where, one process at a time is between lock and release, *)
(* until a holder is suspended past the stale time.                        *)
OneWriter ==
  pauses = 0 =>
    \A p, q \in Procs : pc[p] \in Critical /\ pc[q] \in Critical => p = q

(* What ends the promise about the updates: such a suspension, and a call  *)
(* that found no file and writes the default after the first update.       *)
Lapsed == erased \/ pauses > 0

(* Until then the file holds exactly the updates renamed into place: none  *)
(* is lost to a concurrent update, and no reader finds half a file once    *)
(* there is one in it, wherever default values are still being written.    *)
NothingLost ==
  ~Lapsed => file = durable /\ (durable # {} => form = "whole")

(* ... and the calls implement atomic updates of the file.                 *)
Atomic == INSTANCE AtomicUpdate WITH applied <- file, lapsed <- Lapsed
ImplementsAtomicUpdate == Atomic!Spec

(* A lock somebody took is given back or expires, even when the mutator    *)
(* throws or the holder dies: updates never block the next ones forever.   *)
LockIsGivenBack ==
  lock \notin {"free", "expired"} ~> lock \in {"free", "expired"}
=============================================================================
