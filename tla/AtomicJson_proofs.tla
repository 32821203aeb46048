-------------------------- MODULE AtomicJson_proofs --------------------------
(***************************************************************************)
(* Proofs about AtomicJson: types; one writer at a time; no update lost;   *)
(* and the implementation of AtomicUpdate.  They hold wherever the file is *)
(* from the start, for any number of deaths and suspended holders; what    *)
(* the last three promise ends where the definition of Lapsed says.        *)
(***************************************************************************)
EXTENDS AtomicJson, TLAPS

(* The initial states are well typed.                                      *)
LEMMA InitType == Init => TypeOK
  <1> SUFFICES ASSUME Init
               PROVE  TypeOK
    OBVIOUS
  <1>1. erased \in BOOLEAN
    BY DEF Init
  <1>2. (CHOOSE u \in Updates : TRUE) \in Updates
    BY ConstantsAssumption
  <1>3. QED
    BY <1>1, <1>2 DEF Init, TypeOK, Content, Steps, Unheld

(* Every step keeps the types.                                             *)
LEMMA NextType == TypeOK /\ [Next]_vars => TypeOK'
  <1> SUFFICES ASSUME TypeOK, [Next]_vars
               PROVE  TypeOK'
    OBVIOUS
  <1> USE DEF TypeOK, counters, history, GoTo, Steps, Content, Unheld
  <1>1. CASE UNCHANGED vars
    BY <1>1 DEF vars
  <1>2. ASSUME NEW p \in Procs, NEW u \in Updates, Begin(p, u)
        PROVE  TypeOK'
    BY <1>2 DEF Begin
  <1>3. ASSUME NEW p \in Procs, Step(p)
        PROVE  TypeOK'
    <2>1. CASE TruncateForDefault(p) \/ WriteDefault(p)
      BY <2>1 DEF TruncateForDefault, WriteDefault
    <2>2. CASE Acquire(p) \/ LockTimeout(p) \/ Release(p) \/ MutatorThrows(p)
      BY <2>2 DEF Acquire, LockTimeout, Release, MutatorThrows
    <2>3. CASE Read(p)
      BY <2>3 DEF Read
    <2>4. CASE Rename(p)
      BY <2>4 DEF Rename
    <2>5. QED
      BY <1>3, <2>1, <2>2, <2>3, <2>4 DEF Step
  <1>4. ASSUME NEW p \in Procs, Crash(p) \/ Pause(p)
        PROVE  TypeOK'
    BY <1>4 DEF Crash, Pause
  <1>5. CASE Expire
    BY <1>5 DEF Expire
  <1>6. QED
    BY <1>1, <1>2, <1>3, <1>4, <1>5 DEF Next

(* The file, the lock and every call keep their types, whatever happens.   *)
THEOREM TypeCorrectness == Spec => []TypeOK
  BY InitType, NextType, PTL DEF Spec

-----------------------------------------------------------------------------
(* The inductive invariant: a process past the lock has it, what it read   *)
(* there is what the file still holds, and a file that is not whole holds  *)
(* nothing that could be missed.                                           *)
IInv ==
  /\ TypeOK
  /\ pauses = 0 => \A p \in Procs : pc[p] \in Critical => lock = p
  /\ ~Lapsed =>
       /\ \A p \in Procs : pc[p] = "mutate" => current[p] = file
       /\ file = durable
       /\ durable # {} => form = "whole"

(* It holds at first, with or without the file.                            *)
LEMMA InitInvariant == Init => IInv
  BY InitType DEF Init, IInv, Lapsed, Critical

(* The promise is off for good once it has lapsed.                         *)
LEMMA LapsedStays ==
  ASSUME TypeOK, [Next]_vars
  PROVE  /\ Lapsed => Lapsed'
         /\ pauses' = 0 => pauses = 0
  <1> USE DEF counters, history, TypeOK, Lapsed
  <1>1. CASE UNCHANGED vars
    BY <1>1 DEF vars
  <1>2. ASSUME NEW p \in Procs, NEW u \in Updates,
               \/ Begin(p, u) \/ Acquire(p) \/ LockTimeout(p) \/ Read(p)
               \/ MutatorThrows(p) \/ Release(p) \/ Crash(p)
               \/ TruncateForDefault(p) \/ WriteDefault(p) \/ Rename(p)
        PROVE  pauses' = pauses /\ (erased => erased')
    BY <1>2 DEF Begin, Acquire, LockTimeout, Read, MutatorThrows, Release,
       Crash, TruncateForDefault, WriteDefault, Rename
  <1>3. ASSUME NEW p \in Procs, Pause(p)
        PROVE  pauses' = pauses + 1 /\ erased' = erased
    BY <1>3 DEF Pause
  <1>4. CASE Expire
    BY <1>4 DEF Expire
  <1>5. Updates # {}
    BY ConstantsAssumption
  <1>6. QED
    BY <1>1, <1>2, <1>3, <1>4, <1>5 DEF Next, Step

(* Every step keeps the invariant.                                         *)
LEMMA NextInvariant == IInv /\ [Next]_vars => IInv'
  <1> SUFFICES ASSUME IInv, [Next]_vars
               PROVE  IInv'
    OBVIOUS
  <1>t. TypeOK /\ TypeOK'
    BY NextType DEF IInv
  <1>u. Procs \cap {"free", "orphaned", "expired"} = {}
    BY ConstantsAssumption DEF Unheld
  <1>l. (Lapsed => Lapsed') /\ (pauses' = 0 => pauses = 0)
    BY LapsedStays DEF IInv
  <1> USE DEF IInv, counters, history, GoTo, Critical, Lapsed
  <1>1. CASE UNCHANGED vars
    BY <1>1, <1>t DEF vars
  <1>2. ASSUME NEW p \in Procs, NEW u \in Updates, Begin(p, u)
        PROVE  IInv'
    BY <1>2, <1>t DEF Begin, TypeOK
  <1>3. ASSUME NEW p \in Procs, Step(p)
        PROVE  IInv'
    <2>1. CASE TruncateForDefault(p)
      BY <2>1, <1>t DEF TruncateForDefault, TypeOK
    <2>2. CASE WriteDefault(p)
      BY <2>2, <1>t DEF WriteDefault, TypeOK
    <2>3. CASE Acquire(p)
      <3>1. pauses = 0 => \A q \in Procs : pc[q] \notin Critical
        BY <2>3, <1>u DEF Acquire
      <3>2. QED
        BY <2>3, <3>1, <1>t DEF Acquire, TypeOK
    <2>4. CASE LockTimeout(p) \/ MutatorThrows(p)
      BY <2>4, <1>t DEF LockTimeout, MutatorThrows, TypeOK
    <2>5. CASE Read(p)
      BY <2>5, <1>t DEF Read, TypeOK
    <2>6. CASE Rename(p)
      <3>1. pauses = 0 => \A q \in Procs : pc[q] = "mutate" => q = p
        BY <2>6 DEF Rename
      <3>2. ~Lapsed => file' = durable' /\ form' = "whole"
        BY <2>6 DEF Rename
      <3>3. pauses = 0 => \A q \in Procs : pc'[q] # "mutate"
        BY <2>6, <3>1, <1>t DEF Rename, TypeOK
      <3>4. UNCHANGED <<lock, pauses, erased>>
        BY <2>6 DEF Rename
      <3>5. \A q \in Procs : pc'[q] \in Critical => pc[q] \in Critical
        BY <2>6, <1>t DEF Rename, TypeOK
      <3>6. pauses' = 0 => \A q \in Procs : pc'[q] \in Critical => lock' = q
        BY <3>4, <3>5
      <3>7. CASE Lapsed
        BY <3>6, <3>7, <1>l, <1>t
      <3>8. CASE ~Lapsed
        <4>1. pauses = 0
          BY <3>8 DEF TypeOK
        <4>2. \A q \in Procs : pc'[q] = "mutate" => current'[q] = file'
          BY <3>3, <4>1
        <4>3. file' = durable' /\ form' = "whole"
          BY <3>2, <3>8
        <4>4. QED
          BY <3>6, <4>2, <4>3, <1>t
      <3>9. QED
        BY <3>7, <3>8
    <2>7. CASE Release(p)
      <3>1. pauses = 0 => \A q \in Procs : q # p => pc[q] \notin Critical
        BY <2>7 DEF Release
      <3>2. QED
        BY <2>7, <3>1, <1>t DEF Release, TypeOK
    <2>8. QED
      BY <1>3, <2>1, <2>2, <2>3, <2>4, <2>5, <2>6, <2>7 DEF Step
  <1>4. ASSUME NEW p \in Procs, Crash(p)
        PROVE  IInv'
    <2>1. pauses = 0 =>
            \A q \in Procs : q # p /\ pc[q] \in Critical => lock = q /\ lock # p
      OBVIOUS
    <2>2. QED
      BY <1>4, <2>1, <1>t DEF Crash, TypeOK
  <1>5. ASSUME NEW p \in Procs, Pause(p)
        PROVE  IInv'
    <2>1. pauses' = pauses + 1 /\ pauses \in Nat
      BY <1>5, <1>t DEF Pause, TypeOK
    <2>2. pauses' # 0 /\ pauses' > 0
      BY <2>1
    <2>3. Lapsed'
      BY <2>2
    <2>4. QED
      BY <2>2, <2>3, <1>t
  <1>6. CASE Expire
    <2>1. pauses = 0 => \A q \in Procs : pc[q] \notin Critical
      BY <1>6, <1>u DEF Expire
    <2>2. QED
      BY <1>6, <2>1, <1>t DEF Expire, TypeOK
  <1>7. QED
    BY <1>1, <1>2, <1>3, <1>4, <1>5, <1>6 DEF Next

(* One process at a time is between lock and release, until a holder is    *)
(* suspended past the stale time.                                          *)
THEOREM WritersExclude == Spec => []OneWriter
  <1>1. IInv => OneWriter
    BY DEF IInv, OneWriter
  <1>2. QED
    BY InitInvariant, NextInvariant, <1>1, PTL DEF Spec

(* The file holds exactly the updates renamed into place, and is whole     *)
(* from the first of them on, until the promise lapses.                    *)
THEOREM UpdatesSurvive == Spec => []NothingLost
  <1>1. IInv => NothingLost
    BY DEF IInv, NothingLost
  <1>2. QED
    BY InitInvariant, NextInvariant, <1>1, PTL DEF Spec

(* A step of AtomicJson updates the file atomically, leaves it alone, or   *)
(* is one that ends the promise.                                           *)
LEMMA StepRefines ==
  ASSUME IInv, [Next]_vars
  PROVE  [Atomic!Next]_(Atomic!vars)
  <1>t. TypeOK /\ TypeOK'
    BY NextType DEF IInv
  <1>l. Lapsed \in BOOLEAN /\ Lapsed' \in BOOLEAN /\ (Lapsed => Lapsed')
    BY <1>t, LapsedStays DEF Lapsed, TypeOK
  <1>0. CASE Lapsed'
    BY <1>0, <1>l DEF Atomic!Next, Atomic!Lapse
  <1> SUFFICES ASSUME ~Lapsed'
               PROVE  [Atomic!Next]_(Atomic!vars)
    BY <1>0
  <1>k. ~Lapsed /\ Lapsed' = Lapsed
    BY <1>l
  <1> USE DEF counters, history
  <1>1. CASE UNCHANGED vars
    BY <1>1, <1>k DEF vars, Atomic!vars
  <1>2. ASSUME NEW p \in Procs, Rename(p)
        PROVE  [Atomic!Next]_(Atomic!vars)
    <2>1. file' = file \cup {update[p]} /\ update[p] \in Updates
      BY <1>2, <1>k DEF Rename, IInv, TypeOK
    <2>2. CASE update[p] \in file
      BY <2>1, <2>2, <1>k DEF Atomic!vars
    <2>3. CASE update[p] \notin file
      BY <2>1, <2>3, <1>k DEF Atomic!Next, Atomic!Update
    <2>4. QED
      BY <2>2, <2>3
  <1>3. ASSUME NEW p \in Procs, NEW u \in Updates,
               \/ Begin(p, u) \/ Acquire(p) \/ LockTimeout(p) \/ Read(p)
               \/ MutatorThrows(p) \/ Release(p) \/ Crash(p) \/ Pause(p)
               \/ WriteDefault(p)
        PROVE  UNCHANGED file
    BY <1>3 DEF Begin, Acquire, LockTimeout, Read, MutatorThrows, Release,
       Crash, Pause, WriteDefault
  <1>4. ASSUME NEW p \in Procs, TruncateForDefault(p)
        PROVE  UNCHANGED file
    BY <1>4, <1>k DEF TruncateForDefault, IInv, Lapsed
  <1>5. CASE Expire
    BY <1>5, <1>k DEF Expire, Atomic!vars
  <1>6. Updates # {}
    BY ConstantsAssumption
  <1>7. UNCHANGED file => UNCHANGED Atomic!vars
    BY <1>k DEF Atomic!vars
  <1>8. QED
    BY <1>1, <1>2, <1>3, <1>4, <1>5, <1>6, <1>7 DEF Next, Step

(* The calls implement atomic updates of the file.                         *)
THEOREM Refinement == Spec => ImplementsAtomicUpdate
  <1>1. Init => Atomic!Init
    BY DEF Init, Atomic!Init, Lapsed
  <1>2. IInv /\ [Next]_vars => [Atomic!Next]_(Atomic!vars)
    BY StepRefines
  <1>3. QED
    BY InitInvariant, NextInvariant, <1>1, <1>2, PTL
    DEF Spec, ImplementsAtomicUpdate, Atomic!Spec
=============================================================================
