------------------------ MODULE WorkItemStore_proofs ------------------------
(***************************************************************************)
(* Proofs about WorkItemStore, for any number of processes and items:      *)
(* types, what a command that nobody ran beside leaves behind, and, with   *)
(* one writer at a time per item, that commands are atomic whatever the    *)
(* processes do to the mirror and the index and wherever they die.         *)
(***************************************************************************)
EXTENDS WorkItemStore, TLAPS

(* From the check of the revision to the end of the command.               *)
Writes   == {"write", "validate", "mirror", "verify", "index"} \union UndoSteps
Computed == {"check"} \union Writes
Adopts   == {"bootState", "bootIndex", "bootMirror"}

(* What the locals of a command hold at a step.                            *)
LocalsFit(at, c) ==
  /\ at \in Computed => /\ c.kind # "select" /\ c.item \in Items
                        /\ c.next \in Docs /\ c.next.item = c.item
  /\ at \in Writes => c.idx \in Indexes /\ c.before # Half
  /\ at \in Adopts => c.next \in Docs
  /\ at \in SelectSteps => c.kind = "select" /\ c.idx \in Indexes
  /\ at \in {"selMirror", "selVerify"} => c.next \in Docs
  /\ at \in {"selUndo", "selUndoIndex"} => c.active \in Items
  /\ at # "idle" /\ c.kind = "select" => c.item \in Items
Fitting == \A p \in Procs : LocalsFit(pc[p], cmd[p])
TInv == TypeOK /\ Fitting
Step(p) == Bootstrap(p) \/ Persist(p) \/ Select(p) \/ Die(p)

FileTypes == [state : [Items -> Docs \union {None, Half}], mirror : Docs \union {None, Half},
              index : Indexes \union {None, Half}]
FilesTyped == /\ state \in [Items -> Docs \union {None, Half}]
              /\ mirror \in Docs \union {None, Half} /\ index \in Indexes \union {None, Half}
CommandsTyped == pc \in [Procs -> Steps] /\ cmd \in [Procs -> Command] /\ Fitting
FoundTyped    == found \in [Procs -> FileTypes \union {None}]
BudgetTyped   == begun \in 0 .. MaxCommands /\ deaths \in 0 .. MaxCrashes /\ refused \in 0 .. MaxRefusals

LEMMA Parts == TInv <=> FilesTyped /\ CommandsTyped /\ FoundTyped /\ BudgetTyped
  BY DEF TInv, TypeOK, FilesTyped, CommandsTyped, FoundTyped, BudgetTyped, FileTypes

LEMMA PartsPrimed == TInv' <=> FilesTyped' /\ CommandsTyped' /\ FoundTyped' /\ BudgetTyped'
  BY DEF TInv, TypeOK, FilesTyped, CommandsTyped, FoundTyped, BudgetTyped, FileTypes

(* A process that goes on to another step, with other locals.              *)
LEMMA Goes ==
  ASSUME CommandsTyped, NEW p \in Procs, NEW at \in Steps, NEW c \in Command, LocalsFit(at, c),
         pc' = [pc EXCEPT ![p] = at], cmd' = [cmd EXCEPT ![p] = c]
  PROVE  CommandsTyped'
  <1>1. pc' \in [Procs -> Steps] /\ cmd' \in [Procs -> Command]
    BY DEF CommandsTyped
  <1>2. ASSUME NEW q \in Procs PROVE LocalsFit(pc'[q], cmd'[q])
    <2>1. CASE q = p
      BY <2>1 DEF CommandsTyped
    <2>2. CASE q # p
      <3>1. pc'[q] = pc[q] /\ cmd'[q] = cmd[q]
        BY <2>2 DEF CommandsTyped
      <3>2. QED
        BY <3>1 DEF CommandsTyped, Fitting
    <2>3. QED BY <2>1, <2>2
  <1>3. QED
    BY <1>1, <1>2 DEF CommandsTyped, Fitting

LEMMA GoesOn ==
  ASSUME CommandsTyped, NEW p \in Procs, NEW at \in Steps, LocalsFit(at, cmd[p]),
         Go(p, at), UNCHANGED cmd
  PROVE  CommandsTyped'
  <1>1. cmd[p] \in Command /\ cmd' = [cmd EXCEPT ![p] = cmd[p]]
    BY DEF CommandsTyped
  <1>2. QED
    BY <1>1, Goes DEF Go

LEMMA Ends ==
  ASSUME CommandsTyped, FoundTyped, NEW p \in Procs, End(p)
  PROVE  CommandsTyped' /\ FoundTyped'
  <1>1. NoCommand \in Command
    BY DEF NoCommand, Command
  <1>2. LocalsFit("idle", NoCommand)
    BY DEF LocalsFit, NoCommand, Computed, Writes, UndoSteps, Adopts, SelectSteps
  <1>3. CommandsTyped'
    BY <1>1, <1>2, Goes DEF End, Go, Set, Steps
  <1>4. QED
    BY <1>3 DEF End, FoundTyped

-----------------------------------------------------------------------------
(* The types are kept, by the parts of the store that a step changes.      *)
LEMMA BeginTyped ==
  ASSUME TInv, NEW p \in Procs, NEW k \in Kinds, NEW i \in Items \union {None},
         k # "mutate" => i \in Items, Begin(p, k, i)
  PROVE  TInv'
  <1> USE Parts
  <1> DEFINE c == [NoCommand EXCEPT !.kind = k, !.item = i, !.rev = begun + 1]
             at == IF k = "bootstrap" THEN "archive" ELSE "boot"
  <1>1. begun + 1 \in Nat /\ begun' \in 0 .. MaxCommands
    BY StoreAssumption DEF Begin, BudgetTyped
  <1>2. c \in Command
    BY <1>1 DEF NoCommand, Command
  <1>3. c.kind = k /\ c.item = i
    BY DEF NoCommand
  <1>4. at \in Steps /\ at \in {"archive", "boot"}
    BY DEF Steps, BootSteps
  <1>5. LocalsFit(at, c)
    BY <1>3, <1>4 DEF LocalsFit, Computed, Writes, UndoSteps, Adopts, SelectSteps
  <1>6. pc' = [pc EXCEPT ![p] = at] /\ cmd' = [cmd EXCEPT ![p] = c]
    BY DEF Begin, Go, Set
  <1> HIDE DEF c, at
  <1>7. CommandsTyped'
    BY <1>2, <1>4, <1>5, <1>6, Goes
  <1>8. FilesTyped' /\ FoundTyped' /\ BudgetTyped'
    BY <1>1 DEF Begin, FilesTyped, FoundTyped, BudgetTyped
  <1>9. QED
    BY <1>7, <1>8, PartsPrimed

LEMMA BootstrapTyped ==
  ASSUME TInv, NEW p \in Procs, Bootstrap(p)
  PROVE  TInv'
  <1> USE Parts
  <1> DEFINE c == cmd[p]
  <1>c. c \in Command /\ LocalsFit(pc[p], c)
    BY DEF CommandsTyped, Fitting
  <1>b. UNCHANGED budget => BudgetTyped'
    BY DEF budget, BudgetTyped
  <1>f. UNCHANGED found => FoundTyped'
    BY DEF FoundTyped
  <1>1. CASE Conflict(p)
    BY <1>1, <1>b, Ends, PartsPrimed DEF Conflict, FilesTyped
  <1>2. CASE ArchivePrior(p)
    <2>1. LocalsFit("boot", c) /\ "boot" \in Steps
      BY <1>2, <1>c DEF ArchivePrior, LocalsFit, Computed, Writes, UndoSteps, Adopts, SelectSteps, Steps, BootSteps
    <2>2. QED
      BY <1>2, <2>1, <1>b, <1>f, GoesOn, PartsPrimed DEF ArchivePrior, FilesTyped
  <1>3. CASE Boot(p)
    <2>1. UNCHANGED files => FilesTyped'
      BY DEF files, FilesTyped
    <2>2. CASE (Go(p, "read") \/ Go(p, "bootEmpty")) /\ UNCHANGED cmd
      <3>1. \A at \in {"read", "bootEmpty"} : LocalsFit(at, c) /\ at \in Steps
        BY <1>3, <1>c DEF Boot, LocalsFit, Computed, Writes, UndoSteps, Adopts, SelectSteps, Steps, BootSteps
      <3>2. CommandsTyped'
        BY <2>2, <3>1, GoesOn
      <3>3. QED
        BY <1>3, <1>b, <1>f, <2>1, <3>2, PartsPrimed DEF Boot
    <2>3. CASE Parses(mirror) /\ Go(p, "bootState") /\ Set(p, [cmd[p] EXCEPT !.next = mirror])
      <3> DEFINE d == [c EXCEPT !.next = mirror]
      <3>1. mirror \in Docs
        BY <2>3 DEF Parses, FilesTyped
      <3>2. d \in Command /\ d.next = mirror /\ d.kind = c.kind /\ d.item = c.item
        BY <3>1, <1>c DEF Command
      <3>3. LocalsFit("bootState", d) /\ "bootState" \in Steps
        BY <1>3, <1>c, <3>1, <3>2
        DEF Boot, LocalsFit, Computed, Writes, UndoSteps, Adopts, SelectSteps, Steps, BootSteps
      <3>4. CommandsTyped'
        BY <2>3, <3>2, <3>3, Goes DEF Go, Set
      <3>5. QED
        BY <1>3, <1>b, <1>f, <2>1, <3>4, PartsPrimed DEF Boot
    <2>4. QED
      BY <1>3, <2>2, <2>3 DEF Boot
  <1>4. CASE BootEmpty(p)
    <2>1. LocalsFit("read", c) /\ "read" \in Steps
      BY <1>4, <1>c DEF BootEmpty, LocalsFit, Computed, Writes, UndoSteps, Adopts, SelectSteps, Steps
    <2>2. FilesTyped'
      BY <1>4 DEF BootEmpty, FilesTyped, EmptyIndex, Indexes
    <2>3. QED
      BY <1>4, <1>b, <1>f, <2>1, <2>2, GoesOn, PartsPrimed DEF BootEmpty
  <1>5. CASE BootState(p)
    <2>1. LocalsFit("bootIndex", c) /\ "bootIndex" \in Steps /\ c.next \in Docs
      BY <1>5, <1>c
      DEF BootState, LocalsFit, Computed, Writes, UndoSteps, Adopts, SelectSteps, Steps, BootSteps
    <2>2. FilesTyped'
      BY <1>5, <2>1 DEF BootState, FilesTyped
    <2>3. QED
      BY <1>5, <1>b, <1>f, <2>1, <2>2, GoesOn, PartsPrimed DEF BootState
  <1>6. CASE BootIndex(p)
    <2>1. LocalsFit("bootMirror", c) /\ "bootMirror" \in Steps /\ c.next \in Docs
      BY <1>6, <1>c
      DEF BootIndex, LocalsFit, Computed, Writes, UndoSteps, Adopts, SelectSteps, Steps, BootSteps
    <2>2. c.next.item \in Items
      BY <2>1 DEF Docs
    <2>3. FilesTyped'
      BY <1>6, <2>2 DEF BootIndex, FilesTyped, EmptyIndex, Indexes, Upsert
    <2>4. QED
      BY <1>6, <1>b, <1>f, <2>1, <2>3, GoesOn, PartsPrimed DEF BootIndex
  <1>7. CASE BootMirror(p)
    <2> DEFINE d == [c EXCEPT !.next = None]
    <2>1. d \in Command /\ d.kind = c.kind /\ d.item = c.item
      BY <1>c DEF Command
    <2>2. LocalsFit("read", d) /\ "read" \in Steps
      BY <1>7, <1>c, <2>1
      DEF BootMirror, LocalsFit, Computed, Writes, UndoSteps, Adopts, SelectSteps, Steps, BootSteps
    <2>3. index.active \in Items
      BY <1>7 DEF BootMirror, Parses, FilesTyped, Indexes
    <2>4. FilesTyped'
      BY <1>7, <2>3 DEF BootMirror, FilesTyped
    <2>5. CommandsTyped'
      BY <1>7, <2>1, <2>2, Goes DEF BootMirror, Go, Set
    <2>6. QED
      BY <1>7, <1>b, <1>f, <2>4, <2>5, PartsPrimed DEF BootMirror
  <1>8. QED
    BY <1>1, <1>2, <1>3, <1>4, <1>5, <1>6, <1>7 DEF Bootstrap

LEMMA PersistTyped ==
  ASSUME TInv, NEW p \in Procs, Persist(p)
  PROVE  TInv'
  <1> USE Parts
  <1> DEFINE c == cmd[p]
  <1>c. c \in Command /\ LocalsFit(pc[p], c)
    BY DEF CommandsTyped, Fitting
  <1>b. UNCHANGED budget => BudgetTyped'
    BY DEF budget, BudgetTyped
  <1>f. UNCHANGED found => FoundTyped'
    BY DEF FoundTyped
  <1>u. UNCHANGED files => FilesTyped'
    BY DEF files, FilesTyped
  <1>w. ASSUME pc[p] \in Writes, NEW at \in Writes
        PROVE  at \in Steps /\ LocalsFit(at, c)
    BY <1>w, <1>c DEF LocalsFit, Computed, Writes, UndoSteps, Adopts, SelectSteps, Steps
  <1>l. pc[p] \in Writes => /\ c.item \in Items /\ c.next \in Docs /\ c.idx \in Indexes
                            /\ c.before \in Docs \union {None} /\ c.prev \in Docs \union {None}
                            /\ c.active \in Items \union {None}
    BY <1>c DEF LocalsFit, Computed, Command
  <1>1. CASE Read(p)
    <2> DEFINE i == Subject(p)
               d == Fetched(p, i)
    <2>1. /\ i \in Items /\ index \in Indexes /\ c.kind # "select" /\ c.rev \in Nat
          /\ state[i] \in Docs \union {None}
          /\ c.kind = "mutate" => state[i] \in Docs
      BY <1>1, <1>c DEF Read, Subject, Parses, Exists, Command, FilesTyped, Indexes
    <2> DEFINE n == [item |-> i, rev |-> c.rev, from |-> IF c.kind = "mutate" THEN state[i].rev ELSE None]
    <2>2. n \in Docs /\ n.item = i
      BY <2>1 DEF Docs
    <2> DEFINE x == IF Parses(state[i]) THEN state[i] ELSE None
               m == IF index.active = i /\ Parses(state[i]) /\ Parses(mirror) THEN mirror ELSE None
               a == IF c.kind = "mutate" /\ index.active # None THEN index.active ELSE i
    <2>3. x \in Docs \union {None} /\ m \in Docs \union {None} /\ a \in Items \union {None}
      BY <2>1 DEF Parses, FilesTyped, Indexes
    <2>4. d = [c EXCEPT !.item = i, !.expect = x, !.expectMirror = m, !.active = a, !.next = n]
      BY DEF Fetched
    <2> HIDE DEF n, x, m, a, d, i
    <2>5. d \in Command /\ d.kind = c.kind /\ d.item = i /\ d.next = n
      BY <2>1, <2>2, <2>3, <2>4, <1>c DEF Command
    <2>6. LocalsFit("check", d) /\ "check" \in Steps
      BY <2>1, <2>2, <2>5 DEF LocalsFit, Computed, Writes, UndoSteps, Adopts, SelectSteps, Steps
    <2>7. CommandsTyped'
      BY <1>1, <2>5, <2>6, Goes DEF Read, Go, Set, d, i
    <2>8. FoundTyped'
      BY <1>1 DEF Read, Found, FoundTyped, FilesTyped, FileTypes
    <2>9. QED
      BY <1>1, <1>b, <1>u, <2>7, <2>8, PartsPrimed DEF Read
  <1>2. CASE Check(p)
    <2> DEFINE d == [c EXCEPT !.idx = index, !.before = state[c.item], !.prev = mirror]
    <2>1. /\ c.kind # "select" /\ c.item \in Items /\ c.next \in Docs /\ c.next.item = c.item
          /\ index \in Indexes /\ state[c.item] \in Docs \union {None} /\ mirror \in Docs \union {None}
      BY <1>2, <1>c DEF Check, LocalsFit, Computed, Parses, FilesTyped
    <2>2. /\ d \in Command /\ d.kind = c.kind /\ d.item = c.item /\ d.next = c.next /\ d.idx = index
          /\ d.before = state[c.item]
      BY <2>1, <1>c DEF Command
    <2>n. None # Half /\ Half \notin Docs
      BY StoreAssumption
    <2> HIDE DEF d
    <2>3. LocalsFit("write", d) /\ "write" \in Steps
      BY <2>1, <2>2, <2>n DEF LocalsFit, Computed, Writes, UndoSteps, Adopts, SelectSteps, Steps
    <2>4. CommandsTyped'
      BY <1>2, <2>2, <2>3, Goes DEF Check, Go, Set, d
    <2>5. QED
      BY <1>2, <1>b, <1>f, <1>u, <2>4, PartsPrimed DEF Check
  <1>3. CASE GivesUp(p)
    BY <1>3, <1>b, <1>u, Ends, PartsPrimed DEF GivesUp
  <1>4. CASE WriteState(p)
    <2>1. pc[p] \in Writes /\ "validate" \in Writes
      BY <1>4 DEF WriteState, Writes
    <2>2. FilesTyped'
      BY <1>4, <2>1, <1>l DEF WriteState, FilesTyped
    <2>3. QED
      BY <1>4, <2>1, <2>2, <1>w, <1>b, <1>f, GoesOn, PartsPrimed DEF WriteState
  <1>5. CASE Validate(p)
    <2>1. pc[p] \in Writes /\ {"mirror", "index"} \subseteq Writes
      BY <1>5 DEF Validate, Writes
    <2>2. QED
      BY <1>5, <2>1, <1>w, <1>b, <1>f, <1>u, GoesOn, PartsPrimed DEF Validate
  <1>6. CASE WriteMirror(p)
    <2>1. pc[p] \in Writes /\ "verify" \in Writes
      BY <1>6 DEF WriteMirror, Writes
    <2>2. FilesTyped'
      BY <1>6, <2>1, <1>l DEF WriteMirror, FilesTyped
    <2>3. QED
      BY <1>6, <2>1, <2>2, <1>w, <1>b, <1>f, GoesOn, PartsPrimed DEF WriteMirror
  <1>7. CASE Verify(p)
    <2>1. pc[p] \in Writes /\ "index" \in Writes
      BY <1>7 DEF Verify, Writes
    <2>2. QED
      BY <1>7, <2>1, <1>w, <1>b, <1>f, <1>u, GoesOn, PartsPrimed DEF Verify
  <1>8. CASE WriteIndex(p)
    <2>1. pc[p] \in Writes
      BY <1>8 DEF WriteIndex, Writes
    <2>2. FilesTyped'
      BY <1>8, <2>1, <1>l DEF WriteIndex, FilesTyped, Upsert, Indexes
    <2>3. QED
      BY <1>8, <2>2, <1>b, Ends, PartsPrimed DEF WriteIndex
  <1>9. CASE Refused(p)
    <2>1. pc[p] \in Writes /\ "undoState" \in Writes
      BY <1>9 DEF Refused, Writes, UndoSteps
    <2>2. BudgetTyped'
      BY <1>9, StoreAssumption DEF Refused, BudgetTyped
    <2>3. QED
      BY <1>9, <2>1, <2>2, <1>w, <1>f, <1>u, GoesOn, PartsPrimed DEF Refused
  <1>10. CASE MirrorConflict(p)
    <2>1. pc[p] \in Writes /\ "undoState" \in Writes
      BY <1>10 DEF MirrorConflict, Writes, UndoSteps
    <2>2. QED
      BY <1>10, <2>1, <1>w, <1>b, <1>f, <1>u, GoesOn, PartsPrimed DEF MirrorConflict
  <1>11. CASE UndoState(p)
    <2>1. pc[p] \in Writes /\ "undoMirror" \in Writes
      BY <1>11 DEF UndoState, Writes, UndoSteps
    <2>2. FilesTyped'
      BY <1>11, <2>1, <1>l DEF UndoState, FilesTyped
    <2>3. QED
      BY <1>11, <2>1, <2>2, <1>w, <1>b, <1>f, GoesOn, PartsPrimed DEF UndoState
  <1>12. CASE UndoMirror(p)
    <2>1. pc[p] \in Writes /\ "undoIndex" \in Writes
      BY <1>12 DEF UndoMirror, Writes, UndoSteps
    <2>2. FilesTyped'
      BY <1>12, <2>1, <1>l DEF UndoMirror, FilesTyped
    <2>3. QED
      BY <1>12, <2>1, <2>2, <1>w, <1>b, <1>f, GoesOn, PartsPrimed DEF UndoMirror
  <1>13. CASE UndoIndex(p)
    <2>1. pc[p] \in Writes
      BY <1>13 DEF UndoIndex, Writes, UndoSteps
    <2>2. FilesTyped'
      BY <1>13, <2>1, <1>l DEF UndoIndex, FilesTyped
    <2>3. QED
      BY <1>13, <2>2, <1>b, Ends, PartsPrimed DEF UndoIndex
  <1>14. QED
    BY <1>1, <1>2, <1>3, <1>4, <1>5, <1>6, <1>7, <1>8, <1>9, <1>10, <1>11, <1>12, <1>13 DEF Persist

LEMMA SelectTyped ==
  ASSUME TInv, NEW p \in Procs, Select(p)
  PROVE  TInv'
  <1> USE Parts
  <1> DEFINE c == cmd[p]
  <1>c. c \in Command /\ LocalsFit(pc[p], c)
    BY DEF CommandsTyped, Fitting
  <1>b. UNCHANGED budget => BudgetTyped'
    BY DEF budget, BudgetTyped
  <1>f. UNCHANGED found => FoundTyped'
    BY DEF FoundTyped
  <1>u. UNCHANGED files => FilesTyped'
    BY DEF files, FilesTyped
  <1>l. pc[p] \in SelectSteps => c.kind = "select" /\ c.item \in Items /\ c.idx \in Indexes
    BY <1>c DEF LocalsFit, SelectSteps
  <1>s. pc[p] \in SelectSteps /\ c.active \notin {None, c.item} => "selUndo" \in Steps /\ LocalsFit("selUndo", c)
    BY <1>c, <1>l DEF LocalsFit, Computed, Writes, UndoSteps, Adopts, SelectSteps, Steps, Command
  <1>1. CASE SelectRead(p)
    <2> DEFINE d == [c EXCEPT !.active = index.active, !.idx = index]
    <2>1. index \in Indexes /\ c.kind = "select" /\ c.item \in Items /\ index.active \in Items \union {None}
      BY <1>1, <1>c DEF SelectRead, LocalsFit, Parses, FilesTyped, Indexes
    <2>2. d \in Command /\ d.kind = c.kind /\ d.item = c.item /\ d.idx = index
      BY <2>1, <1>c DEF Command
    <2> HIDE DEF d
    <2>3. LocalsFit("selIndex", d) /\ "selIndex" \in Steps
      BY <2>1, <2>2 DEF LocalsFit, Computed, Writes, UndoSteps, Adopts, SelectSteps, Steps
    <2>4. CommandsTyped'
      BY <1>1, <2>2, <2>3, Goes DEF SelectRead, Go, Set, d
    <2>5. FoundTyped'
      BY <1>1 DEF SelectRead, Found, FoundTyped, FilesTyped, FileTypes
    <2>6. QED
      BY <1>1, <1>b, <1>u, <2>4, <2>5, PartsPrimed DEF SelectRead
  <1>2. CASE SelectIndex(p)
    <2>1. LocalsFit("selRead", c) /\ "selRead" \in Steps /\ c.idx \in Indexes /\ c.item \in Items
      BY <1>2, <1>c, <1>l
      DEF SelectIndex, LocalsFit, Computed, Writes, UndoSteps, Adopts, SelectSteps, Steps
    <2>2. FilesTyped'
      BY <1>2, <2>1 DEF SelectIndex, FilesTyped, Indexes
    <2>3. QED
      BY <1>2, <2>1, <2>2, <1>b, <1>f, GoesOn, PartsPrimed DEF SelectIndex
  <1>3. CASE SelectFetch(p)
    <2> DEFINE d == [c EXCEPT !.next = state[c.item]]
    <2>1. pc[p] = "selRead" /\ c.kind = "select" /\ c.item \in Items /\ c.idx \in Indexes /\ state[c.item] \in Docs
      BY <1>3, <1>l DEF SelectFetch, Parses, FilesTyped, SelectSteps
    <2>2. d \in Command /\ d.kind = c.kind /\ d.item = c.item /\ d.idx = c.idx /\ d.next = state[c.item]
      BY <2>1, <1>c DEF Command
    <2> HIDE DEF d
    <2>3. LocalsFit("selMirror", d) /\ "selMirror" \in Steps
      BY <2>1, <2>2 DEF LocalsFit, Computed, Writes, UndoSteps, Adopts, SelectSteps, Steps
    <2>4. CommandsTyped'
      BY <1>3, <2>2, <2>3, Goes DEF SelectFetch, Go, Set, d
    <2>5. QED
      BY <1>3, <1>b, <1>f, <1>u, <2>4, PartsPrimed DEF SelectFetch
  <1>4. CASE SelectMirror(p)
    <2>1. LocalsFit("selVerify", c) /\ "selVerify" \in Steps /\ c.next \in Docs
      BY <1>4, <1>c
      DEF SelectMirror, LocalsFit, Computed, Writes, UndoSteps, Adopts, SelectSteps, Steps
    <2>2. FilesTyped'
      BY <1>4, <2>1 DEF SelectMirror, FilesTyped
    <2>3. QED
      BY <1>4, <2>1, <2>2, <1>b, <1>f, GoesOn, PartsPrimed DEF SelectMirror
  <1>5. CASE SelectVerify(p)
    BY <1>5, <1>b, <1>u, Ends, PartsPrimed DEF SelectVerify
  <1>6. ASSUME pc[p] \in SelectSteps,
               IF c.active \in {None, c.item} THEN End(p) ELSE Go(p, "selUndo") /\ UNCHANGED <<cmd, found>>
        PROVE  CommandsTyped' /\ FoundTyped'
    BY <1>6, <1>s, <1>f, Ends, GoesOn
  <1>7. CASE SelectFails(p)
    BY <1>7, <1>6, <1>b, <1>u, PartsPrimed DEF SelectFails, SelectSteps
  <1>8. CASE SelectRefused(p)
    <2>1. BudgetTyped'
      BY <1>8, StoreAssumption DEF SelectRefused, BudgetTyped
    <2>2. QED
      BY <1>8, <1>6, <1>u, <2>1, PartsPrimed DEF SelectRefused, SelectSteps
  <1>9. CASE SelectUndo(p)
    <2>1. CASE End(p)
      BY <1>9, <2>1, <1>b, <1>u, Ends, PartsPrimed DEF SelectUndo
    <2>2. CASE /\ Parses(index) /\ Go(p, "selUndoIndex") /\ Set(p, [cmd[p] EXCEPT !.idx = index]) /\ UNCHANGED found
      <3> DEFINE d == [c EXCEPT !.idx = index]
      <3>1. index \in Indexes /\ c.kind = "select" /\ c.item \in Items /\ c.active \in Items
        BY <1>9, <2>2, <1>c, <1>l DEF SelectUndo, LocalsFit, Parses, FilesTyped, SelectSteps
      <3>2. d \in Command /\ d.kind = c.kind /\ d.item = c.item /\ d.idx = index /\ d.active = c.active
        BY <3>1, <1>c DEF Command
      <3> HIDE DEF d
      <3>3. LocalsFit("selUndoIndex", d) /\ "selUndoIndex" \in Steps
        BY <3>1, <3>2 DEF LocalsFit, Computed, Writes, UndoSteps, Adopts, SelectSteps, Steps
      <3>4. CommandsTyped'
        BY <2>2, <3>2, <3>3, Goes DEF Go, Set, d
      <3>5. QED
        BY <1>9, <2>2, <1>b, <1>f, <1>u, <3>4, PartsPrimed DEF SelectUndo
    <2>3. QED
      BY <1>9, <2>1, <2>2 DEF SelectUndo
  <1>10. CASE SelectUndoIndex(p)
    <2>1. c.idx \in Indexes /\ c.active \in Items
      BY <1>10, <1>c DEF SelectUndoIndex, LocalsFit, SelectSteps
    <2>2. FilesTyped'
      BY <1>10, <2>1 DEF SelectUndoIndex, FilesTyped, Indexes
    <2>3. QED
      BY <1>10, <2>2, <1>b, Ends, PartsPrimed DEF SelectUndoIndex
  <1>11. QED
    BY <1>1, <1>2, <1>3, <1>4, <1>5, <1>7, <1>8, <1>9, <1>10 DEF Select

LEMMA DieTyped ==
  ASSUME TInv, NEW p \in Procs, Die(p)
  PROVE  TInv'
  <1> USE Parts
  <1>1. FilesTyped'
    BY DEF Die, files, FilesTyped
  <1>2. BudgetTyped'
    BY StoreAssumption DEF Die, BudgetTyped
  <1>3. QED
    BY <1>1, <1>2, Ends, PartsPrimed DEF Die

LEMMA InitTyped == Init => TInv
  <1> SUFFICES ASSUME Init PROVE TInv
    OBVIOUS
  <1>1. FilesTyped
    BY DEF Init, FilesTyped, Docs, Indexes
  <1>2. NoCommand \in Command /\ LocalsFit("idle", NoCommand)
    BY DEF NoCommand, Command, LocalsFit, Computed, Writes, UndoSteps, Adopts, SelectSteps
  <1>3. CommandsTyped
    BY <1>2 DEF Init, CommandsTyped, Fitting, Steps
  <1>4. FoundTyped /\ BudgetTyped
    BY StoreAssumption DEF Init, FoundTyped, BudgetTyped
  <1>5. QED
    BY <1>1, <1>3, <1>4, Parts

LEMMA StepTyped ==
  ASSUME TInv, [Next]_vars
  PROVE  TInv'
  <1>1. CASE Next
    BY <1>1, BeginTyped, BootstrapTyped, PersistTyped, SelectTyped, DieTyped DEF Next, BeginAny, Kinds
  <1>2. CASE UNCHANGED vars
    BY <1>2 DEF vars, TInv, TypeOK, Fitting
  <1>3. QED BY <1>1, <1>2

(* The files, and what each command holds of them, are of the types that   *)
(* their readers take them for: nothing that is put back is cut short.     *)
THEOREM StoreAlwaysTyped == Spec => []TInv
  BY InitTyped, StepTyped, PTL DEF Spec

(* In particular files, processes and history are of their types.          *)
THEOREM StoreTyped == Spec => []TypeOK
  BY StoreAlwaysTyped, PTL DEF TInv
-----------------------------------------------------------------------------
(***************************************************************************)
(* One writer at a time per item: the commands implement AtomicCommands.   *)
(***************************************************************************)
(* No two processes are between the check and the end on the same item.    *)
OneWriter == \A p, q \in Procs : p # q /\ Writing(p) /\ Writing(q) => Target(p) # Target(q)

(* What a command has read or written is what the state of its item still  *)
(* is, and the next state was made from what it will replace.              *)
Before   == {"idle", "archive"} \union (BootSteps \ {"bootMirror"})
Kept     == {"validate", "mirror", "verify", "index", "undoState"}
MadeFrom(c) == c.next.from = None \/ (c.expect \in Docs /\ c.next.from = c.expect.rev)
Stands(p) ==
  LET c == cmd[p] IN
  /\ pc[p] = "write" => state[c.item] = c.before
  /\ pc[p] \in Kept  => state[c.item] = c.next
  /\ pc[p] \in Computed => MadeFrom(c)
  /\ pc[p] \in Writes   => c.next.from = None \/ c.before \in {None, c.expect}
  /\ pc[p] \in Adopts   => c.next.from = None
  /\ pc[p] \notin Before => index # None
(* A checkout of an older version holds a workflow that no command made.   *)
Adoptable == index = None /\ Parses(mirror) => mirror.from = None
WInv == TInv /\ OneWriter /\ (\A p \in Procs : Stands(p)) /\ Adoptable

LEMMA Distinct == None \notin Docs /\ Half \notin Docs /\ None # Half /\ None \notin Indexes /\ Half \notin Indexes
                  /\ None \notin Items
  BY StoreAssumption

(* A step of p leaves the commands of the others alone.                    *)
Alike(q) == pc'[q] = pc[q] /\ cmd'[q] = cmd[q]

LEMMA OnlyOwn ==
  ASSUME TInv, NEW p \in Procs, Step(p) \/ BeginAny(p), NEW q \in Procs, q # p
  PROVE  Alike(q)
  <1>0. pc \in [Procs -> Steps] /\ cmd \in [Procs -> Command]
    BY DEF TInv, TypeOK
  <1> USE DEF Go, Set, End, Alike
  <1>1. CASE BeginAny(p)
    BY <1>0, <1>1 DEF BeginAny, Begin
  <1>2. CASE Bootstrap(p)
    BY <1>0, <1>2 DEF Bootstrap, Conflict, ArchivePrior, Boot, BootEmpty, BootState, BootIndex, BootMirror
  <1>3. CASE Persist(p)
    <2>1. CASE Read(p) \/ Check(p) \/ GivesUp(p) \/ WriteState(p) \/ Validate(p) \/ WriteMirror(p) \/ Verify(p)
      BY <1>0, <2>1 DEF Read, Check, GivesUp, WriteState, Validate, WriteMirror, Verify
    <2>2. CASE WriteIndex(p) \/ Refused(p) \/ MirrorConflict(p) \/ UndoState(p) \/ UndoMirror(p) \/ UndoIndex(p)
      BY <1>0, <2>2 DEF WriteIndex, Refused, MirrorConflict, UndoState, UndoMirror, UndoIndex
    <2>3. QED
      BY <1>3, <2>1, <2>2 DEF Persist
  <1>4. CASE Select(p)
    <2>1. CASE SelectRead(p) \/ SelectIndex(p) \/ SelectFetch(p) \/ SelectMirror(p) \/ SelectVerify(p)
      BY <1>0, <2>1 DEF SelectRead, SelectIndex, SelectFetch, SelectMirror, SelectVerify
    <2>2. CASE SelectFails(p) \/ SelectRefused(p) \/ SelectUndo(p) \/ SelectUndoIndex(p)
      BY <1>0, <2>2 DEF SelectFails, SelectRefused, SelectUndo, SelectUndoIndex
    <2>3. QED
      BY <1>4, <2>1, <2>2 DEF Select
  <1>5. CASE Die(p)
    BY <1>0, <1>5 DEF Die
  <1>6. QED
    BY <1>1, <1>2, <1>3, <1>4, <1>5 DEF Step

(* What a step does to its own process and to the files: it is on an item  *)
(* after it only if it was before it or found nobody there, it changes the *)
(* state of that item only, and it never removes the index.                *)
Enters(p) == Writing(p)' => (Writing(p) /\ Target(p)' = Target(p)) \/ MayWrite(p, Target(p)')
Touches(p) == \A i \in Items : state'[i] # state[i] => Writing(p) /\ Target(p) = i
Moves(p) == Enters(p) /\ Touches(p) /\ Stands(p)' /\ (index # None => index' # None) /\ Adoptable'

LEMMA BeginMoves ==
  ASSUME WInv, NEW p \in Procs, BeginAny(p)
  PROVE  Moves(p)
  <1>1. PICK k \in Kinds, i \in Items \union {None} : Begin(p, k, i)
    BY DEF BeginAny, Kinds
  <1>2. pc'[p] \in {"archive", "boot"} /\ UNCHANGED files
    BY <1>1 DEF Begin, Go, WInv, TInv, TypeOK, files
  <1>3. ~Writing(p)' /\ Stands(p)'
    BY <1>2 DEF Writing, Stands, Kept, Computed, Writes, Adopts, UndoSteps, Before, BootSteps
  <1>4. QED
    BY <1>2, <1>3 DEF Moves, Enters, Touches, Adoptable, files, WInv, Parses

LEMMA EndMoves ==
  ASSUME WInv, NEW p \in Procs, End(p), Touches(p), index # None => index' # None, Adoptable'
  PROVE  Moves(p)
  <1>1. pc'[p] = "idle"
    BY DEF End, Go, WInv, TInv, TypeOK
  <1>2. ~Writing(p)' /\ Stands(p)'
    BY <1>1 DEF Writing, Stands, Kept, Computed, Writes, Adopts, UndoSteps, Before, BootSteps
  <1>3. QED
    BY <1>2 DEF Moves, Enters

LEMMA BootstrapMoves ==
  ASSUME WInv, NEW p \in Procs, Bootstrap(p), Exclusive
  PROVE  Moves(p)
  <1> DEFINE c == cmd[p]
  <1>t. /\ pc \in [Procs -> Steps] /\ cmd \in [Procs -> Command] /\ LocalsFit(pc[p], c) /\ Stands(p)
        /\ FilesTyped /\ Adoptable
    BY Parts DEF WInv, CommandsTyped, Fitting
  <1>x. pc'[p] \in {"boot", "bootEmpty", "bootState", "bootIndex", "bootMirror", "read"}
           => (Stands(p)' <=> /\ pc'[p] \in Adopts => cmd'[p].next.from = None
                              /\ pc'[p] \in {"bootMirror", "read"} => index' # None)
    BY DEF Stands, Kept, Computed, Writes, Adopts, UndoSteps, Before, BootSteps
  <1>1. CASE Conflict(p)
    BY <1>1, <1>t, EndMoves DEF Conflict, Touches, Adoptable, Parses
  <1>2. CASE ArchivePrior(p)
    <2>1. pc'[p] = "boot" /\ state' = state /\ index' = index
      BY <1>2, <1>t DEF ArchivePrior, Go
    <2>2. ~Writing(p)' /\ Stands(p)' /\ Adoptable'
      BY <1>2, <2>1, <1>t, <1>x, Distinct DEF ArchivePrior, Writing, Adopts, UndoSteps, Adoptable, Parses
    <2>3. QED
      BY <2>1, <2>2 DEF Moves, Enters, Touches
  <1>3. CASE Boot(p)
    <2>1. state' = state /\ index' = index /\ mirror' = mirror /\ Adoptable'
      BY <1>3, <1>t DEF Boot, files, Adoptable, Parses
    <2>2. CASE pc'[p] \in {"read", "bootEmpty"} /\ (pc'[p] = "read" => index # None)
      <3>1. ~Writing(p)' /\ Stands(p)'
        BY <2>1, <2>2, <1>x DEF Writing, Adopts, UndoSteps
      <3>2. QED
        BY <2>1, <3>1 DEF Moves, Enters, Touches
    <2>3. CASE /\ Go(p, "bootState") /\ Set(p, [cmd[p] EXCEPT !.next = mirror]) /\ Parses(mirror)
               /\ MayWrite(p, mirror.item) /\ index = None
      <3>1. pc'[p] = "bootState" /\ cmd'[p].next = mirror
        BY <2>3, <1>t DEF Go, Set, Command
      <3>2. mirror.from = None
        BY <2>3, <1>t DEF Adoptable
      <3>3. Stands(p)'
        BY <3>1, <3>2, <1>x DEF Adopts
      <3>4. Target(p)' = mirror.item
        BY <3>1 DEF Target, BootSteps
      <3>5. QED
        BY <2>1, <2>3, <3>3, <3>4 DEF Moves, Enters, Touches
    <2>4. QED
      BY <1>3, <1>t, <2>2, <2>3 DEF Boot, Exists, Go
  <1>4. CASE BootEmpty(p)
    <2>1. pc'[p] = "read" /\ state' = state /\ index' # None /\ mirror' = mirror
      BY <1>4, <1>t, Distinct DEF BootEmpty, Go, EmptyIndex, Indexes
    <2>2. ~Writing(p)' /\ Stands(p)' /\ Adoptable'
      BY <2>1, <1>x DEF Writing, Adopts, UndoSteps, Adoptable
    <2>3. QED
      BY <2>1, <2>2 DEF Moves, Enters, Touches
  <1>5. CASE BootState(p)
    <2>1. /\ pc[p] = "bootState" /\ pc'[p] = "bootIndex" /\ cmd'[p] = cmd[p] /\ index' = index /\ mirror' = mirror
          /\ state' = [state EXCEPT ![c.next.item] = c.next]
      BY <1>5, <1>t DEF BootState, Go
    <2>2. Writing(p) /\ Target(p) = c.next.item /\ Target(p)' = Target(p)
      BY <2>1 DEF Writing, Target, BootSteps
    <2>3. Touches(p)
      BY <2>1, <2>2, <1>t DEF Touches, FilesTyped
    <2>4. Stands(p)'
      BY <2>1, <1>x, <1>t DEF Adopts, Stands
    <2>5. QED
      BY <2>1, <2>2, <2>3, <2>4, <1>t DEF Moves, Enters, Adoptable, Parses
  <1>6. CASE BootIndex(p)
    <2>1. /\ pc[p] = "bootIndex" /\ pc'[p] = "bootMirror" /\ cmd'[p] = cmd[p] /\ state' = state /\ mirror' = mirror
          /\ c.next \in Docs
      BY <1>6, <1>t DEF BootIndex, Go, LocalsFit, Adopts
    <2>2. index' # None
      BY <1>6, <2>1, Distinct DEF BootIndex, EmptyIndex, Upsert, Indexes, Docs
    <2>3. Writing(p) /\ Target(p)' = Target(p)
      BY <2>1 DEF Writing, Target, BootSteps
    <2>4. Stands(p)'
      BY <2>1, <2>2, <1>x, <1>t DEF Adopts, Stands
    <2>5. QED
      BY <2>1, <2>2, <2>3, <2>4, <1>t DEF Moves, Enters, Touches, Adoptable
  <1>7. CASE BootMirror(p)
    <2>1. pc'[p] = "read" /\ state' = state /\ index' = index /\ index # None
      BY <1>7, <1>t DEF BootMirror, Go, Parses
    <2>2. ~Writing(p)' /\ Stands(p)' /\ Adoptable'
      BY <2>1, <1>x DEF Writing, Adopts, UndoSteps, Adoptable
    <2>3. QED
      BY <2>1, <2>2 DEF Moves, Enters, Touches
  <1>8. QED
    BY <1>1, <1>2, <1>3, <1>4, <1>5, <1>6, <1>7 DEF Bootstrap

(* A command between its check and its end goes on, with the locals that   *)
(* it had.                                                                 *)
LEMMA WritesMoves ==
  ASSUME WInv, NEW p \in Procs, pc[p] \in Writes, NEW at \in Writes, Go(p, at), UNCHANGED cmd,
         index' = index \/ index' # None,
         \/ state' = state /\ (at = "write" => pc[p] = "write") /\ (at \in Kept => pc[p] \in Kept)
         \/ pc[p] = "write" /\ state' = [state EXCEPT ![cmd[p].item] = cmd[p].next] /\ at = "validate"
         \/ pc[p] = "undoState" /\ state' = [state EXCEPT ![cmd[p].item] = cmd[p].before] /\ at = "undoMirror"
  PROVE  Moves(p)
  <1> DEFINE c == cmd[p]
  <1>1. /\ pc \in [Procs -> Steps] /\ LocalsFit(pc[p], c) /\ Stands(p) /\ FilesTyped /\ Adoptable
        /\ c.item \in Items
    BY Parts DEF WInv, CommandsTyped, Fitting, LocalsFit, Computed
  <1>2. pc'[p] = at /\ cmd'[p] = c
    BY <1>1 DEF Go
  <1>3. Writing(p) /\ Target(p) = c.item /\ Target(p)' = c.item
    BY <1>2 DEF Writing, Target, Writes, UndoSteps, BootSteps
  <1>4. index # None /\ index' # None /\ Adoptable'
    BY <1>1 DEF Stands, Before, Writes, UndoSteps, BootSteps, Adoptable
  <1>5. Touches(p)
    BY <1>1, <1>3 DEF Touches, FilesTyped
  <1>6. /\ MadeFrom(c) /\ (c.next.from = None \/ c.before \in {None, c.expect})
        /\ pc[p] = "write" => state[c.item] = c.before
        /\ pc[p] \in Kept => state[c.item] = c.next
    BY <1>1 DEF Stands, Computed
  <1>7. /\ at = "write" => state'[c.item] = c.before
        /\ at \in Kept => state'[c.item] = c.next
    BY <1>1, <1>6 DEF FilesTyped, Kept
  <1>8. at \notin Adopts
    BY DEF Adopts, Writes, UndoSteps
  <1>9. Stands(p)'
    BY <1>2, <1>4, <1>6, <1>7, <1>8 DEF Stands, MadeFrom
  <1>10. QED
    BY <1>3, <1>4, <1>5, <1>9 DEF Moves, Enters

LEMMA PersistMoves ==
  ASSUME WInv, NEW p \in Procs, Persist(p), Exclusive
  PROVE  Moves(p)
  <1> DEFINE c == cmd[p]
  <1>t. /\ pc \in [Procs -> Steps] /\ cmd \in [Procs -> Command] /\ LocalsFit(pc[p], c) /\ Stands(p)
        /\ FilesTyped /\ Adoptable
    BY Parts DEF WInv, CommandsTyped, Fitting
  <1>u. UNCHANGED files => Adoptable' /\ Touches(p) /\ index' = index
    BY <1>t DEF files, Adoptable, Parses, Touches
  <1>1. CASE Read(p)
    <2> DEFINE i == Subject(p)
               d == Fetched(p, i)
    <2>1. pc'[p] = "check" /\ cmd'[p] = d /\ state' = state /\ index' = index /\ index # None
      BY <1>1, <1>t DEF Read, Go, Set, files, Parses
    <2>2. d.next.from = (IF c.kind = "mutate" THEN state[i].rev ELSE None)
          /\ d.expect = (IF Parses(state[i]) THEN state[i] ELSE None)
      BY <1>t DEF Fetched, Command
    <2>3. i \in Items /\ state[i] # Half /\ (c.kind = "mutate" => state[i] # None)
      BY <1>1, <1>t DEF Read, Exists, Subject, Parses, FilesTyped, Indexes, Command
    <2>4. c.kind = "mutate" => state[i] \in Docs
      BY <2>3, <1>t DEF FilesTyped
    <2> HIDE DEF d, i
    <2>5. MadeFrom(d)
      BY <2>2, <2>3, <2>4 DEF MadeFrom, Parses
    <2>6. ~Writing(p)' /\ Stands(p)'
      BY <2>1, <2>5 DEF Writing, Stands, MadeFrom, Kept, Computed, Writes, Adopts, UndoSteps
    <2>7. QED
      BY <1>1, <1>u, <2>1, <2>6 DEF Moves, Enters, Read
  <1>2. CASE Check(p)
    <2> DEFINE d == [c EXCEPT !.idx = index, !.before = state[c.item], !.prev = mirror]
    <2>1. /\ pc[p] = "check" /\ pc'[p] = "write" /\ cmd'[p] = d /\ index' = index /\ index # None
          /\ state' = state
      BY <1>2, <1>t DEF Check, Go, Set, files, Parses
    <2>2. d.item = c.item /\ d.before = state[c.item] /\ d.next = c.next /\ d.expect = c.expect
      BY <1>t DEF Command
    <2>3. MadeFrom(c) /\ c.item \in Items
      BY <2>1, <1>t DEF Stands, Computed, LocalsFit
    <2>4. c.next.from = None \/ state[c.item] \in {None, c.expect}
      BY <1>2, <2>3, Distinct DEF Check, Stale, Exists, MadeFrom
    <2>5. MayWrite(p, c.item)
      BY <1>2 DEF Check
    <2> HIDE DEF d
    <2>6. MadeFrom(d)
      BY <2>2, <2>3 DEF MadeFrom
    <2>7. Stands(p)'
      BY <2>1, <2>2, <2>4, <2>6 DEF Stands, MadeFrom, Kept, Computed, Writes, Adopts
    <2>8. Target(p)' = c.item
      BY <2>1, <2>2 DEF Target, BootSteps
    <2>9. QED
      BY <1>2, <1>u, <2>1, <2>5, <2>7, <2>8 DEF Moves, Enters, Check
  <1>3. CASE GivesUp(p)
    BY <1>3, <1>u, EndMoves DEF GivesUp
  <1>4. CASE WriteState(p) \/ UndoState(p)
    <2>1. {"write", "validate", "undoState", "undoMirror"} \subseteq Writes
      BY DEF Writes, UndoSteps
    <2>2. QED
      BY <1>4, <2>1, WritesMoves DEF WriteState, UndoState
  <1>5. CASE Validate(p) \/ Verify(p) \/ Refused(p) \/ MirrorConflict(p)
    <2>1. {"validate", "verify", "mirror", "index", "undoState"} \subseteq Writes \intersect Kept
          /\ "write" \notin {"validate", "verify", "mirror", "index", "undoState"}
      BY DEF Writes, Kept, UndoSteps
    <2>2. UNCHANGED files => state' = state /\ index' = index
      BY DEF files
    <2>3. QED
      BY <1>5, <2>1, <2>2, WritesMoves DEF Validate, Verify, Refused, MirrorConflict
  <1>6. CASE WriteMirror(p) \/ UndoMirror(p)
    <2>1. {"verify", "mirror"} \subseteq Writes \intersect Kept /\ {"undoMirror", "undoIndex"} \subseteq Writes
          /\ "undoIndex" \notin Kept
      BY DEF Writes, Kept, UndoSteps
    <2>2. QED
      BY <1>6, <2>1, WritesMoves DEF WriteMirror, UndoMirror
  <1>7. CASE WriteIndex(p) \/ UndoIndex(p)
    <2>1. c.idx \in Indexes /\ c.item \in Items /\ c.active \in Items \union {None} /\ state' = state /\ mirror' = mirror
      BY <1>7, <1>t DEF WriteIndex, UndoIndex, LocalsFit, Computed, Writes, UndoSteps, Command
    <2>2. index' \in Indexes
      BY <1>7, <2>1 DEF WriteIndex, UndoIndex, Upsert, Indexes
    <2>3. index' # None /\ Adoptable' /\ Touches(p)
      BY <2>1, <2>2, Distinct DEF Adoptable, Touches
    <2>4. QED
      BY <1>7, <2>3, EndMoves DEF WriteIndex, UndoIndex
  <1>8. QED
    BY <1>1, <1>2, <1>3, <1>4, <1>5, <1>6, <1>7 DEF Persist

LEMMA SelectMoves ==
  ASSUME WInv, NEW p \in Procs, Select(p)
  PROVE  Moves(p)
  <1> DEFINE c == cmd[p]
  <1>t. /\ pc \in [Procs -> Steps] /\ LocalsFit(pc[p], c) /\ Stands(p) /\ FilesTyped /\ Adoptable
    BY Parts DEF WInv, CommandsTyped, Fitting
  <1>1. state' = state /\ Touches(p)
    BY DEF Select, SelectRead, SelectIndex, SelectFetch, SelectMirror, SelectVerify,
           SelectFails, SelectRefused, SelectUndo, SelectUndoIndex, files, Touches
  <1>2. index # None
    BY <1>t DEF Select, SelectRead, SelectIndex, SelectFetch, SelectMirror, SelectVerify,
           SelectFails, SelectRefused, SelectUndo, SelectUndoIndex, Parses, Stands, Before, BootSteps
  <1>3. index' = index \/ index' \in Indexes
    BY <1>t DEF Select, SelectRead, SelectIndex, SelectFetch, SelectMirror, SelectVerify,
           SelectFails, SelectRefused, SelectUndo, SelectUndoIndex, files, LocalsFit, SelectSteps, Indexes
  <1>4. index' # None /\ Adoptable'
    BY <1>2, <1>3, Distinct DEF Adoptable
  <1>5. ASSUME NEW at \in SelectSteps, pc'[p] = at PROVE Moves(p)
    <2>1. ~Writing(p)'
      BY <1>5 DEF Writing, SelectSteps, UndoSteps
    <2>2. Stands(p)'
      BY <1>4, <1>5 DEF Stands, Kept, Computed, Writes, Adopts, UndoSteps, SelectSteps
    <2>3. QED
      BY <1>1, <1>4, <2>1, <2>2 DEF Moves, Enters
  <1>6. End(p) => Moves(p)
    BY <1>1, <1>4, EndMoves
  <1>7. (\E at \in SelectSteps : Go(p, at)) => Moves(p)
    BY <1>5, <1>t DEF Go
  <1>8. End(p) \/ \E at \in SelectSteps : Go(p, at)
    BY DEF Select, SelectRead, SelectIndex, SelectFetch, SelectMirror, SelectVerify,
           SelectFails, SelectRefused, SelectUndo, SelectUndoIndex, SelectSteps
  <1>9. QED
    BY <1>6, <1>7, <1>8

LEMMA DieMoves ==
  ASSUME WInv, NEW p \in Procs, Die(p)
  PROVE  Moves(p)
  <1>t. /\ pc \in [Procs -> Steps] /\ LocalsFit(pc[p], cmd[p]) /\ Stands(p) /\ FilesTyped /\ Adoptable
    BY Parts DEF WInv, CommandsTyped, Fitting
  <1>1. Touches(p)
    BY <1>t DEF Die, files, Touches, FilesTyped, WritesState, Writing, UndoSteps
  <1>2. index # None => index' # None
    BY Distinct DEF Die, files
  <1>3. Adoptable'
    BY <1>t, Distinct DEF Die, files, Adoptable, Parses
  <1>4. QED
    BY <1>1, <1>2, <1>3, EndMoves DEF Die

(* What the others hold is not disturbed.                                  *)
LEMMA MovesKeep ==
  ASSUME WInv, NEW p \in Procs, Moves(p), \A q \in Procs \ {p} : Alike(q), TInv', Exclusive
  PROVE  WInv'
  <1>1. ASSUME NEW q \in Procs \ {p}, Writing(q)
        PROVE  Writing(q)' /\ Target(q)' = Target(q) /\ (Writing(p) => Target(p) # Target(q))
    BY <1>1 DEF Alike, Writing, Target, WInv, OneWriter
  <1>2. OneWriter'
    <2>1. ASSUME NEW q \in Procs \ {p}, Writing(q)', Writing(p)' PROVE Target(p)' # Target(q)'
      <3>1. Writing(q) /\ Target(q)' = Target(q)
        BY <2>1 DEF Alike, Writing, Target
      <3>2. CASE Writing(p) /\ Target(p)' = Target(p)
        BY <1>1, <3>1, <3>2
      <3>3. CASE MayWrite(p, Target(p)')
        BY <3>1, <3>3 DEF MayWrite
      <3>4. QED
        BY <2>1, <3>2, <3>3 DEF Moves, Enters
    <2>2. ASSUME NEW q \in Procs \ {p}, NEW r \in Procs \ {p}, q # r, Writing(q)', Writing(r)'
          PROVE  Target(q)' # Target(r)'
      BY <2>2 DEF Alike, Writing, Target, WInv, OneWriter
    <2>3. QED
      BY <2>1, <2>2 DEF OneWriter
  <1>3. ASSUME NEW q \in Procs \ {p} PROVE Stands(q)'
    <2>1. pc'[q] = pc[q] /\ cmd'[q] = cmd[q] /\ Stands(q)
      BY DEF Alike, WInv
    <2>2. pc[q] \in {"write"} \union Kept => state'[cmd[q].item] = state[cmd[q].item]
      <3>1. SUFFICES ASSUME pc[q] \in {"write"} \union Kept PROVE state'[cmd[q].item] = state[cmd[q].item]
        OBVIOUS
      <3>2. Writing(q) /\ Target(q) = cmd[q].item /\ cmd[q].item \in Items
        BY <3>1 DEF Writing, Target, Kept, UndoSteps, BootSteps, WInv, TInv, Fitting, LocalsFit, Computed, Writes
      <3>3. QED
        BY <1>1, <3>2 DEF Moves, Touches
    <2>3. pc[q] \notin Before => index' # None
      BY <2>1 DEF Stands, Moves
    <2>4. QED
      BY <2>1, <2>2, <2>3 DEF Stands, MadeFrom
  <1>4. QED
    BY <1>2, <1>3 DEF WInv, Moves

LEMMA StepOneWriter ==
  ASSUME WInv, [Next]_vars, Exclusive
  PROVE  WInv'
  <1>1. TInv'
    BY StepTyped DEF WInv
  <1>2. CASE Next
    <2>1. PICK p \in Procs : BeginAny(p) \/ Step(p)
      BY <1>2 DEF Next, Step
    <2>2. Moves(p)
      BY <2>1, BeginMoves, BootstrapMoves, PersistMoves, SelectMoves, DieMoves DEF Step
    <2>3. \A q \in Procs \ {p} : Alike(q)
      BY <2>1, OnlyOwn DEF WInv
    <2>4. QED
      BY <1>1, <2>2, <2>3, MovesKeep
  <1>3. CASE UNCHANGED vars
    BY <1>1, <1>3 DEF vars, WInv, OneWriter, Writing, Target, Stands, MadeFrom, Adoptable, Parses
  <1>4. QED
    BY <1>2, <1>3

LEMMA InitOneWriter == Init => WInv
  <1> SUFFICES ASSUME Init PROVE WInv
    OBVIOUS
  <1>1. TInv
    BY InitTyped
  <1>2. \A p \in Procs : pc[p] = "idle"
    BY DEF Init
  <1>3. OneWriter
    BY <1>2 DEF OneWriter, Writing, UndoSteps
  <1>4. \A p \in Procs : Stands(p)
    BY <1>2 DEF Stands, Kept, Computed, Writes, Adopts, UndoSteps, Before
  <1>5. Adoptable
    BY DEF Init, Adoptable, Parses
  <1>6. QED
    BY <1>1, <1>3, <1>4, <1>5 DEF WInv

-----------------------------------------------------------------------------
(* The settled state of an item is told by the one command that may still  *)
(* put it back, or else by the file.                                       *)
Own(p, i) == IF Tentative(p, i) THEN cmd[p].before ELSE state[i]

LEMMA TentativeWrites ==
  ASSUME NEW p, NEW i, Tentative(p, i) PROVE Writing(p) /\ Target(p) = i
  BY DEF Tentative, Writing, Target, UndoSteps, BootSteps

LEMMA TentativeWritesPrimed ==
  ASSUME NEW p, NEW i, Tentative(p, i)' PROVE Writing(p)' /\ Target(p)' = i
  BY DEF Tentative, Writing, Target, UndoSteps, BootSteps

LEMMA SettledBy ==
  ASSUME OneWriter, NEW p \in Procs, NEW i \in Items, Tentative(p, i)
  PROVE  Settled[i] = cmd[p].before
  <1>1. \A q \in Procs : Tentative(q, i) => q = p
    BY TentativeWrites DEF OneWriter
  <1>2. (CHOOSE q \in Procs : Tentative(q, i)) = p
    BY <1>1
  <1>3. QED
    BY <1>2 DEF Settled, Tentative

LEMMA SettledByPrimed ==
  ASSUME OneWriter', NEW p \in Procs, NEW i \in Items, Tentative(p, i)'
  PROVE  Settled'[i] = cmd'[p].before
  <1>1. \A q \in Procs : Tentative(q, i)' => q = p
    BY TentativeWritesPrimed DEF OneWriter
  <1>2. (CHOOSE q \in Procs : Tentative(q, i)') = p
    BY <1>1
  <1>3. QED
    BY <1>2 DEF Settled, Tentative

(* While no other command is writing the item, it is p and the file that   *)
(* tell.                                                                   *)
LEMMA SettledOwn ==
  ASSUME OneWriter, NEW p \in Procs, NEW i \in Items, \A q \in Procs \ {p} : ~Tentative(q, i)
  PROVE  Settled[i] = Own(p, i)
  <1>1. CASE Tentative(p, i)
    BY <1>1, SettledBy DEF Own
  <1>2. CASE ~Tentative(p, i)
    BY <1>2 DEF Settled, Own, Tentative
  <1>3. QED BY <1>1, <1>2

LEMMA SettledOwnPrimed ==
  ASSUME OneWriter', NEW p \in Procs, NEW i \in Items, \A q \in Procs \ {p} : ~Tentative(q, i)'
  PROVE  Settled'[i] = Own(p, i)'
  <1>1. CASE Tentative(p, i)'
    BY <1>1, SettledByPrimed DEF Own, Tentative
  <1>2. CASE ~Tentative(p, i)'
    BY <1>2 DEF Settled, Own, Tentative
  <1>3. QED BY <1>1, <1>2

(* A step of p that leaves its own view of every item leaves what is       *)
(* settled.                                                                *)
LEMMA Unsettled ==
  ASSUME OneWriter, OneWriter', NEW p \in Procs, \A q \in Procs \ {p} : Alike(q),
         NEW i \in Items, Own(p, i)' = Own(p, i)
  PROVE  Settled'[i] = Settled[i]
  <1>1. \A q \in Procs \ {p} : /\ Tentative(q, i)' <=> Tentative(q, i)
                               /\ cmd'[q].before = cmd[q].before
    BY DEF Alike, Tentative
  <1>2. CASE \E q \in Procs \ {p} : Tentative(q, i)
    BY <1>1, <1>2, SettledBy, SettledByPrimed
  <1>3. CASE \A q \in Procs \ {p} : ~Tentative(q, i)
    BY <1>1, <1>3, SettledOwn, SettledOwnPrimed
  <1>4. QED BY <1>2, <1>3

(* At the item that p is writing, both sides are its own view.             *)
LEMMA SettledTarget ==
  ASSUME OneWriter, OneWriter', NEW p \in Procs, \A q \in Procs \ {p} : Alike(q),
         Writing(p), NEW i \in Items, Target(p) = i
  PROVE  Settled[i] = Own(p, i) /\ Settled'[i] = Own(p, i)'
  <1>1. \A q \in Procs \ {p} : ~Tentative(q, i)
    BY TentativeWrites DEF OneWriter
  <1>2. \A q \in Procs \ {p} : ~Tentative(q, i)'
    BY <1>1 DEF Alike, Tentative
  <1>3. QED
    BY <1>1, <1>2, SettledOwn, SettledOwnPrimed

LEMMA SettledFunction ==
  /\ Settled = [i \in Items |-> Settled[i]] /\ Settled' = [i \in Items |-> Settled'[i]]
  BY DEF Settled, Tentative

LEMMA Stutters ==
  ASSUME OneWriter, OneWriter', NEW p \in Procs, \A q \in Procs \ {p} : Alike(q),
         \A i \in Items : Own(p, i)' = Own(p, i)
  PROVE  Settled' = Settled
  <1>1. \A i \in Items : Settled'[i] = Settled[i]
    BY Unsettled
  <1>2. QED
    BY <1>1, SettledFunction

(* A step of p that changes its view of the item it is writing only is a   *)
(* step of AtomicCommands if the new view was made from the old one.       *)
LEMMA Publishes ==
  ASSUME OneWriter, OneWriter', NEW p \in Procs, \A q \in Procs \ {p} : Alike(q),
         NEW i \in Items, Writing(p), Target(p) = i,
         \A j \in Items \ {i} : Own(p, j)' = Own(p, j),
         NEW old, NEW new, Own(p, i) = old, Own(p, i)' = new,
         \/ new = Half
         \/ /\ new \in Docs /\ new.item = i
            /\ new.from = None \/ old = None \/ (old \in Docs /\ new.from = old.rev)
  PROVE  Commands!Next
  <1>1. \A j \in Items \ {i} : Settled'[j] = Settled[j]
    BY Unsettled
  <1>2. Settled[i] = old /\ Settled'[i] = new
    BY SettledTarget
  <1>3. Settled' = [Settled EXCEPT ![i] = new]
    BY <1>1, <1>2, SettledFunction
  <1>4. CASE new = Half
    BY <1>3, <1>4 DEF Commands!Next, Commands!Tear
  <1>5. CASE new \in Docs /\ new.item = i /\ new.from = None
    BY <1>2, <1>3, <1>5, Distinct DEF Commands!Next, Commands!Start, Commands!Publish, Commands!IsDoc
  <1>6. CASE new \in Docs /\ new.item = i /\ old = None
    BY <1>2, <1>3, <1>6, Distinct DEF Commands!Next, Commands!Revive, Commands!Publish, Commands!IsDoc
  <1>7. CASE new \in Docs /\ new.item = i /\ old \in Docs /\ new.from = old.rev
    BY <1>2, <1>3, <1>7, Distinct DEF Commands!Next, Commands!Change, Commands!Publish, Commands!IsDoc
  <1>8. QED
    BY <1>4, <1>5, <1>6, <1>7

(* Outside the writes that may still be put back, the file tells.          *)
LEMMA QuietStep ==
  ASSUME WInv, WInv', NEW p \in Procs, \A q \in Procs \ {p} : Alike(q),
         pc[p] \notin Kept, pc'[p] \notin Kept, state' = state
  PROVE  Settled' = Settled
  <1>1. \A i \in Items : Own(p, i)' = Own(p, i)
    BY DEF Own, Tentative, Kept
  <1>2. QED
    BY <1>1, Stutters DEF WInv

LEMMA BootStateCommands ==
  ASSUME WInv, WInv', NEW p \in Procs, \A q \in Procs \ {p} : Alike(q), BootState(p)
  PROVE  Commands!Next
  <1> DEFINE c == cmd[p]
  <1>0. PICK i \in Items : i = c.next.item
    BY DEF BootState, WInv, TInv, Fitting, LocalsFit, Adopts, Docs
  <1>1. /\ pc[p] = "bootState" /\ pc'[p] = "bootIndex" /\ c.next \in Docs /\ c.next.from = None
        /\ state' = [state EXCEPT ![i] = c.next] /\ state \in [Items -> Docs \union {None, Half}]
    BY <1>0 DEF BootState, Go, WInv, TInv, TypeOK, Fitting, LocalsFit, Stands, Adopts
  <1>2. Writing(p) /\ Target(p) = i
    BY <1>0, <1>1 DEF Writing, Target, BootSteps
  <1>3. \A j \in Items : Own(p, j) = state[j] /\ Own(p, j)' = state'[j]
    BY <1>1 DEF Own, Tentative
  <1>4. (\A j \in Items \ {i} : Own(p, j)' = Own(p, j)) /\ Own(p, i)' = c.next
    BY <1>1, <1>3
  <1>5. QED
    BY <1>0, <1>1, <1>2, <1>4, Publishes DEF WInv

(* What a command that has written its item may put back, and what it put  *)
(* there.                                                                  *)
LEMMA KeptItem ==
  ASSUME WInv, NEW p \in Procs, pc[p] \in Kept
  PROVE  LET c == cmd[p] IN
         /\ Writing(p) /\ Target(p) = c.item /\ c.item \in Items
         /\ state[c.item] = c.next /\ Own(p, c.item) = c.before
         /\ c.next \in Docs /\ c.next.item = c.item
         /\ c.next.from = None \/ c.before = None \/ (c.before \in Docs /\ c.next.from = c.before.rev)
         /\ \A j \in Items \ {c.item} : Own(p, j) = state[j]
  <1> DEFINE c == cmd[p]
  <1>1. LocalsFit(pc[p], c) /\ Stands(p)
    BY DEF WInv, TInv, Fitting
  <1>2. pc[p] \in Writes /\ pc[p] \in Computed
    BY DEF Kept, Writes, Computed, UndoSteps
  <1>3. c.item \in Items /\ c.next \in Docs /\ c.next.item = c.item /\ state[c.item] = c.next
        /\ MadeFrom(c) /\ (c.next.from = None \/ c.before \in {None, c.expect})
    BY <1>1, <1>2 DEF LocalsFit, Stands
  <1>4. Writing(p) /\ Target(p) = c.item
    BY DEF Writing, Target, Kept, UndoSteps, BootSteps
  <1>5. Own(p, c.item) = c.before /\ \A j \in Items \ {c.item} : Own(p, j) = state[j]
    BY DEF Own, Tentative, Kept
  <1>6. QED
    BY <1>3, <1>4, <1>5 DEF MadeFrom

(* The command ends, or its process dies, with its state in place: that is *)
(* when it publishes.                                                      *)
LEMMA KeptEnds ==
  ASSUME WInv, WInv', NEW p \in Procs, \A q \in Procs \ {p} : Alike(q),
         pc[p] \in Kept, pc'[p] \notin Kept, state' = state
  PROVE  Commands!Next
  <1> DEFINE c == cmd[p]
  <1>1. \A j \in Items : Own(p, j)' = state'[j]
    BY DEF Own, Tentative, Kept
  <1>2. PICK i \in Items : i = c.item
    BY KeptItem
  <1>3. Own(p, i)' = c.next /\ \A j \in Items \ {i} : Own(p, j)' = Own(p, j)
    BY <1>1, <1>2, KeptItem
  <1>4. QED
    BY <1>2, <1>3, KeptItem, Publishes DEF WInv

LEMMA KeptGoesOn ==
  ASSUME WInv, WInv', NEW p \in Procs, \A q \in Procs \ {p} : Alike(q),
         pc[p] \in Kept, pc'[p] \in Kept, cmd'[p] = cmd[p], state' = state
  PROVE  Settled' = Settled
  <1>1. \A i \in Items : Own(p, i)' = Own(p, i)
    BY DEF Own, Tentative, Kept
  <1>2. QED
    BY <1>1, Stutters DEF WInv

LEMMA WriteStateCommands ==
  ASSUME WInv, WInv', NEW p \in Procs, \A q \in Procs \ {p} : Alike(q), WriteState(p)
  PROVE  Settled' = Settled
  <1> DEFINE c == cmd[p]
  <1>1. /\ pc[p] = "write" /\ pc'[p] = "validate" /\ cmd'[p] = c /\ c.item \in Items
        /\ state' = [state EXCEPT ![c.item] = c.next] /\ state \in [Items -> Docs \union {None, Half}]
        /\ state[c.item] = c.before
    BY DEF WriteState, Go, WInv, TInv, TypeOK, Fitting, LocalsFit, Stands, Computed, Writes
  <1>2. \A i \in Items : Own(p, i)' = Own(p, i)
    BY <1>1 DEF Own, Tentative
  <1>3. QED
    BY <1>2, Stutters DEF WInv

LEMMA UndoStateCommands ==
  ASSUME WInv, WInv', NEW p \in Procs, \A q \in Procs \ {p} : Alike(q), UndoState(p)
  PROVE  Settled' = Settled
  <1> DEFINE c == cmd[p]
  <1>1. /\ pc[p] = "undoState" /\ pc'[p] = "undoMirror" /\ cmd'[p] = c /\ c.item \in Items
        /\ state' = [state EXCEPT ![c.item] = c.before] /\ state \in [Items -> Docs \union {None, Half}]
    BY DEF UndoState, Go, WInv, TInv, TypeOK, Fitting, LocalsFit, Computed, Writes, UndoSteps
  <1>2. \A i \in Items : Own(p, i)' = Own(p, i)
    BY <1>1 DEF Own, Tentative
  <1>3. QED
    BY <1>2, Stutters DEF WInv

LEMMA DieCommands ==
  ASSUME WInv, WInv', NEW p \in Procs, \A q \in Procs \ {p} : Alike(q), Die(p)
  PROVE  Commands!Next \/ Settled' = Settled
  <1>1. pc'[p] = "idle" /\ state \in [Items -> Docs \union {None, Half}]
    BY DEF Die, End, Go, WInv, TInv, TypeOK
  <1>2. CASE state' = state
    BY <1>1, <1>2, KeptEnds, QuietStep DEF Kept
  <1>3. ASSUME NEW i \in Items, WritesState(p, i), state' = [state EXCEPT ![i] = Half]
        PROVE  Commands!Next
    <2>1. Writing(p) /\ Target(p) = i
      BY <1>3 DEF WritesState, Writing, UndoSteps
    <2>2. \A j \in Items : Own(p, j)' = state'[j]
      BY <1>1 DEF Own, Tentative
    <2>3. \A j \in Items \ {i} : Own(p, j) = state[j]
      BY <2>1 DEF Own, Tentative, Target, BootSteps
    <2>4. Own(p, i)' = Half /\ \A j \in Items \ {i} : Own(p, j)' = Own(p, j)
      BY <1>1, <1>3, <2>2, <2>3
    <2>5. QED
      BY <2>1, <2>4, Publishes DEF WInv
  <1>4. QED
    BY <1>2, <1>3 DEF Die, files

LEMMA StepCommands ==
  ASSUME WInv, WInv', NEW p \in Procs, \A q \in Procs \ {p} : Alike(q), Step(p) \/ BeginAny(p)
  PROVE  Commands!Next \/ Settled' = Settled
  <1>0. pc \in [Procs -> Steps] /\ cmd \in [Procs -> Command]
    BY DEF WInv, TInv, TypeOK
  <1>1. CASE BeginAny(p)
    <2>1. pc[p] = "idle" /\ pc'[p] \in {"archive", "boot"} /\ state' = state
      BY <1>0, <1>1 DEF BeginAny, Begin, Go
    <2>2. QED
      BY <2>1, QuietStep DEF Kept
  <1>2. CASE Bootstrap(p) /\ ~BootState(p)
    <2>1. pc[p] \notin Kept /\ pc'[p] \notin Kept /\ state' = state
      BY <1>0, <1>2 DEF Bootstrap, Conflict, ArchivePrior, Boot, BootEmpty, BootIndex, BootMirror, End, Go, Kept, files
    <2>2. QED
      BY <2>1, QuietStep
  <1>3. CASE Read(p) \/ Check(p) \/ GivesUp(p) \/ UndoMirror(p) \/ UndoIndex(p)
    <2>1. pc[p] \notin Kept /\ pc'[p] \notin Kept /\ state' = state
      BY <1>0, <1>3 DEF Read, Check, GivesUp, Reads, UndoMirror, UndoIndex, End, Go, Kept, files
    <2>2. QED
      BY <2>1, QuietStep
  <1>4. CASE Validate(p) \/ WriteMirror(p) \/ Verify(p) \/ Refused(p) \/ MirrorConflict(p)
    <2>1. pc[p] \in Kept /\ pc'[p] \in Kept /\ cmd'[p] = cmd[p] /\ state' = state
      BY <1>0, <1>4 DEF Validate, WriteMirror, Verify, Refused, MirrorConflict, Go, Kept, files
    <2>2. QED
      BY <2>1, KeptGoesOn
  <1>5. CASE WriteIndex(p)
    <2>1. pc[p] \in Kept /\ pc'[p] \notin Kept /\ state' = state
      BY <1>0, <1>5 DEF WriteIndex, End, Go, Kept
    <2>2. QED
      BY <2>1, KeptEnds
  <1>6. CASE Select(p)
    <2>1. pc[p] \notin Kept /\ pc'[p] \notin Kept
      <3>1. CASE SelectRead(p) \/ SelectIndex(p) \/ SelectFetch(p) \/ SelectMirror(p) \/ SelectVerify(p)
        BY <1>0, <3>1 DEF SelectRead, SelectIndex, SelectFetch, SelectMirror, SelectVerify, End, Go, Kept
      <3>2. CASE SelectFails(p) \/ SelectRefused(p) \/ SelectUndo(p) \/ SelectUndoIndex(p)
        BY <1>0, <3>2 DEF SelectFails, SelectRefused, SelectUndo, SelectUndoIndex, End, Go, Kept
      <3>3. QED
        BY <1>6, <3>1, <3>2 DEF Select
    <2>2. state' = state
      BY <1>6 DEF Select, SelectRead, SelectIndex, SelectFetch, SelectMirror, SelectVerify,
                  SelectFails, SelectRefused, SelectUndo, SelectUndoIndex, files
    <2>3. QED
      BY <2>1, <2>2, QuietStep
  <1>7. QED
    BY <1>1, <1>2, <1>3, <1>4, <1>5, <1>6, BootStateCommands, WriteStateCommands, UndoStateCommands, DieCommands
    DEF Step, Bootstrap, Persist

LEMMA InitCommands == Init => Commands!Init
  <1> SUFFICES ASSUME Init PROVE Commands!Init
    OBVIOUS
  <1>1. \A p \in Procs, i \in Items : ~Tentative(p, i)
    BY DEF Init, Tentative
  <1>2. Settled = state
    BY <1>1 DEF Init, Settled, Tentative
  <1>3. \A i \in Items : state[i] = None \/ state[i] \in Docs
    BY InitTyped DEF Init, Docs
  <1>4. QED
    BY <1>2, <1>3, Distinct DEF Commands!Init, Commands!IsDoc

(* With no two commands writing one item at a time, the state of an item   *)
(* changes by whole commands: none publishes over a state that it has not  *)
(* read, and none leaves one that it failed to publish, wherever processes *)
(* die and whatever the commands on other items do to the shared files.    *)
THEOREM StoreImplementsCommands ==
  ASSUME Exclusive
  PROVE  Spec => ImplementsCommands
  <1>1. WInv /\ [Next]_vars => WInv'
    BY StepOneWriter
  <1>2. WInv /\ WInv' /\ [Next]_vars => [Commands!Next]_Settled
    <2> SUFFICES ASSUME WInv, WInv', [Next]_vars PROVE Commands!Next \/ Settled' = Settled
      OBVIOUS
    <2>1. CASE Next
      <3>1. PICK p \in Procs : BeginAny(p) \/ Step(p)
        BY <2>1 DEF Next, Step
      <3>2. \A q \in Procs \ {p} : Alike(q)
        BY <3>1, OnlyOwn DEF WInv
      <3>3. QED
        BY <3>1, <3>2, StepCommands
    <2>2. CASE UNCHANGED vars
      BY <2>2 DEF vars, Settled, Tentative
    <2>3. QED BY <2>1, <2>2
  <1>3. QED
    BY <1>1, <1>2, InitOneWriter, InitCommands, PTL DEF Spec, ImplementsCommands, Commands!Spec

-----------------------------------------------------------------------------
(***************************************************************************)
(* A command that nobody ran beside: what the files are at each of its     *)
(* steps, in terms of what it found.                                       *)
(***************************************************************************)
SameState(f)  == state = f.state
SameMirror(f) == mirror = f.mirror
SameIndex(f)  == index = f.index

TracesWrite(at, c, f) ==
  /\ at = "check" => SameState(f) /\ SameMirror(f) /\ SameIndex(f)
  /\ at \in Writes => /\ c.before = f.state[c.item] /\ c.prev = f.mirror /\ c.idx = f.index
                      /\ SameIndex(f)
  /\ at \in {"write", "undoMirror", "undoIndex"} => SameState(f)
  /\ at \in Kept => state = [f.state EXCEPT ![c.item] = c.next]
  /\ at \in {"write", "validate", "mirror", "undoIndex"} => SameMirror(f)
  /\ at \in {"mirror", "verify"} => c.active = c.item
  /\ at \in {"verify", "index"} /\ c.active = c.item => mirror = c.next
TracesSelect(at, c, f) ==
  /\ at \in SelectSteps => /\ SameState(f) /\ f.index \in Indexes /\ c.item \in f.index.items
                           /\ c.active = f.index.active
  /\ at = "selIndex" => SameIndex(f) /\ c.idx = f.index
  /\ at \in SelectSteps \ {"selIndex"} => index = [f.index EXCEPT !.active = c.item]
  /\ at = "selUndoIndex" => c.idx = index
  /\ at \in {"selMirror", "selVerify"} => c.next = state[c.item]
  /\ at = "selVerify" => mirror = c.next
Holds(p)  == TracesWrite(pc[p], cmd[p], found[p]) /\ TracesSelect(pc[p], cmd[p], found[p])
Traces(p) == found[p] # None => Alone(p) /\ Holds(p)
FInv == TInv /\ \A p \in Procs : Traces(p)

LEMMA OnlyOwnFound ==
  ASSUME TInv, NEW p \in Procs, Step(p)
  PROVE  /\ pc[p] # "idle"
         /\ \A q \in Procs \ {p} : found'[q] = found[q]
         /\ found'[p] \in {None, found[p], [state |-> state, mirror |-> mirror, index |-> index]}
  <1>0. found \in [Procs -> FileTypes \union {None}]
    BY Parts DEF FoundTyped
  <1> USE DEF Found, End
  <1>1. CASE Bootstrap(p)
    BY <1>0, <1>1 DEF Bootstrap, Conflict, ArchivePrior, Boot, BootEmpty, BootState, BootIndex, BootMirror
  <1>2. CASE Persist(p)
    <2>1. CASE Read(p) \/ Check(p) \/ GivesUp(p) \/ WriteState(p) \/ Validate(p) \/ WriteMirror(p) \/ Verify(p)
      BY <1>0, <2>1 DEF Read, Check, GivesUp, Reads, WriteState, Validate, WriteMirror, Verify
    <2>2. CASE WriteIndex(p) \/ Refused(p) \/ MirrorConflict(p) \/ UndoState(p) \/ UndoMirror(p) \/ UndoIndex(p)
      BY <1>0, <2>2 DEF WriteIndex, Refused, MirrorConflict, UndoState, UndoMirror, UndoIndex
    <2>3. QED
      BY <1>2, <2>1, <2>2 DEF Persist
  <1>3. CASE Select(p)
    <2>1. CASE SelectRead(p) \/ SelectIndex(p) \/ SelectFetch(p) \/ SelectMirror(p) \/ SelectVerify(p)
      BY <1>0, <2>1 DEF SelectRead, SelectIndex, SelectFetch, SelectMirror, SelectVerify
    <2>2. CASE SelectFails(p) \/ SelectRefused(p) \/ SelectUndo(p) \/ SelectUndoIndex(p)
      BY <1>0, <2>2 DEF SelectFails, SelectRefused, SelectUndo, SelectUndoIndex
    <2>3. QED
      BY <1>3, <2>1, <2>2 DEF Select
  <1>4. CASE Die(p)
    BY <1>0, <1>4 DEF Die
  <1>5. QED
    BY <1>1, <1>2, <1>3, <1>4 DEF Step

(* A command whose process nobody ran beside has been alone since it read. *)
LEMMA OthersTrace ==
  ASSUME FInv, NEW p \in Procs, Step(p), NEW q \in Procs, q # p
  PROVE  found'[q] = None
  <1>1. found[q] # None => pc[p] = "idle"
    BY DEF FInv, Traces, Alone
  <1>2. QED
    BY <1>1, OnlyOwnFound DEF FInv

(* The command goes on, beside no other, from what it held to what it holds.*)
LEMMA GoesOnTracing ==
  ASSUME FInv, NEW p \in Procs, Step(p), found'[p] = found[p],
         found[p] # None /\ Alone(p) /\ Holds(p) => Holds(p)'
  PROVE  Traces(p)'
  <1>1. Alone(p)' <=> Alone(p)
    BY OnlyOwn DEF Alone, Alike, FInv
  <1>2. QED
    BY <1>1 DEF FInv, Traces

LEMMA BootstrapTraces ==
  ASSUME FInv, NEW p \in Procs, Bootstrap(p)
  PROVE  Traces(p)'
  <1> USE Parts DEF CommandsTyped, FoundTyped
  <1>1. CASE Conflict(p)
    BY <1>1 DEF Conflict, End, Traces, FInv
  <1>2. CASE ~Conflict(p)
    <2>1. found'[p] = found[p] /\ cmd' \in [Procs -> Command]
      BY <1>2, BootstrapTyped DEF Bootstrap, ArchivePrior, Boot, BootEmpty, BootState, BootIndex, BootMirror, FInv, TInv, TypeOK
    <2>2. pc'[p] \in BootSteps \union {"read"}
      BY <1>2 DEF Bootstrap, ArchivePrior, Boot, BootEmpty, BootState, BootIndex, BootMirror, Go, BootSteps, FInv
    <2>3. Holds(p)'
      BY <2>2 DEF Holds, TracesWrite, TracesSelect, Writes, Kept, SelectSteps, UndoSteps, BootSteps
    <2>4. QED
      BY <2>1, <2>3, GoesOnTracing DEF Step
  <1>3. QED BY <1>1, <1>2

(* The parts of what a command that writes holds, step by step.            *)
LEMMA PersistTraces ==
  ASSUME FInv, NEW p \in Procs, Persist(p)
  PROVE  Traces(p)'
  <1> DEFINE c == cmd[p]
             f == found[p]
  <1> USE DEF TracesWrite, TracesSelect, SameState, SameMirror, SameIndex
  <1>t. /\ pc \in [Procs -> Steps] /\ cmd \in [Procs -> Command] /\ LocalsFit(pc[p], c)
        /\ found \in [Procs -> FileTypes \union {None}] /\ FilesTyped
    BY Parts DEF FInv, CommandsTyped, FoundTyped, Fitting
  <1>s. Step(p)
    BY DEF Step
  <1>d. /\ Writes = {"write", "validate", "mirror", "verify", "index", "undoState", "undoMirror", "undoIndex"}
        /\ Kept = {"validate", "mirror", "verify", "index", "undoState"}
        /\ Writes \intersect SelectSteps = {} /\ "check" \notin SelectSteps
    BY DEF Writes, UndoSteps, Kept, SelectSteps
  <1>f. f # None => f.state \in [Items -> Docs \union {None, Half}]
    BY <1>t DEF FileTypes
  <1>e. found'[p] = None => Traces(p)'
    BY DEF Traces
  <1>w. pc[p] \in Writes => c.item \in Items
    BY <1>t DEF LocalsFit, Computed
  <1>1. CASE Read(p)
    <2>1. pc'[p] = "check" /\ state' = state /\ mirror' = mirror /\ index' = index
      BY <1>1, <1>t DEF Read, Go, files
    <2>2. found'[p] # None => /\ Alone(p)
                              /\ found'[p] = [state |-> state, mirror |-> mirror, index |-> index]
      BY <1>1, <1>t DEF Read, Found
    <2>3. found'[p] # None => Alone(p)'
      BY <1>s, <2>2, OnlyOwn DEF Alone, Alike, FInv
    <2>4. found'[p] # None => Holds(p)'
      BY <1>d, <2>1, <2>2 DEF Holds
    <2>5. QED
      BY <2>3, <2>4 DEF Traces
  <1>2. CASE Check(p)
    <2>1. /\ pc[p] = "check" /\ pc'[p] = "write" /\ found' = found
          /\ state' = state /\ mirror' = mirror /\ index' = index
      BY <1>2, <1>t DEF Check, Go, files
    <2>2. /\ cmd'[p].item = c.item /\ cmd'[p].before = state[c.item] /\ cmd'[p].prev = mirror
          /\ cmd'[p].idx = index /\ cmd'[p].active = c.active
      BY <1>2, <1>t DEF Check, Set, Command
    <2>3. Holds(p) => Holds(p)'
      BY <1>d, <2>1, <2>2 DEF Holds
    <2>4. QED
      BY <1>s, <2>1, <2>3, GoesOnTracing
  <1>3. CASE GivesUp(p) \/ WriteIndex(p) \/ UndoIndex(p)
    BY <1>3, <1>t, <1>e DEF GivesUp, WriteIndex, UndoIndex, End
  <1>4. CASE WriteState(p)
    <2>1. /\ pc[p] = "write" /\ pc'[p] = "validate" /\ found' = found /\ cmd' = cmd
          /\ mirror' = mirror /\ index' = index /\ state' = [state EXCEPT ![c.item] = c.next]
      BY <1>4, <1>t DEF WriteState, Go
    <2>2. Holds(p) => Holds(p)'
      BY <1>d, <2>1 DEF Holds
    <2>3. QED
      BY <1>s, <2>1, <2>2, GoesOnTracing
  <1>5. CASE Validate(p) \/ Refused(p) \/ MirrorConflict(p) \/ Verify(p)
    <2>1. /\ pc[p] \in {"validate", "verify"} /\ found' = found /\ cmd' = cmd
          /\ state' = state /\ mirror' = mirror /\ index' = index
          /\ \/ pc[p] = "validate" /\ pc'[p] = (IF c.active = c.item THEN "mirror" ELSE "index")
             \/ pc'[p] = "undoState"
             \/ pc[p] = "verify" /\ pc'[p] = "index"
      BY <1>5, <1>t DEF Validate, Refused, MirrorConflict, Verify, Go, Refreshes, files
    <2>2. Holds(p) => Holds(p)'
      BY <1>d, <2>1 DEF Holds
    <2>3. QED
      BY <1>s, <2>1, <2>2, GoesOnTracing
  <1>6. CASE WriteMirror(p)
    <2>1. /\ pc[p] = "mirror" /\ pc'[p] = "verify" /\ found' = found /\ cmd' = cmd
          /\ state' = state /\ mirror' = c.next /\ index' = index
      BY <1>6, <1>t DEF WriteMirror, Go
    <2>2. Holds(p) => Holds(p)'
      BY <1>d, <2>1 DEF Holds
    <2>3. QED
      BY <1>s, <2>1, <2>2, GoesOnTracing
  <1>7. CASE UndoState(p)
    <2>1. /\ pc[p] = "undoState" /\ pc'[p] = "undoMirror" /\ found' = found /\ cmd' = cmd
          /\ mirror' = mirror /\ index' = index /\ state' = [state EXCEPT ![c.item] = c.before]
          /\ c.item \in Items
      BY <1>7, <1>t, <1>d, <1>w DEF UndoState, Go
    <2>2. f # None /\ Holds(p) => state' = f.state
      <3>1. SUFFICES ASSUME f # None, Holds(p) PROVE state' = f.state
        OBVIOUS
      <3>2. state = [f.state EXCEPT ![c.item] = c.next] /\ c.before = f.state[c.item]
        BY <1>d, <2>1, <3>1 DEF Holds
      <3>3. QED
        BY <1>f, <2>1, <3>1, <3>2
    <2>3. f # None /\ Holds(p) => Holds(p)'
      BY <1>d, <2>1, <2>2 DEF Holds
    <2>4. QED
      BY <1>s, <2>1, <2>3, GoesOnTracing
  <1>8. CASE UndoMirror(p)
    <2>1. /\ pc[p] = "undoMirror" /\ pc'[p] = "undoIndex" /\ found' = found /\ cmd' = cmd
          /\ state' = state /\ mirror' = c.prev /\ index' = index
      BY <1>8, <1>t DEF UndoMirror, Go
    <2>2. Holds(p) => Holds(p)'
      BY <1>d, <2>1 DEF Holds
    <2>3. QED
      BY <1>s, <2>1, <2>2, GoesOnTracing
  <1>9. QED
    BY <1>1, <1>2, <1>3, <1>4, <1>5, <1>6, <1>7, <1>8 DEF Persist

LEMMA SelectTraces ==
  ASSUME FInv, NEW p \in Procs, Select(p)
  PROVE  Traces(p)'
  <1> DEFINE c == cmd[p]
             f == found[p]
  <1> USE DEF TracesWrite, TracesSelect, SameState, SameMirror, SameIndex
  <1>t. /\ pc \in [Procs -> Steps] /\ cmd \in [Procs -> Command] /\ LocalsFit(pc[p], c)
        /\ found \in [Procs -> FileTypes \union {None}] /\ FilesTyped
    BY Parts DEF FInv, CommandsTyped, FoundTyped, Fitting
  <1>s. Step(p)
    BY DEF Step
  <1>d. /\ Writes \intersect SelectSteps = {} /\ "check" \notin SelectSteps /\ Kept \subseteq Writes
        /\ {"write", "undoMirror", "undoIndex", "validate", "mirror", "verify", "index"} \subseteq Writes
        /\ SelectSteps = {"selIndex", "selRead", "selMirror", "selVerify", "selUndo", "selUndoIndex"}
    BY DEF Writes, UndoSteps, Kept, SelectSteps
  <1>e. found'[p] = None => Traces(p)'
    BY DEF Traces
  <1>n. ASSUME End(p) PROVE Traces(p)'
    BY <1>t, <1>e, <1>n DEF End
  <1>1. CASE SelectRead(p)
    <2>1. /\ pc'[p] = "selIndex" /\ state' = state /\ mirror' = mirror /\ index' = index
          /\ index \in Indexes /\ c.item \in index.items
          /\ cmd'[p].item = c.item /\ cmd'[p].active = index.active /\ cmd'[p].idx = index
      BY <1>1, <1>t DEF SelectRead, Go, Set, files, Command, Parses, FilesTyped
    <2>2. found'[p] # None => /\ Alone(p)
                              /\ found'[p] = [state |-> state, mirror |-> mirror, index |-> index]
      BY <1>1, <1>t DEF SelectRead, Found
    <2>3. found'[p] # None => Alone(p)'
      BY <1>s, <2>2, OnlyOwn DEF Alone, Alike, FInv
    <2>4. found'[p] # None => Holds(p)'
      BY <1>d, <2>1, <2>2 DEF Holds
    <2>5. QED
      BY <2>3, <2>4 DEF Traces
  <1>2. CASE SelectIndex(p)
    <2>1. /\ pc[p] = "selIndex" /\ pc'[p] = "selRead" /\ found' = found /\ cmd' = cmd
          /\ state' = state /\ index' = [c.idx EXCEPT !.active = c.item]
      BY <1>2, <1>t DEF SelectIndex, Go
    <2>2. Holds(p) => Holds(p)'
      BY <1>d, <2>1 DEF Holds
    <2>3. QED
      BY <1>s, <2>1, <2>2, GoesOnTracing
  <1>3. CASE SelectFetch(p)
    <2>1. /\ pc[p] = "selRead" /\ pc'[p] = "selMirror" /\ found' = found
          /\ state' = state /\ mirror' = mirror /\ index' = index
          /\ cmd'[p].item = c.item /\ cmd'[p].active = c.active /\ cmd'[p].next = state[c.item]
      BY <1>3, <1>t DEF SelectFetch, Go, Set, files, Command
    <2>2. Holds(p) => Holds(p)'
      BY <1>d, <2>1 DEF Holds
    <2>3. QED
      BY <1>s, <2>1, <2>2, GoesOnTracing
  <1>4. CASE SelectMirror(p)
    <2>1. /\ pc[p] = "selMirror" /\ pc'[p] = "selVerify" /\ found' = found /\ cmd' = cmd
          /\ state' = state /\ mirror' = c.next /\ index' = index
      BY <1>4, <1>t DEF SelectMirror, Go
    <2>2. Holds(p) => Holds(p)'
      BY <1>d, <2>1 DEF Holds
    <2>3. QED
      BY <1>s, <2>1, <2>2, GoesOnTracing
  <1>5. CASE SelectVerify(p) \/ SelectUndoIndex(p)
    BY <1>5, <1>n DEF SelectVerify, SelectUndoIndex
  <1>6. CASE SelectFails(p) \/ SelectRefused(p)
    <2>1. CASE End(p)
      BY <2>1, <1>n
    <2>2. CASE Go(p, "selUndo") /\ UNCHANGED <<cmd, found>>
      <3>1. /\ pc[p] \in {"selRead", "selVerify"} /\ pc'[p] = "selUndo" /\ found' = found /\ cmd' = cmd
            /\ state' = state /\ mirror' = mirror /\ index' = index
        BY <1>6, <2>2, <1>t DEF SelectFails, SelectRefused, Go, files
      <3>2. Holds(p) => Holds(p)'
        BY <1>d, <3>1 DEF Holds
      <3>3. QED
        BY <1>s, <3>1, <3>2, GoesOnTracing
    <2>3. QED
      BY <1>6, <2>1, <2>2 DEF SelectFails, SelectRefused
  <1>7. CASE SelectUndo(p)
    <2>1. CASE End(p)
      BY <2>1, <1>n
    <2>2. CASE Go(p, "selUndoIndex") /\ Set(p, [cmd[p] EXCEPT !.idx = index]) /\ UNCHANGED found
      <3>1. /\ pc[p] = "selUndo" /\ pc'[p] = "selUndoIndex" /\ found' = found
            /\ state' = state /\ mirror' = mirror /\ index' = index
            /\ cmd'[p].item = c.item /\ cmd'[p].active = c.active /\ cmd'[p].idx = index
        BY <1>7, <2>2, <1>t DEF SelectUndo, Go, Set, files, Command
      <3>2. Holds(p) => Holds(p)'
        BY <1>d, <3>1 DEF Holds
      <3>3. QED
        BY <1>s, <3>1, <3>2, GoesOnTracing
    <2>3. QED
      BY <1>7, <2>1, <2>2 DEF SelectUndo
  <1>8. QED
    BY <1>1, <1>2, <1>3, <1>4, <1>5, <1>6, <1>7 DEF Select

LEMMA StepTraces ==
  ASSUME FInv, [Next]_vars
  PROVE  FInv'
  <1>1. TInv'
    BY StepTyped DEF FInv
  <1>2. ASSUME NEW p \in Procs, BeginAny(p), NEW q \in Procs PROVE Traces(q)'
    BY <1>2 DEF BeginAny, Begin, Traces
  <1>3. ASSUME NEW p \in Procs, Step(p), NEW q \in Procs PROVE Traces(q)'
    <2>1. CASE q # p
      BY <1>3, <2>1, OthersTrace DEF Traces
    <2>2. CASE Die(p) /\ q = p
      BY <2>2, Parts DEF Die, End, Traces, FInv, FoundTyped
    <2>3. QED
      BY <1>3, <2>1, <2>2, BootstrapTraces, PersistTraces, SelectTraces DEF Step
  <1>4. CASE UNCHANGED vars
    BY <1>1, <1>4 DEF vars, FInv, Traces, Alone, Holds, TracesWrite, TracesSelect, SameState, SameMirror, SameIndex
  <1>5. QED
    BY <1>1, <1>2, <1>3, <1>4 DEF Next, Step, FInv

LEMMA InitTraces == Init => FInv
  BY InitTyped DEF Init, FInv, Traces

(* A process that goes idle and has not died has done so by a step of its  *)
(* own command.                                                            *)
LEMMA GoesIdle ==
  ASSUME FInv, Next, NEW p \in Procs, pc[p] # "idle", pc'[p] = "idle", deaths' = deaths
  PROVE  Bootstrap(p) \/ Persist(p) \/ Select(p)
  <1>1. PICK q \in Procs : BeginAny(q) \/ Step(q)
    BY DEF Next, Step
  <1>2. q = p
    BY <1>1, OnlyOwn DEF Alike, FInv
  <1>3. ~BeginAny(p)
    BY DEF BeginAny, Begin
  <1>4. ~Die(p)
    BY Parts DEF Die, FInv, BudgetTyped
  <1>5. QED
    BY <1>1, <1>2, <1>3, <1>4 DEF Step

LEMMA FailureStep ==
  ASSUME FInv, Next, NEW p \in Procs,
         pc[p] \in UndoSteps \union {"selUndo", "selUndoIndex"}, pc'[p] = "idle", deaths' = deaths, found[p] # None
  PROVE  LET f == found[p] IN
         \/ cmd[p].kind # "select" /\ <<state', mirror', index'>> = <<f.state, f.mirror, f.index>>
         \/ cmd[p].kind = "select" /\ state' = f.state
            /\ (index' = f.index \/ ~Parses(state[cmd[p].active]) \/ cmd[p].active \notin f.index.items)
  <1> DEFINE c == cmd[p]
             f == found[p]
  <1> USE DEF TracesWrite, TracesSelect, SameState, SameMirror, SameIndex
  <1>t. pc \in [Procs -> Steps] /\ LocalsFit(pc[p], c) /\ Holds(p)
    BY Parts DEF FInv, CommandsTyped, Fitting, Traces
  <1>1. UndoIndex(p) \/ SelectUndo(p) \/ SelectUndoIndex(p)
    <2>1. ~Bootstrap(p)
      BY <1>t DEF Bootstrap, Conflict, ArchivePrior, Boot, BootEmpty, BootState, BootIndex, BootMirror, UndoSteps
    <2>2. Persist(p) => UndoIndex(p)
      BY <1>t DEF Persist, Read, Check, GivesUp, Reads, WriteState, Validate, WriteMirror, Verify, WriteIndex,
                  Refused, MirrorConflict, UndoState, UndoMirror, Go, UndoSteps
    <2>3. Select(p) => SelectUndo(p) \/ SelectUndoIndex(p)
      BY DEF Select, SelectRead, SelectIndex, SelectFetch, SelectMirror, SelectVerify, SelectFails,
             SelectRefused, UndoSteps
    <2>4. QED
      BY <2>1, <2>2, <2>3, GoesIdle DEF UndoSteps
  <1>2. CASE UndoIndex(p)
    <2>1. pc[p] = "undoIndex" /\ state' = state /\ mirror' = mirror /\ index' = c.idx
      BY <1>2 DEF UndoIndex
    <2>2. pc[p] \in Writes /\ pc[p] \in Computed
      BY <2>1 DEF Computed, Writes, UndoSteps
    <2>3. c.kind # "select"
      BY <1>t, <2>2 DEF LocalsFit
    <2>4. QED
      BY <1>t, <2>1, <2>2, <2>3 DEF Holds
  <1>3. CASE SelectUndo(p)
    <2>1. /\ pc[p] = "selUndo" /\ state' = state /\ index' = index
          /\ ~(Parses(index) /\ c.active \in index.items /\ Parses(state[c.active]))
      BY <1>3, <1>t DEF SelectUndo, Go, files
    <2>2. c.kind = "select" /\ SameState(f) /\ f.index \in Indexes /\ index = [f.index EXCEPT !.active = c.item]
          /\ c.item \in Items
      BY <1>t, <2>1 DEF LocalsFit, SelectSteps, Holds
    <2>3. index \in Indexes /\ index.items = f.index.items
      BY <2>2 DEF Indexes
    <2>4. Parses(index)
      BY <2>3, Distinct DEF Parses
    <2>5. QED
      BY <2>1, <2>2, <2>3, <2>4
  <1>4. CASE SelectUndoIndex(p)
    <2>1. pc[p] = "selUndoIndex" /\ state' = state /\ index' = [c.idx EXCEPT !.active = c.active]
      BY <1>4 DEF SelectUndoIndex
    <2>2. /\ c.kind = "select" /\ SameState(f) /\ f.index \in Indexes /\ c.active = f.index.active
          /\ c.idx = [f.index EXCEPT !.active = c.item]
      BY <1>t, <2>1 DEF LocalsFit, SelectSteps, Holds
    <2>3. index' = f.index
      BY <2>1, <2>2 DEF Indexes
    <2>4. QED
      BY <2>1, <2>2, <2>3
  <1>5. QED
    BY <1>1, <1>2, <1>3, <1>4

LEMMA SuccessStep ==
  ASSUME FInv, Next, NEW p \in Procs,
         pc[p] \in {"index", "selVerify"}, pc'[p] = "idle", deaths' = deaths, refused' = refused,
         found[p] # None, pc[p] = "index" => Refreshes(p)
  PROVE  index'.active = cmd[p].item /\ cmd[p].item \in index'.items /\ mirror' = state'[cmd[p].item]
  <1> DEFINE c == cmd[p]
             f == found[p]
  <1> USE DEF TracesWrite, TracesSelect, SameState, SameMirror, SameIndex
  <1>t. /\ pc \in [Procs -> Steps] /\ LocalsFit(pc[p], c) /\ Holds(p) /\ Alone(p)
        /\ FilesTyped /\ found[p] \in FileTypes
    BY Parts DEF FInv, CommandsTyped, FoundTyped, Fitting, Traces
  <1>1. WriteIndex(p) \/ SelectVerify(p) \/ SelectFails(p)
    <2>1. ~Bootstrap(p)
      BY DEF Bootstrap, Conflict, ArchivePrior, Boot, BootEmpty, BootState, BootIndex, BootMirror
    <2>2. Persist(p) => WriteIndex(p)
      BY DEF Persist, Read, Check, GivesUp, Reads, WriteState, Validate, WriteMirror, Verify,
             Refused, MirrorConflict, UndoState, UndoMirror, UndoIndex
    <2>3. Select(p) => SelectVerify(p) \/ SelectFails(p)
      <3>1. ~SelectRefused(p)
        BY Parts DEF SelectRefused, FInv, BudgetTyped
      <3>2. QED
        BY <3>1 DEF Select, SelectRead, SelectIndex, SelectFetch, SelectMirror, SelectUndo, SelectUndoIndex
    <2>4. QED
      BY <2>1, <2>2, <2>3, GoesIdle
  <1>2. CASE WriteIndex(p)
    <2>1. /\ pc[p] = "index" /\ state' = state /\ mirror' = mirror /\ c.active = c.item
          /\ index' = [active |-> c.active, items |-> c.idx.items \union {c.item}]
      BY <1>2 DEF WriteIndex, Upsert, Refreshes
    <2>2. /\ mirror = c.next /\ state = [f.state EXCEPT ![c.item] = c.next] /\ c.item \in Items
      BY <1>t, <2>1 DEF Holds, Kept, LocalsFit, Computed, Writes
    <2>3. state[c.item] = c.next
      BY <1>t, <2>2 DEF FileTypes
    <2>4. QED
      BY <2>1, <2>2, <2>3
  <1>3. CASE SelectVerify(p) \/ SelectFails(p)
    <2>1. pc[p] = "selVerify" /\ state' = state /\ mirror' = mirror /\ index' = index
      BY <1>3, <1>t DEF SelectVerify, SelectFails, files
    <2>2. /\ f.index \in Indexes /\ c.item \in f.index.items /\ index = [f.index EXCEPT !.active = c.item]
          /\ c.next = state[c.item] /\ mirror = c.next
      BY <1>t, <2>1 DEF Holds, SelectSteps
    <2>3. index.active = c.item /\ index.items = f.index.items
      BY <2>2 DEF Indexes
    <2>4. QED
      BY <2>1, <2>2, <2>3
  <1>4. QED
    BY <1>1, <1>2, <1>3

LEMMA StoreTraced == Spec => []FInv
  BY InitTraces, StepTraces, PTL DEF Spec

(* A command that fails, and beside which no other ran, leaves every file  *)
(* as it found it: at each step of the rollback what is on the disk is the *)
(* files it read with exactly its own writes in them (FInv).               *)
THEOREM FailuresLeaveNoTrace == Spec => FailureLeavesNoTrace
  <1>1. FInv /\ [Next]_vars =>
          [\A p \in Procs :
             (pc[p] \in UndoSteps \union {"selUndo", "selUndoIndex"} /\ pc'[p] = "idle" /\ deaths' = deaths
              /\ found[p] # None)
             => LET f == found[p] IN
                \/ cmd[p].kind # "select" /\ <<state', mirror', index'>> = <<f.state, f.mirror, f.index>>
                \/ cmd[p].kind = "select" /\ state' = f.state
                   /\ (index' = f.index \/ ~Parses(state[cmd[p].active]) \/ cmd[p].active \notin f.index.items)]_vars
    BY FailureStep
  <1>2. QED
    BY <1>1, StoreTraced, PTL DEF Spec, FailureLeavesNoTrace

(* A command on the active item that succeeds, and beside which no other   *)
(* ran, brings the three files together, whatever it found in them.        *)
THEOREM SuccessesSettle == Spec => SuccessSettles
  <1>1. FInv /\ [Next]_vars =>
          [\A p \in Procs :
             (pc[p] \in {"index", "selVerify"} /\ pc'[p] = "idle" /\ deaths' = deaths /\ refused' = refused
              /\ found[p] # None /\ (pc[p] = "index" => Refreshes(p)))
             => /\ index'.active = cmd[p].item /\ cmd[p].item \in index'.items
                /\ mirror' = state'[cmd[p].item]]_vars
    BY SuccessStep
  <1>2. QED
    BY <1>1, StoreTraced, PTL DEF Spec, SuccessSettles
=============================================================================
