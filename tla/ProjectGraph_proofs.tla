------------------------- MODULE ProjectGraph_proofs -------------------------
(* Proofs about ProjectGraph, for any files, processes and number of calls:   *)
(* its type invariant, that the rows of the tables resolve, that imports are  *)
(* kept, and that what is passed over as unchanged is current.                *)
EXTENDS ProjectGraph, TLAPS

----------------------------------------------------------------------------
(* A call that has begun has a file, and one that has read it has what it     *)
(* read.                                                                      *)
Holding == {"cache", "stat", "commit", "refs", "insertRefs", "calls", "insertCalls"}
JobsHold ==
    \A j \in Jobs : /\ job[j].at # "idle" => job[j].file \in Files
                    /\ job[j].at \in Holding => job[j].doc \in Doc
TInv == TypeOK /\ JobsHold

LEMMA InitTyped == Init => TInv
  <1> SUFFICES ASSUME Init PROVE TInv
    OBVIOUS
  <1> USE GraphAssumption DEF Init
  <1>1. disk \in [Files -> Doc \union {None}]
    <2>1. \A f \in Files : disk[f] \in Doc \union {None}
      BY DEF Doc
    <2>2. QED
      BY <2>1
  <1>2. nodes \in [Files -> Node \union {None}] /\ symbol \in [Files -> Nat]
    OBVIOUS
  <1>3. edges \subseteq Edge /\ refs \subseteq Ref /\ calls \subseteq Call
    OBVIOUS
  <1>4. cache \in [Procs -> [Files -> [mtime : Nat \ {0}, doc : Doc] \union {None}]]
    OBVIOUS
  <1>5. job \in [Jobs -> Job]
    BY DEF Job, Idle, Steps
  <1>6. home \in [Jobs -> Procs] /\ raced \in [Files -> BOOLEAN]
    OBVIOUS
  <1>7. ids \in Nat /\ begun \in 0 .. MaxCalls /\ edits \in 0 .. MaxEdits /\ crashes \in 0 .. MaxCrashes
    OBVIOUS
  <1>8. JobsHold
    BY DEF JobsHold, Idle, Holding
  <1>9. QED
    BY <1>1, <1>2, <1>3, <1>4, <1>5, <1>6, <1>7, <1>8 DEF TInv, TypeOK

(* What a call leaves of the tables when it deletes a node is made of rows.   *)
LEMMA DeleteTyped ==
  ASSUME TypeOK, NEW f \in Files, deleteNode(f)
  PROVE  /\ nodes' \in [Files -> Node \union {None}]
         /\ edges' \subseteq Edge /\ refs' \subseteq Ref /\ calls' \subseteq Call
         /\ symbol' \in [Files -> Nat]
  BY DEF TypeOK, deleteNode, RefsWithout, CallsWithout

(* So is what it leaves when it writes one.                                   *)
LEMMA WriteTyped ==
  ASSUME TypeOK, NEW f \in Files, NEW doc \in Doc, NEW mtime \in Nat, WriteGraph(f, doc, mtime)
  PROVE  /\ nodes' \in [Files -> Node \union {None}]
         /\ edges' \subseteq Edge /\ refs' \subseteq Ref /\ calls' \subseteq Call
         /\ symbol' \in [Files -> Nat] /\ ids' \in Nat
  <1> USE DEF TypeOK, WriteGraph, NewId
  <1>1. \A g \in Files : nodes[g] # None => nodes[g].id \in Nat \ {0}
    BY DEF Node
  <1>2. nodes' \in [Files -> Node \union {None}]
    BY <1>1 DEF Node
  <1>3. edges' \subseteq Edge
    BY DEF replaceEdgesFrom, Edge, Doc, Content
  <1>4. refs' \subseteq Ref /\ calls' \subseteq Call
    BY DEF RefsWithout, CallsWithout
  <1>5. symbol' \in [Files -> Nat] /\ ids' \in Nat
    OBVIOUS
  <1>6. QED
    BY <1>2, <1>3, <1>4, <1>5

(* The steps of a call keep what it holds.                                    *)
LEMMA CallTyped ==
  ASSUME TInv, NEW j \in Jobs, indexFile(j)
  PROVE  TInv'
  <1> USE DEF TInv
  <1>0. /\ job \in [Jobs -> Job] /\ home \in [Jobs -> Procs] /\ disk \in [Files -> Doc \union {None}]
        /\ Idle \in Job /\ Idle.at = "idle"
    BY DEF TypeOK, Idle, Job, Steps
  <1>a. ASSUME NEW k \in Job, job' = [job EXCEPT ![j] = k],
               k.at # "idle" => k.file \in Files, k.at \in Holding => k.doc \in Doc
        PROVE  job' \in [Jobs -> Job] /\ JobsHold'
    BY <1>0, <1>a DEF JobsHold
  <1>b. ASSUME Ends(j)
        PROVE  job' \in [Jobs -> Job] /\ JobsHold'
    BY <1>0, <1>a, <1>b DEF Ends, Holding
  <1>c. ASSUME NEW s \in Steps, Goes(j, s), job[j].at # "idle", s \in Holding => job[j].doc \in Doc
        PROVE  job' \in [Jobs -> Job] /\ JobsHold'
    <2> DEFINE k == [job[j] EXCEPT !.at = s]
    <2>1. k \in Job /\ k.at = s /\ k.file = job[j].file /\ k.doc = job[j].doc
      BY <1>0, <1>c DEF Job
    <2>2. job' = [job EXCEPT ![j] = k]
      BY <1>c DEF Goes
    <2>3. job[j].file \in Files
      BY <1>c DEF JobsHold
    <2>4. QED
      BY <2>1, <2>2, <2>3, <1>a, <1>c
  <1>1. ASSUME NEW f \in Files, Start(j, f) PROVE TInv'
    <2> DEFINE k == [Idle EXCEPT !.file = f, !.at = IF nodes[f] # None /\ disk[f] = None THEN "gone" ELSE "parse"]
    <2>1. k \in Job /\ k.file \in Files /\ k.at \notin Holding
      BY DEF Idle, Job, Steps, Holding
    <2>2. job' \in [Jobs -> Job] /\ JobsHold'
      BY <2>1, <1>a, <1>1 DEF Start
    <2>3. begun' \in 0 .. MaxCalls
      BY <1>1, GraphAssumption DEF Start, TypeOK
    <2>4. QED
      BY <2>2, <2>3, <1>1 DEF Start, TypeOK, tables
  <1>2. ASSUME DeleteGone(j) PROVE TInv'
    <2>1. job[j].file \in Files
      BY <1>2 DEF DeleteGone, Runs, JobsHold
    <2>2. job' \in [Jobs -> Job] /\ JobsHold'
      BY <1>b, <1>2 DEF DeleteGone
    <2>3. QED
      BY <2>1, <2>2, <1>2, DeleteTyped DEF DeleteGone, TypeOK, budget
  <1>3. ASSUME ReadCached(j) PROVE TInv'
    <2>1. job[j].file \in Files
      BY <1>3 DEF ReadCached, Runs, JobsHold
    <2>2. cache[home[j]][job[j].file] \in [mtime : Nat \ {0}, doc : Doc]
      BY <1>0, <1>3, <2>1 DEF ReadCached, Cached, TypeOK
    <2> DEFINE k == [job[j] EXCEPT !.at = "stat", !.doc = cache[home[j]][job[j].file].doc]
    <2>3. k \in Job /\ k.file = job[j].file /\ k.doc \in Doc
      BY <1>0, <2>2 DEF Job, Steps
    <2>4. job' = [job EXCEPT ![j] = k]
      BY <1>3 DEF ReadCached
    <2>5. job' \in [Jobs -> Job] /\ JobsHold'
      BY <2>1, <2>3, <2>4, <1>a
    <2>6. QED
      BY <2>5, <1>3 DEF ReadCached, TypeOK, tables, budget
  <1>4. ASSUME ReadSource(j) PROVE TInv'
    <2>1. job[j].file \in Files
      BY <1>4 DEF ReadSource, Runs, JobsHold
    <2>2. disk[job[j].file] \in Doc
      BY <1>0, <1>4, <2>1 DEF ReadSource
    <2> DEFINE k == [job[j] EXCEPT !.at = "cache", !.doc = disk[job[j].file]]
    <2>3. k \in Job /\ k.file = job[j].file /\ k.doc \in Doc
      BY <1>0, <2>2 DEF Job, Steps
    <2>4. job' = [job EXCEPT ![j] = k]
      BY <1>4 DEF ReadSource
    <2>5. job' \in [Jobs -> Job] /\ JobsHold'
      BY <2>1, <2>3, <2>4, <1>a
    <2>6. QED
      BY <2>5, <1>4 DEF ReadSource, TypeOK, tables, budget
  <1>5. ASSUME ReadFails(j) PROVE TInv'
    <2>1. job' \in [Jobs -> Job] /\ JobsHold'
      BY <1>b, <1>5 DEF ReadFails
    <2>2. cache' \in [Procs -> [Files -> [mtime : Nat \ {0}, doc : Doc] \union {None}]]
      <3> DEFINE E == [mtime : Nat \ {0}, doc : Doc] \union {None}
      <3> HIDE DEF E
      <3>1. cache \in [Procs -> [Files -> E]]
        BY DEF TypeOK, E
      <3>2. cache' \in {cache, [cache EXCEPT ![home[j]][job[j].file] = None]}
        BY <1>5 DEF ReadFails
      <3>3. None \in E
        BY DEF E
      <3>4. QED
        <4>1. cache' \in [Procs -> [Files -> E]]
          BY <3>1, <3>2, <3>3
        <4>2. QED
          BY <4>1 DEF E
    <2>3. QED
      BY <2>1, <2>2, <1>5 DEF ReadFails, TypeOK, tables, budget
  <1>6. ASSUME FillCache(j) PROVE TInv'
    <2>1. job[j].file \in Files /\ job[j].doc \in Doc /\ job[j].at = "cache"
      BY <1>6 DEF FillCache, Runs, JobsHold, Holding
    <2>2. job' \in [Jobs -> Job] /\ JobsHold'
      <3>1. CASE disk[job[j].file] = None
        BY <3>1, <1>b, <1>6 DEF FillCache
      <3>2. CASE disk[job[j].file] # None
        <4>1. Goes(j, "stat")
          BY <3>2, <1>6 DEF FillCache
        <4>2. QED
          BY <4>1, <2>1, <1>c DEF Steps
      <3>3. QED
        BY <3>1, <3>2
    <2>3. cache' \in [Procs -> [Files -> [mtime : Nat \ {0}, doc : Doc] \union {None}]]
      <3>1. CASE disk[job[j].file] = None
        BY <3>1, <1>6 DEF FillCache, TypeOK
      <3>2. CASE disk[job[j].file] # None
        <4> DEFINE e == [mtime |-> disk[job[j].file].mtime, doc |-> job[j].doc]
        <4>1. e \in [mtime : Nat \ {0}, doc : Doc]
          BY <1>0, <2>1, <3>2 DEF Doc
        <4>2. cache' = [cache EXCEPT ![home[j]][job[j].file] = e]
          BY <3>2, <1>6 DEF FillCache
        <4>3. QED
          BY <4>1, <4>2 DEF TypeOK
      <3>3. QED
        BY <3>1, <3>2
    <2>4. QED
      BY <2>2, <2>3, <1>6 DEF FillCache, TypeOK, tables, budget
  <1>7. ASSUME Stat(j) PROVE TInv'
    <2>1. job[j].file \in Files /\ job[j].doc \in Doc
      BY <1>7 DEF Stat, Runs, JobsHold, Holding
    <2> DEFINE m == IF disk[job[j].file] = None THEN 0 ELSE disk[job[j].file].mtime
               k == [job[j] EXCEPT !.at = "commit", !.mtime = m]
    <2>2. m \in Nat
      BY <1>0, <2>1 DEF Doc
    <2> HIDE DEF m
    <2>3. k \in Job /\ k.file = job[j].file /\ k.doc = job[j].doc
      BY <1>0, <2>2 DEF Job, Steps
    <2>4. job' = [job EXCEPT ![j] = k]
      BY <1>7 DEF Stat, m
    <2>5. job' \in [Jobs -> Job] /\ JobsHold'
      BY <2>1, <2>3, <2>4, <1>a
    <2>6. QED
      BY <2>5, <1>7 DEF Stat, TypeOK, tables, budget
  <1>8. ASSUME Commit(j) PROVE TInv'
    <2>1. job[j].file \in Files /\ job[j].doc \in Doc /\ job[j].mtime \in Nat /\ job[j].at = "commit"
      BY <1>0, <1>8 DEF Commit, Runs, JobsHold, Holding, Job
    <2>2. job' \in [Jobs -> Job] /\ JobsHold'
      BY <2>1, <1>c, <1>8 DEF Commit, Steps
    <2>3. WriteGraph(job[j].file, job[j].doc, job[j].mtime)
      BY <1>8 DEF Commit
    <2>4. /\ nodes' \in [Files -> Node \union {None}]
          /\ edges' \subseteq Edge /\ refs' \subseteq Ref /\ calls' \subseteq Call
          /\ symbol' \in [Files -> Nat] /\ ids' \in Nat
      BY <2>1, <2>3, WriteTyped
    <2>5. QED
      BY <2>2, <2>4, <1>8 DEF Commit, TypeOK, budget
  <1>9. ASSUME Track(j) PROVE TInv'
    <2>1. job[j].file \in Files /\ job[j].doc \in Doc
      BY <1>9 DEF Track, Runs, JobsHold, Holding
    <2>2. job' \in [Jobs -> Job] /\ JobsHold'
      <3>1. CASE nodes[job[j].file] = None
        BY <3>1, <1>b, <1>9 DEF Track
      <3>2. CASE nodes[job[j].file] # None
        <4> DEFINE R == {[sym |-> symbol[g], from |-> job[j].file, to |-> g] : g \in {h \in job[j].doc.content.imports : symbol[h] # 0}}
                   k == [job[j] EXCEPT !.at = "insertRefs", !.id = nodes[job[j].file].id, !.caller = symbol[job[j].file], !.refs = R]
        <4>1. R \subseteq Ref
          BY <2>1 DEF TypeOK, Ref, Doc, Content
        <4>2. nodes[job[j].file].id \in Nat /\ symbol[job[j].file] \in Nat
          BY <2>1, <3>2 DEF TypeOK, Node
        <4>3. job' = [job EXCEPT ![j] = k]
          BY <1>9, <3>2 DEF Track
        <4> HIDE DEF R
        <4>4. k \in Job /\ k.file = job[j].file /\ k.doc = job[j].doc
          BY <1>0, <4>1, <4>2 DEF Job, Steps
        <4>5. QED
          BY <2>1, <4>3, <4>4, <1>a
      <3>3. QED
        BY <3>1, <3>2
    <2>3. QED
      BY <2>2, <1>9 DEF Track, TypeOK, tables, budget
  <1>10. ASSUME replaceRefsForNode(j) PROVE TInv'
    <2>1. job[j].doc \in Doc /\ job[j].refs \subseteq Ref /\ job[j].at = "insertRefs"
      BY <1>0, <1>10 DEF replaceRefsForNode, Runs, JobsHold, Holding, Job
    <2>2. job' \in [Jobs -> Job] /\ JobsHold'
      BY <2>1, <1>c, <1>10 DEF replaceRefsForNode, Steps
    <2>3. refs' \subseteq Ref
      BY <2>1, <1>10 DEF replaceRefsForNode, TypeOK
    <2>4. QED
      BY <2>2, <2>3, <1>10 DEF replaceRefsForNode, TypeOK, budget
  <1>11. ASSUME BuildCalls(j) PROVE TInv'
    <2>1. job[j].file \in Files /\ job[j].doc \in Doc /\ job[j].caller \in Nat
      BY <1>0, <1>11 DEF BuildCalls, Runs, JobsHold, Holding, Job
    <2> DEFINE C == {[caller |-> job[j].caller, from |-> job[j].file, to |-> g, node |-> nodes[g].id, callee |-> symbol[g]] :
                       g \in {h \in job[j].doc.content.imports : job[j].caller # 0 /\ nodes[h] # None}}
               k == [job[j] EXCEPT !.at = "insertCalls", !.calls = C]
    <2>2. \A g \in Files : nodes[g] # None => nodes[g].id \in Nat \ {0}
      BY DEF TypeOK, Node
    <2>3. C \subseteq Call
      BY <2>1, <2>2 DEF TypeOK, Call, Doc, Content
    <2>4. job' = [job EXCEPT ![j] = k]
      BY <1>11 DEF BuildCalls
    <2> HIDE DEF C
    <2>5. k \in Job /\ k.file = job[j].file /\ k.doc = job[j].doc
      BY <1>0, <2>3 DEF Job, Steps
    <2>6. job' \in [Jobs -> Job] /\ JobsHold'
      BY <2>1, <2>4, <2>5, <1>a
    <2>7. QED
      BY <2>6, <1>11 DEF BuildCalls, TypeOK, tables, budget
  <1>12. ASSUME replaceCallsForNode(j) PROVE TInv'
    <2>1. job[j].calls \subseteq Call
      BY <1>0 DEF Job
    <2>2. job' \in [Jobs -> Job] /\ JobsHold'
      BY <1>b, <1>12 DEF replaceCallsForNode
    <2>3. calls' \subseteq Call
      BY <2>1, <1>12 DEF replaceCallsForNode, TypeOK
    <2>4. QED
      BY <2>2, <2>3, <1>12 DEF replaceCallsForNode, TypeOK, budget
  <1>13. ASSUME TrackingFails(j) PROVE TInv'
    <2>1. job' \in [Jobs -> Job] /\ JobsHold'
      BY <1>b, <1>13 DEF TrackingFails
    <2>2. QED
      BY <2>1, <1>13 DEF TrackingFails, TypeOK, tables, budget
  <1>14. QED
    BY <1>1, <1>2, <1>3, <1>4, <1>5, <1>6, <1>7, <1>8, <1>9, <1>10, <1>11, <1>12, <1>13 DEF indexFile

(* So do edits of the files and ends of the processes.                        *)
LEMMA StepTyped == TInv /\ [Next]_vars => TInv'
  <1> SUFFICES ASSUME TInv, [Next]_vars PROVE TInv'
    OBVIOUS
  <1> USE DEF TInv
  <1>1. ASSUME NEW j \in Jobs, indexFile(j) PROVE TInv'
    BY <1>1, CallTyped
  <1>2. ASSUME NEW f \in Files, Edit(f) PROVE TInv'
    <2>1. disk' \in [Files -> Doc \union {None}]
      <3>1. ASSUME NEW c \in Contents[f] PROVE [mtime |-> edits + 2, content |-> c] \in Doc
        BY GraphAssumption DEF TypeOK, Doc
      <3>2. QED
        BY <1>2, <3>1 DEF Edit, TypeOK
    <2>2. raced' \in [Files -> BOOLEAN]
      BY <1>2 DEF Edit, TypeOK, InWindow
    <2>3. edits' \in 0 .. MaxEdits
      BY <1>2, GraphAssumption DEF Edit, TypeOK
    <2>4. QED
      BY <2>1, <2>2, <2>3, <1>2 DEF Edit, TypeOK, JobsHold, tables
  <1>3. ASSUME NEW p \in Procs, Restart(p) PROVE TInv'
    <2>1. job' \in [Jobs -> Job] /\ JobsHold'
      <3>1. Idle \in Job /\ Idle.at = "idle"
        BY DEF Idle, Job, Steps
      <3>2. \A j \in Jobs : job'[j] \in {job[j], Idle}
        BY <1>3 DEF Restart
      <3>3. job' \in [Jobs -> Job]
        BY <3>1, <1>3 DEF Restart, TypeOK
      <3>4. QED
        BY <3>1, <3>2, <3>3 DEF JobsHold, Holding
    <2>2. cache' \in [Procs -> [Files -> [mtime : Nat \ {0}, doc : Doc] \union {None}]]
      BY <1>3 DEF Restart, TypeOK
    <2>3. crashes' \in 0 .. MaxCrashes
      BY <1>3, GraphAssumption DEF Restart, TypeOK
    <2>4. QED
      BY <2>1, <2>2, <2>3, <1>3 DEF Restart, TypeOK, tables
  <1>4. ASSUME UNCHANGED vars PROVE TInv'
    BY <1>4 DEF vars, TypeOK, JobsHold
  <1>5. QED
    BY <1>1, <1>2, <1>3, <1>4 DEF Next

(* TypeOK, in any instance: the rows of the tables, the caches and the locals *)
(* of the calls are what the schema of project-graph-db.js says.              *)
THEOREM GraphTyped == Spec => []TypeOK
  <1>1. TInv => TypeOK
    BY DEF TInv
  <1>2. QED
    BY <1>1, InitTyped, StepTyped, PTL DEF Spec

----------------------------------------------------------------------------
(* A symbol belongs to one file for good: ids are not used again, and what a  *)
(* call has looked up names what it named then, or nothing any more.          *)
Owns(s, f) == s <= ids /\ \A g \in Files : s # 0 /\ symbol[g] = s => g = f
HoldsSymbols(held) ==
    /\ Owns(held.caller, held.file)
    /\ \A r \in held.refs : r.from = held.file /\ Owns(r.sym, r.to)
    /\ \A c \in held.calls : c.from = held.file /\ Owns(c.caller, c.from) /\ Owns(c.callee, c.to)
SymbolsOwned ==
    /\ \A f \in Files : Owns(symbol[f], f)
    /\ \A j \in Jobs : HoldsSymbols(job[j])

(* A step takes symbols away or makes a new one, it moves none.               *)
SymbolsMove ==
    /\ ids' \in Nat /\ ids' >= ids
    /\ \/ UNCHANGED symbol
       \/ \E f \in Files : /\ \A g \in Files \ {f} : symbol'[g] = symbol[g]
                           /\ symbol'[f] = 0 \/ symbol'[f] \in (ids + 1) .. ids'

LEMMA OwnsKept ==
  ASSUME TypeOK, SymbolsMove, NEW s \in Nat, NEW f, Owns(s, f)
  PROVE  s <= ids' /\ \A g \in Files : s # 0 /\ symbol'[g] = s => g = f
  BY DEF Owns, SymbolsMove, TypeOK

LEMMA CallsMoveNoSymbols ==
  ASSUME TInv, NEW j \in Jobs, indexFile(j)
  PROVE  SymbolsMove
  <1> USE DEF TInv
  <1>0. ids \in Nat /\ symbol \in [Files -> Nat]
    BY DEF TypeOK
  <1>1. CASE DeleteGone(j)
    <2>1. job[j].file \in Files
      BY <1>1 DEF DeleteGone, Runs, JobsHold
    <2>2. QED
      BY <1>0, <1>1, <2>1 DEF DeleteGone, deleteNode, SymbolsMove
  <1>2. CASE Commit(j)
    <2>1. job[j].file \in Files
      BY <1>2 DEF Commit, Runs, JobsHold
    <2>2. QED
      BY <1>0, <1>2, <2>1 DEF Commit, WriteGraph, NewId, SymbolsMove
  <1>3. CASE UNCHANGED <<symbol, ids>>
    BY <1>0, <1>3 DEF SymbolsMove
  <1>4. ASSUME ~DeleteGone(j), ~Commit(j) PROVE UNCHANGED <<symbol, ids>>
    BY <1>4 DEF indexFile, Start, ReadCached, ReadSource, ReadFails, FillCache, Stat, Track,
       replaceRefsForNode, BuildCalls, replaceCallsForNode, TrackingFails, tables
  <1>5. QED
    BY <1>1, <1>2, <1>3, <1>4

LEMMA SymbolsStay == TInv /\ [Next]_vars => SymbolsMove
  <1> SUFFICES ASSUME TInv, [Next]_vars PROVE SymbolsMove
    OBVIOUS
  <1>1. ASSUME NEW j \in Jobs, indexFile(j) PROVE SymbolsMove
    BY <1>1, CallsMoveNoSymbols
  <1>2. CASE UNCHANGED <<symbol, ids>>
    BY <1>2 DEF SymbolsMove, TInv, TypeOK
  <1>3. ASSUME NEW f \in Files, Edit(f) PROVE UNCHANGED <<symbol, ids>>
    BY <1>3 DEF Edit, tables
  <1>4. ASSUME NEW p \in Procs, Restart(p) PROVE UNCHANGED <<symbol, ids>>
    BY <1>4 DEF Restart, tables
  <1>5. ASSUME UNCHANGED vars PROVE UNCHANGED <<symbol, ids>>
    BY <1>5 DEF vars
  <1>6. QED
    BY <1>1, <1>2, <1>3, <1>4, <1>5 DEF Next

(* What a call holds of the tables is what it held, or nothing, or what it    *)
(* has just looked up.                                                        *)
LEMMA LookedUp ==
  ASSUME TInv, SymbolsOwned, NEW j \in Jobs, indexFile(j)
  PROVE  \A k \in Jobs : HoldsSymbols(job'[k])
  <1> USE DEF TInv
  <1>1. job \in [Jobs -> Job] /\ \A k \in Jobs : HoldsSymbols(job[k])
    BY DEF TypeOK, SymbolsOwned
  <1>2. HoldsSymbols(Idle) /\ HoldsSymbols([Idle EXCEPT !.at = "gone"])
    BY DEF HoldsSymbols, Owns, Idle, TypeOK
  <1>3. SUFFICES \E now : job' = [job EXCEPT ![j] = now] /\ HoldsSymbols(now)
    BY <1>1, <1>3
  <1>4. CASE Ends(j)
    BY <1>2, <1>4 DEF Ends
  <1>5. ASSUME NEW s, Goes(j, s) PROVE \E now : job' = [job EXCEPT ![j] = now] /\ HoldsSymbols(now)
    <2> DEFINE now == [job[j] EXCEPT !.at = s]
    <2>1. job[j] \in Job
      BY <1>1
    <2>2. now.caller = job[j].caller /\ now.file = job[j].file /\ now.refs = job[j].refs /\ now.calls = job[j].calls
      BY <2>1 DEF Job
    <2>3. HoldsSymbols(now)
      BY <1>1, <2>2 DEF HoldsSymbols
    <2>4. QED
      BY <2>3, <1>5 DEF Goes
  <1>6. ASSUME NEW f \in Files, Start(j, f) PROVE \E now : job' = [job EXCEPT ![j] = now] /\ HoldsSymbols(now)
    <2> DEFINE now == [Idle EXCEPT !.file = f, !.at = IF nodes[f] # None /\ disk[f] = None THEN "gone" ELSE "parse"]
    <2>1. now.caller = 0 /\ now.refs = {} /\ now.calls = {}
      BY DEF Idle
    <2>2. HoldsSymbols(now)
      BY <2>1 DEF HoldsSymbols, Owns, TypeOK
    <2>3. QED
      BY <2>2, <1>6 DEF Start
  <1>7. CASE ReadCached(j)
    <2> DEFINE now == [job[j] EXCEPT !.at = "stat", !.doc = cache[home[j]][job[j].file].doc]
    <2>1. job[j] \in Job
      BY <1>1
    <2>2. now.caller = job[j].caller /\ now.file = job[j].file /\ now.refs = job[j].refs /\ now.calls = job[j].calls
      BY <2>1 DEF Job
    <2>3. HoldsSymbols(now)
      BY <1>1, <2>2 DEF HoldsSymbols
    <2>4. QED
      BY <2>3, <1>7 DEF ReadCached
  <1>8. CASE ReadSource(j)
    <2> DEFINE now == [job[j] EXCEPT !.at = "cache", !.doc = disk[job[j].file]]
    <2>1. job[j] \in Job
      BY <1>1
    <2>2. now.caller = job[j].caller /\ now.file = job[j].file /\ now.refs = job[j].refs /\ now.calls = job[j].calls
      BY <2>1 DEF Job
    <2>3. HoldsSymbols(now)
      BY <1>1, <2>2 DEF HoldsSymbols
    <2>4. QED
      BY <2>3, <1>8 DEF ReadSource
  <1>9. CASE Stat(j)
    <2> DEFINE now == [job[j] EXCEPT !.at = "commit", !.mtime = IF disk[job[j].file] = None THEN 0 ELSE disk[job[j].file].mtime]
    <2>1. job[j] \in Job
      BY <1>1
    <2>2. now.caller = job[j].caller /\ now.file = job[j].file /\ now.refs = job[j].refs /\ now.calls = job[j].calls
      BY <2>1 DEF Job
    <2>3. HoldsSymbols(now)
      BY <1>1, <2>2 DEF HoldsSymbols
    <2>4. QED
      BY <2>3, <1>9 DEF Stat
  <1>10. CASE Track(j)
    <2>1. job[j].file \in Files /\ job[j].doc \in Doc /\ job[j] \in Job
      BY <1>1, <1>10 DEF Track, Runs, JobsHold, Holding
    <2>2. CASE nodes[job[j].file] = None
      BY <2>2, <1>4, <1>10 DEF Track
    <2>3. CASE nodes[job[j].file] # None
      <3> DEFINE R == {[sym |-> symbol[g], from |-> job[j].file, to |-> g] : g \in {h \in job[j].doc.content.imports : symbol[h] # 0}}
                 now == [job[j] EXCEPT !.at = "insertRefs", !.id = nodes[job[j].file].id, !.caller = symbol[job[j].file], !.refs = R]
      <3>1. job' = [job EXCEPT ![j] = now]
        BY <1>10, <2>3 DEF Track
      <3>2. job[j].doc.content.imports \subseteq Files
        BY <2>1 DEF Doc, Content
      <3>3. \A r \in R : r.from = job[j].file /\ Owns(r.sym, r.to)
        BY <3>2 DEF SymbolsOwned
      <3> HIDE DEF R
      <3>4. now.caller = symbol[job[j].file] /\ now.file = job[j].file /\ now.refs = R /\ now.calls = job[j].calls
        BY <2>1 DEF Job
      <3> HIDE DEF now
      <3>5. Owns(symbol[job[j].file], job[j].file)
        BY <2>1 DEF SymbolsOwned
      <3>6. \A c \in job[j].calls : c.from = job[j].file /\ Owns(c.caller, c.from) /\ Owns(c.callee, c.to)
        BY <1>1 DEF HoldsSymbols
      <3>7. HoldsSymbols(now)
        BY <3>3, <3>4, <3>5, <3>6 DEF HoldsSymbols
      <3>8. QED
        BY <3>1, <3>7
    <2>4. QED
      BY <2>2, <2>3
  <1>11. CASE BuildCalls(j)
    <2>1. job[j].file \in Files /\ job[j].doc \in Doc /\ job[j] \in Job
      BY <1>1, <1>11 DEF BuildCalls, Runs, JobsHold, Holding
    <2> DEFINE C == {[caller |-> job[j].caller, from |-> job[j].file, to |-> g, node |-> nodes[g].id, callee |-> symbol[g]] :
                       g \in {h \in job[j].doc.content.imports : job[j].caller # 0 /\ nodes[h] # None}}
               now == [job[j] EXCEPT !.at = "insertCalls", !.calls = C]
    <2>2. job' = [job EXCEPT ![j] = now]
      BY <1>11 DEF BuildCalls
    <2>3. job[j].doc.content.imports \subseteq Files
      BY <2>1 DEF Doc, Content
    <2>4. /\ Owns(job[j].caller, job[j].file)
          /\ \A r \in job[j].refs : r.from = job[j].file /\ Owns(r.sym, r.to)
      BY <1>1 DEF HoldsSymbols
    <2>5. \A c \in C : c.from = job[j].file /\ Owns(c.caller, c.from) /\ Owns(c.callee, c.to)
      BY <2>3, <2>4 DEF SymbolsOwned
    <2> HIDE DEF C
    <2>6. now.caller = job[j].caller /\ now.file = job[j].file /\ now.refs = job[j].refs /\ now.calls = C
      BY <2>1 DEF Job
    <2> HIDE DEF now
    <2>7. HoldsSymbols(now)
      BY <2>4, <2>5, <2>6 DEF HoldsSymbols
    <2>8. QED
      BY <2>2, <2>7
  <1>12. QED
    BY <1>4, <1>5, <1>6, <1>7, <1>8, <1>9, <1>10, <1>11
    DEF indexFile, DeleteGone, ReadFails, FillCache, Commit, replaceRefsForNode, replaceCallsForNode, TrackingFails

LEMMA StepOwned == TInv /\ SymbolsOwned /\ [Next]_vars => SymbolsOwned'
  <1> SUFFICES ASSUME TInv, SymbolsOwned, [Next]_vars PROVE SymbolsOwned'
    OBVIOUS
  <1>1. SymbolsMove /\ TInv'
    BY SymbolsStay, StepTyped
  <1>2. \A f \in Files : Owns(symbol[f], f)'
    <2>1. symbol \in [Files -> Nat] /\ symbol' \in [Files -> Nat] /\ ids \in Nat /\ ids' \in Nat
      BY <1>1 DEF TInv, TypeOK
    <2>2. \A f \in Files : Owns(symbol[f], f)
      BY DEF SymbolsOwned
    <2>3. QED
      BY <1>1, <2>1, <2>2 DEF SymbolsMove, Owns
  <1>3. \A k \in Jobs : HoldsSymbols(job'[k])
    <2>1. ASSUME NEW j \in Jobs, indexFile(j) PROVE \A k \in Jobs : HoldsSymbols(job'[k])
      BY <2>1, LookedUp
    <2>2. CASE UNCHANGED job
      BY <2>2 DEF SymbolsOwned
    <2>3. ASSUME NEW p \in Procs, Restart(p) PROVE \A k \in Jobs : HoldsSymbols(job'[k])
      <3>1. \A k \in Jobs : job'[k] \in {job[k], Idle}
        BY <2>3 DEF Restart, TInv, TypeOK
      <3>2. HoldsSymbols(Idle)
        BY DEF HoldsSymbols, Idle, Owns, TInv, TypeOK
      <3>3. QED
        BY <3>1, <3>2 DEF SymbolsOwned
    <2>4. QED
      BY <2>1, <2>2, <2>3 DEF Next, Edit, vars
  <1>4. \A k \in Jobs : job'[k] \in Job
    BY <1>1 DEF TInv, TypeOK
  <1>5. QED
    <2>1. ASSUME NEW k \in Jobs PROVE HoldsSymbols(job[k])'
      <3>1. job'[k] \in Job /\ HoldsSymbols(job'[k])
        BY <1>3, <1>4
      <3> DEFINE Kept(s, f) == s <= ids' /\ \A g \in Files : s # 0 /\ symbol'[g] = s => g = f
      <3>2. ASSUME NEW s \in Nat, NEW f, Owns(s, f) PROVE Kept(s, f)
        BY <1>1, <3>2, OwnsKept DEF TInv
      <3>3. /\ job'[k].caller \in Nat
            /\ \A r \in job'[k].refs : r.sym \in Nat
            /\ \A c \in job'[k].calls : c.caller \in Nat /\ c.callee \in Nat
        BY <3>1 DEF Job, Ref, Call
      <3>4. /\ Owns(job'[k].caller, job'[k].file)
            /\ \A r \in job'[k].refs : r.from = job'[k].file /\ Owns(r.sym, r.to)
            /\ \A c \in job'[k].calls : /\ c.from = job'[k].file
                                       /\ Owns(c.caller, c.from) /\ Owns(c.callee, c.to)
        BY <3>1 DEF HoldsSymbols
      <3> HIDE DEF Kept
      <3>5. /\ Kept(job'[k].caller, job'[k].file)
            /\ \A r \in job'[k].refs : r.from = job'[k].file /\ Kept(r.sym, r.to)
        BY <3>2, <3>3, <3>4
      <3>6. ASSUME NEW c \in job'[k].calls
            PROVE  c.from = job'[k].file /\ Kept(c.caller, c.from) /\ Kept(c.callee, c.to)
        BY <3>2, <3>3, <3>4
      <3>7. QED
        BY <3>5, <3>6 DEF HoldsSymbols, Owns, Kept
    <2>2. QED
      BY <1>2, <2>1 DEF SymbolsOwned

----------------------------------------------------------------------------
(* Deleting a node leaves no row that names it or its symbol.                 *)
LEMMA DeleteResolves ==
  ASSUME TypeOK, RowsResolve, NEW f \in Files, deleteNode(f)
  PROVE  RowsResolve'
  <1> USE DEF deleteNode, TypeOK
  <1>1. \A e \in edges' : nodes'[e.from] # None /\ nodes'[e.to] # None
    BY DEF RowsResolve, Edge
  <1>2. \A r \in refs' : r.sym = symbol'[r.to] /\ nodes'[r.from] # None
    BY DEF RowsResolve, Ref, RefsWithout, SymbolsOf
  <1>3. \A c \in calls' : c.caller = symbol'[c.from] /\ HasNode(c.to, c.node)' /\ c.callee \in {0, symbol'[c.to]}
    BY DEF RowsResolve, Call, CallsWithout, SymbolsOf, HasNode
  <1>4. QED
    BY <1>1, <1>2, <1>3 DEF RowsResolve

(* Writing one keeps the node, and replaces the symbol with all its rows.     *)
LEMMA WriteResolves ==
  ASSUME TypeOK, RowsResolve, NEW f \in Files, NEW doc \in Doc, NEW mtime \in Nat, WriteGraph(f, doc, mtime)
  PROVE  RowsResolve'
  <1> USE DEF WriteGraph, TypeOK
  <1>0. \A g \in Files : nodes[g] # None => nodes[g] \in Node
    OBVIOUS
  <1>1. \A g \in Files : nodes[g] # None => nodes'[g] # None /\ nodes'[g].id = nodes[g].id
    <2> SUFFICES ASSUME NEW g \in Files, nodes[g] # None
                 PROVE  nodes'[g] # None /\ nodes'[g].id = nodes[g].id
      OBVIOUS
    <2>1. CASE g # f
      BY <2>1
    <2>2. CASE g = f
      <3>1. [id |-> nodes[f].id, mtime |-> mtime, doc |-> doc] \in Node
        BY <1>0, <2>2 DEF Node
      <3>2. nodes'[f] = [id |-> nodes[f].id, mtime |-> mtime, doc |-> doc]
        BY <2>2
      <3>3. QED
        BY <2>2, <3>1, <3>2, NoneAssumption
    <2>3. QED
      BY <2>1, <2>2
  <1>2. nodes'[f] # None
    <2>1. CASE nodes[f] # None
      BY <1>1, <2>1
    <2>2. CASE nodes[f] = None
      <3>1. [id |-> NewId, mtime |-> mtime, doc |-> doc] \in Node
        BY DEF Node, NewId
      <3>2. nodes'[f] = [id |-> NewId, mtime |-> mtime, doc |-> doc]
        BY <2>2
      <3>3. QED
        BY <3>1, <3>2, NoneAssumption
    <2>3. QED
      BY <2>1, <2>2
  <1>3. \A g \in doc.content.imports : g \in Files /\ nodes'[g] # None
    <2> SUFFICES ASSUME NEW g \in doc.content.imports PROVE g \in Files /\ nodes'[g] # None
      OBVIOUS
    <2>1. g \in Files
      BY DEF Doc, Content
    <2>2. CASE nodes[g] # None \/ g = f
      BY <1>1, <1>2, <2>1, <2>2
    <2>3. CASE nodes[g] = None /\ g # f
      <3>1. [id |-> NewId, mtime |-> 0, doc |-> None] \in Node
        BY DEF Node, NewId
      <3>2. nodes'[g] = [id |-> NewId, mtime |-> 0, doc |-> None]
        BY <2>1, <2>3
      <3>3. QED
        BY <2>1, <3>1, <3>2, NoneAssumption
    <2>4. QED
      BY <2>2, <2>3
  <1>4. \A e \in edges' : nodes'[e.from] # None /\ nodes'[e.to] # None
    <2>1. ASSUME NEW e \in edges' PROVE nodes'[e.from] # None /\ nodes'[e.to] # None
      <3>1. CASE e \in edges
        <4>1. /\ e.from \in Files /\ nodes[e.from] # None
              /\ e.to \in Files /\ nodes[e.to] # None
          BY <3>1 DEF RowsResolve, Edge
        <4>2. QED
          BY <4>1, <1>1
      <3>2. CASE e \in {[from |-> f, to |-> g] : g \in doc.content.imports}
        <4>1. PICK g \in doc.content.imports : e = [from |-> f, to |-> g]
          BY <3>2
        <4>2. e.from = f /\ e.to = g
          BY <4>1
        <4>3. QED
          BY <4>2, <1>2, <1>3
      <3>3. QED
        BY <3>1, <3>2 DEF replaceEdgesFrom
    <2>2. QED
      BY <2>1
  <1>5. \A r \in refs' : r.sym = symbol'[r.to] /\ nodes'[r.from] # None
    <2>1. refs' = RefsWithout(SymbolsOf({f}), {}) /\ \A g \in Files \ {f} : symbol'[g] = symbol[g]
      OBVIOUS
    <2>2. \A r \in refs' : r \in refs /\ r \in Ref /\ r.to # f
      BY <2>1 DEF RowsResolve, Ref, RefsWithout, SymbolsOf
    <2>3. QED
      BY <1>1, <2>1, <2>2 DEF RowsResolve, Ref
  <1>6. \A c \in calls' : c.caller = symbol'[c.from] /\ HasNode(c.to, c.node)' /\ c.callee \in {0, symbol'[c.to]}
    <2>1. calls' = CallsWithout(SymbolsOf({f}), {}) /\ \A g \in Files \ {f} : symbol'[g] = symbol[g]
      OBVIOUS
    <2>2. \A c \in calls' : c \in calls /\ c \in Call /\ c.from # f /\ (c.to = f => c.callee = 0)
      BY <2>1 DEF RowsResolve, Call, CallsWithout, SymbolsOf
    <2>3. QED
      BY <1>1, <2>1, <2>2 DEF RowsResolve, Call, HasNode
  <1>7. QED
    BY <1>4, <1>5, <1>6 DEF RowsResolve

(* A transaction of references or calls fails unless all that it names is     *)
(* there, and then it is what was looked up: a symbol belongs to one file.    *)
LEMMA InsertResolves ==
  ASSUME TInv, SymbolsOwned, RowsResolve, NEW j \in Jobs, replaceRefsForNode(j) \/ replaceCallsForNode(j)
  PROVE  RowsResolve'
  <1> USE DEF TInv
  <1>0. job[j] \in Job /\ HoldsSymbols(job[j])
    BY DEF TypeOK, SymbolsOwned
  <1>1. CASE replaceRefsForNode(j)
    <2>1. job[j].file \in Files /\ RefsFit(j) /\ UNCHANGED <<nodes, edges, symbol, calls>>
      BY <1>1 DEF replaceRefsForNode, Runs, JobsHold
    <2>2. \A r \in job[j].refs : r \in Ref /\ Owns(r.sym, r.to) /\ HasSymbol(r.sym) /\ r.from = job[j].file /\ nodes[job[j].file] # None
      BY <1>0, <2>1 DEF HoldsSymbols, Job, RefsFit, HasNode
    <2>3. \A r \in job[j].refs : r.sym = symbol[r.to] /\ nodes[r.from] # None
      BY <2>2 DEF Owns, HasSymbol, Ref
    <2>4. \A r \in refs' : r \in refs \union job[j].refs
      BY <1>1 DEF replaceRefsForNode
    <2>5. QED
      BY <2>1, <2>3, <2>4 DEF RowsResolve, HasNode
  <1>2. CASE replaceCallsForNode(j)
    <2>1. CallsFit(j) /\ UNCHANGED <<nodes, edges, symbol, refs>>
      BY <1>2 DEF replaceCallsForNode
    <2>2. \A c \in job[j].calls : c \in Call /\ Owns(c.caller, c.from) /\ Owns(c.callee, c.to)
      BY <1>0 DEF HoldsSymbols, Job
    <2>3. \A c \in job[j].calls : c.caller = symbol[c.from] /\ HasNode(c.to, c.node) /\ c.callee \in {0, symbol[c.to]}
      BY <2>1, <2>2 DEF CallsFit, Owns, HasSymbol, Call
    <2>4. \A c \in calls' : c \in calls \union job[j].calls
      BY <1>2 DEF replaceCallsForNode
    <2>5. QED
      BY <2>1, <2>3, <2>4 DEF RowsResolve, HasNode
  <1>3. QED
    BY <1>1, <1>2

LEMMA TablesStay == RowsResolve /\ UNCHANGED tables => RowsResolve'
  BY DEF tables, RowsResolve, HasNode

GraphInv == TInv /\ SymbolsOwned /\ RowsResolve

LEMMA InitResolves == Init => GraphInv
  <1> SUFFICES ASSUME Init PROVE GraphInv
    OBVIOUS
  <1>1. SymbolsOwned
    BY DEF Init, SymbolsOwned, HoldsSymbols, Owns, Idle
  <1>2. RowsResolve
    BY DEF Init, RowsResolve
  <1>3. QED
    BY <1>1, <1>2, InitTyped DEF GraphInv

LEMMA StepResolves == GraphInv /\ [Next]_vars => GraphInv'
  <1> SUFFICES ASSUME GraphInv, [Next]_vars PROVE GraphInv'
    OBVIOUS
  <1> USE DEF GraphInv
  <1>1. ASSUME NEW j \in Jobs, indexFile(j) PROVE RowsResolve'
    <2>1. CASE DeleteGone(j)
      <3>1. job[j].file \in Files
        BY <2>1 DEF DeleteGone, Runs, TInv, JobsHold
      <3>2. QED
        BY <2>1, <3>1, DeleteResolves DEF DeleteGone, TInv
    <2>2. CASE Commit(j)
      <3>1. job[j].file \in Files /\ job[j].doc \in Doc /\ job[j].mtime \in Nat
        BY <2>2 DEF Commit, Runs, TInv, TypeOK, JobsHold, Holding, Job
      <3>2. QED
        BY <2>2, <3>1, WriteResolves DEF Commit, TInv
    <2>3. CASE replaceRefsForNode(j) \/ replaceCallsForNode(j)
      BY <2>3, InsertResolves
    <2>4. CASE UNCHANGED tables
      BY <2>4, TablesStay
    <2>5. QED
      BY <1>1, <2>1, <2>2, <2>3, <2>4
      DEF indexFile, Start, ReadCached, ReadSource, ReadFails, FillCache, Stat, Track, BuildCalls, TrackingFails
  <1>2. ASSUME UNCHANGED tables PROVE RowsResolve'
    BY <1>2, TablesStay
  <1>3. RowsResolve'
    <2>1. UNCHANGED vars => UNCHANGED tables
      BY DEF vars, tables
    <2>2. QED
      BY <1>1, <1>2, <2>1 DEF Next, Edit, Restart
  <1>4. QED
    BY <1>3, StepTyped, StepOwned

(* RowsResolve, in any instance: no edge, reference or call is left that      *)
(* names a node or a symbol which is gone or belongs to another file by now,  *)
(* whatever other processes removed and wrote between the look-up and the     *)
(* insertion (replaceReferencesForNode, replaceCallGraphForNode).             *)
THEOREM RowsAlwaysResolve == Spec => []RowsResolve
  <1>1. GraphInv => RowsResolve
    BY DEF GraphInv
  <1>2. QED
    BY <1>1, InitResolves, StepResolves, PTL DEF Spec
----------------------------------------------------------------------------
(* ImportsKept, in any instance: an edge goes only with one of its files, or  *)
(* when the importing file is written.                                        *)
THEOREM ImportsAlwaysKept == Spec => ImportsKept
  <1> DEFINE Kept == \A e \in edges \ edges' :
                        \/ nodes'[e.from] = None \/ nodes'[e.to] = None
                        \/ \E j \in Jobs : job[j].at = "commit" /\ job'[j].at = "refs" /\ job[j].file = e.from
  <1>1. TInv /\ [Next]_vars => [Kept]_vars
    <2> SUFFICES ASSUME TInv, [Next]_vars PROVE Kept
      OBVIOUS
    <2> USE DEF TInv
    <2>1. ASSUME NEW j \in Jobs, DeleteGone(j) PROVE Kept
      <3>1. job[j].file \in Files
        BY <2>1 DEF DeleteGone, Runs, JobsHold
      <3>2. QED
        BY <2>1, <3>1 DEF DeleteGone, deleteNode, TypeOK
    <2>2. ASSUME NEW j \in Jobs, Commit(j) PROVE Kept
      <3>1. \A e \in edges \ edges' : e.from = job[j].file
        BY <2>2 DEF Commit, WriteGraph, replaceEdgesFrom
      <3>2. job[j].at = "commit" /\ job'[j].at = "refs"
        BY <2>2 DEF Commit, Runs, Goes, TypeOK, Job
      <3>3. QED
        BY <3>1, <3>2
    <2>3. CASE UNCHANGED edges
      BY <2>3
    <2>4. ASSUME NEW j \in Jobs, indexFile(j) PROVE Kept
      BY <2>1, <2>2, <2>3, <2>4
      DEF indexFile, Start, ReadCached, ReadSource, ReadFails, FillCache, Stat, Track,
          replaceRefsForNode, BuildCalls, replaceCallsForNode, TrackingFails, tables
    <2>5. QED
      BY <2>3, <2>4 DEF Next, Edit, Restart, tables, vars
  <1>2. QED
    BY <1>1, InitTyped, StepTyped, PTL DEF Spec, ImportsKept

----------------------------------------------------------------------------
(* A time stamp is older than the next write of its file, and goes with what  *)
(* it was taken for unless a write fell in between.                           *)
Stamped(f, mtime, doc) ==
    /\ mtime <= edits + 1
    /\ disk[f] # None /\ mtime = disk[f].mtime /\ ~raced[f] => doc = disk[f]
HoldsStamp(held) ==
    /\ held.at = "commit" => Stamped(held.file, held.mtime, held.doc)
    /\ held.at \in {"cache", "stat"} /\ disk[held.file] # None /\ ~raced[held.file] => held.doc = disk[held.file]
NodesStamped == \A f \in Files : nodes[f] # None => Stamped(f, nodes[f].mtime, nodes[f].doc)
CachesStamped ==
    \A p \in Procs, f \in Files : cache[p][f] # None => Stamped(f, cache[p][f].mtime, cache[p][f].doc)
JobsStamped == \A j \in Jobs : HoldsStamp(job[j])
FilesStamped == \A f \in Files : disk[f] # None => disk[f].mtime <= edits + 1
StampInv == TInv /\ FilesStamped /\ NodesStamped /\ CachesStamped /\ JobsStamped

LEMMA InitStamped == Init => StampInv
  <1> SUFFICES ASSUME Init PROVE StampInv
    OBVIOUS
  <1>1. FilesStamped
    BY DEF Init, FilesStamped
  <1>2. NodesStamped /\ CachesStamped
    BY DEF Init, NodesStamped, CachesStamped
  <1>3. JobsStamped
    BY DEF Init, JobsStamped, HoldsStamp, Idle
  <1>4. QED
    BY <1>1, <1>2, <1>3, InitTyped DEF StampInv

(* Calls write no file: what they hold was stamped, or is by this step.       *)
LEMMA CallStamped ==
  ASSUME StampInv, NEW j \in Jobs, indexFile(j)
  PROVE  FilesStamped' /\ NodesStamped' /\ CachesStamped' /\ JobsStamped'
  <1> USE DEF StampInv, TInv
  <1>0. UNCHANGED <<disk, raced, edits>>
    BY DEF indexFile, Start, DeleteGone, ReadCached, ReadSource, ReadFails, FillCache, Stat, Commit, Track,
       replaceRefsForNode, BuildCalls, replaceCallsForNode, TrackingFails, budget
  <1>1. \A f, m, d : Stamped(f, m, d)' <=> Stamped(f, m, d)
    BY <1>0 DEF Stamped
  <1>2. \A held : HoldsStamp(held)' <=> HoldsStamp(held)
    BY <1>0, <1>1 DEF HoldsStamp
  <1>3. FilesStamped'
    BY <1>0 DEF FilesStamped
  <1>4. job \in [Jobs -> Job]
    BY DEF TypeOK
  <1>5. NodesStamped'
    <2>1. CASE DeleteGone(j)
      <3>1. \A f \in Files : nodes'[f] \in {nodes[f], None}
        BY <2>1 DEF DeleteGone, deleteNode, TypeOK
      <3>2. QED
        BY <3>1, <1>1 DEF NodesStamped
    <2>2. CASE Commit(j)
      <3>1. Stamped(job[j].file, job[j].mtime, job[j].doc)
        BY <2>2 DEF Commit, Runs, JobsStamped, HoldsStamp
      <3>2. \A f \in Files : disk[f] # None => disk[f].mtime # 0
        BY DEF TypeOK, Doc
      <3>3. edits \in Nat
        BY GraphAssumption DEF TypeOK
      <3>4. ASSUME NEW f \in Files, nodes'[f] # None
            PROVE  Stamped(f, nodes'[f].mtime, nodes'[f].doc)
        <4>1. CASE f = job[j].file
          BY <2>2, <3>1, <4>1 DEF Commit, WriteGraph
        <4>2. CASE f # job[j].file /\ nodes'[f] = [id |-> NewId, mtime |-> 0, doc |-> None]
          BY <3>2, <3>3, <4>2 DEF Stamped
        <4>3. CASE f # job[j].file /\ nodes'[f] = nodes[f]
          BY <3>4, <4>3 DEF NodesStamped
        <4>4. QED
          BY <2>2, <4>1, <4>2, <4>3 DEF Commit, WriteGraph
      <3>5. QED
        BY <3>4, <1>1 DEF NodesStamped
    <2>3. CASE UNCHANGED nodes
      BY <2>3, <1>1 DEF NodesStamped
    <2>4. QED
      BY <2>1, <2>2, <2>3
      DEF indexFile, Start, ReadCached, ReadSource, ReadFails, FillCache, Stat, Track,
          replaceRefsForNode, BuildCalls, replaceCallsForNode, TrackingFails, tables
  <1>6. CachesStamped'
    <2>1. CASE FillCache(j) /\ disk[job[j].file] # None
      <3> DEFINE e == [mtime |-> disk[job[j].file].mtime, doc |-> job[j].doc]
      <3>1. job[j].file \in Files /\ job[j].at = "cache" /\ home[j] \in Procs
        BY <2>1 DEF FillCache, Runs, JobsHold, TypeOK
      <3>2. ~raced[job[j].file] => job[j].doc = disk[job[j].file]
        BY <2>1, <3>1 DEF JobsStamped, HoldsStamp
      <3>3. Stamped(job[j].file, e.mtime, e.doc)
        BY <2>1, <3>1, <3>2 DEF Stamped, FilesStamped
      <3>4. cache' = [cache EXCEPT ![home[j]][job[j].file] = e]
        BY <2>1 DEF FillCache
      <3>5. \A p \in Procs, f \in Files : cache'[p][f] = cache[p][f] \/ (f = job[j].file /\ cache'[p][f] = e)
        BY <3>1, <3>4 DEF TypeOK
      <3>6. QED
        BY <3>3, <3>5, <1>1 DEF CachesStamped
    <2>2. CASE ReadFails(j)
      <3>1. job[j].file \in Files /\ home[j] \in Procs
        BY <2>2 DEF ReadFails, Runs, JobsHold, TypeOK
      <3>2. cache' \in {cache, [cache EXCEPT ![home[j]][job[j].file] = None]}
        BY <2>2 DEF ReadFails
      <3>3. \A p \in Procs, f \in Files : cache'[p][f] \in {cache[p][f], None}
        BY <3>1, <3>2 DEF TypeOK
      <3>4. QED
        BY <3>3, <1>1 DEF CachesStamped
    <2>3. CASE UNCHANGED cache
      BY <2>3, <1>1 DEF CachesStamped
    <2>4. QED
      BY <2>1, <2>2, <2>3
      DEF indexFile, Start, DeleteGone, ReadCached, ReadSource, FillCache, Stat, Commit, Track,
          replaceRefsForNode, BuildCalls, replaceCallsForNode, TrackingFails
  <1>7. JobsStamped'
    <2>1. SUFFICES \A k \in Jobs : HoldsStamp(job'[k])
      BY <1>2 DEF JobsStamped
    <2>2. \A k \in Jobs \ {j} : job'[k] = job[k]
      BY <1>4 DEF indexFile, Start, DeleteGone, ReadCached, ReadSource, ReadFails, FillCache, Stat, Commit, Track,
         replaceRefsForNode, BuildCalls, replaceCallsForNode, TrackingFails, Ends, Goes
    <2>3. SUFFICES HoldsStamp(job'[j])
      BY <2>2, <2>3 DEF JobsStamped
    <2>4. ASSUME job'[j].at \notin {"commit", "cache", "stat"} PROVE HoldsStamp(job'[j])
      BY <2>4 DEF HoldsStamp
    <2>5. CASE ReadCached(j)
      <3>1. job'[j].at = "stat" /\ job'[j].file = job[j].file /\ job'[j].doc = cache[home[j]][job[j].file].doc
        BY <1>4, <2>5 DEF ReadCached, Job
      <3>2. job[j].file \in Files /\ home[j] \in Procs
        BY <2>5 DEF ReadCached, Runs, JobsHold, TypeOK
      <3>3. Stamped(job[j].file, cache[home[j]][job[j].file].mtime, cache[home[j]][job[j].file].doc)
        BY <2>5, <3>2 DEF ReadCached, Cached, CachesStamped
      <3>4. QED
        BY <2>5, <3>1, <3>3 DEF ReadCached, Cached, HoldsStamp, Stamped
    <2>6. CASE ReadSource(j)
      <3>1. job'[j].at = "cache" /\ job'[j].file = job[j].file /\ job'[j].doc = disk[job[j].file]
        BY <1>4, <2>6 DEF ReadSource, Job
      <3>2. QED
        BY <3>1 DEF HoldsStamp
    <2>7. CASE FillCache(j) /\ disk[job[j].file] # None
      <3>1. job'[j].at = "stat" /\ job'[j].file = job[j].file /\ job'[j].doc = job[j].doc
        BY <1>4, <2>7 DEF FillCache, Goes, Job
      <3>2. job[j].at = "cache" /\ HoldsStamp(job[j])
        BY <2>7 DEF FillCache, Runs, JobsStamped
      <3>3. QED
        BY <3>1, <3>2 DEF HoldsStamp
    <2>8. CASE Stat(j)
      <3>1. /\ job'[j].at = "commit" /\ job'[j].file = job[j].file /\ job'[j].doc = job[j].doc
            /\ job'[j].mtime = IF disk[job[j].file] = None THEN 0 ELSE disk[job[j].file].mtime
        BY <1>4, <2>8 DEF Stat, Job
      <3>2. job[j].at = "stat" /\ HoldsStamp(job[j]) /\ job[j].file \in Files /\ edits \in Nat
        BY <2>8, GraphAssumption DEF Stat, Runs, JobsStamped, JobsHold, TypeOK
      <3>3. Stamped(job[j].file, job'[j].mtime, job[j].doc)
        BY <3>1, <3>2 DEF HoldsStamp, Stamped, FilesStamped
      <3>4. QED
        BY <3>1, <3>3 DEF HoldsStamp
    <2>9. ASSUME ~ReadCached(j), ~ReadSource(j), ~(FillCache(j) /\ disk[job[j].file] # None), ~Stat(j)
          PROVE  job'[j].at \notin {"commit", "cache", "stat"}
      <3>1. CASE Ends(j)
        BY <1>4, <3>1 DEF Ends, Idle
      <3>2. CASE \E s \in {"refs", "calls"} : Goes(j, s)
        BY <1>4, <3>2 DEF Goes, Job
      <3>3. CASE \E f \in Files : Start(j, f)
        BY <1>4, <3>3 DEF Start, Idle
      <3>4. CASE Track(j) /\ ~Ends(j)
        BY <1>4, <3>4 DEF Track, Job
      <3>5. CASE BuildCalls(j)
        BY <1>4, <3>5 DEF BuildCalls, Job
      <3>6. QED
        BY <2>9, <3>1, <3>2, <3>3, <3>4, <3>5
        DEF indexFile, DeleteGone, ReadFails, FillCache, Commit, replaceRefsForNode, replaceCallsForNode, TrackingFails
    <2>10. QED
      BY <2>4, <2>5, <2>6, <2>7, <2>8, <2>9
  <1>8. QED
    BY <1>3, <1>5, <1>6, <1>7

(* A write of a file outdates every stamp taken of it.                        *)
LEMMA EditStamped ==
  ASSUME StampInv, NEW f \in Files, Edit(f)
  PROVE  FilesStamped' /\ NodesStamped' /\ CachesStamped' /\ JobsStamped'
  <1> USE DEF StampInv, TInv
  <1>1. edits \in Nat /\ edits' = edits + 1
    BY GraphAssumption DEF Edit, TypeOK
  <1>2. \A g \in Files \ {f} : disk'[g] = disk[g] /\ raced'[g] = raced[g]
    BY DEF Edit, TypeOK
  <1>3. disk'[f] = None \/ disk'[f].mtime = edits + 2
    BY DEF Edit, TypeOK
  <1>4. raced'[f] = InWindow(f)
    BY DEF Edit, TypeOK
  <1>5. ASSUME NEW g \in Files, NEW m \in Nat, NEW d, Stamped(g, m, d)
        PROVE  Stamped(g, m, d)'
    BY <1>1, <1>2, <1>3, <1>5 DEF Stamped
  <1>6. FilesStamped'
    <2>1. \A g \in Files : disk[g] # None => disk[g].mtime \in Nat
      BY DEF TypeOK, Doc
    <2>2. QED
      BY <1>1, <1>2, <1>3, <2>1 DEF FilesStamped
  <1>7. NodesStamped'
    <2>1. \A g \in Files : nodes[g] # None => nodes[g].mtime \in Nat
      BY DEF TypeOK, Node
    <2>2. UNCHANGED nodes
      BY DEF Edit, tables
    <2>3. QED
      BY <1>5, <2>1, <2>2 DEF NodesStamped
  <1>8. CachesStamped'
    <2>1. \A p \in Procs, g \in Files : cache[p][g] # None => cache[p][g].mtime \in Nat
      BY DEF TypeOK
    <2>2. UNCHANGED cache
      BY DEF Edit
    <2>3. QED
      BY <1>5, <2>1, <2>2 DEF CachesStamped
  <1>9. JobsStamped'
    <2>1. UNCHANGED job
      BY DEF Edit
    <2>2. ASSUME NEW j \in Jobs PROVE HoldsStamp(job[j])'
      <3>1. HoldsStamp(job[j]) /\ job[j].mtime \in Nat
        BY DEF JobsStamped, TypeOK, Job
      <3>2. job[j].at \in {"commit", "cache", "stat"} => job[j].file \in Files
        BY DEF JobsHold
      <3>3. job[j].at = "commit" => Stamped(job[j].file, job[j].mtime, job[j].doc)'
        BY <1>5, <3>1, <3>2, <2>1 DEF HoldsStamp
      <3>4. job[j].at \in {"cache", "stat"} /\ disk'[job[j].file] # None /\ ~raced'[job[j].file] => job[j].doc = disk'[job[j].file]
        <4>1. CASE job[j].file = f
          BY <1>4, <4>1 DEF InWindow
        <4>2. CASE job[j].file # f
          BY <1>2, <3>1, <3>2, <4>2 DEF HoldsStamp
        <4>3. QED
          BY <4>1, <4>2
      <3>5. QED
        BY <2>1, <3>3, <3>4 DEF HoldsStamp
    <2>3. QED
      BY <2>2 DEF JobsStamped
  <1>10. QED
    BY <1>6, <1>7, <1>8, <1>9

LEMMA StepStamped == StampInv /\ [Next]_vars => StampInv'
  <1> SUFFICES ASSUME StampInv, [Next]_vars PROVE StampInv'
    OBVIOUS
  <1> DEFINE AllStamped == FilesStamped /\ NodesStamped /\ CachesStamped /\ JobsStamped
  <1>1. ASSUME NEW j \in Jobs, indexFile(j) PROVE AllStamped'
    BY <1>1, CallStamped
  <1>2. ASSUME NEW f \in Files, Edit(f) PROVE AllStamped'
    BY <1>2, EditStamped
  <1>3. ASSUME NEW p \in Procs, Restart(p) PROVE AllStamped'
    <2>1. UNCHANGED <<disk, nodes, raced, edits>>
      BY <1>3 DEF Restart, tables
    <2>2. \A j \in Jobs : job'[j] \in {job[j], Idle}
      BY <1>3 DEF Restart, StampInv, TInv, TypeOK
    <2>3. \A q \in Procs, f \in Files : cache'[q][f] \in {cache[q][f], None}
      BY <1>3 DEF Restart, StampInv, TInv, TypeOK
    <2>4. FilesStamped' /\ NodesStamped'
      BY <2>1 DEF StampInv, FilesStamped, NodesStamped, Stamped
    <2>5. CachesStamped'
      BY <2>1, <2>3 DEF StampInv, CachesStamped, Stamped
    <2>6. JobsStamped'
      BY <2>1, <2>2 DEF StampInv, JobsStamped, HoldsStamp, Stamped, Idle
    <2>7. QED
      BY <2>4, <2>5, <2>6
  <1>4. ASSUME UNCHANGED vars PROVE AllStamped'
    BY <1>4 DEF vars, StampInv, FilesStamped, NodesStamped, CachesStamped, JobsStamped, HoldsStamp, Stamped
  <1>5. TInv'
    BY StepTyped DEF StampInv
  <1>6. QED
    BY <1>1, <1>2, <1>3, <1>4, <1>5 DEF Next, StampInv

(* UnchangedMeansCurrent, in any instance: a file that is passed over because *)
(* its time stamp is the one the node has (indexFile, needsReindex) is in the *)
(* graph as it is on disk, but for a write between a read and its stamp.      *)
THEOREM UnchangedIsCurrent == Spec => []UnchangedMeansCurrent
  <1>1. StampInv => UnchangedMeansCurrent
    BY DEF StampInv, NodesStamped, Stamped, UnchangedMeansCurrent
  <1>2. QED
    BY <1>1, InitStamped, StepStamped, PTL DEF Spec
=============================================================================
