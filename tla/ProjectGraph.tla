---------------------------- MODULE ProjectGraph ----------------------------
(* The project graph: src/runtime/managers/project-graph-manager.js over the *)
(* tables of src/runtime/analysis/project-graph-db.js. Processes that share  *)
(* .opencode/project-graph.db index files which an editor changes. A call of *)
(* indexFile reads the file, stamps what it read with a modification time it *)
(* takes afterwards, and writes in three transactions.                       *)
EXTENDS Naturals, FiniteSets

CONSTANTS
    Procs,      \* processes that have the database open
    Jobs,       \* calls of indexFile in progress at a time
    Files,
    Contents,   \* Contents[f]: what f may contain
    None,       \* no file, no node, no cache entry
    MaxEdits, MaxCalls, MaxCrashes

\* A file is the names it imports, one per file imported, and whether it
\* exports a function of its own, which then calls what it imports.
Content == [imports : SUBSET Files, exports : BOOLEAN]

ASSUME GraphAssumption ==
    /\ Contents \in [Files -> SUBSET Content]
    /\ MaxEdits \in Nat /\ MaxCalls \in Nat /\ MaxCrashes \in Nat

VARIABLES
    disk,       \* disk[f]: content and modification time of the file
    nodes,      \* nodes[f]: the row of the table nodes
    edges,      \* rows of the table edges
    symbol,     \* symbol[f]: id of the row for what f exports, 0 if none
    refs,       \* rows of symbol_references
    calls,      \* rows of call_graph
    cache,      \* cache[p][f]: the parse cache of a process
    home,       \* home[j]: the process call j runs in
    job,        \* job[j]: the locals of call j
    raced,      \* raced[f]: the last edit fell between a read and its time stamp
    ids,        \* the last id given to a row
    begun, edits, crashes

tables == <<nodes, edges, symbol, refs, calls>>
budget == <<begun, edits, crashes>>
vars   == <<disk, nodes, edges, symbol, refs, calls, cache, home, job, raced, ids, begun, edits, crashes>>

Doc  == [mtime : Nat \ {0}, content : Content]
Node == [id : Nat \ {0}, mtime : Nat, doc : Doc \union {None}]
ASSUME NoneAssumption == None \notin Node
Edge == [from : Files, to : Files]
\* to is the file whose export the row was made for.
Ref  == [sym : Nat \ {0}, from : Files, to : Files]
Call == [caller : Nat \ {0}, from : Files, to : Files, node : Nat \ {0}, callee : Nat]

Steps == {"idle", "gone", "parse", "cache", "stat", "commit", "refs", "insertRefs", "calls", "insertCalls"}
Job == [at : Steps, file : Files \union {None}, doc : Doc \union {None}, mtime : Nat, id : Nat,
        caller : Nat, refs : SUBSET Ref, calls : SUBSET Call]
Idle == [at |-> "idle", file |-> None, doc |-> None, mtime |-> 0, id |-> 0,
         caller |-> 0, refs |-> {}, calls |-> {}]
----------------------------------------------------------------------------
(* The tables. Deleting a row deletes the rows that refer to it; a row that  *)
(* refers to none cannot be inserted. Ids are never used again.               *)
\* (One number serves for the rows of one transaction.)
NewId == ids + 1

\* The rows left when the symbols and the nodes of the files gone are deleted.
RefsWithout(syms, gone)  == {r \in refs : r.sym \notin syms /\ r.from \notin gone}
CallsWithout(syms, gone) == {c \in calls : c.caller \notin syms /\ c.callee \notin syms /\ c.to \notin gone}
SymbolsOf(fs) == {symbol[f] : f \in fs} \ {0}

deleteNode(f) ==
    /\ nodes' = [nodes EXCEPT ![f] = None]
    /\ edges' = {e \in edges : f \notin {e.from, e.to}}
    /\ symbol' = [symbol EXCEPT ![f] = 0]
    /\ refs' = RefsWithout(SymbolsOf({f}), {f})
    /\ calls' = CallsWithout(SymbolsOf({f}), {f})

HasSymbol(s)   == \E f \in Files : symbol[f] = s
HasNode(f, id) == nodes[f] # None /\ nodes[f].id = id

\* Mutant: the row of the node is replaced, and with it go the edges to it.
ReplaceNodeAndEdges(f, found) ==
    {e \in edges : f \notin {e.from, e.to}} \union {[from |-> f, to |-> g] : g \in found}
replaceEdgesFrom(f, found) ==
    {e \in edges : e.from # f} \union {[from |-> f, to |-> g] : g \in found}

\* indexFile of the database: the node keeps its id, files that are not known
\* get a stub, edges and symbols are replaced.
WriteGraph(f, doc, mtime) ==
    /\ nodes' = [g \in Files |->
                    IF g = f THEN [id |-> IF nodes[f] = None THEN NewId ELSE nodes[f].id, mtime |-> mtime, doc |-> doc]
                    ELSE IF g \in doc.content.imports /\ nodes[g] = None THEN [id |-> NewId, mtime |-> 0, doc |-> None]
                    ELSE nodes[g]]
    /\ edges' = replaceEdgesFrom(f, doc.content.imports)
    /\ symbol' = [symbol EXCEPT ![f] = IF doc.content.exports THEN NewId ELSE 0]
    /\ refs' = RefsWithout(SymbolsOf({f}), {})
    /\ calls' = CallsWithout(SymbolsOf({f}), {})
    /\ ids' = ids + 1
----------------------------------------------------------------------------
(* A call of indexFile. Calls of one process interleave only where the code   *)
(* awaits: before the file is read, and before its time stamp is taken.       *)
Awaits == {"idle", "parse", "stat"}
Free(j) == \A k \in Jobs \ {j} : home[k] = home[j] => job[k].at \in Awaits
Runs(j, step) == job[j].at = step /\ Free(j)
Goes(j, step) == job' = [job EXCEPT ![j].at = step]
Ends(j) == job' = [job EXCEPT ![j] = Idle]

\* A node with the time stamp of the file is not read again (and the call ends
\* at once); one whose file is missing is removed.
Start(j, f) ==
    /\ Runs(j, "idle")
    /\ begun < MaxCalls
    /\ ~(nodes[f] # None /\ disk[f] # None /\ nodes[f].mtime = disk[f].mtime)
    /\ begun' = begun + 1
    /\ job' = [job EXCEPT ![j] = [Idle EXCEPT !.file = f,
                                  !.at = IF nodes[f] # None /\ disk[f] = None THEN "gone" ELSE "parse"]]
    /\ UNCHANGED <<disk, tables, cache, home, raced, ids, edits, crashes>>

DeleteGone(j) ==
    /\ Runs(j, "gone")
    /\ deleteNode(job[j].file)
    /\ Ends(j)
    /\ UNCHANGED <<disk, cache, home, raced, ids, budget>>

\* Mutant: an entry is good for as long as it is there.
AnyEntry(p, f) == cache[p][f] # None
\* ParseCache.get
Cached(p, f) == cache[p][f] # None /\ disk[f] # None /\ cache[p][f].mtime = disk[f].mtime

\* readFile of the syntax index. (The cache holds 100 files; one that is not
\* found there any more is read like one that never was.)
ReadCached(j) ==
    /\ Runs(j, "parse")
    /\ Cached(home[j], job[j].file)
    /\ job' = [job EXCEPT ![j].at = "stat", ![j].doc = cache[home[j]][job[j].file].doc]
    /\ UNCHANGED <<disk, tables, cache, home, raced, ids, budget>>

ReadSource(j) ==
    /\ Runs(j, "parse")
    /\ disk[job[j].file] # None
    /\ job' = [job EXCEPT ![j].at = "cache", ![j].doc = disk[job[j].file]]
    /\ UNCHANGED <<disk, tables, cache, home, raced, ids, budget>>

\* (The cache forgets the file only if it is the cache that misses it first.)
ReadFails(j) ==
    /\ Runs(j, "parse")
    /\ disk[job[j].file] = None
    /\ cache' \in {cache, [cache EXCEPT ![home[j]][job[j].file] = None]}
    /\ Ends(j)
    /\ UNCHANGED <<disk, tables, home, raced, ids, budget>>

\* Mutant: a file that is gone by now is cached all the same.
FillCacheAnyway(j) ==
    /\ Runs(j, "cache")
    /\ LET f == job[j].file IN
       cache' = [cache EXCEPT ![home[j]][f] =
                    [mtime |-> IF disk[f] = None THEN 0 ELSE disk[f].mtime, doc |-> job[j].doc]]
    /\ Goes(j, "stat")
    /\ UNCHANGED <<disk, tables, home, raced, ids, budget>>

\* ParseCache.set, with the time stamp the file has by now. If the file is gone,
\* the handler calls a method the cache does not have, and the call throws.
FillCache(j) ==
    /\ Runs(j, "cache")
    /\ LET f == job[j].file IN
       IF disk[f] = None THEN Ends(j) /\ UNCHANGED cache
       ELSE /\ cache' = [cache EXCEPT ![home[j]][f] = [mtime |-> disk[f].mtime, doc |-> job[j].doc]]
            /\ Goes(j, "stat")
    /\ UNCHANGED <<disk, tables, home, raced, ids, budget>>

\* buildFileGraph: the time stamp, then the imports. (A file that is not there
\* is imported under the name it would have.)
Stat(j) ==
    /\ Runs(j, "stat")
    /\ LET f == job[j].file IN
       job' = [job EXCEPT ![j].at = "commit", ![j].mtime = IF disk[f] = None THEN 0 ELSE disk[f].mtime]
    /\ UNCHANGED <<disk, tables, cache, home, raced, ids, budget>>

Commit(j) ==
    /\ Runs(j, "commit")
    /\ WriteGraph(job[j].file, job[j].doc, job[j].mtime)
    /\ Goes(j, "refs")
    /\ UNCHANGED <<disk, cache, home, raced, budget>>

\* trackReferences: what the file uses of what its imports export, as the
\* tables have it now.
Track(j) ==
    /\ Runs(j, "refs")
    /\ LET f == job[j].file IN
       IF nodes[f] = None THEN Ends(j)
       ELSE job' = [job EXCEPT ![j].at = "insertRefs", ![j].id = nodes[f].id, ![j].caller = symbol[f],
                       ![j].refs = {[sym |-> symbol[g], from |-> f, to |-> g] : g \in {h \in job[j].doc.content.imports : symbol[h] # 0}}]
    /\ UNCHANGED <<disk, tables, cache, home, raced, ids, budget>>

\* Mutant: foreign keys are not checked, as in a database opened without the
\* pragma.
RefsUnchecked(j) == TRUE
\* A row that refers to one that is gone fails the transaction, and the call
\* gives up what is left of it.
RefsFit(j) == /\ \A r \in job[j].refs : HasSymbol(r.sym)
              /\ job[j].refs # {} => HasNode(job[j].file, job[j].id)

replaceRefsForNode(j) ==
    /\ Runs(j, "insertRefs")
    /\ RefsFit(j)
    /\ refs' = {r \in refs : r.from # job[j].file \/ ~HasNode(job[j].file, job[j].id)} \union job[j].refs
    /\ Goes(j, "calls")
    /\ UNCHANGED <<disk, nodes, edges, symbol, calls, cache, home, raced, ids, budget>>

\* buildCallGraph
BuildCalls(j) ==
    /\ Runs(j, "calls")
    /\ LET f == job[j].file c == job[j].caller IN
       job' = [job EXCEPT ![j].at = "insertCalls",
                  ![j].calls = {[caller |-> c, from |-> f, to |-> g, node |-> nodes[g].id, callee |-> symbol[g]] :
                                  g \in {h \in job[j].doc.content.imports : c # 0 /\ nodes[h] # None}}]
    /\ UNCHANGED <<disk, tables, cache, home, raced, ids, budget>>

CallsFit(j) == \A c \in job[j].calls : HasSymbol(c.caller) /\ HasNode(c.to, c.node) /\ (c.callee # 0 => HasSymbol(c.callee))

replaceCallsForNode(j) ==
    /\ Runs(j, "insertCalls")
    /\ CallsFit(j)
    /\ calls' = {c \in calls : c.caller # symbol[job[j].file] \/ ~HasNode(job[j].file, job[j].id)} \union job[j].calls
    /\ Ends(j)
    /\ UNCHANGED <<disk, nodes, edges, symbol, refs, cache, home, raced, ids, budget>>

TrackingFails(j) ==
    /\ \/ Runs(j, "insertRefs") /\ ~RefsFit(j)
       \/ Runs(j, "insertCalls") /\ ~CallsFit(j)
    /\ Ends(j)
    /\ UNCHANGED <<disk, tables, cache, home, raced, ids, budget>>
----------------------------------------------------------------------------
(* The editor writes or removes a file; every write has a time stamp of its   *)
(* own.                                                                       *)
InWindow(f) == \E j \in Jobs : job[j].file = f /\ job[j].at \in {"cache", "stat"}
Edit(f) ==
    /\ edits < MaxEdits
    /\ edits' = edits + 1
    /\ \/ \E c \in Contents[f] : disk' = [disk EXCEPT ![f] = [mtime |-> edits + 2, content |-> c]]
       \/ disk[f] # None /\ disk' = [disk EXCEPT ![f] = None]
    /\ raced' = [raced EXCEPT ![f] = InWindow(f)]
    /\ UNCHANGED <<tables, cache, home, job, ids, begun, crashes>>

\* A process ends, between two transactions, and another takes its place.
Restart(p) ==
    /\ crashes < MaxCrashes
    /\ crashes' = crashes + 1
    /\ \E j \in Jobs : home[j] = p /\ job[j] # Idle
    /\ job' = [j \in Jobs |-> IF home[j] = p THEN Idle ELSE job[j]]
    /\ cache' = [cache EXCEPT ![p] = [f \in Files |-> None]]
    /\ UNCHANGED <<disk, tables, home, raced, ids, begun, edits>>

Init ==
    /\ disk \in [Files -> [mtime : {1}, content : UNION {Contents[f] : f \in Files}] \union {None}]
    /\ \A f \in Files : disk[f] # None => disk[f].content \in Contents[f]
    /\ nodes = [f \in Files |-> None]
    /\ edges = {} /\ refs = {} /\ calls = {}
    /\ symbol = [f \in Files |-> 0]
    /\ cache = [p \in Procs |-> [f \in Files |-> None]]
    /\ home \in [Jobs -> Procs]
    /\ job = [j \in Jobs |-> Idle]
    /\ raced = [f \in Files |-> FALSE]
    /\ ids = 0 /\ begun = 0 /\ edits = 0 /\ crashes = 0

indexFile(j) ==
    \/ \E f \in Files : Start(j, f)
    \/ DeleteGone(j) \/ ReadCached(j) \/ ReadSource(j) \/ ReadFails(j) \/ FillCache(j) \/ Stat(j)
    \/ Commit(j) \/ Track(j) \/ replaceRefsForNode(j) \/ BuildCalls(j) \/ replaceCallsForNode(j) \/ TrackingFails(j)
Next == \/ \E j \in Jobs : indexFile(j)
        \/ \E f \in Files : Edit(f)
        \/ \E p \in Procs : Restart(p)
Spec == Init /\ [][Next]_vars
----------------------------------------------------------------------------
TypeOK ==
    /\ disk \in [Files -> Doc \union {None}]
    /\ nodes \in [Files -> Node \union {None}]
    /\ edges \subseteq Edge /\ refs \subseteq Ref /\ calls \subseteq Call
    /\ symbol \in [Files -> Nat]
    /\ cache \in [Procs -> [Files -> [mtime : Nat \ {0}, doc : Doc] \union {None}]]
    /\ home \in [Jobs -> Procs]
    /\ job \in [Jobs -> Job]
    /\ raced \in [Files -> BOOLEAN]
    /\ ids \in Nat /\ begun \in 0 .. MaxCalls /\ edits \in 0 .. MaxEdits /\ crashes \in 0 .. MaxCrashes

\* A file that indexFile answers "unchanged" for is in the graph as it is on
\* disk: overlapping calls, caches of several processes and removed nodes do
\* not get in the way; only a write between the read of a file and the time
\* stamp taken for it does (buildFileGraph, line 640).
UnchangedMeansCurrent ==
    \A f \in Files :
        (nodes[f] # None /\ disk[f] # None /\ nodes[f].mtime = disk[f].mtime /\ ~raced[f]) => nodes[f].doc = disk[f]

\* Whatever processes index at the same time, an import stays in the graph for
\* as long as both its files do and the importing one is not written again:
\* to index a file takes nothing from the files that import it.
ImportsKept ==
    [][\A e \in edges \ edges' :
        \/ nodes'[e.from] = None \/ nodes'[e.to] = None
        \/ \E j \in Jobs : job[j].at = "commit" /\ job'[j].at = "refs" /\ job[j].file = e.from]_vars

\* A reference or a call found while other processes index, remove and fail
\* never names a symbol that is gone or that another file was given since.
RowsResolve ==
    /\ \A e \in edges : nodes[e.from] # None /\ nodes[e.to] # None
    /\ \A r \in refs : r.sym = symbol[r.to] /\ nodes[r.from] # None
    /\ \A c \in calls : c.caller = symbol[c.from] /\ HasNode(c.to, c.node) /\ c.callee \in {0, symbol[c.to]}
============================================================================
