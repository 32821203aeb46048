-------------------------- MODULE Sessions_proofs --------------------------
(***************************************************************************)
(* Proofs about Sessions: that a kill marks only the dead; where a session *)
(* is attached to again only once its last server is dead, that an         *)
(* abandoned session is gone and that a work item is owned by the session  *)
(* that is bound to it; and where nobody bootstraps, that a settled work   *)
(* item has no owner.  The argument is about what a command has left to    *)
(* do: what its later steps rely on an earlier step has brought about, and *)
(* what is amiss a later step puts right.                                  *)
(***************************************************************************)
EXTENDS Sessions, TLAPS

StepNames ==
  {"activate", "own", "reopen", "abandon", "disown", "delete", "remove", "done",
   "close", "terminate", "escalate", "confirm", "orphan", "thenAbandon"}
Hunts == {"terminate", "escalate", "confirm", "orphan"}

(* A list of steps holds x; and no y in it but after an x.                 *)
Has(s, x) == \E k \in 1..Len(s) : s[k] = x
Before(s, x, y) == \A k \in 1..Len(s) : s[k] = y => \E j \in 1..(k-1) : s[j] = x

LEMMA HeadLeft ==
  ASSUME NEW s \in Seq(StepNames), s # <<>>, NEW x, NEW y
  PROVE  /\ Has(s, Head(s))
         /\ Tail(s) \in Seq(StepNames)
         /\ Has(Tail(s), x) => Has(s, x)
         /\ Before(s, x, y) /\ Head(s) # x => Before(Tail(s), x, y)
         /\ Before(s, x, y) => Head(s) # y
  <1>1. /\ Len(s) \in Nat \ {0} /\ Len(Tail(s)) = Len(s) - 1 /\ Head(s) = s[1]
        /\ Tail(s) \in Seq(StepNames)
        /\ \A k \in 1..(Len(s) - 1) : Tail(s)[k] = s[k + 1]
    OBVIOUS
  <1>2. Has(s, Head(s))
    BY <1>1 DEF Has
  <1>3. Has(Tail(s), x) => Has(s, x)
    <2> SUFFICES ASSUME NEW k \in 1..Len(Tail(s)), Tail(s)[k] = x
                 PROVE  \E n \in 1..Len(s) : s[n] = x
      BY DEF Has
    <2> k + 1 \in 1..Len(s) /\ s[k + 1] = x
      BY <1>1
    <2> QED OBVIOUS
  <1>4. Before(s, x, y) /\ Head(s) # x => Before(Tail(s), x, y)
    <2> SUFFICES ASSUME Before(s, x, y), Head(s) # x,
                        NEW k \in 1..Len(Tail(s)), Tail(s)[k] = y
                 PROVE  \E n \in 1..(k-1) : Tail(s)[n] = x
      BY DEF Before
    <2>1. k + 1 \in 1..Len(s) /\ s[k + 1] = y
      BY <1>1
    <2>2. PICK j \in 1..k : s[j] = x
      BY <1>1, <2>1 DEF Before
    <2>3. j - 1 \in 1..(k - 1) /\ Tail(s)[j - 1] = x
      BY <1>1, <2>2
    <2>4. QED
      BY <2>3
  <1>5. Before(s, x, y) => Head(s) # y
    BY <1>1 DEF Before
  <1>6. QED
    BY <1>1, <1>2, <1>3, <1>4, <1>5

(* Lists in an order that fits; and those that neither hunt a server nor   *)
(* give a work item an owner.                                              *)
Fit(s) ==
  s \in Seq(StepNames) /\ Before(s, "confirm", "orphan") /\ Before(s, "delete", "remove")
Tame(s) == \A x \in Hunts : ~Has(s, x)

LEMMA JoinFits ==
  ASSUME NEW s, NEW t, Fit(s), Fit(t)
  PROVE  /\ Fit(s \o t)
         /\ \A x : Has(s \o t, x) => Has(s, x) \/ Has(t, x)
  <1> DEFINE m == Len(s)
             n == Len(t)
  <1>1. /\ s \in Seq(StepNames) /\ t \in Seq(StepNames)
        /\ s \o t \in Seq(StepNames) /\ Len(s \o t) = m + n /\ m \in Nat /\ n \in Nat
        /\ \A k \in 1..m : (s \o t)[k] = s[k]
        /\ \A k \in 1..n : (s \o t)[m + k] = t[k]
    BY DEF Fit
  <1>2. \A k \in 1..(m + n) : k \in 1..m \/ (k - m \in 1..n /\ k = m + (k - m))
    BY <1>1
  <1>3. ASSUME NEW x, NEW y, Before(s, x, y), Before(t, x, y)
        PROVE  Before(s \o t, x, y)
    <2> SUFFICES ASSUME NEW k \in 1..(m + n), (s \o t)[k] = y
                 PROVE  \E j \in 1..(k-1) : (s \o t)[j] = x
      BY <1>1 DEF Before
    <2>1. CASE k \in 1..m
      <3>1. PICK j \in 1..(k-1) : s[j] = x
        BY <1>1, <1>3, <2>1 DEF Before
      <3>2. j \in 1..m
        BY <1>1, <2>1
      <3>3. QED
        BY <1>1, <3>1, <3>2
    <2>2. CASE k - m \in 1..n /\ k = m + (k - m)
      <3>1. t[k - m] = y
        BY <1>1, <2>2
      <3>2. PICK j \in 1..(k - m - 1) : t[j] = x
        BY <1>3, <2>2, <3>1 DEF Before
      <3>3. j \in 1..n /\ m + j \in 1..(k - 1)
        BY <1>1, <2>2
      <3>4. QED
        BY <1>1, <3>2, <3>3
    <2>3. QED
      BY <1>2, <2>1, <2>2
  <1>4. \A x : Has(s \o t, x) => Has(s, x) \/ Has(t, x)
    <2> SUFFICES ASSUME NEW x, NEW k \in 1..(m + n), (s \o t)[k] = x
                 PROVE  Has(s, x) \/ Has(t, x)
      BY <1>1 DEF Has
    <2>1. CASE k \in 1..m
      BY <1>1, <2>1 DEF Has
    <2>2. CASE k - m \in 1..n /\ k = m + (k - m)
      BY <1>1, <2>2 DEF Has
    <2>3. QED
      BY <1>2, <2>1, <2>2
  <1>5. QED
    BY <1>1, <1>3, <1>4 DEF Fit

LEMMA ListsFit ==
  /\ \A s \in {<<>>, <<"activate">>, <<"own", "reopen">>, <<"delete", "remove">>,
              <<"abandon", "disown">>, <<"done", "disown", "close">>, <<"disown">>,
              <<"thenAbandon">>} : Fit(s) /\ Tame(s)
  /\ \A s \in {<<>>, <<"activate">>, <<"delete", "remove">>, <<"abandon", "disown">>,
              <<"done", "disown", "close">>, <<"disown">>, <<"thenAbandon">>,
              <<"terminate", "escalate", "confirm", "orphan">>} :
       Fit(s) /\ ~Has(s, "own")
  <1> USE DEF Fit, Tame, Has, Before, Hunts, StepNames
  <1>1. Fit(<<>>) /\ Tame(<<>>) /\ ~Has(<<>>, "own")
    OBVIOUS
  <1>2. Fit(<<"activate">>) /\ Tame(<<"activate">>) /\ ~Has(<<"activate">>, "own")
    OBVIOUS
  <1>3. Fit(<<"own", "reopen">>) /\ Tame(<<"own", "reopen">>)
    OBVIOUS
  <1>4. Fit(<<"delete", "remove">>) /\ Tame(<<"delete", "remove">>) /\ ~Has(<<"delete", "remove">>, "own")
    OBVIOUS
  <1>5. Fit(<<"abandon", "disown">>) /\ Tame(<<"abandon", "disown">>) /\ ~Has(<<"abandon", "disown">>, "own")
    OBVIOUS
  <1>6. /\ Fit(<<"done", "disown", "close">>) /\ Tame(<<"done", "disown", "close">>)
        /\ ~Has(<<"done", "disown", "close">>, "own")
    OBVIOUS
  <1>7. Fit(<<"disown">>) /\ Tame(<<"disown">>) /\ ~Has(<<"disown">>, "own")
    OBVIOUS
  <1>8. Fit(<<"thenAbandon">>) /\ Tame(<<"thenAbandon">>) /\ ~Has(<<"thenAbandon">>, "own")
    <2> DEFINE s == <<"thenAbandon">>
    <2>1. s \in Seq(StepNames) /\ Len(s) = 1 /\ s[1] = "thenAbandon" /\ 1..1 = {1}
      OBVIOUS
    <2> HIDE DEF s, StepNames
    <2>2. QED
      BY <2>1 DEF s
  <1>9. /\ Fit(<<"terminate", "escalate", "confirm", "orphan">>)
        /\ ~Has(<<"terminate", "escalate", "confirm", "orphan">>, "own")
    <2> DEFINE s == <<"terminate", "escalate", "confirm", "orphan">>
    <2>1. /\ s \in Seq(StepNames) /\ Len(s) = 4
          /\ s[1] = "terminate" /\ s[2] = "escalate" /\ s[3] = "confirm" /\ s[4] = "orphan"
      OBVIOUS
    <2>2. 1..4 = {1, 2, 3, 4}
      OBVIOUS
    <2> HIDE DEF s, StepNames
    <2>3. Before(s, "confirm", "orphan") /\ Before(s, "delete", "remove")
      <3>1. 3 \in 1..(4 - 1)
        OBVIOUS
      <3>2. QED
        BY <2>1, <2>2, <3>1
    <2>4. ~Has(s, "own")
      BY <2>1, <2>2
    <2>5. QED
      BY <2>1, <2>3, <2>4 DEF s
  <1> HIDE DEF Fit, Tame, Has
  <1>10. QED
    BY <1>1, <1>2, <1>3, <1>4, <1>5, <1>6, <1>7, <1>8, <1>9

(* What a command has to do when it is entered, and when kill goes on to   *)
(* abandon.                                                                *)
LEMMA StepsFit ==
  ASSUME NEW i \in Items \cup {None}
  PROVE  /\ \A s \in {ResumeSteps(i), AbandonSteps(i), FinishSteps} : Fit(s) /\ Tame(s)
         /\ \A s \in {AbandonSteps(i), FinishSteps, KillSteps(i) \o <<>>,
                     KillSteps(i) \o <<"thenAbandon">>} : Fit(s) /\ ~Has(s, "own")
         /\ Has(ResumeSteps(i), "own") => i \in Items
  <1>1. IfBound(i, <<"own", "reopen">>) \in {<<>>, <<"own", "reopen">>}
    BY DEF IfBound
  <1>2. IfBound(i, <<"abandon", "disown">>) \in {<<>>, <<"abandon", "disown">>}
    BY DEF IfBound
  <1>3. IfBound(i, <<"disown">>) \in {<<>>, <<"disown">>}
    BY DEF IfBound
  <1>4. Fit(ResumeSteps(i)) /\ Tame(ResumeSteps(i)) /\ (Has(ResumeSteps(i), "own") => i \in Items)
    <2>1. i = None => ~Has(IfBound(i, <<"own", "reopen">>), "own")
      BY ListsFit DEF IfBound
    <2>2. QED
      BY <1>1, <2>1, ListsFit, JoinFits DEF ResumeSteps, Tame
  <1>5. Fit(AbandonSteps(i)) /\ Tame(AbandonSteps(i)) /\ ~Has(AbandonSteps(i), "own")
    BY <1>2, ListsFit, JoinFits DEF AbandonSteps, Tame
  <1>6. Fit(FinishSteps) /\ Tame(FinishSteps) /\ ~Has(FinishSteps, "own")
    BY ListsFit DEF FinishSteps
  <1>7. Fit(KillSteps(i)) /\ ~Has(KillSteps(i), "own")
    BY <1>3, ListsFit, JoinFits DEF KillSteps
  <1>8. \A t \in {<<>>, <<"thenAbandon">>} : Fit(KillSteps(i) \o t) /\ ~Has(KillSteps(i) \o t, "own")
    BY <1>7, ListsFit, JoinFits
  <1>9. QED
    BY <1>4, <1>5, <1>6, <1>8

-----------------------------------------------------------------------------
Places == {"idle", "publish", "publishThenBind", "bind", "rename", "look", "point", "write"}

(* Types, and who is who: a server in a call is alive and has a work item  *)
(* to work on, a command in progress has a session, and a hunt a server.   *)
AgentsTyped ==
  /\ pc \in [Servers -> Places]
  /\ \A v \in Servers : /\ pc[v] # "idle" => target[v] \in Items /\ server[v] \in Live
                        /\ server[v] # "unborn" => home[v] \in Sessions
ShellsTyped ==
  /\ todo \in [Terminals -> Seq(StepNames)]
  /\ \A t \in Terminals :
       /\ todo[t] # <<>> => subject[t] \in Sessions
       /\ \A x \in Hunts : Has(todo[t], x) => quarry[t] \in Servers
Typed ==
  TypeOK /\ AgentsTyped /\ ShellsTyped /\ reaped \subseteq Servers /\ gone \subseteq Sessions

LEMMA OwnerUpdate ==
  ASSUME NEW index \in [Items -> Item], NEW i, NEW s \in Sessions \cup {None}
  PROVE  /\ Owned(index, i, s) \in [Items -> Item]
         /\ \A j \in Items :
              /\ Owned(index, i, s)[j].owner \in {index[j].owner, s}
              /\ j # i => Owned(index, i, s)[j].owner = index[j].owner
  BY DEF Owned, Item

LEMMA StatusUpdate ==
  ASSUME NEW index \in [Items -> Item], NEW i,
         NEW status \in {"absent", "in_progress", "done", "abandoned"}
  PROVE  /\ WithStatus(index, i, status) \in [Items -> Item]
         /\ \A j \in Items : WithStatus(index, i, status)[j].owner = index[j].owner
  BY DEF WithStatus, Item

LEMMA Blank == NoSnapshot \in [Items -> Item] /\ \A i \in Items : NoSnapshot[i].owner = None
  BY DEF NoSnapshot, NoItem, Item

(* What taking a step off the list leaves.                                 *)
LEMMA DoneLeaves ==
  ASSUME ShellsTyped, NEW t \in Terminals, NEW x, Doing(t, x), Done(t)
  PROVE  /\ todo' \in [Terminals -> Seq(StepNames)]
         /\ todo[t] # <<>> /\ Has(todo[t], x)
         /\ \A u \in Terminals : todo'[u] # <<>> => todo[u] # <<>>
         /\ \A u \in Terminals : \A y : Has(todo'[u], y) => Has(todo[u], y)
         /\ \A u \in Terminals : \A y, z :
              Before(todo[u], y, z) /\ (u = t => x # y) => Before(todo'[u], y, z)
         /\ \A y : ~Before(todo[t], y, x)
  <1>1. todo[t] \in Seq(StepNames) /\ todo[t] # <<>> /\ Head(todo[t]) = x
    BY DEF ShellsTyped, Doing
  <1>2. \A u \in Terminals : todo'[u] = IF u = t THEN Tail(todo[t]) ELSE todo[u]
    BY DEF ShellsTyped, Done
  <1>3. /\ Tail(todo[t]) \in Seq(StepNames) /\ Has(todo[t], x)
        /\ \A y : Has(Tail(todo[t]), y) => Has(todo[t], y)
        /\ \A y, z : Before(todo[t], y, z) /\ x # y => Before(Tail(todo[t]), y, z)
        /\ \A y : ~Before(todo[t], y, x)
    BY <1>1, HeadLeft
  <1>4. todo' \in [Terminals -> Seq(StepNames)]
    BY <1>3 DEF ShellsTyped, Done
  <1>5. QED
    BY <1>1, <1>2, <1>3, <1>4

(* A step of a command that leaves the command its subject.                *)
LEMMA DoneTyped ==
  ASSUME ShellsTyped, NEW t \in Terminals, NEW x, Doing(t, x), Done(t),
         UNCHANGED <<subject, quarry>>
  PROVE  /\ ShellsTyped' /\ subject[t] \in Sessions
         /\ x \in Hunts => quarry[t] \in Servers
  <1>1. QED
    BY DoneLeaves DEF ShellsTyped

LEMMA InitTyped == Init => Typed
  <1> SUFFICES ASSUME Init PROVE Typed
    OBVIOUS
  <1> USE DEF Init
  <1>1. Settled => OwnItem \in [Sessions -> Items] /\ OwnServer \in [Sessions -> Servers]
    <2>1. ASSUME Settled PROVE OwnItem \in [Sessions -> Items]
      BY <2>1, ConstantsAssumption DEF OwnItem, Injective
    <2>2. ASSUME Settled PROVE OwnServer \in [Sessions -> Servers]
      BY <2>2, ConstantsAssumption DEF OwnServer, Injective
    <2>3. QED BY <2>1, <2>2
  <1>2. meta \in [Sessions -> Items \cup {Unbound, NoFile}] /\ beat \in [Sessions -> Servers \cup {None}]
    BY <1>1
  <1>3. items \in [Items -> Item]
    BY DEF NoItem, Item
  <1>4. home \in [Servers -> Sessions \cup {None}]
    OBVIOUS
  <1>5. server \in [Servers -> {"unborn", "running", "shut", "dead"}]
        /\ \A v \in Servers : server[v] # "unborn" => home[v] \in Sessions
    BY <1>4
  <1>6. ShellsTyped
    <2>1. <<>> \in Seq(StepNames) /\ \A x : ~Has(<<>>, x)
      BY DEF Has
    <2>2. QED
      BY <2>1 DEF ShellsTyped
  <1>7. QED
    BY <1>2, <1>3, <1>4, <1>5, <1>6, Blank DEF Typed, TypeOK, AgentsTyped, Places

(* The steps of the launcher and of the servers.                           *)
LEMMA ServersTyped ==
  ASSUME Typed,
         \/ \E s \in Sessions : LaunchMeta(s) \/ LaunchEntry(s)
         \/ \E v \in Servers : ServerStep(v)
  PROVE  Typed'
  <1> USE DEF Typed
  <1>1. ASSUME NEW s \in Sessions, LaunchMeta(s) \/ LaunchEntry(s) PROVE Typed'
    <2>1. TypeOK'
      BY <1>1 DEF LaunchMeta, LaunchEntry, TypeOK, agents, shells
    <2>2. QED
      BY <1>1, <2>1 DEF LaunchMeta, LaunchEntry, AgentsTyped, ShellsTyped, agents, shells
  <1> SUFFICES ASSUME NEW v \in Servers, ServerStep(v) PROVE Typed'
    BY <1>1
  <1> DEFINE Rest == ShellsTyped' /\ reaped' \subseteq Servers /\ gone' \subseteq Sessions
  <1>2. ASSUME NEW s \in Sessions, StartServer(v, s) PROVE Typed'
    <2>1. TypeOK'
      BY <1>2 DEF StartServer, TypeOK, shells
    <2>2. AgentsTyped' /\ Rest
      BY <1>2 DEF StartServer, AgentsTyped, ShellsTyped, shells, Live, TypeOK
    <2>3. QED BY <2>1, <2>2
  <1>3. ASSUME Heartbeat(v) \/ Interrupt(v) PROVE Typed'
    <2>1. TypeOK'
      BY <1>3 DEF Heartbeat, Interrupt, TypeOK, agents, shells, files, counters
    <2>2. AgentsTyped' /\ Rest
      BY <1>3 DEF Heartbeat, Interrupt, AgentsTyped, ShellsTyped, agents, shells, files
    <2>3. QED BY <2>1, <2>2
  <1>4. ASSUME Shutdown(v) PROVE Typed'
    <2>1. TypeOK'
      BY <1>4 DEF Shutdown, UpdateEntry, TypeOK, shells
    <2>2. AgentsTyped' /\ Rest
      BY <1>4 DEF Shutdown, AgentsTyped, ShellsTyped, shells, Live, TypeOK
    <2>3. QED BY <2>1, <2>2
  <1>5. ASSUME Die(v) PROVE Typed'
    <2>1. TypeOK'
      BY <1>5, Blank DEF Die, TypeOK, shells, files
    <2>2. AgentsTyped' /\ Rest
      BY <1>5 DEF Die, AgentsTyped, ShellsTyped, shells, Live, TypeOK, Places
    <2>3. QED BY <2>1, <2>2
  <1>6. ASSUME NEW i \in Items, Bootstrap(v, i) \/ MutateRead(v, i) PROVE Typed'
    <2>1. UNCHANGED <<files, passed, server, home, signalled, doomed, shells, reaped, gone>>
      BY <1>6 DEF Bootstrap, MutateRead, idleRest
    <2>2. /\ snapshot' = [snapshot EXCEPT ![v] = items] /\ target' = [target EXCEPT ![v] = i]
          /\ server[v] = "running"
      BY <1>6 DEF Bootstrap, MutateRead, ReadIndex
    <2>3. \E step \in Places : pc' = [pc EXCEPT ![v] = step]
      BY <1>6 DEF Bootstrap, MutateRead, GoTo, Places
    <2>4. TypeOK'
      BY <2>1, <2>2 DEF TypeOK, shells, files
    <2>5. AgentsTyped' /\ Rest
      BY <2>1, <2>2, <2>3 DEF AgentsTyped, ShellsTyped, shells, Live, TypeOK
    <2>6. QED BY <2>4, <2>5
  <1>7. ASSUME PublishItem(v) \/ MutateWrite(v) PROVE Typed'
    <2>1. \A status \in {"in_progress", "done"} :
            [snapshot[v] EXCEPT ![target[v]] = [status |-> status, owner |-> None]] \in [Items -> Item]
      BY DEF TypeOK, Item
    <2>2. items' \in [Items -> Item] /\ snapshot' \in [Servers -> [Items -> Item]]
      <3>1. \E status \in {"in_progress", "done"} :
              items' = [snapshot[v] EXCEPT ![target[v]] = [status |-> status, owner |-> None]]
        BY <1>7 DEF PublishItem, MutateWrite
      <3>2. snapshot' = [snapshot EXCEPT ![v] = NoSnapshot]
        BY <1>7 DEF PublishItem, MutateWrite, DropIndex
      <3>3. QED
        BY <2>1, <3>1, <3>2, Blank DEF TypeOK
    <2>3. passed' \subseteq Items
      <3>1. target[v] \in Items
        BY <1>7 DEF PublishItem, MutateWrite, AgentsTyped
      <3>2. passed' = passed \/ passed' = passed \cup {target[v]}
        BY <1>7 DEF PublishItem, MutateWrite, idleRest
      <3>3. QED
        BY <3>1, <3>2 DEF TypeOK
    <2>4. /\ UNCHANGED <<meta, entry, beat, server, home, target, signalled, doomed, shells, reaped, gone>>
          /\ server[v] \in Live
      BY <1>7 DEF PublishItem, MutateWrite, idleRest
    <2>5. TypeOK'
      BY <2>2, <2>3, <2>4 DEF TypeOK, shells
    <2>6. \E step \in {"idle", "bind"} : pc' = [pc EXCEPT ![v] = step] /\ pc[v] # "idle"
      BY <1>7 DEF PublishItem, MutateWrite, GoTo
    <2>7. AgentsTyped' /\ Rest
      BY <2>4, <2>6 DEF AgentsTyped, ShellsTyped, shells, Places
    <2>8. QED BY <2>5, <2>7
  <1>8. ASSUME BindCheck(v) \/ BindRename(v) PROVE Typed'
    <2>1. target[v] \in Items /\ home[v] \in Sessions
      BY <1>8 DEF BindCheck, BindRename, AgentsTyped, Live
    <2>2. TypeOK'
      BY <1>8, <2>1 DEF BindCheck, BindRename, idleRest, TypeOK, shells, files
    <2>3. AgentsTyped' /\ Rest
      BY <1>8 DEF BindCheck, BindRename, GoTo, idleRest, AgentsTyped, ShellsTyped, shells, Places
    <2>4. QED BY <2>2, <2>3
  <1>9. ASSUME PointRead(v) \/ PointWrite(v) PROVE Typed'
    <2>1. home[v] \in Sessions
      BY <1>9 DEF PointRead, PointWrite, AgentsTyped, Live
    <2>2. Owned(snapshot[v], target[v], home[v]) \in [Items -> Item]
      BY <2>1, OwnerUpdate DEF TypeOK
    <2>3. TypeOK'
      BY <1>9, <2>2, Blank DEF PointRead, PointWrite, ReadIndex, DropIndex, idleRest, TypeOK,
                               shells, files
    <2>4. AgentsTyped' /\ Rest
      BY <1>9 DEF PointRead, PointWrite, GoTo, idleRest, AgentsTyped, ShellsTyped, shells, Places
    <2>5. QED BY <2>3, <2>4
  <1>10. QED
    BY <1>2, <1>3, <1>4, <1>5, <1>6, <1>7, <1>8, <1>9 DEF ServerStep

(* The steps of the commands.                                              *)
LEMMA ShellsStepTyped ==
  ASSUME Typed, NEW t \in Terminals,
         \/ \E s \in Sessions : Resume(t, s) \/ Abandon(t, s) \/ Finish(t, s) \/ Kill(t, s)
         \/ Progress(t) \/ Interrupted(t)
  PROVE  Typed'
  <1> USE DEF Typed
  <1>1. ASSUME NEW s \in Sessions, NEW steps, NEW v \in Servers \cup {None}, Enter(t, s, steps, v),
               Fit(steps), v \in Servers \/ Tame(steps)
        PROVE  Typed'
    <2>1. BoundItem(s) \in Items \cup {None}
      BY DEF BoundItem
    <2>2. TypeOK'
      BY <1>1, <2>1 DEF Enter, TypeOK, files, agents
    <2>3. ShellsTyped'
      BY <1>1 DEF Enter, ShellsTyped, Fit, Tame, TypeOK
    <2>4. QED
      BY <1>1, <2>2, <2>3 DEF Enter, AgentsTyped, files, agents
  <1>2. ASSUME NEW s \in Sessions, Resume(t, s) \/ Abandon(t, s) \/ Finish(t, s) \/ Kill(t, s)
        PROVE  Typed'
    <2>1. BoundItem(s) \in Items \cup {None}
      BY DEF BoundItem
    <2>2. CASE Resume(t, s) \/ Abandon(t, s) \/ Finish(t, s)
      BY <1>1, <2>1, <2>2, StepsFit DEF Resume, Abandon, Finish
    <2>3. CASE Kill(t, s)
      <3>1. beat[s] \in Servers
        BY <2>3 DEF Kill, TypeOK
      <3>2. PICK tail \in {<<>>, <<"thenAbandon">>} :
              Enter(t, s, KillSteps(BoundItem(s)) \o tail, beat[s])
        BY <2>3 DEF Kill
      <3>3. Fit(KillSteps(BoundItem(s)) \o tail)
        BY <2>1, StepsFit
      <3>4. QED
        BY <1>1, <3>1, <3>2, <3>3
    <2>4. QED BY <1>2, <2>2, <2>3
  <1>3. CASE Activate(t) \/ Close(t)
    BY <1>3, DoneTyped DEF Activate, Close, UpdateEntry, TypeOK, AgentsTyped, agents, shellRest, counters
  <1>4. CASE Own(t) \/ Disown(t)
    <2>1. ShellsTyped' /\ subject[t] \in Sessions
      BY <1>4, DoneTyped DEF Own, Disown, shellRest
    <2>2. items' \in [Items -> Item]
      BY <1>4, <2>1, OwnerUpdate DEF Own, Disown, TypeOK
    <2>3. QED
      BY <1>4, <2>1, <2>2 DEF Own, Disown, TypeOK, AgentsTyped, agents, shellRest
  <1>5. CASE Reopen(t) \/ MarkDone(t) \/ MarkAbandoned(t)
    <2>1. ShellsTyped'
      BY <1>5, DoneTyped DEF Reopen, MarkDone, MarkAbandoned, shellRest
    <2>2. items' \in [Items -> Item]
      <3>1. \E status \in {"in_progress", "done", "abandoned"} : items' = WithStatus(items, object[t], status)
        BY <1>5 DEF Reopen, MarkDone, MarkAbandoned
      <3>2. QED
        BY <3>1, StatusUpdate DEF TypeOK
    <2>3. QED
      BY <1>5, <2>1, <2>2 DEF Reopen, MarkDone, MarkAbandoned, TypeOK, AgentsTyped, agents, shellRest
  <1>6. CASE DeleteDir(t) \/ RemoveEntry(t)
    <2>1. ShellsTyped' /\ subject[t] \in Sessions
      BY <1>6, DoneTyped DEF DeleteDir, RemoveEntry, shellRest
    <2>2. QED
      BY <1>6, <2>1 DEF DeleteDir, RemoveEntry, TypeOK, AgentsTyped, agents, shellRest
  <1>7. CASE Terminate(t) \/ Escalate(t)
    <2>1. ShellsTyped' /\ quarry[t] \in Servers
      BY <1>7, DoneTyped DEF Terminate, Escalate, shellRest, Hunts
    <2>2. QED
      BY <1>7, <2>1 DEF Terminate, Escalate, TypeOK, AgentsTyped, files, shellRest
  <1>8. CASE Confirm(t) \/ MarkOrphan(t)
    <2>1. ShellsTyped' /\ quarry[t] \in Servers
      BY <1>8, DoneTyped DEF Confirm, MarkOrphan, shellRest, Hunts
    <2>2. /\ UNCHANGED <<meta, beat, items, passed, agents, gone, subject, object, quarry>>
          /\ entry' = entry \/ entry' = [entry EXCEPT ![subject[t]] = IF @ = "absent" THEN @ ELSE "orphan"]
          /\ reaped' \subseteq reaped \cup {quarry[t]}
      BY <1>8 DEF Confirm, MarkOrphan, UpdateEntry, files, shellRest
    <2>3. QED
      BY <2>1, <2>2 DEF TypeOK, AgentsTyped, agents
  <1>9. <<>> \in Seq(StepNames) /\ \A x : ~Has(<<>>, x)
    BY DEF Has
  <1>10. CASE GiveUp(t) \/ Interrupted(t)
    <2>1. ShellsTyped'
      BY <1>9, <1>10 DEF GiveUp, Interrupted, ShellsTyped, shellRest
    <2>2. QED
      BY <1>10, <2>1 DEF GiveUp, Interrupted, TypeOK, AgentsTyped, files, agents, shellRest
  <1>11. CASE ThenAbandon(t)
    <2>1. BoundItem(subject[t]) \in Items \cup {None}
      BY DEF BoundItem
    <2>2. /\ todo[t] # <<>> /\ UNCHANGED <<files, passed, agents, reaped, gone, subject, quarry>>
          /\ \E steps : Fit(steps) /\ Tame(steps) /\ todo' = [todo EXCEPT ![t] = steps]
          /\ object' = [object EXCEPT ![t] = BoundItem(subject[t])]
      <3>1. Fit(<<>>) /\ Tame(<<>>)
        BY ListsFit
      <3>2. Fit(AbandonSteps(BoundItem(subject[t]))) /\ Tame(AbandonSteps(BoundItem(subject[t])))
        BY <2>1, StepsFit
      <3>3. QED
        BY <1>11, <3>1, <3>2 DEF ThenAbandon, Doing
    <2>3. ShellsTyped'
      BY <2>2 DEF ShellsTyped, Fit, Tame
    <2>4. QED
      BY <2>1, <2>2, <2>3 DEF TypeOK, AgentsTyped, files, agents
  <1>12. QED
    BY <1>2, <1>3, <1>4, <1>5, <1>6, <1>7, <1>8, <1>10, <1>11 DEF Progress

LEMMA NextTyped == Typed /\ [Next]_vars => Typed'
  <1>1. Typed /\ UNCHANGED vars => Typed'
    BY DEF Typed, TypeOK, AgentsTyped, ShellsTyped, vars, files, agents, shells
  <1>2. QED
    BY <1>1, ServersTyped, ShellsStepTyped DEF Next

(* TypeOK, for any number of sessions, servers and terminals.              *)
THEOREM SessionsTyped == Spec => []TypeOK
  <1>1. Typed => TypeOK
    BY DEF Typed
  <1>2. QED
    BY <1>1, InitTyped, NextTyped, PTL DEF Spec

-----------------------------------------------------------------------------
(* A kill that is about to mark its session has seen the server dead.      *)
Seen ==
  \A t \in Terminals :
    Has(todo[t], "orphan") => \/ Before(todo[t], "confirm", "orphan")
                             \/ server[quarry[t]] = "dead"
RInv == Typed /\ Seen /\ ReapedAreDead

(* Outside the commands, nothing is done to what they have left to do.     *)
LEMMA ServersQuiet ==
  ASSUME Typed,
         \/ \E s \in Sessions : LaunchMeta(s) \/ LaunchEntry(s)
         \/ \E v \in Servers : ServerStep(v)
  PROVE  /\ UNCHANGED <<shells, reaped, gone>>
         /\ \A w \in Servers : server[w] = "dead" => server'[w] = "dead"
  <1>1. ASSUME NEW s \in Sessions, LaunchMeta(s) \/ LaunchEntry(s)
        PROVE  UNCHANGED <<shells, reaped, gone, server>>
    BY <1>1 DEF LaunchMeta, LaunchEntry, agents
  <1>2. ASSUME NEW v \in Servers, NEW s \in Sessions, StartServer(v, s) \/ Shutdown(v) \/ Die(v)
        PROVE  /\ UNCHANGED <<shells, reaped, gone>>
               /\ \A w \in Servers : server[w] = "dead" => server'[w] = "dead"
    BY <1>2 DEF StartServer, Shutdown, Die, Live, Typed, TypeOK
  <1>3. ASSUME NEW v \in Servers, Shutdown(v) \/ Die(v)
        PROVE  /\ UNCHANGED <<shells, reaped, gone>>
               /\ \A w \in Servers : server[w] = "dead" => server'[w] = "dead"
    BY <1>3 DEF Shutdown, Die, Live, Typed, TypeOK
  <1>4. ASSUME NEW v \in Servers, Heartbeat(v) \/ Interrupt(v)
        PROVE  UNCHANGED <<shells, reaped, gone, server>>
    BY <1>4 DEF Heartbeat, Interrupt, agents
  <1>5. ASSUME NEW v \in Servers, NEW i \in Items, Bootstrap(v, i) \/ MutateRead(v, i)
        PROVE  UNCHANGED <<shells, reaped, gone, server>>
    BY <1>5 DEF Bootstrap, MutateRead, idleRest
  <1>6. ASSUME NEW v \in Servers, \/ PublishItem(v) \/ BindCheck(v) \/ BindRename(v)
                                  \/ PointRead(v) \/ PointWrite(v) \/ MutateWrite(v)
        PROVE  UNCHANGED <<shells, reaped, gone, server>>
    BY <1>6 DEF PublishItem, BindCheck, BindRename, PointRead, PointWrite, MutateWrite, idleRest
  <1>7. QED
    BY <1>1, <1>2, <1>3, <1>4, <1>5, <1>6 DEF ServerStep

LEMMA NextReaped ==
  ASSUME RInv, [Next]_vars PROVE Seen' /\ ReapedAreDead'
  <1> USE DEF RInv
  <1>1. CASE UNCHANGED vars
    BY <1>1 DEF vars, agents, shells, Seen, ReapedAreDead
  <1>2. CASE \/ \E s \in Sessions : LaunchMeta(s) \/ LaunchEntry(s)
             \/ \E v \in Servers : ServerStep(v)
    <2>1. UNCHANGED <<shells, reaped>> /\ \A w \in Servers : server[w] = "dead" => server'[w] = "dead"
      BY <1>2, ServersQuiet
    <2>2. \A t \in Terminals : Has(todo[t], "orphan") => quarry[t] \in Servers
      BY DEF Typed, ShellsTyped, Hunts
    <2>3. QED
      BY <2>1, <2>2 DEF Seen, ReapedAreDead, shells, Typed
  <1>3. ASSUME NEW t \in Terminals, NEW steps, Before(steps, "confirm", "orphan"),
               todo' = [todo EXCEPT ![t] = steps],
               \A u \in Terminals : u # t => quarry'[u] = quarry[u],
               UNCHANGED <<server, reaped>>
        PROVE  Seen' /\ ReapedAreDead'
    BY <1>3 DEF Seen, ReapedAreDead, Typed, ShellsTyped
  <1>4. ASSUME NEW t \in Terminals, NEW s \in Sessions,
               Resume(t, s) \/ Abandon(t, s) \/ Finish(t, s) \/ Kill(t, s)
        PROVE  Seen' /\ ReapedAreDead'
    <2>1. BoundItem(s) \in Items \cup {None}
      BY DEF BoundItem
    <2>2. \E steps, v : Fit(steps) /\ Enter(t, s, steps, v)
      BY <1>4, <2>1, StepsFit DEF Resume, Abandon, Finish, Kill
    <2>3. QED
      BY <1>3, <2>2 DEF Enter, Fit, agents, Typed, TypeOK
  <1>5. ASSUME NEW t \in Terminals, NEW x, Doing(t, x), Done(t), UNCHANGED <<server, quarry>>,
               x = "confirm" => server[quarry[t]] = "dead",
               reaped' \subseteq reaped \cup (IF x = "orphan" THEN {quarry[t]} ELSE {})
        PROVE  Seen' /\ ReapedAreDead'
    <2>1. Seen'
      BY <1>5, DoneLeaves DEF Seen, Typed
    <2>2. x = "orphan" => server[quarry[t]] = "dead"
      BY <1>5, DoneLeaves DEF Seen, Typed
    <2>3. ReapedAreDead'
      BY <1>5, <2>2 DEF ReapedAreDead
    <2>4. QED BY <2>1, <2>3
  <1>6. ASSUME NEW t \in Terminals, Progress(t) \/ Interrupted(t)
        PROVE  Seen' /\ ReapedAreDead'
    <2> USE DEF agents, shellRest, files
    <2>1. CASE Activate(t) \/ Own(t) \/ Reopen(t) \/ Disown(t) \/ MarkDone(t) \/ Close(t)
      BY <1>5, <2>1 DEF Activate, Own, Reopen, Disown, MarkDone, Close
    <2>2. CASE MarkAbandoned(t) \/ DeleteDir(t) \/ RemoveEntry(t)
      BY <1>5, <2>2 DEF MarkAbandoned, DeleteDir, RemoveEntry
    <2>3. CASE Terminate(t) \/ Escalate(t) \/ Confirm(t) \/ MarkOrphan(t)
      BY <1>5, <2>3 DEF Terminate, Escalate, Confirm, MarkOrphan
    <2>4. CASE GiveUp(t) \/ Interrupted(t)
      <3>1. Before(<<>>, "confirm", "orphan")
        BY ListsFit DEF Fit
      <3>2. QED
        BY <1>3, <2>4, <3>1 DEF GiveUp, Interrupted
    <2>5. CASE ThenAbandon(t)
      <3>1. Fit(<<>>) /\ Fit(AbandonSteps(BoundItem(subject[t])))
        BY ListsFit, StepsFit DEF BoundItem
      <3>2. QED
        BY <1>3, <2>5, <3>1 DEF ThenAbandon, Fit
    <2>6. QED
      BY <1>6, <2>1, <2>2, <2>3, <2>4, <2>5 DEF Progress
  <1>7. QED
    BY <1>1, <1>2, <1>4, <1>6 DEF Next

(* ReapedAreDead: a kill writes "orphan" only once it has seen the process *)
(* gone (kill.js), whoever attaches to the session meanwhile.              *)
THEOREM TheReapedAreDead == Spec => []ReapedAreDead
  <1>1. Init => RInv
    <2>1. Init => Seen /\ ReapedAreDead
      BY DEF Init, Seen, ReapedAreDead, Has
    <2>2. QED
      BY <2>1, InitTyped DEF RInv
  <1>2. RInv /\ [Next]_vars => RInv'
    BY NextTyped, NextReaped DEF RInv
  <1>3. RInv => ReapedAreDead
    BY DEF RInv
  <1>4. QED
    BY <1>1, <1>2, <1>3, PTL DEF Spec

-----------------------------------------------------------------------------
(* A session that has been launched: in the index, or out of it again.     *)
Launched(s) == entry[s] # "absent" \/ s \in gone

(* Whoever acts for a session, it has been launched; and one that is       *)
(* attached to has one server that lives.                                  *)
Attached ==
  /\ \A v \in Servers : server[v] # "unborn" => Launched(home[v])
  /\ \A t \in Terminals : todo[t] # <<>> => Launched(subject[t])
  /\ \A v, w \in Servers :
       server[v] \in Live /\ server[w] \in Live /\ home[v] = home[w] => v = w

(* A session that is gone has no file, and none while its entry is being   *)
(* removed; a bind that is under way finds it unbound, or its directory    *)
(* gone with all that was in it.                                           *)
Cleared ==
  /\ GoneStaysGone
  /\ \A t \in Terminals :
       todo[t] # <<>> /\ ~Before(todo[t], "delete", "remove") => meta[subject[t]] = NoFile
  /\ \A v \in Servers : pc[v] = "rename" =>
       \/ meta[home[v]] = Unbound
       \/ meta[home[v]] = NoFile /\ beat[home[v]] = None

(* An owner in the index, in a copy of it, or about to be written is bound *)
(* to the work item, as long as its meta.json is there.                    *)
BoundTo(s, i) == Launched(s) /\ meta[s] \in {i, NoFile}
Bound ==
  /\ \A i \in Items : items[i].owner # None => BoundTo(items[i].owner, i)
  /\ \A v \in Servers, i \in Items :
       snapshot[v][i].owner # None => BoundTo(snapshot[v][i].owner, i)
  /\ \A v \in Servers : pc[v] \in {"look", "point"} => BoundTo(home[v], target[v])
  /\ \A t \in Terminals :
       /\ todo[t] # <<>> /\ object[t] # None => BoundTo(subject[t], object[t])
       /\ Has(todo[t], "own") => object[t] # None
OInv == Typed /\ Attached /\ Cleared /\ Bound

LEMMA InitOwned == Init => Attached /\ Cleared /\ Bound
  <1> SUFFICES ASSUME Init PROVE Attached /\ Cleared /\ Bound
    OBVIOUS
  <1> USE ConstantsAssumption DEF Init, Launched
  <1>1. Settled => OwnItem \in [Sessions -> Items] /\ OwnServer \in [Sessions -> Servers]
                   /\ Injective(OwnItem) /\ Injective(OwnServer)
    <2> SUFFICES ASSUME Settled PROVE /\ OwnItem \in [Sessions -> Items] /\ Injective(OwnItem)
                                      /\ OwnServer \in [Sessions -> Servers] /\ Injective(OwnServer)
      OBVIOUS
    <2>1. \E f \in [Sessions -> Items] : Injective(f)
      BY DEF Injective
    <2>2. \E f \in [Sessions -> Servers] : Injective(f)
      BY DEF Injective
    <2>3. QED BY <2>1, <2>2 DEF OwnItem, OwnServer
  <1>2. \A v \in Servers : server[v] # "unborn" =>
          Settled /\ home[v] \in Sessions /\ OwnServer[home[v]] = v
    BY <1>1
  <1>3. Attached
    BY <1>2 DEF Attached, Live
  <1>4. Cleared
    BY DEF Cleared, GoneStaysGone
  <1>5. \A i \in Items : items[i].owner # None =>
          items[i].owner \in Sessions /\ OwnItem[items[i].owner] = i /\ Settled
    BY <1>1 DEF NoItem
  <1>6. \A i \in Items : items[i].owner # None => BoundTo(items[i].owner, i)
    BY <1>5 DEF BoundTo
  <1>7. \A x : ~Has(<<>>, x)
    BY DEF Has
  <1>8. Bound
    BY <1>6, <1>7, Blank DEF Bound
  <1>9. QED
    BY <1>3, <1>4, <1>8

(* What the places where an owner is kept or announced can hold.           *)
LEMMA WhoOwns ==
  ASSUME Typed
  PROVE  /\ \A i \in Items : items[i].owner \in Sessions \cup {None}
         /\ \A v \in Servers, i \in Items : snapshot[v][i].owner \in Sessions \cup {None}
         /\ \A v \in Servers : pc[v] # "idle" => home[v] \in Sessions /\ target[v] \in Items
         /\ \A t \in Terminals : /\ todo[t] # <<>> => subject[t] \in Sessions
                                /\ object[t] \in Items \cup {None}
  <1>1. \A i \in Items : items[i].owner \in Sessions \cup {None}
    BY DEF Typed, TypeOK, Item
  <1>2. \A v \in Servers, i \in Items : snapshot[v][i].owner \in Sessions \cup {None}
    <2> SUFFICES ASSUME NEW v \in Servers, NEW i \in Items
                 PROVE  snapshot[v][i].owner \in Sessions \cup {None}
      OBVIOUS
    <2>1. snapshot[v] \in [Items -> Item]
      BY DEF Typed, TypeOK
    <2>2. QED
      BY <2>1 DEF Item
  <1>3. \A v \in Servers : pc[v] # "idle" => home[v] \in Sessions /\ target[v] \in Items
    BY DEF Typed, AgentsTyped, Live
  <1>4. QED
    BY <1>1, <1>2, <1>3 DEF Typed, TypeOK, ShellsTyped

(* A step that leaves what is bound bound keeps owners as they should be.  *)
LEMMA BoundKept ==
  ASSUME Typed, Bound, \A r \in Sessions, i \in Items : BoundTo(r, i) => BoundTo(r, i)',
         UNCHANGED <<items, snapshot, home, target, subject, object>>,
         \A t \in Terminals : /\ todo'[t] # <<>> => todo[t] # <<>>
                              /\ Has(todo'[t], "own") => Has(todo[t], "own"),
         \A v \in Servers : pc'[v] \in {"look", "point"} =>
           pc[v] \in {"look", "point"} \/ BoundTo(home[v], target[v])'
  PROVE  Bound'
  <1>1. \A i \in Items : items'[i].owner # None => BoundTo(items[i].owner, i)'
    BY WhoOwns DEF Bound
  <1>2. \A v \in Servers, i \in Items :
          snapshot'[v][i].owner # None => BoundTo(snapshot[v][i].owner, i)'
    BY WhoOwns DEF Bound
  <1>3. \A v \in Servers : pc'[v] \in {"look", "point"} => BoundTo(home[v], target[v])'
    BY WhoOwns DEF Bound
  <1>4. \A t \in Terminals : todo'[t] # <<>> /\ object[t] # None => BoundTo(subject[t], object[t])'
    BY WhoOwns DEF Bound
  <1>5. \A t \in Terminals : Has(todo'[t], "own") => object[t] # None
    BY DEF Bound
  <1>6. QED
    BY <1>1, <1>2, <1>3, <1>4, <1>5 DEF Bound, BoundTo, Launched

LEMMA PointedOwner ==
  ASSUME Typed, NEW v \in Servers, home[v] \in Sessions,
         items' = Owned(snapshot[v], target[v], home[v]), NEW i \in Items
  PROVE  \/ items'[i].owner = snapshot[v][i].owner
         \/ items'[i].owner = home[v] /\ i = target[v]
  <1>1. snapshot[v] \in [Items -> Item] /\ home[v] \in Sessions \cup {None}
    BY DEF Typed, TypeOK
  <1>2. QED
    BY <1>1, OwnerUpdate

(* The same for the shell that takes an item over.                          *)
LEMMA TakenOwner ==
  ASSUME Typed, NEW t \in Terminals, subject[t] \in Sessions,
         items' = Owned(items, object[t], subject[t]), NEW i \in Items
  PROVE  \/ items'[i].owner = items[i].owner
         \/ items'[i].owner = subject[t] /\ i = object[t]
  <1>1. items \in [Items -> Item] /\ subject[t] \in Sessions \cup {None}
    BY DEF Typed, TypeOK
  <1>2. QED
    BY <1>1, OwnerUpdate

(* The steps of the launcher and of the servers.                           *)
LEMMA ServersOwned ==
  ASSUME Exclusive, OInv,
         \/ \E s \in Sessions : LaunchMeta(s) \/ LaunchEntry(s)
         \/ \E v \in Servers : ServerStep(v)
  PROVE  Attached' /\ Cleared' /\ Bound'
  <1> USE ConstantsAssumption, NamesAssumption DEF OInv, Typed, TypeOK, AgentsTyped, ShellsTyped
  <1>1. ASSUME NEW s \in Sessions, LaunchMeta(s) PROVE Attached' /\ Cleared' /\ Bound'
    <2>1. ~Launched(s) /\ UNCHANGED <<entry, beat, items, agents, shells, gone>>
          /\ meta' = [meta EXCEPT ![s] = Unbound]
      BY <1>1 DEF LaunchMeta, Launched
    <2>2. \A r : Launched(r)' = Launched(r)
      BY <2>1 DEF Launched
    <2>3. \A r \in Sessions : Launched(r) => meta'[r] = meta[r]
      BY <2>1
    <2>4. Attached'
      BY <2>1, <2>2 DEF Attached, agents, shells
    <2>5. Cleared'
      <3>1. GoneStaysGone'
        BY <2>1, <2>3 DEF Cleared, GoneStaysGone, Launched
      <3>2. QED
        BY <2>1, <2>3, <3>1 DEF Attached, Cleared, agents, shells, Live
    <2>6. \A r \in Sessions : \A i : BoundTo(r, i) => BoundTo(r, i)'
      BY <2>2, <2>3 DEF BoundTo
    <2>7. Bound'
      BY <2>1, <2>6, BoundKept DEF agents, shells
    <2>8. QED BY <2>4, <2>5, <2>7
  <1>2. ASSUME NEW s \in Sessions, LaunchEntry(s) PROVE Attached' /\ Cleared' /\ Bound'
    <2>1. /\ UNCHANGED <<meta, beat, items, agents, shells, gone>>
          /\ entry' = [entry EXCEPT ![s] = "active"] /\ s \notin gone
      BY <1>2 DEF LaunchEntry, Cleared, GoneStaysGone, Unbound, NoFile
    <2>2. \A r : Launched(r) => Launched(r)'
      BY <2>1 DEF Launched
    <2>3. Attached'
      BY <2>1, <2>2 DEF Attached, agents, shells
    <2>4. Cleared'
      BY <2>1 DEF Cleared, GoneStaysGone, agents, shells
    <2>5. Bound'
      BY <2>1, <2>2 DEF Bound, BoundTo, agents, shells
    <2>6. QED BY <2>3, <2>4, <2>5
  <1> SUFFICES ASSUME NEW v \in Servers, ServerStep(v) PROVE Attached' /\ Cleared' /\ Bound'
    BY <1>1, <1>2
  <1>3. ASSUME NEW s \in Sessions, StartServer(v, s) PROVE Attached' /\ Cleared' /\ Bound'
    <2>1. /\ UNCHANGED <<meta, entry, items, pc, target, snapshot, shells, gone>>
          /\ server' = [server EXCEPT ![v] = "running"] /\ home' = [home EXCEPT ![v] = s]
          /\ beat' = [beat EXCEPT ![s] = v] /\ entry[s] # "absent" /\ server[v] = "unborn"
          /\ \A w \in Servers : home[w] = s => server[w] = "dead"
      BY <1>3 DEF StartServer
    <2>2. pc[v] = "idle"
      BY <2>1 DEF Live
    <2>3. Attached'
      BY <2>1 DEF Attached, Launched, shells, Live
    <2>4. Cleared'
      <3>1. \A w \in Servers : pc[w] = "rename" => home'[w] = home[w] /\ beat'[home[w]] = beat[home[w]]
        BY <2>1, <2>2 DEF Live
      <3>2. QED
        BY <2>1, <3>1 DEF Cleared, GoneStaysGone, shells
    <2>5. Bound'
      BY <2>1, <2>2 DEF Bound, BoundTo, Launched, shells
    <2>6. QED BY <2>3, <2>4, <2>5
  <1>4. ASSUME Heartbeat(v) PROVE Attached' /\ Cleared' /\ Bound'
    <2>1. /\ UNCHANGED <<meta, entry, items, agents, shells, gone>> /\ pc[v] = "idle"
          /\ beat' = [beat EXCEPT ![home[v]] = v] /\ server[v] = "running"
      BY <1>4 DEF Heartbeat
    <2>2. \A w \in Servers : pc[w] = "rename" => beat'[home[w]] = beat[home[w]]
      BY <2>1 DEF Attached, Live
    <2>3. QED
      BY <2>1, <2>2 DEF Attached, Cleared, GoneStaysGone, Bound, BoundTo, Launched, agents, shells
  <1>5. ASSUME Interrupt(v) \/ Shutdown(v) PROVE Attached' /\ Cleared' /\ Bound'
    <2>1. /\ UNCHANGED <<meta, beat, items, home, pc, target, snapshot, shells, gone>>
          /\ server[v] = "running" /\ server' \in {server, [server EXCEPT ![v] = "shut"]}
          /\ \A s \in Sessions : entry'[s] = "absent" <=> entry[s] = "absent"
      BY <1>5 DEF Interrupt, Shutdown, UpdateEntry, files
    <2>2. \A s \in Sessions : Launched(s) => Launched(s)'
      BY <2>1 DEF Launched
    <2>3. Attached'
      <3>1. \A w \in Servers : (server'[w] # "unborn" <=> server[w] # "unborn")
                             /\ (server'[w] \in Live <=> server[w] \in Live)
        BY <2>1 DEF Live
      <3>2. QED
        BY <2>1, <2>2, <3>1, WhoOwns DEF Attached, shells
    <2>4. Cleared'
      BY <2>1 DEF Cleared, GoneStaysGone, shells
    <2>5. Bound'
      BY <2>1, <2>2, BoundKept DEF BoundTo, shells
    <2>6. QED BY <2>3, <2>4, <2>5
  <1>6. ASSUME Die(v) PROVE Attached' /\ Cleared' /\ Bound'
    <2>1. /\ UNCHANGED <<meta, entry, beat, items, home, target, shells, gone>>
          /\ server' = [server EXCEPT ![v] = "dead"] /\ server[v] \in Live
          /\ pc' = [pc EXCEPT ![v] = "idle"] /\ snapshot' = [snapshot EXCEPT ![v] = NoSnapshot]
      BY <1>6 DEF Die, files
    <2>2. Attached' /\ Cleared'
      BY <2>1 DEF Attached, Cleared, GoneStaysGone, Launched, shells, Live
    <2>3. Bound'
      BY <2>1, Blank DEF Bound, BoundTo, Launched, shells
    <2>4. QED BY <2>2, <2>3
  <1>7. ASSUME NEW i \in Items, Bootstrap(v, i) \/ MutateRead(v, i)
        PROVE  Attached' /\ Cleared' /\ Bound'
    <2>1. /\ UNCHANGED <<meta, entry, beat, items, server, home, shells, gone>>
          /\ \E step \in {"publish", "publishThenBind", "write"} : pc' = [pc EXCEPT ![v] = step]
          /\ target' = [target EXCEPT ![v] = i] /\ snapshot' = [snapshot EXCEPT ![v] = items]
      BY <1>7 DEF Bootstrap, MutateRead, ReadIndex, GoTo, idleRest, files
    <2>2. \A w \in Servers : pc'[w] = "rename" => pc[w] = "rename"
      BY <2>1
    <2>5. Attached'
      BY <2>1 DEF Attached, Launched, shells
    <2>6. Cleared'
      BY <2>1, <2>2 DEF Cleared, GoneStaysGone, shells
    <2>3. Bound'
      BY <2>1 DEF Bound, BoundTo, Launched, shells
    <2>4. QED BY <2>3, <2>5, <2>6
  <1>8. ASSUME PublishItem(v) \/ MutateWrite(v) PROVE Attached' /\ Cleared' /\ Bound'
    <2>1. /\ UNCHANGED <<meta, entry, beat, server, home, target, shells, gone>>
          /\ \E step \in {"idle", "bind"} : pc' = [pc EXCEPT ![v] = step]
          /\ \E status \in {"in_progress", "done"} :
               items' = [snapshot[v] EXCEPT ![target[v]] = [status |-> status, owner |-> None]]
          /\ snapshot' = [snapshot EXCEPT ![v] = NoSnapshot]
      BY <1>8 DEF PublishItem, MutateWrite, DropIndex, GoTo, idleRest
    <2>2. \A i \in Items : items'[i].owner \in {snapshot[v][i].owner, None}
      BY <2>1
    <2>3. Attached' /\ Cleared'
      BY <2>1 DEF Attached, Cleared, GoneStaysGone, Launched, shells
    <2>4. Bound'
      BY <2>1, <2>2, Blank DEF Bound, BoundTo, Launched, shells
    <2>5. QED BY <2>3, <2>4
  <1>9. ASSUME BindCheck(v) PROVE Attached' /\ Cleared' /\ Bound'
    <2>1. /\ UNCHANGED <<meta, entry, beat, items, server, home, target, snapshot, shells, gone>>
          /\ pc' = [pc EXCEPT ![v] = IF meta[home[v]] = Unbound THEN "rename" ELSE "idle"]
      BY <1>9 DEF BindCheck, GoTo, idleRest, files
    <2>2. Attached' /\ Cleared'
      BY <2>1 DEF Attached, Cleared, GoneStaysGone, Launched, shells
    <2>3. Bound'
      BY <2>1 DEF Bound, BoundTo, Launched, shells
    <2>4. QED BY <2>2, <2>3
  <1>10. ASSUME BindRename(v) PROVE Attached' /\ Cleared' /\ Bound'
    <2>1. /\ UNCHANGED <<entry, beat, items, server, home, target, snapshot, shells, gone>>
          /\ pc[v] = "rename" /\ server[v] \in Live
      BY <1>10 DEF BindRename, GoTo, idleRest
    <2>2. CASE meta[home[v]] # Unbound
      <3>1. UNCHANGED meta /\ pc' = [pc EXCEPT ![v] = "idle"]
        BY <1>10, <2>1, <2>2 DEF BindRename, GoTo, Cleared
      <3>2. QED
        BY <2>1, <3>1 DEF Attached, Cleared, GoneStaysGone, Bound, BoundTo, Launched, shells
    <2>3. CASE meta[home[v]] = Unbound
      <3>1. /\ meta' = [meta EXCEPT ![home[v]] = target[v]] /\ pc' = [pc EXCEPT ![v] = "look"]
            /\ home[v] \in Sessions /\ target[v] \in Items
        BY <1>10, <2>1, <2>3 DEF BindRename, GoTo, Unbound, NoFile, Live
      <3>2. \A r \in Sessions : \A i \in Items : BoundTo(r, i) => BoundTo(r, i)'
        BY <2>1, <2>3, <3>1 DEF BoundTo, Launched, Unbound, NoFile
      <3>3. Attached'
        BY <2>1 DEF Attached, Launched, shells
      <3>4. Cleared'
        <4>1. GoneStaysGone'
          BY <2>1, <2>3, <3>1 DEF Cleared, GoneStaysGone, Unbound, NoFile
        <4>2. \A t \in Terminals : todo[t] # <<>> /\ ~Before(todo[t], "delete", "remove")
                => meta'[subject[t]] = NoFile
          BY <2>3, <3>1 DEF Cleared, Unbound, NoFile
        <4>3. \A w \in Servers : pc'[w] = "rename" => pc[w] = "rename" /\ home[w] # home[v]
          BY <2>1, <3>1 DEF Attached
        <4>4. QED
          BY <2>1, <3>1, <4>1, <4>2, <4>3 DEF Cleared, shells, Live
      <3>5. Bound'
        <4>1. BoundTo(home[v], target[v])'
          BY <2>1, <3>1 DEF BoundTo, Attached, Launched, Live
        <4>2. \A w \in Servers : pc'[w] \in {"look", "point"} => pc[w] \in {"look", "point"} \/ w = v
          BY <3>1
        <4>3. QED
          BY <2>1, <3>2, <4>1, <4>2, BoundKept DEF shells
      <3>6. QED BY <3>3, <3>4, <3>5
    <2>4. QED BY <2>2, <2>3
  <1>11. ASSUME PointRead(v) PROVE Attached' /\ Cleared' /\ Bound'
    <2>1. /\ UNCHANGED <<meta, entry, beat, items, server, home, target, shells, gone>>
          /\ pc' = [pc EXCEPT ![v] = "point"] /\ pc[v] = "look"
          /\ snapshot' = [snapshot EXCEPT ![v] = items]
      BY <1>11 DEF PointRead, ReadIndex, GoTo, idleRest, files
    <2>2. Attached' /\ Cleared'
      BY <2>1 DEF Attached, Cleared, GoneStaysGone, Launched, shells
    <2>3. Bound'
      BY <2>1 DEF Bound, BoundTo, Launched, shells
    <2>4. QED BY <2>2, <2>3
  <1>12. ASSUME PointWrite(v) PROVE Attached' /\ Cleared' /\ Bound'
    <2>1. /\ UNCHANGED <<meta, entry, beat, server, home, target, shells, gone>>
          /\ pc' = [pc EXCEPT ![v] = "idle"] /\ pc[v] = "point" /\ home[v] \in Sessions
          /\ items' = Owned(snapshot[v], target[v], home[v])
          /\ snapshot' = [snapshot EXCEPT ![v] = NoSnapshot]
      BY <1>12 DEF PointWrite, DropIndex, GoTo, idleRest, Live
    <2>2. \A i \in Items :
            \/ items'[i].owner = snapshot[v][i].owner
            \/ items'[i].owner = home[v] /\ i = target[v]
      BY <2>1, PointedOwner
    <2>3. Attached' /\ Cleared'
      BY <2>1 DEF Attached, Cleared, GoneStaysGone, Launched, shells
    <2>4. Bound'
      <3>1. \A r, i : BoundTo(r, i)' <=> BoundTo(r, i)
        BY <2>1 DEF BoundTo, Launched
      <3>2. ASSUME NEW i \in Items, items'[i].owner # None PROVE BoundTo(items'[i].owner, i)
        <4>1. BoundTo(home[v], target[v])
          BY <2>1 DEF Bound
        <4>2. snapshot[v][i].owner # None => BoundTo(snapshot[v][i].owner, i)
          BY DEF Bound
        <4>3. QED
          BY <2>2, <3>2, <4>1, <4>2
      <3>3. \A w \in Servers, i \in Items :
              snapshot'[w][i].owner # None => BoundTo(snapshot'[w][i].owner, i)
        BY <2>1, Blank DEF Bound
      <3>4. \A w \in Servers : pc'[w] \in {"look", "point"} => BoundTo(home'[w], target'[w])
        BY <2>1 DEF Bound
      <3>5. UNCHANGED <<todo, subject, object>>
        BY <2>1 DEF shells
      <3>6. QED
        BY <3>1, <3>2, <3>3, <3>4, <3>5 DEF Bound, BoundTo
    <2>5. QED BY <2>3, <2>4
  <1>13. QED
    BY <1>3, <1>4, <1>5, <1>6, <1>7, <1>8, <1>9, <1>10, <1>11, <1>12 DEF ServerStep

(* The steps of the commands.                                              *)
LEMMA ShellsOwned ==
  ASSUME OInv, NEW t \in Terminals,
         \/ \E s \in Sessions : Resume(t, s) \/ Abandon(t, s) \/ Finish(t, s) \/ Kill(t, s)
         \/ Progress(t) \/ Interrupted(t)
  PROVE  Attached' /\ Cleared' /\ Bound'
  <1> USE ConstantsAssumption, NamesAssumption DEF OInv, Typed, TypeOK, AgentsTyped, ShellsTyped
  <1>1. ASSUME NEW s \in Sessions, NEW steps, Fit(steps), Launched(s),
               Has(steps, "own") => BoundItem(s) # None,
               todo' = [todo EXCEPT ![t] = steps], subject' = [subject EXCEPT ![t] = s],
               object' = [object EXCEPT ![t] = BoundItem(s)],
               UNCHANGED <<files, agents, gone>>
        PROVE  Attached' /\ Cleared' /\ Bound'
    <2>1. BoundItem(s) # None => meta[s] = BoundItem(s)
      BY <1>1 DEF BoundItem
    <2>2. Attached'
      BY <1>1 DEF Attached, Launched, files, agents
    <2>3. Cleared'
      BY <1>1 DEF Cleared, GoneStaysGone, Fit, files, agents
    <2>4. Bound'
      BY <1>1, <2>1 DEF Bound, BoundTo, Launched, files, agents
    <2>5. QED BY <2>2, <2>3, <2>4
  <1>2. ASSUME NEW s \in Sessions, Resume(t, s) \/ Abandon(t, s) \/ Finish(t, s) \/ Kill(t, s)
        PROVE  Attached' /\ Cleared' /\ Bound'
    <2>1. BoundItem(s) \in Items \cup {None}
      BY DEF BoundItem
    <2>2. \E steps, v : Enter(t, s, steps, v) /\ Fit(steps)
                      /\ (Has(steps, "own") => BoundItem(s) # None)
      BY <1>2, <2>1, StepsFit DEF Resume, Abandon, Finish, Kill
    <2>3. QED
      BY <1>1, <2>2 DEF Enter, Launched
  <1>3. ASSUME NEW x, Doing(t, x), Done(t), x # "delete", x # "remove", x # "own",
               UNCHANGED <<meta, beat, gone, server, home, pc, target, snapshot, subject, object>>,
               \A s \in Sessions : entry'[s] = "absent" <=> entry[s] = "absent",
               \A i \in Items : items'[i].owner \in {items[i].owner, None}
        PROVE  Attached' /\ Cleared' /\ Bound'
    <2>1. \A s \in Sessions : Launched(s) => Launched(s)'
      BY <1>3 DEF Launched
    <2>2. \A r \in Sessions, i \in Items : BoundTo(r, i) => BoundTo(r, i)'
      BY <1>3, <2>1 DEF BoundTo
    <2>3. /\ \A u \in Terminals : todo'[u] # <<>> => todo[u] # <<>>
          /\ \A u \in Terminals : \A y : Has(todo'[u], y) => Has(todo[u], y)
          /\ \A u \in Terminals : Before(todo[u], "delete", "remove") => Before(todo'[u], "delete", "remove")
      BY <1>3, DoneLeaves
    <2>4. Attached'
      BY <1>3, <2>1, <2>3, WhoOwns DEF Attached, Live
    <2>5. Cleared'
      BY <1>3, <2>3 DEF Cleared, GoneStaysGone
    <2>6. Bound'
      <3>1. \A i \in Items : (items[i].owner # None => BoundTo(items[i].owner, i))'
        <4> SUFFICES ASSUME NEW i \in Items, items'[i].owner # None
                     PROVE  BoundTo(items[i].owner, i)'
          OBVIOUS
        <4>1. items'[i].owner = items[i].owner /\ BoundTo(items[i].owner, i)
          BY <1>3 DEF Bound
        <4>2. items[i].owner \in Sessions
          BY <4>1, WhoOwns
        <4>3. QED
          BY <2>1, <4>1, <4>2, <1>3 DEF BoundTo, Launched
      <3>2. \A v \in Servers, i \in Items :
              snapshot[v][i].owner # None => BoundTo(snapshot[v][i].owner, i)'
        BY <1>3, <2>2, WhoOwns DEF Bound
      <3>3. \A v \in Servers : pc[v] \in {"look", "point"} => BoundTo(home[v], target[v])'
        BY <1>3, <2>2, WhoOwns DEF Bound
      <3>4. \A u \in Terminals : todo'[u] # <<>> /\ object[u] # None => BoundTo(subject[u], object[u])'
        BY <1>3, <2>2, <2>3, WhoOwns DEF Bound
      <3>5. \A u \in Terminals : Has(todo'[u], "own") => object[u] # None
        BY <2>3 DEF Bound
      <3>6. QED
        BY <1>3, <3>1, <3>2, <3>3, <3>4, <3>5 DEF Bound
    <2>7. QED BY <2>4, <2>5, <2>6
  <1>4. CASE Activate(t) \/ Close(t) \/ MarkOrphan(t)
    <2>1. /\ UNCHANGED <<items, meta, beat, gone, server, home, pc, target, snapshot, subject, object>>
          /\ \E e \in {"active", "closed", "orphan"} : UpdateEntry(subject[t], e)
          /\ Doing(t, "activate") \/ Doing(t, "close") \/ Doing(t, "orphan")
          /\ Done(t)
      BY <1>4 DEF Activate, Close, MarkOrphan, agents, shellRest
    <2>2. \A s \in Sessions : entry'[s] = "absent" <=> entry[s] = "absent"
      BY <2>1 DEF UpdateEntry
    <2>3. QED
      BY <1>3, <2>1, <2>2
  <1>5. CASE Reopen(t) \/ MarkDone(t) \/ MarkAbandoned(t)
    <2>1. \E status \in {"in_progress", "done", "abandoned"} : items' = WithStatus(items, object[t], status)
      BY <1>5 DEF Reopen, MarkDone, MarkAbandoned
    <2>2. \A i \in Items : items'[i].owner = items[i].owner
      BY <2>1, StatusUpdate
    <2>3. QED
      BY <1>3, <1>5, <2>2 DEF Reopen, MarkDone, MarkAbandoned, agents, shellRest
  <1>6. CASE Disown(t)
    <2>1. \A i \in Items : items'[i].owner \in {items[i].owner, None}
      BY <1>6, OwnerUpdate DEF Disown
    <2>2. QED
      BY <1>3, <1>6, <2>1 DEF Disown, agents, shellRest
  <1>7. CASE Terminate(t) \/ Escalate(t) \/ Confirm(t)
    BY <1>3, <1>7 DEF Terminate, Escalate, Confirm, files, agents, shellRest
  <1>8. CASE Own(t)
    <2>1. /\ UNCHANGED <<meta, entry, beat, gone, server, home, pc, target, snapshot, subject, object>>
          /\ items' = Owned(items, object[t], subject[t])
      BY <1>8 DEF Own, agents, shellRest
    <2>2. /\ \A u \in Terminals : todo'[u] # <<>> => todo[u] # <<>>
          /\ \A u \in Terminals : \A y : Has(todo'[u], y) => Has(todo[u], y)
          /\ \A u \in Terminals : Before(todo[u], "delete", "remove") => Before(todo'[u], "delete", "remove")
          /\ todo[t] # <<>> /\ Has(todo[t], "own")
      BY <1>8, DoneLeaves DEF Own
    <2>3. subject[t] \in Sessions /\ BoundTo(subject[t], object[t])
      BY <2>2 DEF Bound
    <2>4. \A i \in Items :
            \/ items'[i].owner = items[i].owner
            \/ items'[i].owner = subject[t] /\ i = object[t]
      BY <2>1, <2>3, TakenOwner
    <2>5. Attached' /\ Cleared'
      BY <2>1, <2>2 DEF Attached, Cleared, GoneStaysGone, Launched
    <2>6. Bound'
      BY <2>1, <2>2, <2>3, <2>4 DEF Bound, BoundTo, Launched
    <2>7. QED BY <2>5, <2>6
  <1>9. CASE DeleteDir(t)
    <2>1. /\ UNCHANGED <<entry, items, gone, server, home, pc, target, snapshot, subject, object>>
          /\ meta' = [meta EXCEPT ![subject[t]] = NoFile]
          /\ beat' = [beat EXCEPT ![subject[t]] = None]
      BY <1>9 DEF DeleteDir, agents, shellRest
    <2>2. /\ \A u \in Terminals : todo'[u] # <<>> => todo[u] # <<>>
          /\ \A u \in Terminals : \A y : Has(todo'[u], y) => Has(todo[u], y)
          /\ \A u \in Terminals :
               u # t /\ Before(todo[u], "delete", "remove") => Before(todo'[u], "delete", "remove")
          /\ todo[t] # <<>>
      BY <1>9, DoneLeaves DEF DeleteDir
    <2>3. \A r \in Sessions :
            /\ meta'[r] \in {meta[r], NoFile} /\ beat'[r] \in {beat[r], None}
            /\ meta'[r] # meta[r] => beat'[r] = None
            /\ r = subject[t] => meta'[r] = NoFile /\ beat'[r] = None
      BY <2>1
    <2>4. Attached'
      BY <2>1, <2>2 DEF Attached, Launched
    <2>5. Cleared'
      <3>1. GoneStaysGone'
        BY <2>1, <2>3 DEF Cleared, GoneStaysGone
      <3>2. \A u \in Terminals : todo'[u] # <<>> /\ ~Before(todo'[u], "delete", "remove")
              => meta'[subject[u]] = NoFile
        BY <2>2, <2>3 DEF Cleared
      <3>3. \A v \in Servers : pc[v] = "rename" =>
              \/ meta'[home[v]] = Unbound
              \/ meta'[home[v]] = NoFile /\ beat'[home[v]] = None
        <4> SUFFICES ASSUME NEW v \in Servers, pc[v] = "rename", meta'[home[v]] # Unbound
                     PROVE  meta'[home[v]] = NoFile /\ beat'[home[v]] = None
          OBVIOUS
        <4>1. home[v] \in Sessions
          BY WhoOwns
        <4>2. QED
          BY <2>3, <4>1 DEF Cleared
      <3>4. QED
        BY <2>1, <3>1, <3>2, <3>3 DEF Cleared
    <2>6. \A r \in Sessions, i \in Items : BoundTo(r, i) => BoundTo(r, i)'
      BY <2>1, <2>3 DEF BoundTo, Launched
    <2>7. Bound'
      BY <2>1, <2>2, <2>6, BoundKept
    <2>8. QED BY <2>4, <2>5, <2>7
  <1>10. CASE RemoveEntry(t)
    <2>1. /\ UNCHANGED <<meta, beat, items, server, home, pc, target, snapshot, subject, object>>
          /\ entry' = [entry EXCEPT ![subject[t]] = "absent"]
          /\ gone' = gone \cup {subject[t]}
      BY <1>10 DEF RemoveEntry, agents, shellRest
    <2>2. /\ \A u \in Terminals : todo'[u] # <<>> => todo[u] # <<>>
          /\ \A u \in Terminals : \A y : Has(todo'[u], y) => Has(todo[u], y)
          /\ \A u \in Terminals :
               u # t /\ Before(todo[u], "delete", "remove") => Before(todo'[u], "delete", "remove")
          /\ todo[t] # <<>> /\ ~Before(todo[t], "delete", "remove")
      BY <1>10, DoneLeaves DEF RemoveEntry
    <2>3. meta[subject[t]] = NoFile /\ subject[t] \in Sessions
      BY <2>2 DEF Cleared
    <2>4. \A r \in Sessions : Launched(r) => Launched(r)'
      BY <2>1, <2>3 DEF Launched
    <2>5. Attached'
      BY <2>1, <2>2, <2>4, WhoOwns DEF Attached, Live
    <2>6. Cleared'
      BY <2>1, <2>2, <2>3 DEF Cleared, GoneStaysGone
    <2>7. \A r \in Sessions, i \in Items : BoundTo(r, i) => BoundTo(r, i)'
      BY <2>1, <2>4 DEF BoundTo
    <2>8. Bound'
      BY <2>1, <2>2, <2>7, BoundKept
    <2>9. QED BY <2>5, <2>6, <2>8
  <1>11. CASE GiveUp(t) \/ Interrupted(t)
    <2>1. /\ UNCHANGED <<meta, entry, beat, items, gone, server, home, pc, target, snapshot,
                         subject, object>>
          /\ todo' = [todo EXCEPT ![t] = <<>>]
      BY <1>11 DEF GiveUp, Interrupted, files, agents, shellRest
    <2>2. \A x : ~Has(<<>>, x)
      BY DEF Has
    <2>3. QED
      BY <2>1, <2>2 DEF Attached, Cleared, GoneStaysGone, Bound, BoundTo, Launched
  <1>12. CASE ThenAbandon(t)
    <2>1. /\ UNCHANGED <<files, agents, gone, subject>> /\ todo[t] # <<>>
          /\ object' = [object EXCEPT ![t] = BoundItem(subject[t])]
      BY <1>12 DEF ThenAbandon, Doing
    <2>2. PICK steps \in {<<>>, AbandonSteps(BoundItem(subject[t]))} : todo' = [todo EXCEPT ![t] = steps]
      BY <1>12 DEF ThenAbandon
    <2>3. Fit(steps) /\ ~Has(steps, "own")
      <3>1. BoundItem(subject[t]) \in Items \cup {None}
        BY DEF BoundItem
      <3>2. QED
        BY <3>1, ListsFit, StepsFit
    <2>4. subject[t] \in Sessions /\ Launched(subject[t]) /\ subject' = [subject EXCEPT ![t] = subject[t]]
      BY <2>1 DEF Attached
    <2>5. QED
      BY <1>1, <2>1, <2>2, <2>3, <2>4
  <1>13. QED
    BY <1>2, <1>4, <1>5, <1>6, <1>7, <1>8, <1>9, <1>10, <1>11, <1>12 DEF Progress

LEMMA NextOwned ==
  ASSUME Exclusive PROVE OInv /\ [Next]_vars => OInv'
  <1>1. OInv /\ UNCHANGED vars => Attached' /\ Cleared' /\ Bound'
    BY DEF OInv, Attached, Cleared, GoneStaysGone, Bound, BoundTo, Launched, vars, files, agents, shells
  <1>2. OInv /\ Next => Attached' /\ Cleared' /\ Bound'
    BY ServersOwned, ShellsOwned DEF Next
  <1>3. QED
    BY <1>1, <1>2, NextTyped DEF OInv

LEMMA AlwaysOwned == ASSUME Exclusive PROVE Spec => []OInv
  <1>1. Init => OInv
    BY InitTyped, InitOwned DEF OInv
  <1>2. QED
    BY <1>1, NextOwned, PTL DEF Spec

(* GoneStaysGone: abandon (abandon.js) is final, whatever heartbeat, bind, *)
(* shutdown or command is under way, if sessions are not shared.           *)
THEOREM GoneForGood == ASSUME Exclusive PROVE Spec => []GoneStaysGone
  <1>1. OInv => GoneStaysGone
    BY DEF OInv, Cleared
  <1>2. QED
    BY <1>1, AlwaysOwned, PTL

(* OwnerIsBound: no resume, late bind, or stale copy of the index gives a  *)
(* work item to a session that is bound to another one or to none.         *)
THEOREM OwnersAreBound == ASSUME Exclusive PROVE Spec => []OwnerIsBound
  <1>1. OInv => OwnerIsBound
    <2>1. OInv => \A i \in Items : items[i].owner # None => meta[items[i].owner] \in {i, NoFile}
      BY DEF OInv, Bound, BoundTo
    <2>2. QED
      BY <2>1 DEF OwnerIsBound
  <1>2. QED
    BY <1>1, AlwaysOwned, PTL

-----------------------------------------------------------------------------
(* What is left to do of what settles a work item: who gives an owner goes *)
(* on to reopen, and who ends goes on to clear the owner.  A kill, which    *)
(* may give up on the way, does neither.                                    *)
After(s, x, y) == \A k \in 1..Len(s) : s[k] = x => \E j \in (k+1)..Len(s) : s[j] = y
Orderly(s) == After(s, "own", "reopen") /\ After(s, "done", "disown") /\ After(s, "abandon", "disown")
Harmless(s) == ~Has(s, "done") /\ ~Has(s, "abandon") /\ ~Has(s, "reopen")
Kills(s) == Has(s, "confirm") \/ Has(s, "thenAbandon")
Whole(s) == Orderly(s) /\ (Kills(s) => Harmless(s))

LEMMA HeadAfter ==
  ASSUME NEW s \in Seq(StepNames), s # <<>>, NEW x, NEW y, After(s, x, y)
  PROVE  After(Tail(s), x, y) /\ (Head(s) = x => Has(Tail(s), y))
  <1>1. /\ Len(s) \in Nat \ {0} /\ Len(Tail(s)) = Len(s) - 1 /\ Head(s) = s[1]
        /\ \A k \in 1..(Len(s) - 1) : Tail(s)[k] = s[k + 1]
    OBVIOUS
  <1>2. ASSUME NEW k \in 1..Len(s), s[k] = x
        PROVE  \E j \in k..Len(Tail(s)) : Tail(s)[j] = y
    <2>1. PICK j \in (k+1)..Len(s) : s[j] = y
      BY <1>2 DEF After
    <2>2. j - 1 \in k..Len(Tail(s)) /\ Tail(s)[j - 1] = y
      BY <1>1, <2>1
    <2>3. QED
      BY <2>2
  <1>3. After(Tail(s), x, y)
    <2> SUFFICES ASSUME NEW k \in 1..Len(Tail(s)), Tail(s)[k] = x
                 PROVE  \E j \in (k+1)..Len(Tail(s)) : Tail(s)[j] = y
      BY DEF After
    <2>1. k + 1 \in 1..Len(s) /\ s[k + 1] = x
      BY <1>1
    <2>2. QED
      BY <1>2, <2>1
  <1>4. Head(s) = x => Has(Tail(s), y)
    BY <1>1, <1>2 DEF Has
  <1>5. QED
    BY <1>3, <1>4

LEMMA JoinAfter ==
  ASSUME NEW s \in Seq(StepNames), NEW t \in Seq(StepNames), NEW x, NEW y,
         After(s, x, y), After(t, x, y)
  PROVE  After(s \o t, x, y)
  <1> DEFINE m == Len(s)
             n == Len(t)
  <1>1. /\ Len(s \o t) = m + n /\ m \in Nat /\ n \in Nat
        /\ \A k \in 1..m : (s \o t)[k] = s[k]
        /\ \A k \in 1..n : (s \o t)[m + k] = t[k]
    OBVIOUS
  <1> SUFFICES ASSUME NEW k \in 1..(m + n), (s \o t)[k] = x
               PROVE  \E j \in (k+1)..(m + n) : (s \o t)[j] = y
    BY <1>1 DEF After
  <1>2. CASE k \in 1..m
    <2>1. PICK j \in (k+1)..m : s[j] = y
      BY <1>1, <1>2 DEF After
    <2>2. j \in 1..m /\ j \in (k+1)..(m + n)
      BY <1>1, <1>2
    <2>3. QED
      BY <1>1, <2>1, <2>2
  <1>3. CASE k - m \in 1..n /\ k = m + (k - m)
    <2>1. t[k - m] = x
      BY <1>1, <1>3
    <2>2. PICK j \in (k - m + 1)..n : t[j] = y
      BY <1>3, <2>1 DEF After
    <2>3. j \in 1..n /\ m + j \in (k+1)..(m + n)
      BY <1>1, <1>3
    <2>4. QED
      BY <1>1, <2>2, <2>3
  <1>4. QED
    BY <1>1, <1>2, <1>3

LEMMA ListsWhole ==
  /\ \A s \in {<<>>, <<"activate">>, <<"delete", "remove">>} : Orderly(s) /\ Harmless(s) /\ ~Kills(s)
  /\ \A s \in {<<"disown">>, <<"thenAbandon">>,
              <<"terminate", "escalate", "confirm", "orphan">>} : Orderly(s) /\ Harmless(s)
  /\ \A s \in {<<"own", "reopen">>, <<"abandon", "disown">>, <<"done", "disown", "close">>} :
       Orderly(s) /\ ~Kills(s)
  <1> USE DEF Orderly, Harmless, Kills, Has, After
  <1>1. Orderly(<<>>) /\ Harmless(<<>>) /\ ~Kills(<<>>)
    OBVIOUS
  <1>2. Orderly(<<"activate">>) /\ Harmless(<<"activate">>) /\ ~Kills(<<"activate">>)
    OBVIOUS
  <1>3. Orderly(<<"delete", "remove">>) /\ Harmless(<<"delete", "remove">>) /\ ~Kills(<<"delete", "remove">>)
    OBVIOUS
  <1>4. Orderly(<<"disown">>) /\ Harmless(<<"disown">>)
    OBVIOUS
  <1>5. Orderly(<<"thenAbandon">>) /\ Harmless(<<"thenAbandon">>)
    OBVIOUS
  <1>6. /\ Orderly(<<"terminate", "escalate", "confirm", "orphan">>)
        /\ Harmless(<<"terminate", "escalate", "confirm", "orphan">>)
    <2> DEFINE s == <<"terminate", "escalate", "confirm", "orphan">>
    <2>1. /\ Len(s) = 4 /\ 1..4 = {1, 2, 3, 4}
          /\ s[1] = "terminate" /\ s[2] = "escalate" /\ s[3] = "confirm" /\ s[4] = "orphan"
      OBVIOUS
    <2> HIDE DEF s
    <2>2. Orderly(s) /\ Harmless(s)
      BY <2>1
    <2>3. QED
      BY <2>2 DEF s
  <1>7. Orderly(<<"own", "reopen">>) /\ ~Kills(<<"own", "reopen">>)
    <2> DEFINE s == <<"own", "reopen">>
    <2>1. Len(s) = 2 /\ 1..2 = {1, 2} /\ s[1] = "own" /\ s[2] = "reopen" /\ 2 \in 2..2
      OBVIOUS
    <2> HIDE DEF s
    <2>2. Orderly(s) /\ ~Kills(s)
      BY <2>1
    <2>3. QED
      BY <2>2 DEF s
  <1>8. Orderly(<<"abandon", "disown">>) /\ ~Kills(<<"abandon", "disown">>)
    <2> DEFINE s == <<"abandon", "disown">>
    <2>1. Len(s) = 2 /\ 1..2 = {1, 2} /\ s[1] = "abandon" /\ s[2] = "disown"
      OBVIOUS
    <2> HIDE DEF s
    <2>2. Orderly(s) /\ ~Kills(s)
      BY <2>1
    <2>3. QED
      BY <2>2 DEF s
  <1>9. Orderly(<<"done", "disown", "close">>) /\ ~Kills(<<"done", "disown", "close">>)
    <2> DEFINE s == <<"done", "disown", "close">>
    <2>1. Len(s) = 3 /\ 1..3 = {1, 2, 3} /\ s[1] = "done" /\ s[2] = "disown" /\ s[3] = "close"
      OBVIOUS
    <2> HIDE DEF s
    <2>2. Orderly(s) /\ ~Kills(s)
      BY <2>1
    <2>3. QED
      BY <2>2 DEF s
  <1> HIDE DEF Orderly, Harmless, Kills, Has, After
  <1>10. QED
    BY <1>1, <1>2, <1>3, <1>4, <1>5, <1>6, <1>7, <1>8, <1>9

LEMMA JoinOrderly ==
  ASSUME NEW s, NEW t, Fit(s), Fit(t), Orderly(s), Orderly(t)
  PROVE  /\ Orderly(s \o t)
         /\ ~Kills(s) /\ ~Kills(t) => ~Kills(s \o t)
         /\ Harmless(s) /\ Harmless(t) => Harmless(s \o t)
  <1>1. s \in Seq(StepNames) /\ t \in Seq(StepNames)
    BY DEF Fit
  <1>2. Orderly(s \o t)
    BY <1>1, JoinAfter DEF Orderly
  <1>3. \A x : Has(s \o t, x) => Has(s, x) \/ Has(t, x)
    BY JoinFits
  <1>4. QED
    BY <1>2, <1>3 DEF Kills, Harmless

LEMMA StepsWhole ==
  ASSUME NEW i
  PROVE  \A s \in {ResumeSteps(i), AbandonSteps(i), FinishSteps, <<>>, KillSteps(i) \o <<>>,
                   KillSteps(i) \o <<"thenAbandon">>} : Whole(s)
  <1>1. IfBound(i, <<"own", "reopen">>) \in {<<>>, <<"own", "reopen">>}
    BY DEF IfBound
  <1>2. IfBound(i, <<"abandon", "disown">>) \in {<<>>, <<"abandon", "disown">>}
    BY DEF IfBound
  <1>3. IfBound(i, <<"disown">>) \in {<<>>, <<"disown">>}
    BY DEF IfBound
  <1>4. Orderly(ResumeSteps(i)) /\ ~Kills(ResumeSteps(i))
    BY <1>1, ListsFit, ListsWhole, JoinOrderly DEF ResumeSteps
  <1>5. Orderly(AbandonSteps(i)) /\ ~Kills(AbandonSteps(i))
    BY <1>2, ListsFit, ListsWhole, JoinOrderly DEF AbandonSteps
  <1>6. Orderly(FinishSteps) /\ ~Kills(FinishSteps)
    BY ListsWhole DEF FinishSteps
  <1>7. Fit(KillSteps(i)) /\ Orderly(KillSteps(i)) /\ Harmless(KillSteps(i))
    BY <1>3, ListsFit, ListsWhole, JoinFits, JoinOrderly DEF KillSteps
  <1>8. \A t \in {<<>>, <<"thenAbandon">>} : Orderly(KillSteps(i) \o t) /\ Harmless(KillSteps(i) \o t)
    BY <1>7, ListsFit, ListsWhole, JoinOrderly
  <1>9. QED
    BY <1>4, <1>5, <1>6, <1>8, ListsWhole DEF Whole

-----------------------------------------------------------------------------
(* Where every work item is there from the start and nobody bootstraps,    *)
(* writes or dies, a settled item that still has an owner is about to be   *)
(* reopened, or to lose it, by a command that cannot give up any more.     *)
Repairs(t, i) ==
  object[t] = i /\ ~Kills(todo[t]) /\ (Has(todo[t], "reopen") \/ Has(todo[t], "disown"))
Ended == {"done", "abandoned"}
Quiet ==
  /\ \A v \in Servers : pc[v] = "idle"
  /\ \A i \in Items : items[i].status # "absent"
  /\ mutations = 0 /\ crashes = 0
Mended ==
  /\ \A t \in Terminals : Whole(todo[t])
  /\ \A i \in Items : items[i].status \in Ended /\ items[i].owner # None =>
       \E t \in Terminals : Repairs(t, i)
SInv == Typed /\ Quiet /\ Mended

(* What taking a step off the list leaves of the command.                  *)
LEMMA DoneMends ==
  ASSUME ShellsTyped, \A u \in Terminals : Whole(todo[u]),
         NEW t \in Terminals, NEW x, Doing(t, x), Done(t)
  PROVE  /\ \A u \in Terminals : Whole(todo'[u])
         /\ \A u \in Terminals : ~Kills(todo[u]) => ~Kills(todo'[u])
         /\ \A u \in Terminals : \A y : Has(todo[u], y) /\ (u = t => y # x) => Has(todo'[u], y)
         /\ x = "own" => ~Kills(todo'[t]) /\ Has(todo'[t], "reopen")
         /\ x \in {"done", "abandon"} => ~Kills(todo'[t]) /\ Has(todo'[t], "disown")
  <1> DEFINE s == todo[t]
  <1>1. s \in Seq(StepNames) /\ s # <<>> /\ Head(s) = x
    BY DEF ShellsTyped, Doing
  <1>2. \A u \in Terminals : todo'[u] = IF u = t THEN Tail(s) ELSE todo[u]
    BY DEF ShellsTyped, Done
  <1>3. Has(s, x) /\ \A y : Has(Tail(s), y) => Has(s, y)
    BY <1>1, HeadLeft
  <1>4. \A y : Has(s, y) /\ y # x => Has(Tail(s), y)
    <2>1. /\ Len(s) \in Nat \ {0} /\ Len(Tail(s)) = Len(s) - 1 /\ s[1] = x
          /\ \A k \in 1..(Len(s) - 1) : Tail(s)[k] = s[k + 1]
      BY <1>1
    <2> SUFFICES ASSUME NEW y, y # x, NEW k \in 1..Len(s), s[k] = y
                 PROVE  \E j \in 1..Len(Tail(s)) : Tail(s)[j] = y
      BY DEF Has
    <2>2. k - 1 \in 1..Len(Tail(s)) /\ Tail(s)[k - 1] = y
      BY <2>1
    <2>3. QED
      BY <2>2
  <1>5. /\ Orderly(Tail(s))
        /\ x = "own" => Has(Tail(s), "reopen")
        /\ x \in {"done", "abandon"} => Has(Tail(s), "disown")
    <2>1. After(s, "own", "reopen") /\ After(s, "done", "disown") /\ After(s, "abandon", "disown")
      BY DEF Whole, Orderly
    <2>2. After(Tail(s), "own", "reopen") /\ (x = "own" => Has(Tail(s), "reopen"))
      BY <1>1, <2>1, HeadAfter
    <2>3. After(Tail(s), "done", "disown") /\ (x = "done" => Has(Tail(s), "disown"))
      BY <1>1, <2>1, HeadAfter
    <2>4. After(Tail(s), "abandon", "disown") /\ (x = "abandon" => Has(Tail(s), "disown"))
      BY <1>1, <2>1, HeadAfter
    <2>5. QED
      BY <2>2, <2>3, <2>4 DEF Orderly
  <1>6. Kills(Tail(s)) => Kills(s) /\ Harmless(s) /\ Harmless(Tail(s))
    <2>1. Kills(Tail(s)) => Kills(s)
      BY <1>3 DEF Kills
    <2>2. Harmless(s) => Harmless(Tail(s))
      BY <1>3 DEF Harmless
    <2>3. QED
      BY <2>1, <2>2 DEF Whole
  <1>7. x \in {"own", "done", "abandon"} => ~Harmless(s)
    BY <1>3, <1>5 DEF Harmless
  <1> HIDE DEF s
  <1>8. QED
    BY <1>2, <1>4, <1>5, <1>6, <1>7 DEF Whole, s

LEMMA StepMends ==
  ASSUME SInv, NEW t \in Terminals, NEW x, Doing(t, x), Done(t), UNCHANGED object,
         \A i \in Items : items'[i].status \in Ended /\ items'[i].owner # None =>
           \/ i = object[t] /\ x \in {"own", "done", "abandon"}
           \/ items'[i] = items[i] /\ (x \in {"reopen", "disown"} => i # object[t])
  PROVE  Mended'
  <1>1. ShellsTyped /\ \A u \in Terminals : Whole(todo[u])
    BY DEF SInv, Typed, Mended
  <1>2. \A u \in Terminals : Whole(todo'[u])
    BY <1>1, DoneMends
  <1>3. ASSUME NEW i \in Items, items'[i].status \in Ended, items'[i].owner # None
        PROVE  \E u \in Terminals : Repairs(u, i)'
    <2>1. CASE i = object[t] /\ x \in {"own", "done", "abandon"}
      <3>1. ~Kills(todo'[t]) /\ (Has(todo'[t], "reopen") \/ Has(todo'[t], "disown"))
        BY <1>1, <2>1, DoneMends
      <3>2. Repairs(t, i)'
        BY <2>1, <3>1 DEF Repairs
      <3>3. QED
        BY <3>2
    <2>2. CASE items'[i] = items[i] /\ (x \in {"reopen", "disown"} => i # object[t])
      <3>1. PICK u \in Terminals : Repairs(u, i)
        BY <1>3, <2>2 DEF SInv, Mended
      <3>2. ~Kills(todo'[u])
        BY <1>1, <3>1, DoneMends DEF Repairs
      <3>3. Has(todo'[u], "reopen") \/ Has(todo'[u], "disown")
        <4>1. u = t => x # "reopen" /\ x # "disown"
          BY <2>2, <3>1 DEF Repairs
        <4>2. \A y : Has(todo[u], y) /\ (u = t => y # x) => Has(todo'[u], y)
          BY <1>1, DoneMends
        <4>3. QED
          BY <3>1, <4>1, <4>2 DEF Repairs
      <3>4. Repairs(u, i)'
        BY <3>1, <3>2, <3>3 DEF Repairs
      <3>5. QED
        BY <3>4
    <2>3. QED
      BY <1>3, <2>1, <2>2
  <1>4. QED
    BY <1>2, <1>3 DEF Mended

(* What an update of the list of work items leaves.                        *)
LEMMA OwnerSet ==
  ASSUME NEW index \in [Items -> Item], \A j \in Items : index[j].status # "absent",
         NEW i, NEW s \in Sessions \cup {None}
  PROVE  \A j \in Items :
           /\ Owned(index, i, s)[j].status # "absent"
           /\ j # i => Owned(index, i, s)[j] = index[j]
           /\ j = i => Owned(index, i, s)[j].owner = s
  BY DEF Owned, Item

LEMMA StatusSet ==
  ASSUME NEW index \in [Items -> Item], \A j \in Items : index[j].status # "absent",
         NEW i, NEW status \in {"in_progress", "done", "abandoned"}
  PROVE  \A j \in Items :
           /\ WithStatus(index, i, status)[j].status # "absent"
           /\ j # i => WithStatus(index, i, status)[j] = index[j]
           /\ j = i => WithStatus(index, i, status)[j].status = status
  BY DEF WithStatus, Item

LEMMA ShellsMend ==
  ASSUME SInv, MaxCrashes = 0, NEW t \in Terminals,
         \/ \E s \in Sessions : Resume(t, s) \/ Abandon(t, s) \/ Finish(t, s) \/ Kill(t, s)
         \/ Progress(t) \/ Interrupted(t)
  PROVE  Quiet' /\ Mended'
  <1>1. /\ ShellsTyped /\ items \in [Items -> Item] /\ \A i \in Items : items[i].status # "absent"
        /\ \A u \in Terminals : Whole(todo[u])
    BY DEF SInv, Typed, TypeOK, Quiet, Mended
  <1>2. ~Interrupted(t)
    BY DEF Interrupted, SInv, Quiet
  (* A command that is replaced by another, when it repairs nothing.       *)
  <1>3. ASSUME NEW steps, Whole(steps), todo' = [todo EXCEPT ![t] = steps],
               (~Has(todo[t], "reopen") /\ ~Has(todo[t], "disown")) \/ Kills(todo[t]),
               \A u \in Terminals : u # t => object'[u] = object[u], UNCHANGED items
        PROVE  Mended'
    <2>1. \A u \in Terminals : todo'[u] = IF u = t THEN steps ELSE todo[u]
      BY <1>1, <1>3 DEF ShellsTyped
    <2>2. \A u \in Terminals : Whole(todo'[u])
      BY <1>1, <1>3, <2>1
    <2>3. \A u \in Terminals : \A i \in Items : Repairs(u, i) => Repairs(u, i)'
      BY <1>3, <2>1 DEF Repairs
    <2>4. QED
      BY <1>3, <2>2, <2>3 DEF SInv, Mended
  <1>4. ASSUME NEW s \in Sessions, Resume(t, s) \/ Abandon(t, s) \/ Finish(t, s) \/ Kill(t, s)
        PROVE  Quiet' /\ Mended'
    <2>1. PICK steps, v : Enter(t, s, steps, v) /\ Whole(steps)
      <3>1. CASE Resume(t, s)
        BY <3>1, StepsWhole DEF Resume
      <3>2. CASE Abandon(t, s)
        BY <3>2, StepsWhole DEF Abandon
      <3>3. CASE Finish(t, s)
        BY <3>3, StepsWhole DEF Finish
      <3>4. CASE Kill(t, s)
        BY <3>4, StepsWhole DEF Kill
      <3>5. QED
        BY <1>4, <3>1, <3>2, <3>3, <3>4
    <2>2. /\ todo[t] = <<>> /\ todo' = [todo EXCEPT ![t] = steps]
          /\ object' = [object EXCEPT ![t] = BoundItem(s)]
          /\ UNCHANGED <<items, pc, mutations, crashes>>
      BY <2>1 DEF Enter, files, agents
    <2>3. \A u \in Terminals : u # t => object'[u] = object[u]
      BY <2>2 DEF SInv, Typed, TypeOK
    <2>4. \A x : ~Has(todo[t], x)
      BY <2>2 DEF Has
    <2>5. Mended'
      BY <1>3, <2>1, <2>2, <2>3, <2>4
    <2>6. QED
      BY <2>2, <2>5 DEF SInv, Quiet
  <1>5. ASSUME Progress(t) PROVE Quiet' /\ Mended'
    <2>1. UNCHANGED <<pc, mutations, crashes>>
      BY <1>5 DEF Progress, Activate, Own, Reopen, Disown, MarkDone, Close, MarkAbandoned, DeleteDir,
         RemoveEntry, Terminate, Escalate, Confirm, GiveUp, MarkOrphan, ThenAbandon, agents, shellRest,
         counters
    <2>2. ASSUME UNCHANGED items, Mended' PROVE Quiet' /\ Mended'
      BY <2>1, <2>2 DEF SInv, Quiet
    (* Steps that leave the work items alone.                              *)
    <2>3. ASSUME NEW x, Doing(t, x), Done(t), UNCHANGED <<items, object>>, x \notin {"reopen", "disown"}
          PROVE  Quiet' /\ Mended'
      <3>1. Mended'
        BY <2>3, StepMends
      <3>2. QED
        BY <2>2, <2>3, <3>1
    <2>4. CASE Activate(t) \/ Close(t) \/ DeleteDir(t) \/ RemoveEntry(t) \/ MarkOrphan(t)
      BY <2>3, <2>4 DEF Activate, Close, DeleteDir, RemoveEntry, MarkOrphan, shellRest
    <2>5. CASE Terminate(t) \/ Escalate(t) \/ Confirm(t)
      BY <2>3, <2>5 DEF Terminate, Escalate, Confirm, files, shellRest
    <2>6. CASE Own(t)
      <3>1. /\ Doing(t, "own") /\ Done(t) /\ UNCHANGED object
            /\ items' = Owned(items, object[t], subject[t])
        BY <2>6 DEF Own, shellRest
      <3>2. subject[t] \in Sessions
        BY <1>1, <3>1, DoneLeaves DEF ShellsTyped
      <3>3. \A j \in Items : items'[j].status # "absent" /\ (j # object[t] => items'[j] = items[j])
        BY <1>1, <3>1, <3>2, OwnerSet
      <3>4. Mended'
        BY <3>1, <3>3, StepMends
      <3>5. QED
        BY <2>1, <3>3, <3>4 DEF SInv, Quiet
    <2>7. CASE Disown(t)
      <3>1. /\ Doing(t, "disown") /\ Done(t) /\ UNCHANGED object
            /\ items' = Owned(items, object[t], None)
        BY <2>7 DEF Disown, shellRest
      <3>2. \A j \in Items : /\ items'[j].status # "absent"
                             /\ j # object[t] => items'[j] = items[j]
                             /\ j = object[t] => items'[j].owner = None
        BY <1>1, <3>1, OwnerSet
      <3>3. Mended'
        BY <3>1, <3>2, StepMends
      <3>4. QED
        BY <2>1, <3>2, <3>3 DEF SInv, Quiet
    <2>8. CASE Reopen(t)
      <3>1. /\ Doing(t, "reopen") /\ Done(t) /\ UNCHANGED object
            /\ items' = WithStatus(items, object[t], "in_progress")
        BY <2>8 DEF Reopen, shellRest
      <3>2. \A j \in Items : /\ items'[j].status # "absent"
                             /\ j # object[t] => items'[j] = items[j]
                             /\ j = object[t] => items'[j].status \notin Ended
        BY <1>1, <3>1, StatusSet DEF Ended
      <3>3. Mended'
        BY <3>1, <3>2, StepMends
      <3>4. QED
        BY <2>1, <3>2, <3>3 DEF SInv, Quiet
    <2>9. CASE MarkDone(t) \/ MarkAbandoned(t)
      <3>1. PICK x \in {"done", "abandon"}, status \in {"done", "abandoned"} :
              /\ Doing(t, x) /\ Done(t) /\ UNCHANGED object
              /\ items' = WithStatus(items, object[t], status)
        BY <2>9 DEF MarkDone, MarkAbandoned, shellRest
      <3>2. \A j \in Items : items'[j].status # "absent" /\ (j # object[t] => items'[j] = items[j])
        BY <1>1, <3>1, StatusSet
      <3>3. Mended'
        BY <3>1, <3>2, StepMends
      <3>4. QED
        BY <2>1, <3>2, <3>3 DEF SInv, Quiet
    <2>10. Whole(<<>>)
      BY StepsWhole
    <2>11. CASE GiveUp(t)
      <3>1. /\ Doing(t, "confirm") /\ todo' = [todo EXCEPT ![t] = <<>>]
            /\ UNCHANGED <<items, object>>
        BY <2>11 DEF GiveUp, files, shellRest
      <3>2. Kills(todo[t])
        BY <1>1, <3>1, HeadLeft DEF ShellsTyped, Doing, Kills
      <3>3. Mended'
        BY <1>3, <2>10, <3>1, <3>2
      <3>4. QED
        BY <2>2, <3>1, <3>3
    <2>12. CASE ThenAbandon(t)
      <3>1. /\ Doing(t, "thenAbandon") /\ UNCHANGED items
            /\ object' = [object EXCEPT ![t] = BoundItem(subject[t])]
        BY <2>12 DEF ThenAbandon, files
      <3>2. PICK steps : todo' = [todo EXCEPT ![t] = steps] /\ Whole(steps)
        BY <2>12, StepsWhole DEF ThenAbandon
      <3>3. Kills(todo[t])
        BY <1>1, <3>1, HeadLeft DEF ShellsTyped, Doing, Kills
      <3>4. \A u \in Terminals : u # t => object'[u] = object[u]
        BY <3>1 DEF SInv, Typed, TypeOK
      <3>5. Mended'
        BY <1>3, <3>1, <3>2, <3>3, <3>4
      <3>6. QED
        BY <2>2, <3>1, <3>5
    <2>13. QED
      BY <1>5, <2>4, <2>5, <2>6, <2>7, <2>8, <2>9, <2>11, <2>12 DEF Progress
  <1>6. QED
    BY <1>2, <1>4, <1>5

LEMMA ServersMend ==
  ASSUME SInv, MaxMutations = 0,
         \/ \E s \in Sessions : LaunchMeta(s) \/ LaunchEntry(s)
         \/ \E v \in Servers : ServerStep(v)
  PROVE  Quiet' /\ Mended'
  <1>1. ASSUME UNCHANGED <<items, todo, object, mutations, crashes>>, \A v \in Servers : pc'[v] = "idle"
        PROVE  Quiet' /\ Mended'
    BY <1>1 DEF SInv, Quiet, Mended, Repairs
  <1>2. ASSUME NEW s \in Sessions, LaunchMeta(s) \/ LaunchEntry(s) PROVE Quiet' /\ Mended'
    BY <1>1, <1>2 DEF LaunchMeta, LaunchEntry, agents, shells, counters, SInv, Quiet
  <1>3. ASSUME NEW v \in Servers, ServerStep(v) PROVE Quiet' /\ Mended'
    <2>1. pc[v] = "idle" /\ \A w \in Servers : pc[w] = "idle"
      BY DEF SInv, Quiet
    <2>2. ASSUME NEW s \in Sessions, StartServer(v, s) PROVE Quiet' /\ Mended'
      BY <1>1, <2>1, <2>2 DEF StartServer, shells, counters
    <2>3. CASE Heartbeat(v) \/ Interrupt(v) \/ Shutdown(v)
      BY <1>1, <2>1, <2>3 DEF Heartbeat, Interrupt, Shutdown, files, agents, shells, counters
    <2>4. CASE Die(v)
      <3>1. \A w \in Servers : pc'[w] = "idle"
        BY <2>1, <2>4 DEF Die, SInv, Typed, AgentsTyped
      <3>2. QED
        BY <1>1, <2>4, <3>1 DEF Die, files, shells, counters
    <2>5. ~(\E i \in Items : Bootstrap(v, i) \/ MutateRead(v, i))
      <3>1. \A i \in Items : Bootstrap(v, i) => items[i].status = "absent"
        BY Zenon DEF Bootstrap
      <3>2. \A i \in Items : MutateRead(v, i) => mutations < MaxMutations
        BY DEF MutateRead
      <3>3. QED
        BY <3>1, <3>2 DEF SInv, Quiet
    <2>6. /\ ~PublishItem(v) /\ ~BindCheck(v) /\ ~BindRename(v)
          /\ ~PointRead(v) /\ ~PointWrite(v) /\ ~MutateWrite(v)
      BY <2>1 DEF PublishItem, BindCheck, BindRename, PointRead, PointWrite, MutateWrite
    <2>7. QED
      BY <1>3, <2>2, <2>3, <2>4, <2>5, <2>6 DEF ServerStep
  <1>4. QED
    BY <1>2, <1>3

LEMMA InitMended ==
  ASSUME Settled, \A i \in Items : \E s \in Sessions : OwnItem[s] = i PROVE Init => SInv
  <1> SUFFICES ASSUME Init PROVE SInv
    OBVIOUS
  <1>1. /\ \A v \in Servers : pc[v] = "idle"
        /\ \A i \in Items : items[i].status = "in_progress"
        /\ mutations = 0 /\ crashes = 0
        /\ \A t \in Terminals : todo[t] = <<>>
    BY DEF Init
  <1>2. Whole(<<>>)
    BY StepsWhole
  <1>3. QED
    BY <1>1, <1>2, InitTyped DEF SInv, Quiet, Mended, Ended

(* SettledItemsUnowned: where every work item is bound from the start,     *)
(* nobody writes the index without its lock and no command dies, resume,   *)
(* finish, abandon and kill, however many and interleaved however, leave   *)
(* no owner to a work item that is done or abandoned.                      *)
THEOREM NobodyOwnsTheSettled ==
  ASSUME Settled, \A i \in Items : \E s \in Sessions : OwnItem[s] = i,
         MaxMutations = 0, MaxCrashes = 0
  PROVE  Spec => []SettledItemsUnowned
  <1>1. Init => SInv
    BY InitMended
  <1>2. SInv /\ [Next]_vars => SInv'
    <2>1. SInv /\ UNCHANGED vars => Quiet' /\ Mended'
      BY DEF SInv, Quiet, Mended, Repairs, vars, files, agents, shells, counters
    <2>2. SInv /\ Next => Quiet' /\ Mended'
      BY ServersMend, ShellsMend DEF Next
    <2>3. QED
      BY <2>1, <2>2, NextTyped DEF SInv
  <1>3. SInv => SettledItemsUnowned
    <2> SUFFICES ASSUME SInv, AtRest, NEW i \in Items, items[i].status \in Ended
                 PROVE  items[i].owner = None
      BY DEF SettledItemsUnowned, Ended
    <2>1. \A t \in Terminals : \A x : ~Has(todo[t], x)
      BY DEF AtRest, Has
    <2>2. QED
      BY <2>1 DEF SInv, Mended, Repairs
  <1>4. QED
    BY <1>1, <1>2, <1>3, PTL DEF Spec
=============================================================================
