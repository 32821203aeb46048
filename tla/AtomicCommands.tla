-------------------------- MODULE AtomicCommands --------------------------
(* What a command of the controller promises of the state of a work item:   *)
(* it replaces the state it was computed from, as one step, or nothing. A    *)
(* process that dies while a file is being written is the exception.         *)
EXTENDS Naturals

CONSTANTS Items, None, Half
VARIABLE doc        \* doc[i]: the state of item i that commands have left

IsDoc(d) == d \notin {None, Half}
Publish(i, d) == d.item = i /\ doc' = [doc EXCEPT ![i] = d]

\* A command on an item that is there: the new state is made from the old.
Change(i) == IsDoc(doc[i]) /\ IsDoc(doc'[i]) /\ doc'[i].from = doc[i].rev /\ Publish(i, doc'[i])
\* A task is started, or adopted from the file of an older version.
Start(i)  == IsDoc(doc'[i]) /\ doc'[i].from = None /\ Publish(i, doc'[i])
\* A command read a state that was withdrawn since: where no state is, none is
\* compared.
Revive(i) == doc[i] = None /\ IsDoc(doc'[i]) /\ Publish(i, doc'[i])
\* A process dies in the middle of a write.
Tear(i)   == doc' = [doc EXCEPT ![i] = Half]

Init == \A i \in Items : doc[i] = None \/ IsDoc(doc[i])
Next == \E i \in Items : Change(i) \/ Start(i) \/ Revive(i) \/ Tear(i)
Spec == Init /\ [][Next]_doc
============================================================================
