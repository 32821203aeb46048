----------------------- MODULE MCWorkflowStateManager -----------------------
(***************************************************************************)
(* Instances of WorkflowStateManager for TLC.                              *)
(***************************************************************************)
EXTENDS WorkflowStateManager, TLC

CONSTANTS m1, m2, w1, w2

SameItem == [m \in {m1, m2} |-> w1]
OwnItems == [m \in {m1, m2} |-> IF m = m1 THEN w1 ELSE w2]
OneQuick == [i \in {w1} |-> "quick"]
QuickAndFull == [i \in {w1, w2} |-> IF i = w1 THEN "quick" ELSE "full"]

GatesNamed(ids) == {g \in UNIFIED_GATES : g.id \in ids}
UnderstandingGate == GatesNamed({"quick.understanding_confirmed"})

ManagerSymmetry == Permutations(Managers)
=============================================================================
