------------------------ MODULE MCWorkflowController ------------------------
(***************************************************************************)
(* Instance of WorkflowController for TLC: the lanes, without boards.      *)
(***************************************************************************)
EXTENDS WorkflowController

CONSTANTS t1, t2, p1, d1

NoDeps == [t \in Tasks |-> {}]
AllGates == Gates
=============================================================================
