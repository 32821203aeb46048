----------------------------- MODULE MCSessions -----------------------------
(***************************************************************************)
(* Instances of Sessions for TLC.  Nothing distinguishes two sessions, two *)
(* work items or two servers that have not met, so the runs that start     *)
(* with nothing launched check one state of each orbit.                    *)
(***************************************************************************)
EXTENDS Sessions, TLC

Symmetry ==
  Permutations(Sessions) \cup Permutations(Items) \cup Permutations(Servers)
=============================================================================
