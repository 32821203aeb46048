------------------------- MODULE MCMigrationSlices --------------------------
(***************************************************************************)
(* Instance of MigrationSlices for TLC: the boards of an item.             *)
(***************************************************************************)
EXTENDS MigrationSlices

CONSTANTS t1, t2, p1, d1, l1, l2

SecondAfterFirst == [t \in Tasks |-> IF t = t2 THEN {t1} ELSE {}]
SecondSliceAfterFirst == [s \in Slices |-> IF s = l2 THEN {l1} ELSE {}]
AllGates == Gates
\* A migration is chosen by the user, a full delivery by the orchestrator.
ChosenInit == SlicesInit /\ (state.laneSource = "user_explicit" <=> state.mode = "migration")
ChosenSpec == ChosenInit /\ [][SlicesNext]_allVars
\* What states are told apart by: no command reads v2, so what it holds
\* changes nothing else.
WithoutV2 == <<state, board, draft, restarts, sliceVars>>
=============================================================================
