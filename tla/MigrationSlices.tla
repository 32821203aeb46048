--------------------------- MODULE MigrationSlices ---------------------------
(***************************************************************************)
(* The slice board of a strict migration (migration-slices.json), beside   *)
(* the commands on the work item: src/openkit-runtime/lib/                 *)
(* migration-slice-rules.js and the slice commands of                      *)
(* workflow-state-controller.js.                                           *)
(*                                                                         *)
(* As with the task board, a slice command reads and validates in one step *)
(* and replaces the file in another; every command on the item validates   *)
(* the slice board it finds.  Who owns a slice is left out, only whether   *)
(* somebody does: a claim by another is refused, and nobody loses a slice. *)
(***************************************************************************)
EXTENDS WorkflowController

CONSTANTS Slices, SliceDeps
ASSUME SlicesAssumption == SliceDeps \in [Slices -> SUBSET Slices]

VARIABLES
  slices,   \* the slices on the board; none: there is no file
  hand,     \* per process: the slice command in progress
  open      \* history: slices that were open in this review, as the persons
            \* who left them so know

sliceVars == <<slices, hand, open>>
allVars == <<vars, sliceVars>>

Slice(status, owned, qa) == [status |-> status, owned |-> owned, qa |-> qa]
Empty == [at |-> "idle", slices |-> NoTasks, late |-> FALSE]

SliceMoves ==
  [queued |-> {"ready", "cancelled"}, ready |-> {"claimed", "cancelled"},
   claimed |-> {"in_progress", "cancelled"},
   in_progress |-> {"parity_ready", "blocked", "cancelled"},
   parity_ready |-> {"verified", "blocked", "cancelled"},
   blocked |-> {"claimed", "in_progress", "cancelled"},
   verified |-> {"cancelled"}, cancelled |-> {}]
SliceActive == {"claimed", "in_progress", "parity_ready"}
SliceSettled == {"verified", "cancelled"}

(* validateMigrationSliceTransition.                                       *)
SliceTransition(slice, next) ==
  /\ next \in SliceMoves[slice.status]
  /\ <<slice.status, next>> \in {<<"claimed", "in_progress">>,
                                 <<"in_progress", "parity_ready">>} => slice.owned
  /\ <<slice.status, next>> = <<"parity_ready", "verified">> => slice.qa

(* validateMigrationSliceBoard; an empty board is not valid.               *)
SliceBoardValid(b, parallel) ==
  /\ DOMAIN b # {}
  /\ \A s \in DOMAIN b :
       /\ SliceDeps[s] \subseteq DOMAIN b
       /\ b[s].status \in {"ready", "claimed", "in_progress"} =>
            \A d \in SliceDeps[s] : b[d].status \in SliceSettled \cup {"parity_ready"}
       /\ b[s].status \in SliceActive => b[s].owned
       /\ b[s].status = "verified" => b[s].qa
  /\ parallel = "none" =>
       Cardinality({s \in DOMAIN b : b[s].status \in SliceActive}) <= 1

SliceStages == {"migration_strategy", "migration_upgrade",
                "migration_code_review", "migration_verify", "migration_done"}
ReviewStages == SliceStages \ {"migration_strategy", "migration_upgrade"}

(* validateManagedState: an item with a slice board.                       *)
SlicesFit(s) ==
  DOMAIN slices # {} => /\ s.mode = "migration" /\ s.stage \in SliceStages
                        /\ SliceBoardValid(slices, s.parallel)

Unsettled == {s \in DOMAIN slices : slices[s].status \notin SliceSettled}
(* Mutant: slices that nobody works on do not hold the review back.        *)
NoSliceActive == \A s \in DOMAIN slices : slices[s].status \notin SliceActive
(* getMigrationSliceBoardReadiness, for the advance to code review and to  *)
(* the end.                                                                *)
ReviewReady == Unsettled = {}

(* A command on the item.  advanceStage asks for settled slices twice.     *)
ItemCommand ==
  /\ SlicesFit(state)
  /\ StateCommand
  /\ SlicesFit(state')
  /\ LET Enters(stage) == state.stage # stage /\ state'.stage = stage
         reviewed == Enters("migration_code_review")
     IN  /\ reviewed \/ Enters("migration_done") => ReviewReady
         /\ open' = CASE reviewed -> {}
                      [] Enters("migration_verify")
                           /\ state.stage # "migration_code_review" -> Unsettled
                      [] OTHER -> open
  /\ hand' = IF state'.stage = state.stage THEN hand
             ELSE [p \in Writers |-> IF hand[p].at = "write" THEN [hand[p] EXCEPT !.late = TRUE]
                               ELSE hand[p]]
  /\ UNCHANGED slices

(* withMigrationSliceBoard, up to the write.                               *)
PrepareSlices(p, next) ==
  /\ hand[p] = Empty
  /\ Accepted(state, board) /\ SlicesFit(state)
  /\ state.mode = "migration" /\ state.stage \in SliceStages
  /\ SliceBoardValid(next, state.parallel)
  /\ hand' = [hand EXCEPT ![p] = [at |-> "write", slices |-> next, late |-> FALSE]]
  /\ UNCHANGED <<vars, slices, open>>

CreateMigrationSlice(p, s, status) ==
  /\ s \notin DOMAIN slices
  /\ PrepareSlices(p, [r \in DOMAIN slices \cup {s} |->
                         IF r = s THEN Slice(status, FALSE, FALSE) ELSE slices[r]])

ClaimMigrationSlice(p, s) ==
  /\ SliceTransition(slices[s], "claimed")
  /\ PrepareSlices(p, [slices EXCEPT ![s].owned = TRUE, ![s].status = "claimed"])

AssignMigrationQaOwner(p, s) == PrepareSlices(p, [slices EXCEPT ![s].qa = TRUE])

SetMigrationSliceStatus(p, s, next) ==
  /\ SliceTransition(slices[s], next)
  /\ PrepareSlices(p, [slices EXCEPT ![s].status = next])

(* writeMigrationSliceBoard: the board that was prepared, wherever the     *)
(* item is now.                                                            *)
WriteSlices(p) ==
  /\ hand[p].at = "write"
  /\ slices' = hand[p].slices
  /\ open' = open \cup (DOMAIN slices' \ DOMAIN slices)
                   \cup (IF hand[p].late THEN Unsettled' ELSE {})
  /\ hand' = [hand EXCEPT ![p] = Empty]
  /\ UNCHANGED vars

SliceCommand(p) ==
  \/ \E s \in Slices, status \in {"ready", "queued"} : CreateMigrationSlice(p, s, status)
  \/ \E s \in DOMAIN slices :
       \/ ClaimMigrationSlice(p, s)
       \/ AssignMigrationQaOwner(p, s)
       \/ \E next \in DOMAIN SliceMoves : SetMigrationSliceStatus(p, s, next)
  \/ WriteSlices(p)

SlicesInit ==
  /\ Init
  /\ slices = NoTasks /\ open = {}
  /\ hand = [p \in Writers |-> Empty]

SlicesNext ==
  \/ ItemCommand
  \/ \E p \in Writers : SlicesFit(state) /\ BoardCommand(p) /\ UNCHANGED sliceVars
  \/ \E p \in Writers : SliceCommand(p)
SlicesSpec == SlicesInit /\ [][SlicesNext]_allVars

-----------------------------------------------------------------------------
(* A migration in code review, verification or done has no slice that is   *)
(* neither verified nor cancelled (advanceStage, getMigrationSliceBoard-   *)
(* Readiness), however rework led it back and forth, but for the ones that *)
(* were created since, that a finding took along when it sent the item to  *)
(* verification from elsewhere (routeRework), or that a command wrote      *)
(* which had read the board before the item moved.                         *)
SlicesReviewed == state.stage \in ReviewStages => Unsettled \subseteq open
=============================================================================
