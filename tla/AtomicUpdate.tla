---------------------------- MODULE AtomicUpdate ----------------------------
(***************************************************************************)
(* What the updates of a shared JSON file promise their callers: the file  *)
(* holds the updates made so far, and each update adds itself to all of    *)
(* them in one step.  No update is ever taken back.  The promise may lapse *)
(* for good; what happens to the file from then on is left open.           *)
(***************************************************************************)
CONSTANT Updates   \* the updates that may be made, each at most once
VARIABLES
  applied,  \* the updates the file holds
  lapsed    \* whether the promise is off

vars == <<applied, lapsed>>

Init == applied = {} /\ lapsed = FALSE

Update(u) ==
  /\ ~lapsed
  /\ u \notin applied
  /\ applied' = applied \cup {u}
  /\ UNCHANGED lapsed

(* The step that ends the promise, and any step after it.                  *)
Lapse == lapsed' = TRUE

Next == Lapse \/ \E u \in Updates : Update(u)

Spec == Init /\ [][Next]_vars
=============================================================================
