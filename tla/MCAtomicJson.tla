---------------------------- MODULE MCAtomicJson ----------------------------
(***************************************************************************)
(* The instance of AtomicJson for TLC: three processes and three updates,  *)
(* with deaths and a suspended holder.  Processes and updates are model    *)
(* values; the updates are not tied to a process: Begin gives any process  *)
(* any of them.                                                            *)
(***************************************************************************)
EXTENDS AtomicJson
=============================================================================
