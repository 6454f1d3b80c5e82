----------------------------- MODULE MCTgrFrame -----------------------------
(* Model checking of the editing session: two spaces, three edits in all. *)
EXTENDS TgrFrame
=============================================================================
