-------------------------- MODULE MCSpaceReferences --------------------------
(* Model checking of the references: one function, two triggers of a group,  *)
(* a call, two references to triggers, two or three names.  A freed node     *)
(* does not come back, so a behaviour ends when all are freed.               *)
EXTENDS SpaceReferences, TLC
Symmetry == Permutations(Trigger) \cup Permutations(TriggerRef) \cup Permutations(Name)
=============================================================================
