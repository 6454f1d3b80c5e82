-------------------------- MODULE MCRanaTimerBank --------------------------
(* Model checking of the timers: two spaces with one timer each. *)
EXTENDS RanaTimerBank
BootGarbage == {-1, 2}
=============================================================================
