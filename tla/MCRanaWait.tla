----------------------------- MODULE MCRanaWait -----------------------------
(***************************************************************************)
(* Model checking of the spaces and the threads that wait: two slots, two  *)
(* types, three creations, two threads.  A behaviour is one of two parts:  *)
(* the pool alone, where spaces that failed are reloaded as well, or the   *)
(* pool with threads, where those that are reloaded have not failed.       *)
(***************************************************************************)
EXTENDS RanaWait

VARIABLES
    part        \* which of the two

PartsInit == WaitInit /\ part \in {"pool", "threads"}
PoolNext == part = "pool" /\ WaitNext /\ UNCHANGED <<part, thread>>
ThreadsNext == part = "threads" /\ WaitNext /\ bank'.stale = {} /\ UNCHANGED part

\* The fairness of RanaWait: neither part bounds Ticks or Routine.
PartsSpec ==
    /\ PartsInit /\ [][PoolNext \/ ThreadsNext]_<<allVars, part>>
    /\ WaitFairness
=============================================================================
