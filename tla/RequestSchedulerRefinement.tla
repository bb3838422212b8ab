---------------------- MODULE RequestSchedulerRefinement ----------------------
(***************************************************************************)
(* The scheduler's sorted array and its counter of slots implement a       *)
(* priority pool of maxConcurrent slots, as long as nobody calls clear().  *)
(***************************************************************************)
EXTENDS RequestScheduler

(* A task waits while it is in the queue, holds a slot while its promise is *)
(* unsettled, and is gone afterwards even if its fn() is still running.     *)
PoolStatus(p) ==
  CASE p = "new"    -> "idle"
    [] p = "queued" -> "waiting"
    [] p = "active" -> "holding"
    [] OTHER        -> "gone"

Pool == INSTANCE PriorityPool WITH
          Slots    <- MaxConcurrent,
          status   <- [t \in Task |-> PoolStatus(phase[t])],
          arrival  <- ticket,
          arrivals <- stats.queued

(* The scheduler implements the pool: every callback is one step of the     *)
(* pool or invisible to it.                                                 *)
ImplementsPool == Pool!PoolSpec

=============================================================================
