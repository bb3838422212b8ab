--------------------------- MODULE MCRequestScheduler ---------------------------
(***************************************************************************)
(* Instances of RequestScheduler for TLC.                                  *)
(***************************************************************************)
EXTENDS RequestSchedulerRefinement, TLC

CONSTANTS a, b, c, d

(* Two equal priorities, a higher and a lower one.                          *)
FourPriorities == (a :> 0) @@ (b :> 0) @@ (c :> 1) @@ (d :> -1)
ThreePriorities == (a :> 0) @@ (b :> 0) @@ (c :> 1)
=============================================================================
