-------------------------- MODULE MCStreamingFailover --------------------------
(***************************************************************************)
(* Instances of StreamingFailover for TLC.                                 *)
(***************************************************************************)
EXTENDS StreamingFailover, TLC

CONSTANTS r1, r2, p1, p2

(* Two requests whose chains share their providers in opposite orders.      *)
CrossedChains == (r1 :> <<p1, p2>>) @@ (r2 :> <<p2, p1>>)
=============================================================================
