--------------------------- MODULE MCGatewayPipeline ---------------------------
(***************************************************************************)
(* Instances of GatewayPipeline for TLC.                                   *)
(***************************************************************************)
EXTENDS GatewayPipeline, TLC

CONSTANTS r1, r2, p1, p2

(* A combo of two providers, one of which another request uses as well.     *)
SharedCombo == (r1 :> <<p1>>) @@ (r2 :> <<p1, p2>>)

=============================================================================
