--------------------------- MODULE MCAnthropicServer ---------------------------
(***************************************************************************)
(* Instances of AnthropicServer for TLC.                                   *)
(***************************************************************************)
EXTENDS AnthropicServer, TLC

CONSTANTS r1, r2, r3, c1

ThreeOfOne == r1 :> c1 @@ r2 :> c1 @@ r3 :> c1
=============================================================================
