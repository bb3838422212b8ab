--------------------------- MODULE MCAnthropicStream ---------------------------
(***************************************************************************)
(* Instances of AnthropicStream for TLC: every parameter is a plain value  *)
(* that the .cfg gives.                                                    *)
(***************************************************************************)
EXTENDS AnthropicStream
=============================================================================
