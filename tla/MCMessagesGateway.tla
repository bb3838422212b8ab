--------------------------- MODULE MCMessagesGateway ---------------------------
(***************************************************************************)
(* Instance of MessagesGateway for TLC; Gateway.cfg gives the bounds.      *)
(***************************************************************************)
EXTENDS MessagesGateway
=============================================================================
