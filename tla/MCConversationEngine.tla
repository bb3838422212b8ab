-------------------------- MODULE MCConversationEngine --------------------------
(***************************************************************************)
(* Instance of ConversationEngine for TLC.                                 *)
(***************************************************************************)
EXTENDS ConversationEngine

CONSTANTS ip1, c1


=============================================================================
