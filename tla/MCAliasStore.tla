------------------------------ MODULE MCAliasStore ------------------------------
(***************************************************************************)
(* Instances of AliasStore for TLC.                                        *)
(***************************************************************************)
EXTENDS AliasStore

CONSTANTS admin, gateway, compat, sonnet, mine

OneDefault == <<sonnet>>
=============================================================================
