---------------------------- MODULE MCHealthEngine ----------------------------
(***************************************************************************)
(* Instances of HealthEngine for TLC.                                      *)
(***************************************************************************)
EXTENDS HealthEngine, TLC

Symmetry == Permutations(Provider)
=============================================================================
