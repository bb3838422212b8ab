-------------------------- MODULE MCMonitoringEngine --------------------------
(***************************************************************************)
(* Instance of MonitoringEngine for TLC.                                   *)
(***************************************************************************)
EXTENDS MonitoringEngine

CONSTANTS p1, p2

(* A list may name a provider twice, or not at all.                         *)
SomeLists == {<<p1, p2>>, <<p2, p1, p2>>, <<p1>>}
=============================================================================
