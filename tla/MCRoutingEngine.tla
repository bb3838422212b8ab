---------------------------- MODULE MCRoutingEngine ----------------------------
(***************************************************************************)
(* Instance of RoutingEngine for TLC.                                      *)
(***************************************************************************)
EXTENDS RoutingEngine

CONSTANTS p1, p2, p3

FileOrderOfThree == <<p1, p2, p3>>
TwoPolicies == {<<<<p1>>, <<p2>>>>, <<<<p2, p3>>>>}
FiveContents ==
  {[on |-> {p1, p2, p3}, state |-> "valid"], [on |-> {p2, p3}, state |-> "valid"],
   [on |-> {p1}, state |-> "invalid"],
   [on |-> {}, state |-> "broken"], [on |-> {}, state |-> "missing"]}

=============================================================================
