---------------------------- MODULE MCSouthbound ----------------------------
(***************************************************************************)
(* Sessions numbered from 0 for one BS, whose agents provide the only      *)
(* capability or agree on two halves of it.                                *)
(***************************************************************************)
EXTENDS Southbound

TwoAgents   == 0..1
ThreeAgents == 0..2
OneWireBs   == {1}
OneCap      == {"all"}
=============================================================================
