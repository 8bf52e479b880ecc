------------------------------- MODULE MCRib -------------------------------
(***************************************************************************)
(* Small instances of Rib: three sessions, one shared BS identifier and    *)
(* the identifiers the offset assigns, two required capabilities and one   *)
(* optional one.                                                           *)
(***************************************************************************)
EXTENDS Rib

CONSTANTS c1, c2, c3

ThreeAgents == {0, 1, 2}
TwoAgents   == {0, 1}

\* 7 is announced by the agents; 11 is also what agent 1 gets for announcing 0.
SharedBs   == {7}
CollidingBs == {7, 11}
Offset     == 10

AllCap      == {c1, c2, c3}
RequiredCap == {c1, c2}
=============================================================================
