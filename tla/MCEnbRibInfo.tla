---------------------------- MODULE MCEnbRibInfo ----------------------------
(***************************************************************************)
(* A BS of two agents, the first of them with RRC and S1AP.                *)
(***************************************************************************)
EXTENDS EnbRibInfo, TLC

CONSTANTS cu, du, r1, v1, v2

TwoAgents == {cu, du}
OneRnti   == {r1}
TwoValues == {v1, v2}
Symmetry  == Permutations(TwoValues)
=============================================================================
