----------------------------- MODULE MCCmcShots -----------------------------
(* Small instances of CmcShots for TLC: two positions, two slots, which at *)
(* boot are empty or hold one position each.                               *)
EXTENDS CmcShots

CONSTANTS p1, p2

TwoPositions == {p1, p2}
OneEach      == <<p1, p2>>
Tables       == {[n \in ShotNos |-> Empty], OneEach}
Stored       == {OneEach}

Bound(requests, movements, trouble) ==
  [requests |-> requests, movements |-> movements, trouble |-> trouble]

SomeBounds == {Bound(3, 0, 0), Bound(2, 0, 1), Bound(1, 1, 0)}
NoTrouble  == {Bound(2, 0, 0)}
=============================================================================
