---------------------------- MODULE MCAxisMotion ----------------------------
(* Small instances of AxisMotion for TLC. *)
EXTENDS AxisMotion

Bound(requests, trouble) == [requests |-> requests, trouble |-> trouble]

SomeBounds  == {Bound(4, 0), Bound(2, 1)}
EagerBounds == {Bound(4, 1)}
=============================================================================
