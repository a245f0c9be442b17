----------------------------- MODULE MCOdBridge -----------------------------
(* A small instance of OdBridge for TLC: tool a writes, tool b reads.      *)
(* Requests and telemetry share only the receive buffer, so that one is    *)
(* explored in depth with a little of the other.  Values are compared for  *)
(* equality alone and are interchangeable.                                 *)
EXTENDS OdBridge, TLC

AWrites == [o \in {"limit", "mode"} |-> "a"]

Wishes == {[div |-> 0, batch |-> 3], [div |-> 2, batch |-> 2]}

Bounds == {[requests |-> 3, stream |-> 0, trouble |-> 0],
           [requests |-> 2, stream |-> 0, trouble |-> 1],
           [requests |-> 1, stream |-> 3, trouble |-> 0],
           [requests |-> 0, stream |-> 6, trouble |-> 0]}

Symmetry == Permutations(Values)
=============================================================================
