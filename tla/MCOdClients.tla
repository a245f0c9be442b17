---------------------------- MODULE MCOdClients -----------------------------
(* A small instance of OdClients for TLC.  Nothing compares two limits but *)
(* for equality, so that their values are interchangeable.                 *)
EXTENDS OdClients, TLC

Symmetry == Permutations(LimitValues)
=============================================================================
