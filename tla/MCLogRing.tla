----------------------------- MODULE MCLogRing ------------------------------
(* A small instance of LogRing for TLC: a chunk cuts the longer lines, and *)
(* a line may need the room of two.                                        *)
EXTENDS LogRing
=============================================================================
