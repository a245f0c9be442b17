------------------------------ MODULE MCCia402 ------------------------------
(* Instance of Cia402 for TLC: two clients of the slot, one OD entry, a    *)
(* sequence counter of five values and 2-bit handles, so that both wrap.   *)
EXTENDS Cia402
=============================================================================
