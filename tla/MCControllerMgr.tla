--------------------------- MODULE MCControllerMgr ---------------------------
(* A small instance of ControllerMgr for TLC. *)
EXTENDS ControllerMgr
=============================================================================
