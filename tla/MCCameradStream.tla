-------------------------- MODULE MCCameradStream ---------------------------
(* A small instance of CameradStream for TLC: messages without and with a  *)
(* body, one with a header that is refused, and two whose length field is  *)
(* wrong by one.                                                           *)
EXTENDS CameradStream

SomeKinds == {[size |-> 2, claims |-> 2, parses |-> TRUE],
              [size |-> 3, claims |-> 3, parses |-> TRUE],
              [size |-> 3, claims |-> 3, parses |-> FALSE],
              [size |-> 2, claims |-> 3, parses |-> TRUE],
              [size |-> 3, claims |-> 2, parses |-> TRUE]}
=============================================================================
