----------------------------- MODULE MCPersist ------------------------------
(* A small instance of Persist for TLC: two blobs that share a word, the   *)
(* tail of one looks like erased flash.                                    *)
EXTENDS Persist

SomeWords == {<<"x">>, <<"y">>, Erased}
Factory   == <<<<"x">>, <<"y">>>>
SomeBlobs == {Factory, <<<<"x">>, Erased>>}
SomeBounds == {[saves |-> 3, trouble |-> 1], [saves |-> 2, trouble |-> 2]}
=============================================================================
