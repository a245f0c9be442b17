---------------------------- MODULE MessageQueue ----------------------------
(***************************************************************************)
(* What a panel may expect of its command connection: its messages are     *)
(* handled in the order in which it sent them, each at most once.  They    *)
(* are lost only with the connection, or between a malformed one and the   *)
(* next moment at which none is left.                                      *)
(***************************************************************************)
EXTENDS Naturals, Sequences

CONSTANTS Messages, Malformed

VARIABLES
  queue,    \* messages sent on the connection and neither handled nor lost
  handled,  \* messages handled, in order
  faulty    \* a malformed message has been sent on the connection, since
            \* none was left

vars == <<queue, handled, faulty>>

Init == queue = <<>> /\ handled = <<>> /\ faulty = FALSE

Put(m) ==
  /\ queue' = Append(queue, m)
  /\ faulty' = (faulty \/ m \in Malformed)
  /\ UNCHANGED handled

Prefix(n) == SubSeq(queue, 1, n)

Rest(n) == SubSeq(queue, n + 1, Len(queue))

(* A pass handles the first n messages and may drop some of the next. *)
Take(n, dropped) ==
  /\ dropped > 0 => faulty
  /\ handled' = handled \o Prefix(n)
  /\ queue' = Rest(n + dropped)
  /\ faulty' \in {faulty, faulty /\ queue' # <<>>}

Close == queue' = <<>> /\ faulty' = FALSE /\ UNCHANGED handled

Next ==
  \/ Close
  \/ \E m \in Messages : Put(m)
  \/ \E n \in 0 .. Len(queue) : \E dropped \in 0 .. Len(queue) - n : Take(n, dropped)

Spec == Init /\ [][Next]_vars
=============================================================================
