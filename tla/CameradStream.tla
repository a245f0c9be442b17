---------------------------- MODULE CameradStream ---------------------------
(***************************************************************************)
(* One inbound CAMERAD connection of app/controller_mgr: the panel's TCP   *)
(* stream arrives in pieces of any size, is collected in tcp_rx_buf, cut   *)
(* into messages there, and lost with the connection or behind a header    *)
(* that does not parse.                                                    *)
(*                                                                         *)
(* The stream is a sequence of units; a header is HeaderSize of them.      *)
(* Only the first unit of a message has the magic word.  What handling a   *)
(* message does is in ControllerMgr and CmcShots.                          *)
(***************************************************************************)
EXTENDS Integers, Sequences

CONSTANTS
  Kinds,       \* kinds of messages, each [size, claims, parses]: the units
               \* it has, message_length, and whether its header is accepted
  MaxMessages, \* bound: messages sent
  MaxConnects  \* bound: connections

HeaderSize == 2
BufSize    == 4

ASSUME ConstantsAssumption ==
  /\ \A k \in Kinds : k.size \in HeaderSize .. BufSize - 1
                      /\ k.claims \in HeaderSize .. BufSize - 1
                      /\ k.parses \in BOOLEAN
  /\ MaxMessages \in Nat /\ MaxConnects \in Nat

VARIABLES
  socket,   \* the listen slot: "listen", "established", "ended"
  wire,     \* units sent by the panel and not read yet
  rx,       \* tcp_rx_buf up to tcp_rx_pending
  handled,  \* history: messages given to handle_command
  faulty,   \* history: a malformed message has been sent on the connection
            \* since nothing was left to read
  sent,     \* number of messages sent
  connects  \* bound: connections still to come

vars == <<socket, wire, rx, handled, faulty, sent, connects>>

Messages == [id : 1 .. MaxMessages, kind : Kinds]

WellFormed(m) == m.kind.parses /\ m.kind.claims = m.kind.size

Malformed == {m \in Messages : ~WellFormed(m)}

Units(m) == [i \in 1 .. m.kind.size |-> [message |-> m, pos |-> i]]

From(s, n) == SubSeq(s, n + 1, Len(s))

-----------------------------------------------------------------------------
(* The panel and the network *)

Connect ==
  /\ socket = "listen" /\ connects > 0
  /\ socket' = "established"
  /\ connects' = connects - 1
  /\ UNCHANGED <<wire, rx, handled, faulty, sent>>

Send(kind) ==
  /\ socket = "established" /\ sent < MaxMessages
  /\ LET m == [id |-> sent + 1, kind |-> kind]
     IN /\ wire' = wire \o Units(m)
        /\ faulty' = (faulty \/ ~WellFormed(m))
  /\ sent' = sent + 1
  /\ UNCHANGED <<socket, rx, handled, connects>>

(* The panel closes, or the W6100 gives the connection up (CLOSE_WAIT,     *)
(* CLOSED), with any part of the stream still unread.                      *)
Disconnect ==
  /\ socket = "established"
  /\ socket' = "ended"
  /\ UNCHANGED <<wire, rx, handled, faulty, sent, connects>>

-----------------------------------------------------------------------------
(* The parser *)

(* camerad_parse_header on the buffer from offset o *)
Parses(buf, o) == buf[o + 1].pos = 1 /\ buf[o + 1].message.kind.parses

HeaderHere_Strict(buf, o) == Len(buf) - o > HeaderSize

HeaderHere(buf, o) == Len(buf) - o >= HeaderSize

Length(buf, o) == buf[o + 1].message.kind.claims

BodyHere_Assumed(buf, o) == HeaderHere(buf, o)

BodyHere(buf, o) == Length(buf, o) <= Len(buf) - o

(* The while loop from each offset: the messages it hands on and what it   *)
(* leaves in the buffer.  A header that does not parse empties it.         *)
Loop(buf) ==
  LET from[o \in 0 .. Len(buf)] ==
        IF ~HeaderHere(buf, o) THEN [messages |-> <<>>, rest |-> From(buf, o)]
        ELSE IF ~Parses(buf, o) THEN [messages |-> <<>>, rest |-> <<>>]
        ELSE IF ~BodyHere(buf, o) THEN [messages |-> <<>>, rest |-> From(buf, o)]
        ELSE LET next == o + Length(buf, o)
                 tail == IF next > Len(buf) THEN [messages |-> <<>>, rest |-> <<>>] ELSE from[next]
             IN [tail EXCEPT !.messages = <<buf[o + 1].message>> \o @]
  IN from[0]

(* rx_truncated: a full buffer without a message is given up. *)
Emptied(buf) == IF Len(buf) >= BufSize THEN <<>> ELSE buf

(* service_tcp_listener_slot on an established connection; n units come    *)
(* out of net_recv.                                                        *)
Receive(n) ==
  /\ socket = "established"
  /\ n <= BufSize - Len(rx)
  /\ wire' = From(wire, n)
  /\ LET parsed == Loop(rx \o SubSeq(wire, 1, n))
     IN /\ rx' = Emptied(parsed.rest)
        /\ handled' = handled \o parsed.messages
  /\ faulty' = (faulty /\ rx' \o wire' # <<>>)
  /\ UNCHANGED <<socket, sent, connects>>

RxAfterEnd_Kept(buf) == buf

RxAfterEnd(buf) == <<>>

(* service_tcp_listener_slot after the end of a connection; reopening the  *)
(* listen slot may fail and is tried again at the next pass.               *)
Reopen ==
  /\ socket = "ended"
  /\ rx' = RxAfterEnd(rx)
  /\ wire' = <<>>
  /\ faulty' = FALSE
  /\ socket' \in {"listen", "ended"}
  /\ UNCHANGED <<handled, sent, connects>>

(* A pass that finds nobody connected *)
Listening == socket = "listen" /\ UNCHANGED vars

-----------------------------------------------------------------------------
Init ==
  /\ socket = "listen"
  /\ wire = <<>> /\ rx = <<>> /\ handled = <<>>
  /\ faulty = FALSE
  /\ sent = 0 /\ connects = MaxConnects

ReceiveSome == \E n \in 1 .. Len(wire) : Receive(n)

Next ==
  \/ Connect \/ Disconnect \/ Reopen \/ Listening \/ ReceiveSome
  \/ \E kind \in Kinds : Send(kind)

(* TCP delivers, and the super-loop comes round.  The loop does not wait   *)
(* for a listener that cannot be opened.                                   *)
Fairness == WF_vars(ReceiveSome)

Spec == Init /\ [][Next]_vars /\ Fairness

-----------------------------------------------------------------------------
(* Properties *)

(* The messages that stand whole in the buffer and the stream *)
Whole(s) ==
  LET starts == SelectSeq(s, LAMBDA u : u.pos = 1)
  IN [i \in 1 .. Len(starts) |-> starts[i].message]

Waiting == Whole(rx \o wire)

Queue == INSTANCE MessageQueue WITH queue <- Waiting

(* Messages are handled in order, whole and at most once, however the      *)
(* network cuts the stream.  They are lost only when the connection ends   *)
(* or behind a malformed message of the same connection, before all that   *)
(* was sent is read: the parser is back in step with the next message, and *)
(* what an earlier connection left in the buffer does no harm.             *)
ImplementsMessageQueue == Queue!Spec

(* A message with no malformed one before it is handled, or the connection *)
(* ends: none waits for the next one to push it through.                   *)
GoodStreamIsHandled ==
  \A id \in 1 .. MaxMessages :
    ((\E i \in DOMAIN Waiting : Waiting[i].id = id) /\ ~faulty)
      ~> (\/ \E i \in DOMAIN handled : handled[i].id = id
          \/ faulty \/ socket # "established")
=============================================================================
