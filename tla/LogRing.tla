------------------------------- MODULE LogRing ------------------------------
(***************************************************************************)
(* app/log: lines are written into a ring that drops its oldest lines when *)
(* full, and log_tick sends the ring, one chunk a pass, to the one client  *)
(* of a TCP socket.  send() of the W6100 library does not come back before *)
(* the chunk sent last is acknowledged or the connection has failed, and   *)
(* the whole super-loop waits with it.                                     *)
(*                                                                         *)
(* A unit is a number of bytes; only the last unit of a line holds its     *)
(* newline.  What the lines say, and the level below which log_printf      *)
(* returns at once, are left out.                                          *)
(***************************************************************************)
EXTENDS Integers, Sequences, FiniteSetsExt

CONSTANTS
  RingSize,   \* LOG_RING_BYTES
  ChunkMax,   \* LOG_TX_CHUNK_MAX
  Lengths,    \* lengths of lines
  MaxLines,   \* bound: lines logged before only greetings of clients are
  MaxClients  \* bound: connections

ASSUME ConstantsAssumption ==
  /\ RingSize \in Nat \ {0} /\ ChunkMax \in 1 .. RingSize
  /\ Lengths # {} /\ Lengths \subseteq 1 .. RingSize - 1
  /\ MaxLines \in Nat /\ MaxClients \in Nat

VARIABLES
  s_ring, s_head, s_tail, s_full, s_dropped_lines,
  s_listen_open, s_have_client,
  socket,     \* the W6100's: "closed", "listen", "established", "close_wait"
  unacked,    \* the chunk sent last is not acknowledged
  sending,    \* length of the chunk in send(), 0 outside it
  logged,     \* number of lines logged
  delivered,  \* history: number of lines sent to their end
  told,       \* history: number of lines lost up to the last report
  sent,       \* history: the unit sent last
  clients     \* bound: connections still to come

ring    == <<s_ring, s_head, s_tail, s_full, s_dropped_lines>>
history == <<delivered, told, sent>>
vars    == <<ring, s_listen_open, s_have_client, socket, unacked, sending, logged,
             history, clients>>

-----------------------------------------------------------------------------
(* The ring *)

Lines == 1 .. MaxLines + MaxClients

NoUnit == [line |-> 0, pos |-> 0, last |-> FALSE]

Wrap(i) == i % RingSize

(* ring_used *)
Used ==
  IF s_full THEN RingSize
  ELSE IF s_head >= s_tail THEN s_head - s_tail
  ELSE RingSize - (s_tail - s_head)

Contents == [i \in 1 .. Used |-> s_ring[Wrap(s_tail + i - 1)]]

Ends(n) == {i \in 1 .. n : Contents[i].last}

(* ring_make_room: the fewest whole lines that make room for a line *)
MakeRoom(len) == Min({k \in {0} \union Ends(Used) : RingSize - Used + k >= len})

DropCount_One(k) == IF k = 0 THEN 0 ELSE 1

DropCount(k) == Cardinality(Ends(k))

FullAfterWrite_Never(len) == FALSE

FullAfterWrite(len) == Wrap(s_head + len) = Wrap(s_tail + MakeRoom(len))

(* ring_write, to where it leaves s_dropped_lines *)
WriteLine(len) ==
  /\ logged' = logged + 1
  /\ s_ring' = [i \in DOMAIN s_ring |->
       LET pos == Wrap(i - s_head + RingSize) + 1
       IN IF pos <= len THEN [line |-> logged', pos |-> pos, last |-> pos = len] ELSE s_ring[i]]
  /\ s_head' = Wrap(s_head + len)
  /\ s_tail' = Wrap(s_tail + MakeRoom(len))
  /\ s_full' = FullAfterWrite(len)

Dropped(len) == s_dropped_lines + DropCount(MakeRoom(len))

(* log_printf, from any component *)
Log(len) ==
  /\ sending = 0 /\ logged < MaxLines
  /\ WriteLine(len)
  /\ s_dropped_lines' = Dropped(len)
  /\ UNCHANGED <<s_listen_open, s_have_client, socket, unacked, sending, history, clients>>

-----------------------------------------------------------------------------
(* The client and the network *)

Connect ==
  /\ socket = "listen" /\ clients > 0
  /\ socket' = "established"
  /\ unacked' = FALSE
  /\ clients' = clients - 1
  /\ UNCHANGED <<ring, s_listen_open, s_have_client, sending, logged, history>>

Acknowledge ==
  /\ unacked
  /\ unacked' = FALSE
  /\ UNCHANGED <<ring, s_listen_open, s_have_client, socket, sending, logged, history, clients>>

(* The client closes, or the W6100 gives the connection up. *)
Disconnect ==
  /\ \/ socket = "established" /\ socket' \in {"close_wait", "closed"}
     \/ socket = "close_wait" /\ socket' = "closed"
  /\ UNCHANGED <<ring, s_listen_open, s_have_client, unacked, sending, logged, history, clients>>

-----------------------------------------------------------------------------
(* log_tick *)

AtTick == sending = 0

(* net_tcp_reopen_listen, net_open: a failure is logged. *)
Opens ==
  /\ s_listen_open' = TRUE /\ socket' = "listen"
  /\ UNCHANGED <<ring, logged>>

ListenOpenAfterFailure_Kept == TRUE

ListenOpenAfterFailure == FALSE

OpenFails ==
  /\ s_listen_open' = ListenOpenAfterFailure /\ socket' = "closed"
  /\ logged < MaxLines
  /\ \E len \in Lengths : WriteLine(len) /\ s_dropped_lines' = Dropped(len)

(* ensure_listen *)
OpenListener ==
  /\ AtTick /\ ~s_listen_open
  /\ Opens \/ OpenFails
  /\ s_have_client' = FALSE
  /\ UNCHANGED <<unacked, sending, history, clients>>

ClientGone == socket \in {"close_wait", "closed"}

ReopenListener ==
  /\ AtTick /\ s_listen_open /\ ClientGone /\ s_have_client
  /\ s_have_client' = FALSE
  /\ Opens \/ OpenFails
  /\ UNCHANGED <<unacked, sending, history, clients>>

(* log_peek: up to the end of the ring's storage, and of the chunk *)
Peek(used, tail) == Min({used, RingSize - tail, ChunkMax})

Lost == logged - delivered - Cardinality(Ends(Used))

(* The first pass that sees a client logs what was dropped before, and     *)
(* forgets the number: also of the lines this report itself has dropped.   *)
Greet ==
  /\ AtTick /\ s_listen_open /\ socket = "established" /\ ~s_have_client
  /\ s_have_client' = TRUE
  /\ \E len \in Lengths :
       /\ WriteLine(len)
       /\ s_dropped_lines' = IF s_dropped_lines > 0 THEN 0 ELSE Dropped(len)
  /\ UNCHANGED <<s_listen_open, socket, unacked, delivered, sent, clients>>
  /\ told' = IF s_dropped_lines > 0 THEN Lost' ELSE told
  /\ sending' = Peek(Used, s_tail)'

SendChunk ==
  /\ AtTick /\ s_listen_open /\ socket = "established" /\ s_have_client
  /\ Used > 0
  /\ sending' = Peek(Used, s_tail)
  /\ UNCHANGED <<ring, s_listen_open, s_have_client, socket, unacked, logged, history, clients>>

FullAfterConsume_Kept(n) == s_full

FullAfterConsume(n) == s_full /\ n = 0

(* send() has queued the chunk, log_consume *)
SendReturns ==
  /\ sending > 0 /\ ~unacked /\ socket \in {"established", "close_wait"}
  /\ s_tail' = Wrap(s_tail + sending)
  /\ s_full' = FullAfterConsume(sending)
  /\ delivered' = delivered + Cardinality(Ends(sending))
  /\ sent' = Contents[sending]
  /\ sending' = 0
  /\ unacked' = TRUE
  /\ UNCHANGED <<s_ring, s_head, s_dropped_lines, s_listen_open, s_have_client, socket,
                 logged, told, clients>>

(* send() has found the connection closed. *)
SendFails ==
  /\ sending > 0 /\ socket = "closed"
  /\ sending' = 0
  /\ s_have_client' = FALSE /\ s_listen_open' = FALSE
  /\ UNCHANGED <<ring, socket, unacked, logged, history, clients>>

(* A pass with nothing to do: nobody is connected, the ring is empty, or a *)
(* client came and went between two passes.                                *)
NothingToDo ==
  /\ AtTick /\ s_listen_open
  /\ \/ socket = "listen"
     \/ socket = "established" /\ s_have_client /\ Used = 0
     \/ ClientGone /\ ~s_have_client
  /\ UNCHANGED vars

-----------------------------------------------------------------------------
(* After log_init, before the first log_tick *)
Init ==
  /\ s_ring = [i \in 0 .. RingSize - 1 |-> NoUnit]
  /\ s_head = 0 /\ s_tail = 0 /\ s_full = FALSE
  /\ s_dropped_lines = 0
  /\ s_listen_open = FALSE /\ s_have_client = FALSE
  /\ socket = "closed" /\ unacked = FALSE /\ sending = 0
  /\ logged = 0 /\ delivered = 0 /\ told = 0 /\ sent = NoUnit
  /\ clients = MaxClients

LogTick ==
  OpenListener \/ ReopenListener \/ Greet \/ SendChunk \/ SendReturns \/ SendFails

Next ==
  \/ LogTick \/ NothingToDo
  \/ Connect \/ Acknowledge \/ Disconnect
  \/ \E len \in Lengths : Log(len)

(* The super-loop comes round whenever it is not in send(), and the host   *)
(* of the client acknowledges what it is sent.                             *)
Fairness == WF_vars(LogTick) /\ WF_vars(Acknowledge)

Spec == Init /\ [][Next]_vars /\ Fairness

-----------------------------------------------------------------------------
(* Properties *)

(* Every variable stays in its range. *)
TypeOK ==
  /\ s_head \in DOMAIN s_ring /\ s_tail \in DOMAIN s_ring
  /\ {s_full, s_listen_open, s_have_client, unacked} \subseteq BOOLEAN
  /\ socket \in {"closed", "listen", "established", "close_wait"}
  /\ sending \in 0 .. ChunkMax
  /\ s_dropped_lines \in Nat
  /\ logged \in Lines \union {0}

(* s_dropped_lines is the number of lines dropped since the last report,   *)
(* whichever of the ring's edges they stood at, with those of which a part *)
(* was already sent.                                                       *)
LossesAreCounted == s_dropped_lines = Lost - told

Before(u, v) == u.line < v.line \/ (u.line = v.line /\ u.pos < v.pos)

(* The ring holds what is still to be sent, in the order it was logged:    *)
(* nothing is sent twice, or after something younger.                      *)
ContentsInOrder ==
  \A i \in 1 .. Used : Before(IF i = 1 THEN sent ELSE Contents[i - 1], Contents[i])

(* The ring is sound: the parts above. *)
RingInv == TypeOK /\ LossesAreCounted /\ ContentsInOrder

InRing(line) == \E i \in 1 .. Used : Contents[i].line = line

(* While a client is there and acknowledges, every line in the ring is     *)
(* sent to it, or dropped, or the client goes; and the listener comes back *)
(* for the next client when the last one is gone, unless that one went     *)
(* before log_tick had seen it.                                            *)
ClientIsServed ==
  /\ \A line \in Lines :
       (InRing(line) /\ socket = "established") ~> (~InRing(line) \/ socket # "established")
  /\ (ClientGone /\ (s_have_client \/ ~s_listen_open)) ~> (socket = "listen")
=============================================================================
