--------------------------- MODULE OdBridgeProofs ---------------------------
(***************************************************************************)
(* Theorems about app/od and the PC tools for every number of tools and of *)
(* entries, every size of the receive buffer, number of retransmissions,   *)
(* batch and divider, and any number of requests, losses and statuses.     *)
(***************************************************************************)
EXTENDS OdBridge, SequenceTheorems, TLAPS

-----------------------------------------------------------------------------
(* Requests, datagrams and the buffer *)

Replies == [seq : Nat, res : {"OK", "FAILED", "QUEUE_FULL", "ERROR"}]
Waiting == [waits : {TRUE}, last : Nat, req : Requests, sends : Nat]
Resting == [waits : {FALSE}, last : Nat]

LEMMA RequestsAre ==
  ASSUME NEW req \in Requests
  PROVE  /\ req.is_read \in BOOLEAN /\ req.obj \in Entries
         /\ ~req.is_read => req.val \in Values
<1>1. CASE \E o \in Entries : req = Read(o)
  <2>1. PICK o \in Entries : req = Read(o)
    BY <1>1
  <2>2. req.is_read = TRUE /\ req.obj = o
    BY <2>1, Zenon DEF Read
  <2> QED  BY <2>2
<1>2. CASE \E o \in Entries, v \in Values : req = Write(o, v)
  <2>1. PICK o \in Entries, v \in Values : req = Write(o, v)
    BY <1>2
  <2>2. req.is_read = FALSE /\ req.obj = o /\ req.val = v
    BY <2>1, Zenon DEF Write
  <2> QED  BY <2>2
<1> QED  BY <1>1, <1>2 DEF Requests

LEMMA NoneIsNoRecord ==
  /\ None \notin [peer : Tools, seq : Nat]
  /\ None \notin [peer : Tools, div : Nat \ {0}, batch : 1 .. TELEMETRY_BATCH_MAX]
  BY DEF None

LEMMA ToolIs ==
  ASSUME TypeOK, NEW t \in Tools
  PROVE  /\ tool[t].last \in Nat
         /\ tool[t] \in Waiting \/ tool[t] \in Resting
         /\ tool[t].waits => tool[t].req \in Requests /\ tool[t].sends \in Nat
<1>1. tool[t] \in Resting \union Waiting
  BY DEF TypeOK, Resting, Waiting
<1>2. CASE tool[t] \in Resting
  <2>1. ~tool[t].waits
    BY <1>2, Zenon DEF Resting
  <2> QED  BY <1>2, <2>1 DEF Resting
<1>3. CASE tool[t] \in Waiting
  BY <1>3 DEF Waiting
<1> QED  BY <1>1, <1>2, <1>3

LEMMA SlotIs ==
  ASSUME NEW r \in SlotRecords
  PROVE  r # Pipeline!Free /\ r.client \in {"od", "axis"} /\ r.req \in MotorRequests
<1>1. Pipeline!Free.phase = "free" /\ r.phase # "free"
  BY DEF Pipeline!Free, SlotRecords
<1> QED  BY <1>1 DEF SlotRecords

LEMMA DatagramsAre ==
  ASSUME NEW d \in Datagrams
  PROVE  /\ d.peer \in Tools /\ d.seq \in Nat
         /\ d.kind \in {"request", "subscribe", "unsubscribe", "junk"}
         /\ d.kind = "request" => d.req \in Requests
         /\ d.kind = "subscribe" => d.req \in Subscriptions
  BY DEF Datagrams

LEMMA RequestIs ==
  ASSUME NEW t \in Tools, NEW seq \in Nat, NEW req \in Requests
  PROVE  LET d == Datagram(t, "request", seq, req)
         IN d \in Datagrams /\ d.peer = t /\ d.kind = "request" /\ d.seq = seq /\ d.req = req
  BY DEF Datagram, Datagrams

(* A datagram sent joins the end of the buffer, or is lost.                *)
LEMMA SendIs ==
  ASSUME arrived \in Seq(Datagrams), Len(arrived) <= RxBuffer,
         NEW d \in Datagrams, Send(d)
  PROVE  /\ arrived' \in Seq(Datagrams) /\ Len(arrived') <= RxBuffer
         /\ Len(arrived) \in Nat /\ Len(arrived') \in {Len(arrived), Len(arrived) + 1}
         /\ \A i \in 1 .. Len(arrived) : arrived'[i] = arrived[i]
         /\ Len(arrived') = Len(arrived) + 1 => arrived'[Len(arrived')] = d
<1>1. Len(arrived) \in Nat /\ RxBuffer \in Nat
  BY LenProperties, ConstantsAssumption
<1>2. CASE Len(arrived) < RxBuffer
  <2>1. arrived' = Append(arrived, d)
    BY <1>2 DEF Send
  <2>2. /\ arrived' \in Seq(Datagrams) /\ Len(arrived') = Len(arrived) + 1
        /\ \A i \in 1 .. Len(arrived) : arrived'[i] = arrived[i]
        /\ arrived'[Len(arrived) + 1] = d
    BY <2>1, AppendProperties
  <2> QED  BY <1>1, <1>2, <2>2
<1>3. CASE ~(Len(arrived) < RxBuffer)
  <2>1. arrived' = arrived
    BY <1>3 DEF Send
  <2>2. Len(arrived') = Len(arrived)
    BY <2>1
  <2>3. Len(arrived') # Len(arrived) + 1
    BY <1>1, <2>2
  <2>4. \A i \in 1 .. Len(arrived) : arrived'[i] = arrived[i]
    BY <2>1
  <2> QED  BY <1>1, <2>1, <2>2, <2>3, <2>4
<1> QED  BY <1>2, <1>3

(* od_tick takes the first one.                                            *)
LEMMA TakeIs ==
  ASSUME arrived \in Seq(Datagrams), Len(arrived) <= RxBuffer,
         arrived # <<>>, arrived' = Tail(arrived)
  PROVE  /\ arrived' \in Seq(Datagrams) /\ Len(arrived') <= RxBuffer
         /\ Len(arrived) \in Nat \ {0} /\ Len(arrived') = Len(arrived) - 1
         /\ \A i \in 1 .. Len(arrived') : arrived'[i] = arrived[i + 1]
         /\ Head(arrived) \in Datagrams /\ Head(arrived) = arrived[1]
<1>1. /\ Len(arrived) \in Nat \ {0} /\ RxBuffer \in Nat
  BY LenProperties, EmptySeq, ConstantsAssumption
<1>2. /\ Head(arrived) \in Datagrams /\ Tail(arrived) \in Seq(Datagrams)
      /\ Len(Tail(arrived)) = Len(arrived) - 1
      /\ \A i \in 1 .. Len(Tail(arrived)) : Tail(arrived)[i] = arrived[i + 1]
  BY HeadTailProperties
<1>3. Head(arrived) = arrived[1]
  OBVIOUS
<1> QED  BY <1>1, <1>2, <1>3

LEMMA ArrivedAre ==
  ASSUME arrived \in Seq(Datagrams)
  PROVE  /\ Len(arrived) \in Nat
         /\ \A i \in 1 .. Len(arrived) : arrived[i] \in Datagrams
  BY LenProperties, ElementOfSeq

(* An answer joins the replies on their way to its tool.                   *)
LEMMA AnswerIs ==
  ASSUME NEW R \in [Tools -> Seq(Replies)], NEW t \in Tools, NEW r \in Replies
  PROVE  /\ [R EXCEPT ![t] = Append(@, r)] \in [Tools -> Seq(Replies)]
         /\ \A u \in Tools : u # t => [R EXCEPT ![t] = Append(@, r)][u] = R[u]
         /\ Len(R[t]) \in Nat
         /\ LET s == [R EXCEPT ![t] = Append(@, r)][t]
            IN /\ Len(s) = Len(R[t]) + 1
               /\ \A i \in 1 .. Len(R[t]) : s[i] = R[t][i]
               /\ s[Len(R[t]) + 1] = r
<1>1. R[t] \in Seq(Replies)
  OBVIOUS
<1>2. [R EXCEPT ![t] = Append(@, r)][t] = Append(R[t], r)
  OBVIOUS
<1>3. /\ Append(R[t], r) \in Seq(Replies) /\ Len(Append(R[t], r)) = Len(R[t]) + 1
      /\ \A i \in 1 .. Len(R[t]) : Append(R[t], r)[i] = R[t][i]
      /\ Append(R[t], r)[Len(R[t]) + 1] = r
  BY <1>1, AppendProperties
<1>4. Len(R[t]) \in Nat
  BY <1>1, LenProperties
<1>6. [R EXCEPT ![t] = Append(@, r)] \in [Tools -> Seq(Replies)]
  BY <1>3
<1>7. \A u \in Tools : u # t => [R EXCEPT ![t] = Append(@, r)][u] = R[u]
  OBVIOUS
<1> QED  BY <1>2, <1>3, <1>4, <1>6, <1>7

-----------------------------------------------------------------------------
(* The tools and the network *)

(* What a tool or the network does leaves the CMC alone.                   *)
Away == UNCHANGED <<local, s_pending, pipeline, telemetry, cyclic, emitted>>

LEMMA AwayKeeps ==
  ASSUME BridgeInv, Away
  PROVE  /\ SlotIsOwned' /\ BatchIsUniform' /\ (DatagramIsUniform => DatagramIsUniform')
         /\ Effective' = Effective
<1> USE DEF Away, pipeline, telemetry, cyclic
<1>1. SlotIsOwned'
  BY DEF BridgeInv, SlotIsOwned
<1>2. BatchIsUniform'
  BY DEF BridgeInv, BatchIsUniform
<1>3. DatagramIsUniform => DatagramIsUniform'
  BY DEF DatagramIsUniform
<1>4. Effective <=> Effective'
  BY DEF Effective
<1> QED  BY <1>1, <1>2, <1>3, <1>4

(* The counter of no tool goes back, and a tool that waits either did so   *)
(* before or has a new number.                                             *)
Forward ==
  \A u \in Tools :
    /\ tool'[u].last \in Nat /\ tool[u].last <= tool'[u].last
    /\ tool'[u].waits => \/ tool'[u].last > tool[u].last
                         \/ tool[u].waits /\ tool'[u].req = tool[u].req

LEMMA ForwardKeeps ==
  ASSUME BridgeInv, Forward
  PROVE  /\ \A u \in Tools, s \in Nat : \A r : OfTool(s, r, tool[u]) => OfTool(s, r, tool'[u])
         /\ replies' = replies => RepliesInOrder'
<1>1. \A u \in Tools : tool[u].last \in Nat
  BY ToolIs DEF BridgeInv
<1>2. ASSUME NEW u \in Tools, NEW s \in Nat, NEW r, OfTool(s, r, tool[u])
      PROVE  OfTool(s, r, tool'[u])
  BY <1>1, <1>2 DEF Forward, OfTool
<1>3. ASSUME replies' = replies
      PROVE  RepliesInOrder'
  <2>1. \A u \in Tools : \A i \in 1 .. Len(replies[u]) : replies[u][i].seq \in Nat
    <3>1. \A u \in Tools : replies[u] \in Seq(Replies)
      BY DEF BridgeInv, TypeOK, Replies
    <3>2. \A u \in Tools : \A i \in 1 .. Len(replies[u]) : replies[u][i] \in Replies
      BY <3>1, ElementOfSeq
    <3> QED  BY <3>2 DEF Replies
  <2> QED  BY <1>1, <1>3, <2>1 DEF Forward, RepliesInOrder, BridgeInv, RequestsInOrder
<1> QED  BY <1>2, <1>3

(* A datagram sent comes last in its tool's order.                         *)
LEMMA SendKeepsOrder ==
  ASSUME BridgeInv, Forward, NEW d \in Datagrams, Send(d),
         UNCHANGED <<s_pending, slot, replies>>, ToolsWriteTheirOwn',
         Asks(d) => /\ tool'[d.peer].waits /\ d.seq = tool'[d.peer].last /\ d.req = tool'[d.peer].req
                    /\ d.seq = tool[d.peer].last => tool[d.peer].waits
  PROVE  RequestsInOrder'
<1>1. /\ Len(arrived) \in Nat /\ Len(arrived') \in {Len(arrived), Len(arrived) + 1}
      /\ \A i \in 1 .. Len(arrived) : arrived'[i] = arrived[i] /\ arrived[i] \in Datagrams
      /\ Len(arrived') = Len(arrived) + 1 => arrived'[Len(arrived')] = d
  BY SendIs, ArrivedAre DEF BridgeInv, TypeOK
<1>2. \A i \in 1 .. Len(arrived') :
         \/ i \in 1 .. Len(arrived) /\ arrived'[i] = arrived[i]
         \/ i = Len(arrived') /\ i = Len(arrived) + 1 /\ arrived'[i] = d
  BY <1>1
<1>3. /\ \A u \in Tools : tool[u].last \in Nat /\ tool[u].last <= tool'[u].last /\ tool'[u].last \in Nat
      /\ d.peer \in Tools /\ d.seq \in Nat
  BY ToolIs, DatagramsAre DEF Forward, BridgeInv
<1>4. ASSUME NEW s, NEW r, s \in Nat, Asks(d), OfTool(s, r, tool[d.peer])
      PROVE  NotBefore(s, r, d)
  <2>1. s <= tool[d.peer].last /\ (tool[d.peer].waits /\ s = tool[d.peer].last => r = tool[d.peer].req)
    BY <1>4 DEF OfTool
  <2>2. s <= d.seq
    BY <1>3, <1>4, <2>1
  <2>3. ASSUME s = d.seq PROVE r = d.req
    <3>1. d.seq = tool[d.peer].last /\ tool[d.peer].last = tool'[d.peer].last
      BY <1>3, <1>4, <2>1, <2>3
    <3> QED  BY <1>3, <1>4, <2>1, <2>3, <3>1 DEF Forward
  <2> QED  BY <2>2, <2>3 DEF NotBefore
<1>5. ASSUME NEW i \in 1 .. Len(arrived'), Asks(arrived'[i])
      PROVE  /\ ~arrived'[i].req.is_read => Writer[arrived'[i].req.obj] = arrived'[i].peer
             /\ OfTool(arrived'[i].seq, arrived'[i].req, tool'[arrived'[i].peer])
             /\ \A j \in i + 1 .. Len(arrived') :
                  Asks(arrived'[j]) /\ arrived'[j].peer = arrived'[i].peer
                    => NotBefore(arrived'[i].seq, arrived'[i].req, arrived'[j])
  <2>1. CASE i \in 1 .. Len(arrived) /\ arrived'[i] = arrived[i]
    <3>1. /\ arrived[i].peer \in Tools /\ arrived[i].seq \in Nat
          /\ ~arrived[i].req.is_read => Writer[arrived[i].req.obj] = arrived[i].peer
          /\ OfTool(arrived[i].seq, arrived[i].req, tool[arrived[i].peer])
      BY <1>1, <1>5, <2>1, DatagramsAre DEF BridgeInv, RequestsInOrder, BufferInOrder
    <3>2. OfTool(arrived'[i].seq, arrived'[i].req, tool'[arrived'[i].peer])
      BY <2>1, <3>1, ForwardKeeps
    <3>3. ASSUME NEW j \in i + 1 .. Len(arrived'), Asks(arrived'[j]), arrived'[j].peer = arrived'[i].peer
          PROVE  NotBefore(arrived'[i].seq, arrived'[i].req, arrived'[j])
      <4>1. CASE j \in 1 .. Len(arrived) /\ arrived'[j] = arrived[j]
        <5>1. j \in i + 1 .. Len(arrived)
          BY <1>1, <4>1
        <5> QED  BY <1>5, <2>1, <3>3, <4>1, <5>1 DEF BridgeInv, RequestsInOrder, BufferInOrder
      <4>2. CASE arrived'[j] = d
        <5>1. OfTool(arrived[i].seq, arrived[i].req, tool[d.peer])
          BY <2>1, <3>1, <3>3, <4>2
        <5> QED  BY <1>4, <2>1, <3>1, <3>3, <4>2, <5>1
      <4>3. j \in 1 .. Len(arrived')
        BY <1>1
      <4> QED  BY <1>2, <4>1, <4>2, <4>3
    <3> QED  BY <2>1, <3>1, <3>2, <3>3
  <2>2. CASE i = Len(arrived') /\ arrived'[i] = d
    <3>1. OfTool(arrived'[i].seq, arrived'[i].req, tool'[arrived'[i].peer])
      BY <1>3, <1>5, <2>2 DEF OfTool
    <3>2. ~d.req.is_read => Writer[d.req.obj] = d.peer
      BY <1>3, <1>5, <2>2 DEF ToolsWriteTheirOwn
    <3>3. ~\E j \in i + 1 .. Len(arrived') : TRUE
      BY <1>1, <2>2
    <3> QED  BY <2>2, <3>1, <3>2, <3>3
  <2> QED  BY <1>2, <2>1, <2>2
<1>6. BufferInOrder'
  BY <1>5 DEF BufferInOrder, Asks, NotBefore, OfTool
<1>7. PendingInOrder'
  <2> SUFFICES ASSUME s_pending' # None
               PROVE  /\ OfTool(s_pending'.seq, slot'.req, tool'[s_pending'.peer])
                      /\ \A i \in 1 .. Len(arrived') :
                           Asks(arrived'[i]) /\ arrived'[i].peer = s_pending'.peer
                             => NotBefore(s_pending'.seq, slot'.req, arrived'[i])
    BY DEF PendingInOrder, Asks, NotBefore, OfTool
  <2>1. /\ s_pending.peer \in Tools /\ s_pending.seq \in Nat /\ s_pending' = s_pending /\ slot' = slot
        /\ OfTool(s_pending.seq, slot.req, tool[s_pending.peer])
    BY DEF BridgeInv, TypeOK, RequestsInOrder, PendingInOrder
  <2>2. OfTool(s_pending.seq, slot.req, tool'[s_pending.peer])
    BY <2>1, ForwardKeeps
  <2>3. ASSUME NEW i \in 1 .. Len(arrived'), Asks(arrived'[i]), arrived'[i].peer = s_pending.peer
        PROVE  NotBefore(s_pending.seq, slot.req, arrived'[i])
    <3>1. CASE i \in 1 .. Len(arrived) /\ arrived'[i] = arrived[i]
      BY <2>1, <2>3, <3>1 DEF BridgeInv, RequestsInOrder, PendingInOrder
    <3>2. CASE arrived'[i] = d
      BY <1>4, <2>1, <2>3, <3>2
    <3> QED  BY <1>2, <3>1, <3>2
  <2> QED  BY <2>1, <2>2, <2>3
<1>8. RepliesInOrder'
  BY ForwardKeeps
<1> QED  BY <1>6, <1>7, <1>8 DEF RequestsInOrder

(* Settled, and Done, after the step.                                      *)
SettledNext(o, v) ==
  /\ v = IF o \in CmcEntries THEN local'[o] ELSE store'[o]
  /\ \A i \in 1 .. Len(arrived') :
       Asks(arrived'[i]) /\ Writes(arrived'[i].req, o) => arrived'[i].req.val = v
  /\ slot' # Pipeline!Free /\ Writes(slot'.req, o) => slot'.req.val = v
  /\ \A req \in late' : Writes(req, o) => req.val = v

DoneNext(t) ==
  \/ s_pending' = [peer |-> t, seq |-> tool'[t].last] /\ Effective'
  \/ \E i \in 1 .. Len(replies'[t]) : replies'[t][i] = Reply(tool'[t].last, "OK")

LEMMA SettlesNext ==
  ASSUME Effective' => late' = {},
         \A o \in Entries : confirmed'[o] # Unset => SettledNext(o, confirmed'[o]),
         \A t \in Tools : tool'[t].waits /\ ~tool'[t].req.is_read =>
           /\ confirmed'[tool'[t].req.obj] = Unset
           /\ DoneNext(t) => SettledNext(tool'[t].req.obj, tool'[t].req.val)
  PROVE  WritesSettle'
  BY DEF WritesSettle, Settled, SettledNext, Done, DoneNext, Asks, Writes, Reply

(* A datagram that writes nothing else keeps an entry settled.             *)
LEMMA SendSettles ==
  ASSUME BridgeInv, NEW d \in Datagrams, Send(d), UNCHANGED <<local, store, slot, late>>,
         NEW o, NEW v, Settled(o, v), Asks(d) /\ Writes(d.req, o) => d.req.val = v
  PROVE  SettledNext(o, v)
<1>1. /\ Len(arrived) \in Nat /\ Len(arrived') \in {Len(arrived), Len(arrived) + 1}
      /\ \A i \in 1 .. Len(arrived) : arrived'[i] = arrived[i]
      /\ Len(arrived') = Len(arrived) + 1 => arrived'[Len(arrived')] = d
  BY SendIs DEF BridgeInv, TypeOK
<1>2. \A i \in 1 .. Len(arrived') :
         \/ i \in 1 .. Len(arrived) /\ arrived'[i] = arrived[i]
         \/ arrived'[i] = d
  BY <1>1
<1>3. \A i \in 1 .. Len(arrived') :
        Asks(arrived'[i]) /\ Writes(arrived'[i].req, o) => arrived'[i].req.val = v
  BY <1>2 DEF Settled
<1> QED  BY <1>3 DEF Settled, SettledNext

ToolStates    == [Tools -> Resting \union Waiting]
Confirmations == [Entries -> Values \union {Unset}]

(* No tool that waits has its request in service or answered under a       *)
(* number it has just taken.                                               *)
LEMMA NewIsNotDone ==
  ASSUME BridgeInv, Forward, UNCHANGED <<s_pending, slot, replies>>,
         NEW t \in Tools, tool'[t].waits, DoneNext(t)
  PROVE  /\ tool[t].waits /\ tool'[t].req = tool[t].req /\ tool'[t].last = tool[t].last
         /\ Done(t)
<1>1. tool[t].last \in Nat /\ tool'[t].last \in Nat /\ tool[t].last <= tool'[t].last
  BY ToolIs DEF BridgeInv, Forward
<1>2. tool'[t].last <= tool[t].last
  <2>1. CASE s_pending' = [peer |-> t, seq |-> tool'[t].last] /\ Effective'
    <3>1. s_pending # None /\ s_pending.peer = t /\ s_pending.seq = tool'[t].last
      <4>1. s_pending = [peer |-> t, seq |-> tool'[t].last]
        BY <2>1
      <4>2. [peer |-> t, seq |-> tool'[t].last] # None
        BY <1>1, NoneIsNoRecord
      <4> QED  BY <4>1, <4>2
    <3> QED  BY <3>1 DEF BridgeInv, RequestsInOrder, PendingInOrder, OfTool
  <2>2. CASE \E i \in 1 .. Len(replies'[t]) : replies'[t][i] = Reply(tool'[t].last, "OK")
    <3>1. PICK i \in 1 .. Len(replies[t]) : replies[t][i] = Reply(tool'[t].last, "OK")
      BY <2>2
    <3>2. replies[t][i].seq = tool'[t].last
      BY <3>1 DEF Reply
    <3> QED  BY <3>2 DEF BridgeInv, RequestsInOrder, RepliesInOrder
  <2> QED  BY <2>1, <2>2 DEF DoneNext
<1>3. tool'[t].last = tool[t].last
  BY <1>1, <1>2
<1>4. tool[t].waits /\ tool'[t].req = tool[t].req
  BY <1>1, <1>3 DEF Forward
<1>5. Done(t)
  BY <1>3 DEF Done, DoneNext, Effective
<1> QED  BY <1>3, <1>4, <1>5

(* Whatever a tool, or anybody, sends.                                     *)
LEMMA SendKeeps ==
  ASSUME BridgeInv, Away, Forward, NEW d \in Datagrams, Send(d), replies' = replies,
         tool' \in ToolStates, confirmed' \in Confirmations, ToolsWriteTheirOwn',
         Asks(d) => /\ tool'[d.peer].waits /\ d.seq = tool'[d.peer].last /\ d.req = tool'[d.peer].req
                    /\ d.seq = tool[d.peer].last => tool[d.peer].waits,
         \A o \in Entries : confirmed'[o] # Unset => confirmed'[o] = confirmed[o],
         \A t \in Tools : tool'[t].waits /\ ~tool'[t].req.is_read => confirmed'[tool'[t].req.obj] = Unset
  PROVE  BridgeInv'
<1>1. SlotIsOwned' /\ BatchIsUniform' /\ Effective' = Effective
  BY AwayKeeps
<1>2. UNCHANGED <<local, s_pending, store, slot, late, replies>>
  BY DEF Away, pipeline
<1>3. RequestsInOrder'
  BY <1>2, SendKeepsOrder
<1>4. TypeOK'
  <2>1. arrived' \in Seq(Datagrams) /\ Len(arrived') <= RxBuffer
    BY SendIs DEF BridgeInv, TypeOK
  <2> QED  BY <2>1 DEF BridgeInv, TypeOK, Away, pipeline, telemetry, cyclic,
                   ToolStates, Resting, Waiting, Confirmations
<1>5. d.peer \in Tools
  BY DatagramsAre
<1>6. ASSUME NEW o \in Entries, confirmed'[o] # Unset
      PROVE  SettledNext(o, confirmed'[o])
  <2>1. Settled(o, confirmed[o]) /\ confirmed'[o] = confirmed[o]
    BY <1>6 DEF BridgeInv, WritesSettle
  <2>2. ~(Asks(d) /\ Writes(d.req, o))
    BY <1>5, <1>6 DEF Writes
  <2> HIDE DEF SettledNext, Settled
  <2>3. SettledNext(o, confirmed[o])
    BY <1>2, <2>1, <2>2, SendSettles
  <2> QED  BY <2>1, <2>3
<1>7. ASSUME NEW t \in Tools, tool'[t].waits, ~tool'[t].req.is_read, DoneNext(t)
      PROVE  SettledNext(tool'[t].req.obj, tool'[t].req.val)
  <2>1. tool[t].waits /\ tool'[t].req = tool[t].req /\ Done(t)
    BY <1>2, <1>7, NewIsNotDone
  <2>2. Settled(tool[t].req.obj, tool[t].req.val)
    BY <1>7, <2>1 DEF BridgeInv, WritesSettle
  <2>3. Asks(d) /\ Writes(d.req, tool[t].req.obj) => d.req.val = tool[t].req.val
    BY <1>5, <1>7, <2>1 DEF Writes, ToolsWriteTheirOwn
  <2>4. SettledNext(tool[t].req.obj, tool[t].req.val)
    BY <1>2, <2>2, <2>3, SendSettles
  <2> QED  BY <2>1, <2>4
<1>8. WritesSettle'
  <2>1. Effective' => late' = {}
    BY <1>1, <1>2 DEF BridgeInv, WritesSettle
  <2> QED  BY <1>6, <1>7, <2>1, SettlesNext
<1> QED  BY <1>1, <1>3, <1>4, <1>8 DEF BridgeInv

(* Whatever a tool takes from the network, or gives up.                    *)
LEMMA QuietKeeps ==
  ASSUME BridgeInv, Away, arrived' = arrived,
         replies' \in [Tools -> Seq(Replies)],
         \A t \in Tools : \A i \in 1 .. Len(replies'[t]) :
           \E j \in 1 .. Len(replies[t]) : replies'[t][i] = replies[t][j],
         tool' \in ToolStates, confirmed' \in Confirmations,
         \A t \in Tools : tool'[t] = tool[t] \/ tool'[t] = Rested(t),
         \A o \in Entries : confirmed'[o] # Unset => Settled(o, confirmed'[o]),
         \A t \in Tools : tool'[t].waits /\ ~tool'[t].req.is_read => confirmed'[tool'[t].req.obj] = Unset
  PROVE  BridgeInv'
<1>1. SlotIsOwned' /\ BatchIsUniform' /\ Effective' = Effective
  BY AwayKeeps
<1>2. UNCHANGED <<local, s_pending, store, slot, late, arrived>>
  BY DEF Away, pipeline
<1>3. \A t \in Tools : /\ tool'[t].last = tool[t].last
                       /\ tool'[t].waits => tool'[t] = tool[t]
  <2>1. \A t \in Tools : Rested(t).last = tool[t].last /\ Rested(t).waits = FALSE
    BY DEF Rested
  <2> QED  BY <2>1
<1>4. TypeOK'
  BY DEF BridgeInv, TypeOK, Away, pipeline, telemetry, cyclic,
         ToolStates, Resting, Waiting, Confirmations, Replies
<1>5. RequestsInOrder'
  <2>1. ToolsWriteTheirOwn'
    BY <1>3 DEF BridgeInv, RequestsInOrder, ToolsWriteTheirOwn
  <2>2. \A u \in Tools : \A s, r : OfTool(s, r, tool[u]) => OfTool(s, r, tool'[u])
    BY <1>3 DEF OfTool
  <2>3. \A i \in 1 .. Len(arrived) : arrived[i].peer \in Tools
    BY ArrivedAre, DatagramsAre DEF BridgeInv, TypeOK
  <2>4. BufferInOrder'
    <3>1. \A i \in 1 .. Len(arrived) : Asks(arrived[i]) =>
            OfTool(arrived[i].seq, arrived[i].req, tool'[arrived[i].peer])
      BY <2>2, <2>3 DEF BridgeInv, RequestsInOrder, BufferInOrder
    <3> QED  BY <1>2, <3>1 DEF BridgeInv, RequestsInOrder, BufferInOrder, Asks, NotBefore, OfTool
  <2>5. PendingInOrder'
    <3>1. s_pending # None => s_pending.peer \in Tools
      BY DEF BridgeInv, TypeOK
    <3>2. s_pending # None => OfTool(s_pending.seq, slot.req, tool'[s_pending.peer])
      BY <2>2, <3>1 DEF BridgeInv, RequestsInOrder, PendingInOrder
    <3> QED  BY <1>2, <3>2 DEF BridgeInv, RequestsInOrder, PendingInOrder, Asks, NotBefore, OfTool
  <2>6. RepliesInOrder'
    BY <1>3 DEF BridgeInv, RequestsInOrder, RepliesInOrder
  <2> QED  BY <2>1, <2>4, <2>5, <2>6 DEF RequestsInOrder
<1>6. \A o, v : Settled(o, v) => SettledNext(o, v)
  BY <1>2 DEF Settled, SettledNext
<1>7. ASSUME NEW t \in Tools, tool'[t].waits, ~tool'[t].req.is_read, DoneNext(t)
      PROVE  SettledNext(tool'[t].req.obj, tool'[t].req.val)
  <2>1. tool'[t] = tool[t]
    BY <1>3, <1>7
  <2>2. Done(t)
    BY <1>2, <1>7, <2>1 DEF Done, DoneNext, Effective
  <2>3. Settled(tool[t].req.obj, tool[t].req.val)
    BY <1>7, <2>1, <2>2 DEF BridgeInv, WritesSettle
  <2> QED  BY <1>6, <2>1, <2>3
<1>8. WritesSettle'
  <2>1. Effective' => late' = {}
    BY <1>1, <1>2 DEF BridgeInv, WritesSettle
  <2> QED  BY <1>6, <1>7, <2>1, SettlesNext
<1> QED  BY <1>1, <1>4, <1>5, <1>8 DEF BridgeInv

LEMMA AsksKeeps ==
  ASSUME BridgeInv, NEW t \in Tools, NEW req \in Requests, ToolAsks(t, req)
  PROVE  BridgeInv'
<1> DEFINE seq == tool[t].last + 1
           d == Datagram(t, "request", seq, req)
           new == [waits |-> TRUE, last |-> seq, req |-> req, sends |-> 1]
<1>1. /\ ~tool[t].waits /\ tool[t].last \in Nat
      /\ \A u \in Tools : tool[u].last \in Nat
      /\ tool \in ToolStates /\ confirmed \in Confirmations
      /\ req.is_read \in BOOLEAN /\ req.obj \in Entries
  BY ToolIs, RequestsAre DEF ToolAsks, BridgeInv, TypeOK, ToolStates, Resting, Waiting, Confirmations
<1>2. /\ Send(d) /\ replies' = replies /\ Away
      /\ tool' = [tool EXCEPT ![t] = new]
      /\ req.is_read \/ Writer[req.obj] = t
  BY Zenon DEF ToolAsks, Away
<1>3. (req.is_read => confirmed' = confirmed)
      /\ (~req.is_read => confirmed' = [confirmed EXCEPT ![req.obj] = Unset])
  BY Zenon DEF ToolAsks
<1>4. /\ d.peer = t /\ d.kind = "request" /\ d.seq = seq /\ d.req = req /\ d \in Datagrams
      /\ new \in Waiting /\ new.waits /\ new.last = seq /\ new.req = req /\ seq \in Nat /\ seq > tool[t].last
  BY <1>1 DEF Datagram, Datagrams, Waiting
<1> HIDE DEF seq, d, new
<1>5. /\ tool' \in ToolStates /\ tool'[t] = new
      /\ \A u \in Tools : u # t => tool'[u] = tool[u]
  BY <1>1, <1>2, <1>4 DEF ToolStates
<1>6. Forward
  BY <1>1, <1>4, <1>5 DEF Forward
<1>7. /\ confirmed' \in Confirmations
      /\ ~req.is_read => confirmed'[req.obj] = Unset
      /\ \A o \in Entries : confirmed'[o] = confirmed[o] \/ confirmed'[o] = Unset
  BY <1>1, <1>3 DEF Confirmations
<1>8. ToolsWriteTheirOwn'
  BY <1>2, <1>4, <1>5 DEF BridgeInv, RequestsInOrder, ToolsWriteTheirOwn
<1>9. \A u \in Tools : tool'[u].waits /\ ~tool'[u].req.is_read => confirmed'[tool'[u].req.obj] = Unset
  <2> SUFFICES ASSUME NEW u \in Tools, tool'[u].waits, ~tool'[u].req.is_read
               PROVE  confirmed'[tool'[u].req.obj] = Unset
    OBVIOUS
  <2>1. CASE u = t
    <3>1. tool'[u].req = req
      BY <1>4, <1>5, <2>1
    <3> QED  BY <1>7, <3>1
  <2>2. CASE u # t
    <3>1. tool'[u] = tool[u] /\ tool[u].req.obj \in Entries /\ confirmed[tool[u].req.obj] = Unset
      BY <1>5, <2>2, ToolIs, RequestsAre DEF BridgeInv, WritesSettle
    <3> QED  BY <1>7, <3>1
  <2> QED  BY <2>1, <2>2
<1>10. tool'[d.peer].waits /\ d.seq = tool'[d.peer].last /\ d.req = tool'[d.peer].req /\ d.seq # tool[d.peer].last
  BY <1>1, <1>4, <1>5
<1> QED  BY <1>2, <1>4, <1>5, <1>6, <1>7, <1>8, <1>9, <1>10, SendKeeps

(* A request sent again is the same request; giving up leaves no one       *)
(* waiting.                                                                *)
LEMMA TimesOutKeeps ==
  ASSUME BridgeInv, NEW t \in Tools, ToolTimesOut(t)
  PROVE  BridgeInv'
<1>1. /\ tool[t].waits /\ tool[t].last \in Nat /\ tool[t].req \in Requests /\ tool[t].sends \in Nat
      /\ tool[t] \in Waiting
      /\ \A u \in Tools : tool[u].last \in Nat
      /\ tool \in ToolStates /\ confirmed \in Confirmations
  <2>1. tool[t].waits
    BY DEF ToolTimesOut
  <2>2. tool[t] \notin Resting
    BY <2>1 DEF Resting
  <2> QED  BY <2>1, <2>2, ToolIs DEF BridgeInv, TypeOK, ToolStates, Resting, Waiting, Confirmations
<1>2. Away /\ replies' = replies /\ confirmed' = confirmed
  BY Zenon DEF ToolTimesOut, Away
<1>3. CASE tool[t].sends < RETRANSMIT_TRIES
  <2> DEFINE d == Datagram(t, "request", tool[t].last, tool[t].req)
             new == [tool[t] EXCEPT !.sends = @ + 1]
  <2>1. Send(d) /\ tool' = [tool EXCEPT ![t] = new]
    BY <1>3, Zenon DEF ToolTimesOut
  <2>2. /\ d.peer = t /\ d.kind = "request" /\ d.seq = tool[t].last /\ d.req = tool[t].req /\ d \in Datagrams
        /\ new \in Waiting /\ new.waits /\ new.last = tool[t].last /\ new.req = tool[t].req
    <3>1. d.peer = t /\ d.kind = "request" /\ d.seq = tool[t].last /\ d.req = tool[t].req /\ d \in Datagrams
      BY <1>1, RequestIs
    <3>2. tool[t] \in [waits : {TRUE}, last : Nat, req : Requests, sends : Nat] /\ tool[t].sends + 1 \in Nat
      <4>1. tool[t].sends + 1 \in Nat
        BY <1>1
      <4>2. tool[t] \in [waits : {TRUE}, last : Nat, req : Requests, sends : Nat]
        BY <1>1, Zenon DEF Waiting
      <4> QED  BY <4>1, <4>2
    <3>3. new \in [waits : {TRUE}, last : Nat, req : Requests, sends : Nat]
      BY <3>2
    <3>4. new.waits = tool[t].waits /\ new.last = tool[t].last /\ new.req = tool[t].req
      BY <3>2
    <3> QED  BY <1>1, <3>1, <3>3, <3>4 DEF Waiting
  <2> HIDE DEF d, new
  <2>3. /\ tool' \in ToolStates /\ tool'[t] = new
        /\ \A u \in Tools : u # t => tool'[u] = tool[u]
    BY <1>1, <2>1, <2>2 DEF ToolStates
  <2>4. /\ \A u \in Tools : tool'[u].last = tool[u].last
        /\ \A u \in Tools : tool'[u].waits => tool[u].waits /\ tool'[u].req = tool[u].req
    BY <1>1, <2>2, <2>3
  <2>5. Forward
    BY <1>1, <2>4 DEF Forward
  <2>6. ToolsWriteTheirOwn'
    BY <2>4 DEF BridgeInv, RequestsInOrder, ToolsWriteTheirOwn
  <2>7. \A u \in Tools : tool'[u].waits /\ ~tool'[u].req.is_read => confirmed'[tool'[u].req.obj] = Unset
    BY <1>2, <2>4 DEF BridgeInv, WritesSettle
  <2>8. tool'[d.peer].waits /\ d.seq = tool'[d.peer].last /\ d.req = tool'[d.peer].req
    BY <2>2, <2>3
  <2> QED  BY <1>1, <1>2, <2>1, <2>2, <2>3, <2>5, <2>6, <2>7, <2>8, SendKeeps
<1>4. CASE ~(tool[t].sends < RETRANSMIT_TRIES)
  <2>1. arrived' = arrived /\ tool' = [tool EXCEPT ![t] = Rested(t)]
    BY <1>4, Zenon DEF ToolTimesOut
  <2>2. Rested(t) \in Resting /\ ~Rested(t).waits
    BY <1>1 DEF Rested, Resting
  <2>3. tool' \in ToolStates /\ tool'[t] = Rested(t) /\ \A u \in Tools : u # t => tool'[u] = tool[u]
    BY <1>1, <2>1, <2>2 DEF ToolStates
  <2>4. \A u \in Tools : tool'[u].waits /\ ~tool'[u].req.is_read => confirmed'[tool'[u].req.obj] = Unset
    BY <1>2, <2>2, <2>3 DEF BridgeInv, WritesSettle
  <2>5. replies' \in [Tools -> Seq(Replies)]
    BY <1>2 DEF BridgeInv, TypeOK, Replies
  <2>6. \A o \in Entries : confirmed'[o] # Unset => Settled(o, confirmed'[o])
    BY <1>2 DEF BridgeInv, WritesSettle
  <2>7. \A u \in Tools : \A i \in 1 .. Len(replies'[u]) :
           \E j \in 1 .. Len(replies[u]) : replies'[u][i] = replies[u][j]
    BY <1>2
  <2> QED  BY <1>1, <1>2, <2>1, <2>3, <2>4, <2>5, <2>6, <2>7, QuietKeeps
<1> QED  BY <1>3, <1>4

(* A datagram to the tool is taken off its queue.                          *)
LEMMA QueueIs ==
  ASSUME BridgeInv, NEW t \in Tools, replies[t] # <<>>, replies' = [replies EXCEPT ![t] = Tail(@)]
  PROVE  /\ replies' \in [Tools -> Seq(Replies)]
         /\ \A u \in Tools : \A i \in 1 .. Len(replies'[u]) :
              \E j \in 1 .. Len(replies[u]) : replies'[u][i] = replies[u][j]
         /\ 1 \in 1 .. Len(replies[t]) /\ Head(replies[t]) = replies[t][1]
<1>1. replies \in [Tools -> Seq(Replies)]
  BY DEF BridgeInv, TypeOK, Replies
<1>2. /\ replies'[t] = Tail(replies[t]) /\ \A u \in Tools : u # t => replies'[u] = replies[u]
  BY <1>1
<1>3. /\ Tail(replies[t]) \in Seq(Replies) /\ Len(replies[t]) \in Nat \ {0}
      /\ Len(Tail(replies[t])) = Len(replies[t]) - 1
      /\ \A i \in 1 .. Len(Tail(replies[t])) : Tail(replies[t])[i] = replies[t][i + 1]
  <2>1. replies[t] \in Seq(Replies)
    BY <1>1
  <2>2. Len(replies[t]) \in Nat \ {0}
    BY <2>1, LenProperties, EmptySeq
  <2> QED  BY <2>1, <2>2, HeadTailProperties
<1>4. replies' \in [Tools -> Seq(Replies)]
  BY <1>1, <1>3
<1>5. ASSUME NEW u \in Tools, NEW i \in 1 .. Len(replies'[u])
      PROVE  \E j \in 1 .. Len(replies[u]) : replies'[u][i] = replies[u][j]
  <2>1. CASE u = t
    <3>0. i \in 1 .. Len(Tail(replies[t]))
      BY <1>2, <2>1
    <3>1. i \in 1 .. Len(Tail(replies[t])) /\ i + 1 \in 1 .. Len(replies[t])
      BY <1>3, <3>0
    <3>2. replies'[u][i] = replies[t][i + 1]
      BY <1>2, <1>3, <2>1, <3>1
    <3> QED  BY <2>1, <3>1, <3>2
  <2>2. CASE u # t
    BY <1>2, <2>2
  <2> QED  BY <2>1, <2>2
<1>6. 1 \in 1 .. Len(replies[t])
  BY <1>3
<1>7. Head(replies[t]) = replies[t][1]
  OBVIOUS
<1> QED  BY <1>4, <1>5, <1>6, <1>7

(* An OK the tool hears is that of its own request, which took effect.     *)
LEMMA HearsKeeps ==
  ASSUME BridgeInv, NEW t \in Tools, ToolHears(t)
  PROVE  BridgeInv'
<1> DEFINE r == Head(replies[t])
           own == tool[t].waits /\ r.seq = tool[t].last
           right == own /\ ~tool[t].req.is_read /\ r.res = "OK"
<1>1. /\ replies[t] # <<>> /\ replies' = [replies EXCEPT ![t] = Tail(@)]
      /\ Away /\ arrived' = arrived
  BY Zenon DEF ToolHears, Away
<1>2. (own => tool' = [tool EXCEPT ![t] = Rested(t)]) /\ (~own => tool' = tool)
  BY Zenon DEF ToolHears, IsOwnReply
<1>3. /\ right => confirmed' = [confirmed EXCEPT ![tool[t].req.obj] = tool[t].req.val]
      /\ ~right => confirmed' = confirmed
  BY Zenon DEF ToolHears, IsOwnReply
<1>4. /\ tool \in ToolStates /\ confirmed \in Confirmations
      /\ Rested(t) \in Resting /\ Rested(t).waits = FALSE
      /\ own => tool[t].req.obj \in Entries
      /\ right => tool[t].req.val \in Values
  <2>1. tool \in ToolStates /\ confirmed \in Confirmations
    BY DEF BridgeInv, TypeOK, ToolStates, Resting, Waiting, Confirmations
  <2>2. tool[t].last \in Nat /\ (own => tool[t].req \in Requests)
    BY ToolIs DEF BridgeInv
  <2>3. Rested(t) \in Resting /\ Rested(t).waits = FALSE
    BY <2>2 DEF Rested, Resting
  <2>4. own => tool[t].req.obj \in Entries /\ (~tool[t].req.is_read => tool[t].req.val \in Values)
    BY <2>2, RequestsAre
  <2> QED  BY <2>1, <2>3, <2>4
<1>5. right => Done(t)
  <2>1. r \in Replies /\ 1 \in 1 .. Len(replies[t]) /\ r = replies[t][1]
    <3>1. 1 \in 1 .. Len(replies[t]) /\ r = replies[t][1]
      BY <1>1, QueueIs
    <3>2. replies[t] \in Seq(Replies)
      BY DEF BridgeInv, TypeOK, Replies
    <3> QED  BY <3>1, <3>2, ElementOfSeq
  <2>2. right => r = Reply(tool[t].last, "OK")
    BY <2>1 DEF Replies, Reply
  <2> QED  BY <2>1, <2>2 DEF Done
<1>6. right => Settled(tool[t].req.obj, tool[t].req.val) /\ tool[t].waits
  BY <1>5 DEF BridgeInv, WritesSettle
<1> HIDE DEF right
<1>7. own <=> tool[t].waits /\ r.seq = tool[t].last
  OBVIOUS
<1>8. right => own
  BY DEF right
<1> HIDE DEF own, r
<1>9. /\ tool' \in ToolStates
      /\ \A u \in Tools : tool'[u] = tool[u] \/ tool'[u] = Rested(u)
      /\ \A u \in Tools : tool'[u].waits => tool'[u] = tool[u] /\ (own => u # t)
  <2>1. CASE own
    <3>1. tool' \in ToolStates /\ tool'[t] = Rested(t) /\ \A u \in Tools : u # t => tool'[u] = tool[u]
      BY <1>2, <1>4, <2>1 DEF ToolStates
    <3> QED  BY <1>4, <3>1
  <2>2. CASE ~own
    BY <1>2, <1>4, <2>2
  <2> QED  BY <2>1, <2>2
<1>10. /\ confirmed' \in Confirmations
       /\ right => confirmed'[tool[t].req.obj] = tool[t].req.val
       /\ \A o \in Entries : confirmed'[o] = confirmed[o] \/ (right /\ o = tool[t].req.obj)
  BY <1>3, <1>4, <1>8 DEF Confirmations
<1>11. ASSUME NEW o \in Entries, confirmed'[o] # Unset
       PROVE  Settled(o, confirmed'[o])
  <2>1. CASE confirmed'[o] = confirmed[o]
    <3>1. Settled(o, confirmed[o])
      BY <1>11, <2>1 DEF BridgeInv, WritesSettle
    <3> QED  BY <2>1, <3>1
  <2>2. CASE right /\ o = tool[t].req.obj
    BY <1>6, <1>10, <2>2
  <2> QED  BY <1>10, <2>1, <2>2
<1>12. ASSUME NEW u \in Tools, tool'[u].waits, ~tool'[u].req.is_read
       PROVE  confirmed'[tool'[u].req.obj] = Unset
  <2>1. /\ tool'[u] = tool[u] /\ tool[u].waits /\ ~tool[u].req.is_read
        /\ tool[u].req.obj \in Entries /\ confirmed[tool[u].req.obj] = Unset
    BY <1>9, <1>12, ToolIs, RequestsAre DEF BridgeInv, WritesSettle
  <2>2. right => u # t
    BY <1>8, <1>9, <1>12
  <2>3. right => Writer[tool[t].req.obj] = t
    BY <1>6 DEF BridgeInv, RequestsInOrder, ToolsWriteTheirOwn, right
  <2>4. Writer[tool[u].req.obj] = u
    BY <2>1 DEF BridgeInv, RequestsInOrder, ToolsWriteTheirOwn
  <2>5. confirmed'[tool[u].req.obj] = confirmed[tool[u].req.obj]
    BY <1>10, <2>1, <2>2, <2>3, <2>4
  <2> QED  BY <2>1, <2>5
<1> QED  BY <1>1, <1>9, <1>10, <1>11, <1>12, QueueIs, QuietKeeps

LEMMA LostKeeps ==
  ASSUME BridgeInv, NEW t \in Tools, ReplyLost(t)
  PROVE  BridgeInv'
<1>1. /\ replies[t] # <<>> /\ replies' = [replies EXCEPT ![t] = Tail(@)]
      /\ Away /\ arrived' = arrived /\ tool' = tool /\ confirmed' = confirmed
  BY Zenon DEF ReplyLost, Away
<1>2. tool \in ToolStates /\ confirmed \in Confirmations
  BY DEF BridgeInv, TypeOK, ToolStates, Resting, Waiting, Confirmations
<1>3. \A o \in Entries : confirmed'[o] # Unset => Settled(o, confirmed'[o])
  BY <1>1 DEF BridgeInv, WritesSettle
<1>4. \A u \in Tools : tool'[u].waits /\ ~tool'[u].req.is_read => confirmed'[tool'[u].req.obj] = Unset
  BY <1>1 DEF BridgeInv, WritesSettle
<1> QED  BY <1>1, <1>2, <1>3, <1>4, QueueIs, QuietKeeps

(* Subscriptions and what is no message ask for nothing.                   *)
LEMMA NoticeKeeps ==
  ASSUME BridgeInv, Away, NEW d \in Datagrams, ~Asks(d), Send(d),
         UNCHANGED <<tool, replies, confirmed>>
  PROVE  BridgeInv'
<1>1. /\ tool \in ToolStates /\ confirmed \in Confirmations
      /\ \A u \in Tools : tool[u].last \in Nat
  BY ToolIs DEF BridgeInv, TypeOK, ToolStates, Resting, Waiting, Confirmations
<1>2. Forward
  BY <1>1 DEF Forward
<1>3. ToolsWriteTheirOwn'
  BY DEF BridgeInv, RequestsInOrder, ToolsWriteTheirOwn
<1>4. \A u \in Tools : tool'[u].waits /\ ~tool'[u].req.is_read => confirmed'[tool'[u].req.obj] = Unset
  BY DEF BridgeInv, WritesSettle
<1> QED  BY <1>1, <1>2, <1>3, <1>4, SendKeeps

LEMMA ToolKeeps ==
  ASSUME BridgeInv, NEW t \in Tools, ToolActs(t)
  PROVE  BridgeInv'
<1>1. ASSUME NEW wish \in Subscriptions, ToolSubscribes(t, "subscribe", wish) PROVE BridgeInv'
  <2> DEFINE d == Datagram(t, "subscribe", 0, wish)
  <2>1. Send(d) /\ Away /\ UNCHANGED <<tool, replies, confirmed>>
    BY <1>1, Zenon DEF ToolSubscribes, Away
  <2>2. d \in Datagrams /\ ~Asks(d)
    BY DEF Datagram, Datagrams, Asks
  <2> HIDE DEF d
  <2> QED  BY <2>1, <2>2, NoticeKeeps
<1>2. ASSUME ToolSubscribes(t, "unsubscribe", None) PROVE BridgeInv'
  <2> DEFINE d == Datagram(t, "unsubscribe", 0, None)
  <2>1. Send(d) /\ Away /\ UNCHANGED <<tool, replies, confirmed>>
    BY <1>2, Zenon DEF ToolSubscribes, Away
  <2>2. d \in Datagrams /\ ~Asks(d)
    BY DEF Datagram, Datagrams, Asks
  <2> HIDE DEF d
  <2> QED  BY <2>1, <2>2, NoticeKeeps
<1>3. ASSUME Junk(t) PROVE BridgeInv'
  <2> DEFINE d == Datagram(t, "junk", 0, None)
  <2>1. Send(d) /\ Away /\ UNCHANGED <<tool, replies, confirmed>>
    BY <1>3, Zenon DEF Junk, Away
  <2>2. d \in Datagrams /\ ~Asks(d)
    BY DEF Datagram, Datagrams, Asks
  <2> HIDE DEF d
  <2> QED  BY <2>1, <2>2, NoticeKeeps
<1> QED  BY <1>1, <1>2, <1>3, AsksKeeps, TimesOutKeeps, HearsKeeps, LostKeeps DEF ToolActs

-----------------------------------------------------------------------------
(* od_tick: the request that has ended and the datagram taken *)

PendingRecords == [peer : Tools, seq : Nat]

(* The tool is at least at the number of each reply, and an OK to the      *)
(* request it waits for is deserved.                                       *)
RepliesAreTrue(reps) ==
  \A t \in Tools : \A i \in 1 .. Len(reps[t]) :
    /\ reps[t][i].seq <= tool[t].last
    /\ reps[t][i] = Reply(tool[t].last, "OK") => Done(t)

LEMMA PendingIs ==
  ASSUME BridgeInv, s_pending # None
  PROVE  /\ s_pending \in PendingRecords /\ slot \in SlotRecords /\ slot.client = "od"
         /\ s_pending.peer \in Tools /\ s_pending.seq \in Nat
         /\ s_pending = [peer |-> s_pending.peer, seq |-> s_pending.seq]
<1>1. s_pending \in PendingRecords
  BY DEF BridgeInv, TypeOK, PendingRecords
<1>2. slot \in SlotRecords /\ slot.client = "od"
  BY DEF BridgeInv, SlotIsOwned
<1> QED  BY <1>1, <1>2 DEF PendingRecords

(* What is left in service when the ended request has been answered.       *)
LEMMA AfterPollIs ==
  ASSUME BridgeInv
  PROVE  /\ AfterPoll # None => AfterPoll = s_pending /\ SlotAfterPoll = slot
         /\ SlotAfterPoll # Pipeline!Free => SlotAfterPoll = slot
         /\ AfterPoll = None \/ AfterPoll \in PendingRecords
         /\ SlotAfterPoll = Pipeline!Free \/ SlotAfterPoll \in SlotRecords
         /\ AfterPoll # None <=> SlotAfterPoll # Pipeline!Free /\ SlotAfterPoll.client = "od"
         /\ axis_waits <=> SlotAfterPoll # Pipeline!Free /\ SlotAfterPoll.client = "axis"
<1>1. CASE Polled
  <2>1. AfterPoll = None /\ SlotAfterPoll = Pipeline!Free
    BY <1>1 DEF AfterPoll, SlotAfterPoll
  <2>2. slot.client = "od"
    BY <1>1 DEF Polled, Completed
  <2>3. ~axis_waits
    BY <2>2 DEF BridgeInv, SlotIsOwned
  <2> QED  BY <2>1, <2>3
<1>2. CASE ~Polled
  <2>1. AfterPoll = s_pending /\ SlotAfterPoll = slot
    BY <1>2 DEF AfterPoll, SlotAfterPoll
  <2>2. s_pending = None \/ s_pending \in PendingRecords
    BY PendingIs
  <2> QED  BY <2>1, <2>2 DEF BridgeInv, SlotIsOwned
<1> QED  BY <1>1, <1>2

LEMMA AnsweredIs ==
  ASSUME BridgeInv
  PROVE  Answered \in [Tools -> Seq(Replies)] /\ RepliesAreTrue(Answered)
<1>1. replies \in [Tools -> Seq(Replies)]
  BY DEF BridgeInv, TypeOK, Replies
<1>2. RepliesAreTrue(replies)
  BY DEF RepliesAreTrue, BridgeInv, RequestsInOrder, RepliesInOrder, Done
<1>3. CASE Polled
  <2> DEFINE p == s_pending.peer
             r == Reply(s_pending.seq, IF slot.phase = "ok" THEN "OK" ELSE "FAILED")
  <2>1. s_pending # None /\ slot # Pipeline!Free
    BY <1>3 DEF Polled, Completed
  <2>2. /\ p \in Tools /\ s_pending.seq \in Nat
        /\ s_pending = [peer |-> p, seq |-> s_pending.seq]
    BY <2>1, PendingIs
  <2>3. r \in Replies /\ r.seq = s_pending.seq /\ (r.res = "OK" => slot.phase = "ok")
    BY <2>2 DEF Reply, Replies
  <2>4. r.seq <= tool[p].last
    BY <2>1, <2>3 DEF BridgeInv, RequestsInOrder, PendingInOrder, OfTool
  <2>5. r = Reply(tool[p].last, "OK") => Done(p)
    <3> SUFFICES ASSUME r = Reply(tool[p].last, "OK") PROVE Done(p)
      OBVIOUS
    <3>1. Reply(tool[p].last, "OK").seq = tool[p].last /\ Reply(tool[p].last, "OK").res = "OK"
      BY DEF Reply
    <3>2. s_pending.seq = tool[p].last /\ slot.phase = "ok"
      BY <2>3, <3>1
    <3> HIDE DEF r
    <3>3. s_pending = [peer |-> p, seq |-> tool[p].last]
      BY <2>2, <3>2
    <3> QED  BY <2>1, <3>2, <3>3 DEF Done, Effective
  <2>6. Answered = [replies EXCEPT ![p] = Append(@, r)]
    BY <1>3, Zenon DEF Answered
  <2> HIDE DEF p, r
  <2>7. /\ Answered \in [Tools -> Seq(Replies)]
        /\ \A u \in Tools : u # p => Answered[u] = replies[u]
        /\ Len(replies[p]) \in Nat /\ Len(Answered[p]) = Len(replies[p]) + 1
        /\ \A i \in 1 .. Len(replies[p]) : Answered[p][i] = replies[p][i]
        /\ Answered[p][Len(replies[p]) + 1] = r
    BY <1>1, <2>2, <2>3, <2>6, AnswerIs
  <2>8. ASSUME NEW t \in Tools, NEW i \in 1 .. Len(Answered[t])
        PROVE  /\ Answered[t][i].seq <= tool[t].last
               /\ Answered[t][i] = Reply(tool[t].last, "OK") => Done(t)
    <3>1. CASE t # p
      BY <1>2, <2>7, <3>1 DEF RepliesAreTrue
    <3>2. CASE t = p /\ i \in 1 .. Len(replies[p])
      BY <1>2, <2>7, <3>2 DEF RepliesAreTrue
    <3>3. CASE t = p /\ i = Len(replies[p]) + 1
      BY <2>4, <2>5, <2>7, <3>3
    <3> QED  BY <2>7, <3>1, <3>2, <3>3
  <2> QED  BY <2>7, <2>8 DEF RepliesAreTrue
<1>4. CASE ~Polled
  BY <1>1, <1>2, <1>4 DEF Answered
<1> QED  BY <1>3, <1>4

(* Taken, or left, the buffer keeps its order.                             *)
LEMMA ShiftIs ==
  ASSUME BridgeInv, arrived' = arrived \/ (arrived # <<>> /\ arrived' = Tail(arrived))
  PROVE  /\ arrived' \in Seq(Datagrams) /\ Len(arrived') <= RxBuffer
         /\ \E k \in {0, 1} : /\ Len(arrived) \in Nat /\ Len(arrived') = Len(arrived) - k
                              /\ \A i \in 1 .. Len(arrived') : arrived'[i] = arrived[i + k]
                              /\ \A i \in 1 .. Len(arrived') : i + k \in 1 .. Len(arrived)
<1>1. arrived \in Seq(Datagrams) /\ Len(arrived) <= RxBuffer
  BY DEF BridgeInv, TypeOK
<1>2. CASE arrived' = arrived
  <2>1. Len(arrived') = Len(arrived) /\ Len(arrived) \in Nat
    BY <1>1, <1>2, LenProperties
  <2>2. \A i \in 1 .. Len(arrived') : i + 0 = i
    BY <2>1
  <2>3. /\ Len(arrived') = Len(arrived) - 0
        /\ \A i \in 1 .. Len(arrived') : arrived'[i] = arrived[i + 0]
        /\ \A i \in 1 .. Len(arrived') : i + 0 \in 1 .. Len(arrived)
    BY <1>2, <2>1, <2>2
  <2> QED  BY <1>1, <1>2, <2>1, <2>3
<1>3. CASE arrived # <<>> /\ arrived' = Tail(arrived)
  <2>1. /\ arrived' \in Seq(Datagrams) /\ Len(arrived') <= RxBuffer
        /\ Len(arrived) \in Nat \ {0} /\ Len(arrived') = Len(arrived) - 1
        /\ \A i \in 1 .. Len(arrived') : arrived'[i] = arrived[i + 1]
    BY <1>1, <1>3, TakeIs
  <2>2. \A i \in 1 .. Len(arrived') : i + 1 \in 1 .. Len(arrived)
    BY <2>1
  <2> QED  BY <2>1, <2>2
<1> QED  BY <1>2, <1>3

(* od_tick, but for the telemetry: what each handler owes.                 *)
LEMMA ServeKeeps ==
  ASSUME BridgeInv, UNCHANGED <<tool, confirmed, store, late>>,
         arrived' = arrived \/ (arrived # <<>> /\ arrived' = Tail(arrived)),
         \A t \in Tools : \A i \in 1 .. Len(replies'[t]) : replies'[t][i].seq <= tool[t].last,
         s_pending' # None =>
           /\ OfTool(s_pending'.seq, slot'.req, tool[s_pending'.peer])
           /\ \A i \in 1 .. Len(arrived') :
                Asks(arrived'[i]) /\ arrived'[i].peer = s_pending'.peer
                  => NotBefore(s_pending'.seq, slot'.req, arrived'[i]),
         Effective' => Effective,
         \A o \in Entries : \A v : Settled(o, v) => SettledNext(o, v),
         \A t \in Tools : tool[t].waits /\ ~tool[t].req.is_read /\ DoneNext(t)
           => SettledNext(tool[t].req.obj, tool[t].req.val)
  PROVE  RequestsInOrder' /\ WritesSettle'
<1>1. PICK k \in {0, 1} : /\ Len(arrived) \in Nat /\ Len(arrived') = Len(arrived) - k
                          /\ \A i \in 1 .. Len(arrived') : arrived'[i] = arrived[i + k]
                          /\ \A i \in 1 .. Len(arrived') : i + k \in 1 .. Len(arrived)
  BY ShiftIs
<1>2. ToolsWriteTheirOwn'
  BY DEF BridgeInv, RequestsInOrder, ToolsWriteTheirOwn
<1>3. ASSUME NEW i \in 1 .. Len(arrived'), Asks(arrived'[i])
      PROVE  /\ ~arrived'[i].req.is_read => Writer[arrived'[i].req.obj] = arrived'[i].peer
             /\ OfTool(arrived'[i].seq, arrived'[i].req, tool'[arrived'[i].peer])
             /\ \A j \in i + 1 .. Len(arrived') :
                  Asks(arrived'[j]) /\ arrived'[j].peer = arrived'[i].peer
                    => NotBefore(arrived'[i].seq, arrived'[i].req, arrived'[j])
  <2>1. arrived'[i] = arrived[i + k] /\ i + k \in 1 .. Len(arrived)
    BY <1>1
  <2>2. /\ ~arrived[i + k].req.is_read => Writer[arrived[i + k].req.obj] = arrived[i + k].peer
        /\ OfTool(arrived[i + k].seq, arrived[i + k].req, tool[arrived[i + k].peer])
        /\ \A j \in i + k + 1 .. Len(arrived) :
             Asks(arrived[j]) /\ arrived[j].peer = arrived[i + k].peer
               => NotBefore(arrived[i + k].seq, arrived[i + k].req, arrived[j])
    BY <1>3, <2>1 DEF BridgeInv, RequestsInOrder, BufferInOrder
  <2>3. ASSUME NEW j \in i + 1 .. Len(arrived')
        PROVE  j + k \in i + k + 1 .. Len(arrived) /\ arrived'[j] = arrived[j + k]
    BY <1>1
  <2>4. tool' = tool
    OBVIOUS
  <2> QED  BY <2>1, <2>2, <2>3, <2>4
<1>4. BufferInOrder'
  BY <1>3 DEF BufferInOrder, Asks, NotBefore, OfTool
<1>5. PendingInOrder'
  BY DEF PendingInOrder, Asks, NotBefore, OfTool
<1>6. RepliesInOrder'
  BY DEF RepliesInOrder
<1>7. WritesSettle'
  <2>1. Effective' => late' = {}
    BY DEF BridgeInv, WritesSettle
  <2>2. ASSUME NEW o \in Entries, confirmed'[o] # Unset
        PROVE  SettledNext(o, confirmed'[o])
    <3>1. Settled(o, confirmed[o]) /\ confirmed'[o] = confirmed[o]
      BY <2>2 DEF BridgeInv, WritesSettle
    <3> QED  BY <3>1
  <2>3. \A t \in Tools : tool'[t].waits /\ ~tool'[t].req.is_read => confirmed'[tool'[t].req.obj] = Unset
    BY DEF BridgeInv, WritesSettle
  <2> QED  BY <2>1, <2>2, <2>3, SettlesNext
<1> QED  BY <1>2, <1>4, <1>5, <1>6, <1>7 DEF RequestsInOrder

(* Nothing new in service: what was in the slot and in the buffer is only  *)
(* less.                                                                   *)
LEMMA NotTakenIs ==
  ASSUME BridgeInv, NotTaken, UNCHANGED <<tool, store, late>>,
         arrived' = arrived \/ (arrived # <<>> /\ arrived' = Tail(arrived))
  PROVE  /\ s_pending' # None =>
              /\ OfTool(s_pending'.seq, slot'.req, tool[s_pending'.peer])
              /\ \A i \in 1 .. Len(arrived') :
                   Asks(arrived'[i]) /\ arrived'[i].peer = s_pending'.peer
                     => NotBefore(s_pending'.seq, slot'.req, arrived'[i])
         /\ Effective' => Effective
         /\ \A o \in Entries : \A v :
              /\ Settled(o, v)
              /\ v = IF o \in CmcEntries THEN local'[o] ELSE store'[o]
              => SettledNext(o, v)
         /\ \A t \in Tools : s_pending' = [peer |-> t, seq |-> tool'[t].last] /\ Effective' => Done(t)
<1>1. PICK k \in {0, 1} : /\ Len(arrived) \in Nat /\ Len(arrived') = Len(arrived) - k
                          /\ \A i \in 1 .. Len(arrived') : arrived'[i] = arrived[i + k]
                          /\ \A i \in 1 .. Len(arrived') : i + k \in 1 .. Len(arrived)
  BY ShiftIs
<1>2. /\ s_pending' # None => s_pending' = s_pending /\ slot' = slot
      /\ slot' # Pipeline!Free => slot' = slot
  BY AfterPollIs DEF NotTaken
<1>3. ASSUME s_pending' # None
      PROVE  /\ OfTool(s_pending'.seq, slot'.req, tool[s_pending'.peer])
             /\ \A i \in 1 .. Len(arrived') :
                  Asks(arrived'[i]) /\ arrived'[i].peer = s_pending'.peer
                    => NotBefore(s_pending'.seq, slot'.req, arrived'[i])
  <2>1. s_pending' = s_pending /\ slot' = slot /\ s_pending # None
    BY <1>2, <1>3
  <2> QED  BY <1>1, <2>1 DEF BridgeInv, RequestsInOrder, PendingInOrder
<1>4. Effective' => Effective
  BY <1>2 DEF Effective
<1>5. ASSUME NEW o \in Entries, NEW v, Settled(o, v),
             v = IF o \in CmcEntries THEN local'[o] ELSE store'[o]
      PROVE  SettledNext(o, v)
  <2>1. \A i \in 1 .. Len(arrived') :
          Asks(arrived'[i]) /\ Writes(arrived'[i].req, o) => arrived'[i].req.val = v
    BY <1>1, <1>5 DEF Settled
  <2>2. slot' # Pipeline!Free /\ Writes(slot'.req, o) => slot'.req.val = v
    BY <1>2, <1>5 DEF Settled
  <2>3. \A req \in late' : Writes(req, o) => req.val = v
    BY <1>5 DEF Settled
  <2> QED  BY <1>5, <2>1, <2>2, <2>3 DEF SettledNext
<1>6. ASSUME NEW t \in Tools, s_pending' = [peer |-> t, seq |-> tool'[t].last], Effective'
      PROVE  Done(t)
  <2>1. s_pending' # None
    <3>1. tool'[t].last \in Nat
      BY ToolIs DEF BridgeInv
    <3> QED  BY <1>6, <3>1, NoneIsNoRecord
  <2> QED  BY <1>2, <1>4, <1>6, <2>1 DEF Done
<1> QED  BY <1>3, <1>4, <1>5, <1>6

LEMMA HeadIs ==
  ASSUME BridgeInv, arrived # <<>>
  PROVE  LET d == Head(arrived)
         IN /\ d \in Datagrams /\ d = arrived[1] /\ 1 \in 1 .. Len(arrived)
            /\ Asks(d) => OfTool(d.seq, d.req, tool[d.peer])
            /\ d.kind = "junk" => d.seq = 0
<1>1. arrived \in Seq(Datagrams)
  BY DEF BridgeInv, TypeOK
<1>2. Len(arrived) \in Nat \ {0}
  BY <1>1, LenProperties, EmptySeq
<1>3. 1 \in 1 .. Len(arrived) /\ Head(arrived) = arrived[1]
  BY <1>2
<1>4. arrived[1] \in Datagrams
  BY <1>1, <1>3, ElementOfSeq
<1>5. Asks(arrived[1]) => OfTool(arrived[1].seq, arrived[1].req, tool[arrived[1].peer])
  BY <1>3 DEF BridgeInv, RequestsInOrder, BufferInOrder
<1>6. arrived[1].kind = "junk" => arrived[1].seq = 0
  BY <1>4 DEF Datagrams
<1> QED  BY <1>3, <1>4, <1>5, <1>6

(* The answer to the datagram taken is the last of its tool's replies.     *)
LEMMA AnswerIsTrue ==
  ASSUME BridgeInv, arrived # <<>>, NEW d, d = Head(arrived), Asks(d) \/ d.kind = "junk",
         NEW res \in {"OK", "QUEUE_FULL", "ERROR"}, Answer(d, res)
  PROVE  /\ replies' \in [Tools -> Seq(Replies)]
         /\ \A t \in Tools : \A i \in 1 .. Len(replies'[t]) :
              /\ replies'[t][i].seq <= tool[t].last
              /\ replies'[t][i] = Reply(tool[t].last, "OK")
                   => \/ Done(t)
                      \/ t = d.peer /\ d.seq = tool[t].last /\ res = "OK"
         /\ Len(Answered[d.peer]) \in Nat /\ Len(replies'[d.peer]) = Len(Answered[d.peer]) + 1
         /\ replies'[d.peer][Len(replies'[d.peer])].seq = d.seq
<1> DEFINE p == d.peer
           r == Reply(d.seq, res)
<1>1. Answered \in [Tools -> Seq(Replies)] /\ RepliesAreTrue(Answered)
  BY AnsweredIs
<1>2. /\ p \in Tools /\ d.seq \in Nat
  BY HeadIs, DatagramsAre
<1>3. r \in Replies /\ r.seq = d.seq /\ r.res = res
  BY <1>2 DEF Reply, Replies
<1>4. r.seq <= tool[p].last
  <2>1. tool[p].last \in Nat
    BY <1>2, ToolIs DEF BridgeInv
  <2> QED  BY <1>2, <1>3, <2>1, HeadIs DEF OfTool
<1>5. r = Reply(tool[p].last, "OK") => d.seq = tool[p].last /\ res = "OK"
  <2>1. Reply(tool[p].last, "OK").seq = tool[p].last /\ Reply(tool[p].last, "OK").res = "OK"
    BY DEF Reply
  <2> HIDE DEF r
  <2> QED  BY <1>3, <2>1
<1>6. replies' = [Answered EXCEPT ![p] = Append(@, r)]
  BY Zenon DEF Answer
<1> HIDE DEF r, p
<1>7. /\ replies' \in [Tools -> Seq(Replies)]
      /\ \A u \in Tools : u # p => replies'[u] = Answered[u]
      /\ Len(Answered[p]) \in Nat /\ Len(replies'[p]) = Len(Answered[p]) + 1
      /\ \A i \in 1 .. Len(Answered[p]) : replies'[p][i] = Answered[p][i]
      /\ replies'[p][Len(Answered[p]) + 1] = r
  BY <1>1, <1>2, <1>3, <1>6, AnswerIs
<1>8. ASSUME NEW t \in Tools, NEW i \in 1 .. Len(replies'[t])
      PROVE  /\ replies'[t][i].seq <= tool[t].last
             /\ replies'[t][i] = Reply(tool[t].last, "OK")
                  => \/ Done(t)
                     \/ t = p /\ d.seq = tool[t].last /\ res = "OK"
  <2>1. CASE t # p
    BY <1>1, <1>7, <2>1 DEF RepliesAreTrue
  <2>2. CASE t = p /\ i \in 1 .. Len(Answered[p])
    BY <1>1, <1>7, <2>2 DEF RepliesAreTrue
  <2>3. CASE t = p /\ i = Len(Answered[p]) + 1
    BY <1>4, <1>5, <1>7, <2>3
  <2> QED  BY <1>7, <2>1, <2>2, <2>3
<1>9. replies'[p][Len(replies'[p])].seq = d.seq
  BY <1>3, <1>7
<1> QED  BY <1>7, <1>8, <1>9 DEF p

(* What od_tick owes to the rest, but for the telemetry.                   *)
Accessed ==
  /\ arrived' \in Seq(Datagrams) /\ Len(arrived') <= RxBuffer
  /\ replies' \in [Tools -> Seq(Replies)]
  /\ local' \in [CmcEntries -> Values]
  /\ s_pending' = None \/ s_pending' \in PendingRecords
  /\ SlotIsOwned' /\ RequestsInOrder' /\ WritesSettle'

(* The datagram taken, if any, changes no entry and begins no request.     *)
LEMMA PlainKeeps ==
  ASSUME BridgeInv, NotTaken, UNCHANGED <<tool, confirmed, store, late, local, axis_waits>>,
         arrived' = arrived \/ (arrived # <<>> /\ arrived' = Tail(arrived)),
         replies' \in [Tools -> Seq(Replies)], RepliesAreTrue(replies')
  PROVE  Accessed
<1>1. arrived' \in Seq(Datagrams) /\ Len(arrived') <= RxBuffer
  BY ShiftIs
<1>2. local' \in [CmcEntries -> Values] /\ (s_pending' = None \/ s_pending' \in PendingRecords)
  BY AfterPollIs DEF BridgeInv, TypeOK, NotTaken
<1>3. SlotIsOwned'
  BY AfterPollIs DEF NotTaken, SlotIsOwned, BridgeInv
<1>4. \A o \in Entries : \A v : Settled(o, v) => SettledNext(o, v)
  <2>1. \A o \in Entries : \A v : Settled(o, v) => v = IF o \in CmcEntries THEN local'[o] ELSE store'[o]
    BY DEF Settled
  <2> QED  BY <2>1, NotTakenIs
<1>5. ASSUME NEW t \in Tools, tool[t].waits, ~tool[t].req.is_read, DoneNext(t)
      PROVE  SettledNext(tool[t].req.obj, tool[t].req.val)
  <2>1. Done(t)
    BY <1>5, NotTakenIs DEF DoneNext, RepliesAreTrue
  <2>2. Settled(tool[t].req.obj, tool[t].req.val) /\ tool[t].req.obj \in Entries
    BY <1>5, <2>1, ToolIs, RequestsAre DEF BridgeInv, WritesSettle
  <2> QED  BY <1>4, <2>2
<1>6. \A t \in Tools : \A i \in 1 .. Len(replies'[t]) : replies'[t][i].seq <= tool[t].last
  BY DEF RepliesAreTrue
<1>7. RequestsInOrder' /\ WritesSettle'
  BY <1>4, <1>5, <1>6, NotTakenIs, ServeKeeps
<1> QED  BY <1>1, <1>2, <1>3, <1>7 DEF Accessed

(* An entry of the CMC takes its value at once: every older write of it    *)
(* came before, and what follows in the buffer is the same write again.    *)
LEMMA LocalKeeps ==
  ASSUME BridgeInv, UNCHANGED <<tool, confirmed, store, late, axis_waits>>,
         arrived # <<>>, arrived' = Tail(arrived), HandleLocal(Head(arrived))
  PROVE  Accessed
<1> DEFINE d == Head(arrived)
<1>1. /\ Asks(d) /\ d.req.obj \in CmcEntries /\ Answer(d, "OK") /\ NotTaken
      /\ d.req.is_read => local' = local
      /\ ~d.req.is_read => local' = [local EXCEPT ![d.req.obj] = d.req.val]
  BY Zenon DEF HandleLocal, Asks
<1>2. d \in Datagrams /\ d = arrived[1] /\ 1 \in 1 .. Len(arrived) /\ OfTool(d.seq, d.req, tool[d.peer])
  BY <1>1, HeadIs
<1> HIDE DEF d
<1>3. d.peer \in Tools /\ d.seq \in Nat /\ d.req \in Requests /\ (~d.req.is_read => d.req.val \in Values)
  BY <1>1, <1>2, DatagramsAre, RequestsAre DEF Asks
<1>4. /\ replies' \in [Tools -> Seq(Replies)]
      /\ \A t \in Tools : \A i \in 1 .. Len(replies'[t]) :
           /\ replies'[t][i].seq <= tool[t].last
           /\ replies'[t][i] = Reply(tool[t].last, "OK")
                => Done(t) \/ (t = d.peer /\ d.seq = tool[t].last)
  BY <1>1, AnswerIsTrue DEF d
<1>5. /\ local' \in [CmcEntries -> Values]
      /\ \A o \in CmcEntries : local'[o] = IF Writes(d.req, o) THEN d.req.val ELSE local[o]
  <2>1. local \in [CmcEntries -> Values]
    BY DEF BridgeInv, TypeOK
  <2>2. CASE d.req.is_read
    BY <1>1, <2>1, <2>2 DEF Writes
  <2>3. CASE ~d.req.is_read
    BY <1>1, <1>3, <2>1, <2>3 DEF Writes
  <2> QED  BY <2>2, <2>3
<1>6. /\ arrived' \in Seq(Datagrams) /\ Len(arrived') <= RxBuffer
      /\ Len(arrived) \in Nat \ {0} /\ Len(arrived') = Len(arrived) - 1
      /\ \A i \in 1 .. Len(arrived') : arrived'[i] = arrived[i + 1]
  BY TakeIs DEF BridgeInv, TypeOK
<1>7. SlotIsOwned' /\ (s_pending' = None \/ s_pending' \in PendingRecords)
  BY <1>1, AfterPollIs DEF NotTaken, SlotIsOwned, BridgeInv
<1>8. ASSUME NEW o \in Entries, NEW v, Settled(o, v)
      PROVE  SettledNext(o, v)
  <2>1. Writes(d.req, o) => d.req.val = v
    BY <1>1, <1>2, <1>8 DEF Settled
  <2>2. v = IF o \in CmcEntries THEN local'[o] ELSE store'[o]
    BY <1>5, <1>8, <2>1 DEF Settled
  <2> QED  BY <1>1, <1>8, <2>2, NotTakenIs
<1>9. ASSUME NEW t \in Tools, tool[t].waits, ~tool[t].req.is_read, DoneNext(t)
      PROVE  SettledNext(tool[t].req.obj, tool[t].req.val)
  <2>1. tool[t].req.obj \in Entries /\ Writer[tool[t].req.obj] = t /\ tool[t].last \in Nat
    BY <1>9, ToolIs, RequestsAre DEF BridgeInv, RequestsInOrder, ToolsWriteTheirOwn
  <2>2. CASE Done(t)
    BY <1>8, <1>9, <2>1, <2>2 DEF BridgeInv, WritesSettle
  <2>3. CASE t = d.peer /\ d.seq = tool[t].last
    <3>1. d.req = tool[t].req
      BY <1>2, <1>9, <2>3 DEF OfTool
    <3> DEFINE o == d.req.obj
    <3>2. o \in CmcEntries /\ ~d.req.is_read /\ local'[o] = d.req.val /\ Writer[o] = t
      BY <1>1, <1>5, <1>9, <2>1, <3>1 DEF Writes
    <3> HIDE DEF o
    <3>3. ASSUME NEW i \in 1 .. Len(arrived'), Asks(arrived'[i]), Writes(arrived'[i].req, o)
          PROVE  arrived'[i].req.val = d.req.val
      <4>1. arrived'[i] = arrived[i + 1] /\ i + 1 \in 1 .. Len(arrived) /\ i + 1 \in 1 + 1 .. Len(arrived)
        BY <1>6
      <4> DEFINE e == arrived[i + 1]
      <4>2. e \in Datagrams /\ Asks(e) /\ Writes(e.req, o)
        BY <3>3, <4>1, ArrivedAre DEF BridgeInv, TypeOK
      <4>3. e.peer = t /\ e.seq \in Nat
        BY <3>2, <4>1, <4>2, DatagramsAre DEF BridgeInv, RequestsInOrder, BufferInOrder, Writes
      <4>4. d.seq <= e.seq /\ (d.seq = e.seq => d.req = e.req)
        BY <1>1, <1>2, <2>3, <4>1, <4>2, <4>3 DEF BridgeInv, RequestsInOrder, BufferInOrder, NotBefore
      <4>5. e.seq <= tool[t].last
        BY <4>1, <4>2, <4>3 DEF BridgeInv, RequestsInOrder, BufferInOrder, OfTool
      <4> HIDE DEF e
      <4>6. d.req = e.req
        BY <1>3, <2>1, <2>3, <4>3, <4>4, <4>5
      <4> QED  BY <4>1, <4>6 DEF e
    <3>4. ~(slot' # Pipeline!Free /\ Writes(slot'.req, o))
      <4>1. slot' # Pipeline!Free => slot'.req \in MotorRequests
        BY <1>7, SlotIs DEF SlotIsOwned
      <4> QED  BY <3>2, <4>1, ConstantsAssumption DEF Writes, MotorRequests
    <3>5. \A req \in late' : ~Writes(req, o)
      <4>1. late' \subseteq MotorRequests
        BY DEF BridgeInv, SlotIsOwned
      <4> QED  BY <3>2, <4>1, ConstantsAssumption DEF Writes, MotorRequests
    <3>6. SettledNext(o, d.req.val)
      BY <3>2, <3>3, <3>4, <3>5 DEF SettledNext
    <3> QED  BY <3>1, <3>6 DEF o
  <2> QED  BY <1>4, <1>9, <2>2, <2>3, <1>1, NotTakenIs DEF DoneNext
<1>10. RequestsInOrder' /\ WritesSettle'
  BY <1>1, <1>4, <1>8, <1>9, NotTakenIs, ServeKeeps
<1> QED  BY <1>4, <1>5, <1>6, <1>7, <1>10 DEF Accessed

(* A request enters the pipeline.                                          *)
LEMMA BeginKeeps ==
  ASSUME BridgeInv, UNCHANGED <<tool, confirmed, store, late, axis_waits>>,
         arrived # <<>>, arrived' = Tail(arrived), HandleBegin(Head(arrived))
  PROVE  Accessed
<1> DEFINE d == Head(arrived)
<1>1. /\ Asks(d) /\ d.req.obj \in MotorEntries /\ Vacant
      /\ slot' = Pipeline!Opened("od", d.req)
      /\ s_pending' = [peer |-> d.peer, seq |-> d.seq]
      /\ replies' = Answered /\ local' = local
  BY Zenon DEF HandleBegin, MotorRequest, Asks
<1>2. d \in Datagrams /\ d = arrived[1] /\ 1 \in 1 .. Len(arrived) /\ OfTool(d.seq, d.req, tool[d.peer])
  BY <1>1, HeadIs
<1> HIDE DEF d
<1>3. d.peer \in Tools /\ d.seq \in Nat /\ d.req \in Requests /\ d.req \in MotorRequests
  BY <1>1, <1>2, DatagramsAre DEF Asks, MotorRequests
<1>4. /\ slot' \in SlotRecords /\ slot'.client = "od" /\ slot'.phase = "open" /\ slot'.req = d.req
  BY <1>1, <1>3 DEF Pipeline!Opened, SlotRecords
<1>5. /\ s_pending' \in PendingRecords /\ s_pending' # None
      /\ s_pending'.peer = d.peer /\ s_pending'.seq = d.seq
  <2>1. /\ [peer |-> d.peer, seq |-> d.seq] \in PendingRecords
        /\ [peer |-> d.peer, seq |-> d.seq].peer = d.peer
        /\ [peer |-> d.peer, seq |-> d.seq].seq = d.seq
    BY <1>3 DEF PendingRecords
  <2> QED  BY <1>1, <2>1, NoneIsNoRecord DEF PendingRecords
<1>6. /\ arrived' \in Seq(Datagrams) /\ Len(arrived') <= RxBuffer
      /\ Len(arrived) \in Nat \ {0} /\ Len(arrived') = Len(arrived) - 1
      /\ \A i \in 1 .. Len(arrived') : arrived'[i] = arrived[i + 1]
      /\ \A i \in 1 .. Len(arrived') : i + 1 \in 1 + 1 .. Len(arrived) /\ i + 1 \in 1 .. Len(arrived)
  <2>1. /\ arrived' \in Seq(Datagrams) /\ Len(arrived') <= RxBuffer
        /\ Len(arrived) \in Nat \ {0} /\ Len(arrived') = Len(arrived) - 1
        /\ \A i \in 1 .. Len(arrived') : arrived'[i] = arrived[i + 1]
    BY TakeIs DEF BridgeInv, TypeOK
  <2> QED  BY <2>1
<1>7. SlotIsOwned'
  <2>1. ~axis_waits
    BY <1>1, AfterPollIs DEF Vacant
  <2>2. slot' # Pipeline!Free /\ late' \in SUBSET MotorRequests
    BY <1>4, SlotIs DEF BridgeInv, SlotIsOwned
  <2> QED  BY <1>4, <1>5, <2>1, <2>2 DEF SlotIsOwned
<1>8. ~Effective'
  BY <1>4 DEF Effective
<1>9. /\ OfTool(s_pending'.seq, slot'.req, tool[s_pending'.peer])
      /\ \A i \in 1 .. Len(arrived') :
           Asks(arrived'[i]) /\ arrived'[i].peer = s_pending'.peer
             => NotBefore(s_pending'.seq, slot'.req, arrived'[i])
  BY <1>1, <1>2, <1>4, <1>5, <1>6 DEF BridgeInv, RequestsInOrder, BufferInOrder
<1>10. ASSUME NEW o \in Entries, NEW v, Settled(o, v)
       PROVE  SettledNext(o, v)
  <2>1. Writes(d.req, o) => d.req.val = v
    BY <1>1, <1>2, <1>10 DEF Settled
  <2>2. \A i \in 1 .. Len(arrived') :
          Asks(arrived'[i]) /\ Writes(arrived'[i].req, o) => arrived'[i].req.val = v
    BY <1>6, <1>10 DEF Settled
  <2>3. v = IF o \in CmcEntries THEN local'[o] ELSE store'[o]
    BY <1>1, <1>10 DEF Settled
  <2>4. \A req \in late' : Writes(req, o) => req.val = v
    BY <1>10 DEF Settled
  <2> QED  BY <1>4, <2>1, <2>2, <2>3, <2>4 DEF SettledNext
<1>11. ASSUME NEW t \in Tools, tool[t].waits, ~tool[t].req.is_read, DoneNext(t)
       PROVE  SettledNext(tool[t].req.obj, tool[t].req.val)
  <2>1. Done(t)
    BY <1>1, <1>8, <1>11, AnsweredIs DEF DoneNext, RepliesAreTrue
  <2> QED  BY <1>10, <1>11, <2>1, ToolIs, RequestsAre DEF BridgeInv, WritesSettle
<1>12. RequestsInOrder' /\ WritesSettle'
  <2>1. \A t \in Tools : \A i \in 1 .. Len(replies'[t]) : replies'[t][i].seq <= tool[t].last
    BY <1>1, AnsweredIs DEF RepliesAreTrue
  <2> QED  BY <1>8, <1>9, <1>10, <1>11, <2>1, ServeKeeps
<1>13. replies' \in [Tools -> Seq(Replies)] /\ local' \in [CmcEntries -> Values]
  BY <1>1, AnsweredIs DEF BridgeInv, TypeOK
<1> QED  BY <1>5, <1>6, <1>7, <1>12, <1>13 DEF Accessed

(* The first half of od_tick.                                              *)
LEMMA AccessKeeps ==
  ASSUME BridgeInv, ServiceAccess, UNCHANGED <<tool, confirmed, store, late, axis_waits>>
  PROVE  Accessed
<1> DEFINE d == Head(arrived)
<1>1. Answered \in [Tools -> Seq(Replies)] /\ RepliesAreTrue(Answered)
  BY AnsweredIs
<1>2. CASE arrived = <<>>
  <2>1. replies' = Answered /\ NotTaken /\ UNCHANGED <<arrived, local>>
    BY <1>2, Zenon DEF ServiceAccess
  <2> QED  BY <1>1, <2>1, PlainKeeps
<1>3. CASE arrived # <<>>
  <2>1. /\ arrived' = Tail(arrived)
        /\ \/ HandleLocal(d) \/ HandleRetransmit(d) \/ HandleBegin(d)
           \/ HandleFull(d) \/ HandleMalformed(d) \/ HandleSubscription(d)
    BY <1>3, Zenon DEF ServiceAccess
  <2>2. CASE HandleLocal(d)
    BY <1>3, <2>1, <2>2, LocalKeeps
  <2>3. CASE HandleBegin(d)
    BY <1>3, <2>1, <2>3, BeginKeeps
  <2>4. CASE HandleRetransmit(d) \/ HandleSubscription(d)
    <3>1. NotTaken /\ replies' = Answered /\ local' = local
      BY <2>4, Zenon DEF HandleRetransmit, HandleSubscription
    <3> QED  BY <1>1, <1>3, <2>1, <3>1, PlainKeeps
  <2>5. ASSUME NEW res \in {"QUEUE_FULL", "ERROR"}, Asks(d) \/ d.kind = "junk",
               Answer(d, res), NotTaken, local' = local
        PROVE  Accessed
    <3>1. replies' \in [Tools -> Seq(Replies)] /\ RepliesAreTrue(replies')
      <4>1. res \in {"OK", "QUEUE_FULL", "ERROR"} /\ res # "OK"
        BY <2>5
      <4> QED  BY <1>3, <2>5, <4>1, AnswerIsTrue DEF RepliesAreTrue
    <3> QED  BY <1>3, <2>1, <2>5, <3>1, PlainKeeps
  <2>6. CASE HandleFull(d)
    BY <2>5, <2>6 DEF HandleFull, MotorRequest, Asks
  <2>7. CASE HandleMalformed(d)
    BY <2>5, <2>7 DEF HandleMalformed
  <2> QED  BY <2>1, <2>2, <2>3, <2>4, <2>6, <2>7
<1> QED  BY <1>2, <1>3

-----------------------------------------------------------------------------
(* od_tick: the telemetry *)

SubRecords    == [peer : Tools, div : Nat \ {0}, batch : 1 .. TELEMETRY_BATCH_MAX]
StreamRecords == [sub : SubRecords \union {None}, count : Nat, map : Maps \union {0}, held : Seq(Statuses)]
Telegrams     == [peer : Tools, map : Maps \union {0}, samples : Seq(Statuses)]

(* Samples of one map, from s on, and at least div apart.                  *)
Spaced(h, m, s, div) ==
  /\ \A j \in 1 .. Len(h) : h[j].map = m /\ h[j].n >= s
  /\ \A j \in 2 .. Len(h) : h[j].n - h[j - 1].n >= div

(* The part of BatchIsUniform about a stream st.                           *)
Sound(st, s, fr) ==
  st.sub # None =>
    /\ st.count < st.sub.div /\ Len(st.held) < st.sub.batch
    /\ s <= status.n + (IF fr THEN 0 ELSE 1)
    /\ Spaced(st.held, st.map, s, st.sub.div)
    /\ st.held # <<>> => st.held[Len(st.held)].n + st.count <= status.n - (IF fr THEN 1 ELSE 0)

(* The part of DatagramIsUniform about a datagram d.                       *)
Uniform(d, sub, s) ==
  d.peer = sub.peer /\ Len(d.samples) <= sub.batch /\ Spaced(d.samples, d.map, s, sub.div)

LEMMA SubscriberIs ==
  ASSUME NEW sub \in SubRecords \union {None}, sub # None
  PROVE  sub.peer \in Tools /\ sub.div \in Nat \ {0} /\ sub.batch \in Nat \ {0}
  BY ConstantsAssumption DEF SubRecords

LEMMA StatusIs ==
  ASSUME NEW x \in Statuses
  PROVE  x.n \in Nat /\ x.map \in Maps \union {0}
  BY DEF Statuses

(* A datagram of the samples h.                                            *)
LEMMA EmitIs ==
  ASSUME NEW st \in StreamRecords, st.sub # None, NEW s, NEW h \in Seq(Statuses),
         Len(h) <= st.sub.batch, Spaced(h, st.map, s, st.sub.div)
  PROVE  Emit(st, h) \in Seq({d \in Telegrams : Uniform(d, st.sub, s)})
<1> DEFINE d == [peer |-> st.sub.peer, map |-> st.map, samples |-> h]
<1>1. st.sub \in SubRecords \union {None} /\ st.map \in Maps \union {0}
  BY DEF StreamRecords
<1>2. d \in Telegrams /\ d.peer = st.sub.peer /\ d.samples = h /\ d.map = st.map
  BY <1>1, SubscriberIs DEF Telegrams
<1>3. Uniform(d, st.sub, s)
  BY <1>2, Zenon DEF Uniform
<1>4. Emit(st, h) = <<d>>
  BY DEF Emit
<1> HIDE DEF d
<1> QED  BY <1>2, <1>3, <1>4

(* The status that is due joins the batch, or those of its map.            *)
LEMMA KeepIs ==
  ASSUME status \in Statuses, NEW st \in StreamRecords, st.sub # None, NEW s \in Nat,
         Sound(st, s, TRUE), st.count + 1 >= st.sub.div
  PROVE  /\ Keep(st).stream \in StreamRecords /\ Keep(st).stream.sub = st.sub
         /\ Sound(Keep(st).stream, s, FALSE)
         /\ Keep(st).out \in Seq({d \in Telegrams : Uniform(d, st.sub, s)})
<1> DEFINE old  == IF Flushed(st) THEN <<>> ELSE st.held
           new  == Append(old, status)
           full == Len(new) >= st.sub.batch
           next == [st EXCEPT !.count = 0, !.map = status.map, !.held = IF full THEN <<>> ELSE new]
           out1 == IF Flushed(st) THEN Emit(st, st.held) ELSE <<>>
           out2 == IF full THEN Emit(next, new) ELSE <<>>
<1>1. Keep(st).stream = next /\ Keep(st).out = out1 \o out2
  BY DEF Keep
<1>2. /\ st.sub \in SubRecords \union {None} /\ st.count \in Nat
      /\ st.map \in Maps \union {0} /\ st.held \in Seq(Statuses)
      /\ status.n \in Nat /\ status.map \in Maps \union {0}
  BY StatusIs DEF StreamRecords
<1>3. st.sub.div \in Nat \ {0} /\ st.sub.batch \in Nat \ {0} /\ Len(st.held) \in Nat
  BY <1>2, SubscriberIs, LenProperties
<1>4. /\ st.count < st.sub.div /\ Len(st.held) < st.sub.batch /\ s <= status.n
      /\ Spaced(st.held, st.map, s, st.sub.div)
      /\ st.held # <<>> => st.held[Len(st.held)].n + st.count <= status.n - 1
  BY <1>2 DEF Sound
<1>5. /\ old \in Seq(Statuses) /\ Len(old) < st.sub.batch /\ Len(old) \in Nat
      /\ Spaced(old, status.map, s, st.sub.div)
      /\ old # <<>> => /\ old[Len(old)].n \in Nat
                       /\ old[Len(old)].n + st.count <= status.n - 1
  <2>1. CASE Flushed(st) \/ st.held = <<>>
    <3>1. old = <<>>
      BY <2>1
    <3>2. <<>> \in Seq(Statuses) /\ Len(<<>>) = 0
      BY EmptySeq
    <3> HIDE DEF old
    <3> QED  BY <1>3, <3>1, <3>2 DEF Spaced
  <2>2. CASE ~Flushed(st) /\ st.held # <<>>
    <3>1. old = st.held /\ status.map = st.map
      BY <2>2 DEF Flushed, MapChanged
    <3>2. Len(st.held) \in Nat \ {0}
      BY <1>2, <2>2, EmptySeq
    <3>3. st.held[Len(st.held)] \in Statuses
      BY <1>2, <3>2, ElementOfSeq
    <3> HIDE DEF old
    <3> QED  BY <1>2, <1>3, <1>4, <2>2, <3>1, <3>3, StatusIs
  <2> QED  BY <2>1, <2>2
<1> HIDE DEF old
<1>6. /\ new \in Seq(Statuses) /\ new # <<>> /\ Len(new) = Len(old) + 1
      /\ \A i \in 1 .. Len(old) : new[i] = old[i]
      /\ new[Len(old) + 1] = status
  BY <1>5, AppendProperties
<1> HIDE DEF new
<1>7. Len(new) <= st.sub.batch /\ new[Len(new)].n = status.n
  BY <1>3, <1>5, <1>6
<1>8. Spaced(new, status.map, s, st.sub.div)
  <2>1. ASSUME NEW j \in 1 .. Len(new)
        PROVE  new[j].map = status.map /\ new[j].n >= s
    <3>1. CASE j \in 1 .. Len(old)
      BY <1>5, <1>6, <3>1 DEF Spaced
    <3>2. CASE j = Len(old) + 1
      BY <1>2, <1>4, <1>6, <3>2
    <3> QED  BY <1>5, <1>6, <3>1, <3>2
  <2>2. ASSUME NEW j \in 2 .. Len(new)
        PROVE  new[j].n - new[j - 1].n >= st.sub.div
    <3>1. CASE j \in 2 .. Len(old)
      <4>1. new[j] = old[j] /\ new[j - 1] = old[j - 1]
        BY <1>5, <1>6, <3>1
      <4> QED  BY <1>5, <3>1, <4>1 DEF Spaced
    <3>2. CASE j = Len(old) + 1
      <4>1. old # <<>>
        BY <2>2, <3>2, EmptySeq
      <4>2. j - 1 = Len(old) /\ j - 1 \in 1 .. Len(old)
        BY <1>5, <2>2, <3>2
      <4>3. new[j] = status /\ new[j - 1] = old[Len(old)]
        BY <1>6, <3>2, <4>2
      <4>4. old[Len(old)].n \in Nat /\ old[Len(old)].n + st.count <= status.n - 1
        BY <1>5, <4>1
      <4>5. status.n - old[Len(old)].n >= st.sub.div
        BY <1>2, <1>3, <4>4, SMTT(60)
      <4> QED  BY <4>3, <4>5
    <3> QED  BY <1>5, <1>6, <3>1, <3>2
  <2> QED  BY <2>1, <2>2 DEF Spaced
<1>9. /\ next \in StreamRecords /\ next.sub = st.sub /\ next.count = 0 /\ next.map = status.map
      /\ next.held = IF full THEN <<>> ELSE new
  <2>1. (IF full THEN <<>> ELSE new) \in Seq(Statuses)
    BY <1>6, EmptySeq
  <2> HIDE DEF full
  <2> QED  BY <1>2, <2>1 DEF StreamRecords
<1> HIDE DEF next
<1>10. Sound(next, s, FALSE)
  <2>1. CASE full
    <3>1. next.held = <<>> /\ Len(<<>>) = 0
      BY <1>9, <2>1, EmptySeq
    <3> QED  BY <1>2, <1>3, <1>4, <1>9, <3>1 DEF Sound, Spaced
  <2>2. CASE ~full
    <3>1. next.held = new /\ Len(new) < st.sub.batch
      BY <1>3, <1>5, <1>6, <1>9, <2>2
    <3> QED  BY <1>2, <1>3, <1>4, <1>7, <1>8, <1>9, <3>1 DEF Sound
  <2> QED  BY <2>1, <2>2
<1>11. out1 \in Seq({d \in Telegrams : Uniform(d, st.sub, s)})
  <2>1. Len(st.held) <= st.sub.batch
    BY <1>3, <1>4
  <2>2. Emit(st, st.held) \in Seq({d \in Telegrams : Uniform(d, st.sub, s)})
    BY <1>2, <1>4, <2>1, EmitIs
  <2> QED  BY <2>2, EmptySeq
<1>12. out2 \in Seq({d \in Telegrams : Uniform(d, st.sub, s)})
  <2>1. Emit(next, new) \in Seq({d \in Telegrams : Uniform(d, next.sub, s)})
    BY <1>6, <1>7, <1>8, <1>9, EmitIs
  <2> QED  BY <1>9, <2>1, EmptySeq
<1> HIDE DEF out1, out2
<1>13. out1 \o out2 \in Seq({d \in Telegrams : Uniform(d, st.sub, s)})
  BY <1>11, <1>12, ConcatProperties
<1> QED  BY <1>1, <1>9, <1>10, <1>13

(* What the tick makes of a stream, for a subscriber.                      *)
LEMMA ServicedIs ==
  ASSUME status \in Statuses, fresh \in BOOLEAN, NEW st \in StreamRecords, NEW s \in Nat,
         Sound(st, s, fresh), NEW silent \in BOOLEAN
  PROVE  /\ Serviced(st, silent).stream \in StreamRecords
         /\ Serviced(st, silent).stream.sub = st.sub
         /\ Sound(Serviced(st, silent).stream, s, FALSE)
         /\ st.sub = None => Serviced(st, silent).out = <<>>
         /\ st.sub # None => Serviced(st, silent).out \in Seq({d \in Telegrams : Uniform(d, st.sub, s)})
<1>1. /\ st.sub \in SubRecords \union {None} /\ st.count \in Nat /\ st.held \in Seq(Statuses)
      /\ status.n \in Nat
  BY StatusIs DEF StreamRecords
<1>2. CASE st.sub = None
  <2>1. Serviced(st, silent) = [stream |-> st, out |-> <<>>]
    BY <1>2 DEF Serviced
  <2> QED  BY <1>2, <2>1 DEF Sound
<1>3. CASE st.sub # None /\ fresh /\ st.count + 1 >= st.sub.div
  <2>1. st.sub.div \in Nat
    BY <1>1, <1>3, SubscriberIs
  <2>2. Serviced(st, silent) = Keep(st)
    BY <1>1, <1>3, <2>1 DEF Serviced
  <2>3. Sound(st, s, TRUE)
    BY <1>3, Zenon DEF Sound
  <2> QED  BY <1>3, <2>2, <2>3, KeepIs
<1>4. CASE st.sub # None /\ fresh /\ st.count + 1 < st.sub.div
  <2> DEFINE next == [st EXCEPT !.count = @ + 1]
  <2>1. st.sub.div \in Nat
    BY <1>1, <1>4, SubscriberIs
  <2>2. Serviced(st, silent).stream = next /\ Serviced(st, silent).out = <<>>
    <3>1. Serviced(st, silent) = [stream |-> next, out |-> <<>>]
      BY <1>1, <1>4, <2>1 DEF Serviced
    <3> HIDE DEF next
    <3> QED  BY <3>1
  <2>3. /\ next \in StreamRecords /\ next.sub = st.sub /\ next.count = st.count + 1
        /\ next.map = st.map /\ next.held = st.held
    BY <1>1 DEF StreamRecords
  <2> HIDE DEF next
  <2>4. /\ Len(st.held) < st.sub.batch /\ s <= status.n + 0
        /\ Spaced(st.held, st.map, s, st.sub.div)
        /\ st.held # <<>> => st.held[Len(st.held)].n + st.count <= status.n - 1
    BY <1>4 DEF Sound
  <2>5. st.held # <<>> => st.held[Len(st.held)].n \in Nat
    <3>1. st.held # <<>> => Len(st.held) \in 1 .. Len(st.held)
      BY <1>1, EmptySeq
    <3> QED  BY <1>1, <3>1, ElementOfSeq, StatusIs
  <2>6. Sound(next, s, FALSE)
    <3>1. next.held # <<>> => next.held[Len(next.held)].n + next.count <= status.n - 0
      BY <1>1, <2>3, <2>4, <2>5, SMTT(60)
    <3>2. s <= status.n + 1
      BY <1>1, <2>4
    <3> QED  BY <1>4, <2>3, <2>4, <3>1, <3>2 DEF Sound
  <2>7. <<>> \in Seq({d \in Telegrams : Uniform(d, st.sub, s)})
    BY EmptySeq
  <2> QED  BY <1>4, <2>2, <2>3, <2>6, <2>7
<1>5. CASE st.sub # None /\ ~fresh
  <2> DEFINE out == IF silent THEN Emit(st, <<>>) ELSE <<>>
  <2>1. Serviced(st, silent).stream = st /\ Serviced(st, silent).out = out
    <3>1. Serviced(st, silent) = [stream |-> st, out |-> out]
      BY <1>5 DEF Serviced
    <3> HIDE DEF out
    <3> QED  BY <3>1
  <2>2. Sound(st, s, FALSE)
    BY <1>5, Zenon DEF Sound
  <2>3. out \in Seq({d \in Telegrams : Uniform(d, st.sub, s)})
    <3>1. <<>> \in Seq(Statuses) /\ Len(<<>>) = 0 /\ Len(<<>>) <= st.sub.batch
      BY <1>1, <1>5, SubscriberIs, EmptySeq
    <3>2. Spaced(<<>>, st.map, s, st.sub.div)
      BY <3>1 DEF Spaced
    <3>3. Emit(st, <<>>) \in Seq({d \in Telegrams : Uniform(d, st.sub, s)})
      BY <1>5, <3>1, <3>2, EmitIs
    <3> QED  BY <3>3, EmptySeq
  <2> HIDE DEF out
  <2> QED  BY <1>5, <2>1, <2>2, <2>3
<1>6. \/ st.sub = None
      \/ st.sub # None /\ fresh /\ st.count + 1 >= st.sub.div
      \/ st.sub # None /\ fresh /\ st.count + 1 < st.sub.div
      \/ st.sub # None /\ ~fresh
  <2>1. st.sub # None => st.sub.div \in Nat
    BY <1>1, SubscriberIs
  <2> QED  BY <1>1, <2>1
<1> QED  BY <1>2, <1>3, <1>4, <1>5, <1>6

(* The stream when the datagram has been taken.                            *)
LEMMA StreamIs ==
  ASSUME BridgeInv, ServiceTelemetry(FALSE) \/ ServiceTelemetry(TRUE)
  PROVE  AfterDatagram \in StreamRecords /\ since' \in Nat /\ Sound(AfterDatagram, since', fresh)
<1>1. /\ Stream \in StreamRecords /\ Stream.sub = s_sub /\ Stream.count = s_decimate_count
      /\ Stream.map = s_last_map_version /\ Stream.held = held
  BY DEF Stream, StreamRecords, SubRecords, BridgeInv, TypeOK
<1>2. status.n \in Nat /\ since \in Nat /\ fresh \in BOOLEAN
  BY StatusIs DEF BridgeInv, TypeOK
<1>3. Sound(Stream, since, fresh)
  BY <1>1 DEF Sound, Spaced, BridgeInv, BatchIsUniform
<1> DEFINE d == Head(arrived)
           subscribes == arrived # <<>> /\ d.kind = "subscribe"
           leaves == arrived # <<>> /\ d.kind = "unsubscribe"
           first == status.n + (IF fresh THEN 0 ELSE 1)
<1>4. (subscribes => since' = first) /\ (~subscribes => since' = since)
  BY Zenon DEF ServiceTelemetry
<1>5. CASE ~subscribes /\ ~leaves
  <2>1. AfterDatagram = Stream
    BY <1>5 DEF AfterDatagram
  <2> HIDE DEF subscribes, leaves
  <2> QED  BY <1>1, <1>2, <1>3, <1>4, <1>5, <2>1
<1>6. CASE leaves
  <2>1. AfterDatagram = [Stream EXCEPT !.sub = None] /\ ~subscribes
    BY <1>6 DEF AfterDatagram
  <2> HIDE DEF subscribes, leaves
  <2>2. AfterDatagram \in StreamRecords /\ AfterDatagram.sub = None
    BY <1>1, <2>1 DEF StreamRecords
  <2> QED  BY <1>2, <1>4, <2>1, <2>2 DEF Sound
<1>7. CASE subscribes
  <2> DEFINE sub == [peer |-> d.peer, div |-> Larger(d.req.div, 1),
                     batch |-> Smaller(Larger(d.req.batch, 1), TELEMETRY_BATCH_MAX)]
  <2>1. AfterDatagram = [Stream EXCEPT !.sub = sub, !.count = 0, !.held = HeldAfterSubscribe]
    BY <1>7 DEF AfterDatagram
  <2>2. d.peer \in Tools /\ d.req \in Subscriptions
    BY <1>7, HeadIs, DatagramsAre
  <2>3. d.req.div \in Nat /\ d.req.batch \in Nat
    BY <2>2, ConstantsAssumption
  <2>4. /\ Larger(d.req.div, 1) \in Nat \ {0}
        /\ Smaller(Larger(d.req.batch, 1), TELEMETRY_BATCH_MAX) \in 1 .. TELEMETRY_BATCH_MAX
    BY <2>3, ConstantsAssumption DEF Larger, Smaller
  <2>5. sub \in SubRecords /\ sub # None
    <3>1. sub \in SubRecords
      BY <2>2, <2>4 DEF SubRecords
    <3> QED  BY <3>1, NoneIsNoRecord DEF SubRecords
  <2> HIDE DEF sub, subscribes, leaves
  <2>6. <<>> \in Seq(Statuses) /\ Len(<<>>) = 0
    BY EmptySeq
  <2>7. /\ AfterDatagram \in StreamRecords /\ AfterDatagram.sub = sub /\ AfterDatagram.count = 0
        /\ AfterDatagram.held = <<>>
    BY <1>1, <2>1, <2>5, <2>6 DEF StreamRecords, HeldAfterSubscribe
  <2>8. since' = first /\ first \in Nat
    BY <1>2, <1>4, <1>7
  <2>9. sub.div \in Nat \ {0} /\ sub.batch \in Nat \ {0}
    BY <2>5, SubscriberIs
  <2>10. Sound(AfterDatagram, first, fresh)
    BY <1>2, <2>6, <2>7, <2>8, <2>9 DEF Sound, Spaced
  <2> QED  BY <2>7, <2>8, <2>10
<1> QED  BY <1>5, <1>6, <1>7

(* The second half of od_tick.                                             *)
LEMMA TelemetryKeeps ==
  ASSUME BridgeInv, NEW silent \in BOOLEAN, ServiceTelemetry(silent), status' = status
  PROVE  /\ s_sub' = None \/ s_sub' \in SubRecords
         /\ s_decimate_count' \in Nat /\ s_last_map_version' \in Maps \union {0}
         /\ held' \in Seq(Statuses) /\ since' \in Nat /\ fresh' \in BOOLEAN
         /\ BatchIsUniform' /\ DatagramIsUniform'
<1> DEFINE done == Serviced(AfterDatagram, silent)
<1>1. AfterDatagram \in StreamRecords /\ since' \in Nat /\ Sound(AfterDatagram, since', fresh)
  BY StreamIs
<1>2. status \in Statuses /\ fresh \in BOOLEAN
  BY DEF BridgeInv, TypeOK
<1>3. /\ done.stream \in StreamRecords /\ done.stream.sub = AfterDatagram.sub
      /\ Sound(done.stream, since', FALSE)
      /\ AfterDatagram.sub = None => done.out = <<>>
      /\ AfterDatagram.sub # None =>
           done.out \in Seq({d \in Telegrams : Uniform(d, AfterDatagram.sub, since')})
  BY <1>1, <1>2, ServicedIs
<1>4. /\ s_sub' = done.stream.sub /\ s_decimate_count' = done.stream.count
      /\ s_last_map_version' = done.stream.map /\ held' = done.stream.held
      /\ emitted' = done.out
  BY Zenon DEF ServiceTelemetry
<1>5. fresh' \in BOOLEAN /\ (fresh' <=> fresh /\ done.stream.sub = None)
  BY Zenon DEF ServiceTelemetry
<1> HIDE DEF done
<1>6. /\ s_sub' \in SubRecords \union {None} /\ s_decimate_count' \in Nat
      /\ s_last_map_version' \in Maps \union {0} /\ held' \in Seq(Statuses)
  BY <1>3, <1>4 DEF StreamRecords
<1>7. BatchIsUniform'
  <2> SUFFICES ASSUME s_sub' # None
               PROVE  /\ s_decimate_count' < s_sub'.div /\ Len(held') < s_sub'.batch
                      /\ since' <= status'.n + (IF fresh' THEN 0 ELSE 1)
                      /\ \A j \in 1 .. Len(held') : held'[j].map = s_last_map_version' /\ held'[j].n >= since'
                      /\ \A j \in 2 .. Len(held') : held'[j].n - held'[j - 1].n >= s_sub'.div
                      /\ held' # <<>> => held'[Len(held')].n + s_decimate_count'
                                          <= status'.n - (IF fresh' THEN 1 ELSE 0)
    BY DEF BatchIsUniform
  <2>1. /\ s_decimate_count' < s_sub'.div /\ Len(held') < s_sub'.batch
        /\ since' <= status.n + 1
        /\ Spaced(held', s_last_map_version', since', s_sub'.div)
        /\ held' # <<>> => held'[Len(held')].n + s_decimate_count' <= status.n - 0
    BY <1>3, <1>4 DEF Sound
  <2>2. ~fresh'
    BY <1>4, <1>5
  <2> QED  BY <2>1, <2>2 DEF Spaced
<1>8. DatagramIsUniform'
  <2>1. ASSUME NEW i \in 1 .. Len(emitted')
        PROVE  s_sub' # None /\ Uniform(emitted'[i], s_sub', since')
    <3>1. s_sub' # None
      <4>1. CASE s_sub' = None
        <5>1. emitted' = <<>>
          BY <1>3, <1>4, <4>1
        <5>2. Len(emitted') = 0
          BY <5>1, EmptySeq
        <5> QED  BY <2>1, <5>2
      <4> QED  BY <4>1
    <3>2. emitted' \in Seq({d \in Telegrams : Uniform(d, s_sub', since')})
      BY <1>3, <1>4, <3>1
    <3>3. emitted'[i] \in {d \in Telegrams : Uniform(d, s_sub', since')}
      BY <2>1, <3>2, ElementOfSeq
    <3> QED  BY <3>1, <3>3
  <2> QED  BY <2>1 DEF DatagramIsUniform, Uniform, Spaced
<1> QED  BY <1>1, <1>5, <1>6, <1>7, <1>8

LEMMA OdTickKeeps ==
  ASSUME BridgeInv, NEW silent \in BOOLEAN, OdTick(silent)
  PROVE  BridgeInv' /\ DatagramIsUniform'
<1>1. ServiceAccess /\ ServiceTelemetry(silent)
      /\ UNCHANGED <<tool, confirmed, store, late, status, axis_waits, left>>
  BY Zenon DEF OdTick
<1>2. Accessed
  BY <1>1, AccessKeeps
<1>3. /\ s_sub' = None \/ s_sub' \in SubRecords
      /\ s_decimate_count' \in Nat /\ s_last_map_version' \in Maps \union {0}
      /\ held' \in Seq(Statuses) /\ since' \in Nat /\ fresh' \in BOOLEAN
      /\ BatchIsUniform' /\ DatagramIsUniform'
  BY <1>1, TelemetryKeeps
<1>4. TypeOK'
  BY <1>1, <1>2, <1>3 DEF BridgeInv, TypeOK, Accessed, Replies, PendingRecords, SubRecords
<1> QED  BY <1>2, <1>3, <1>4 DEF BridgeInv, Accessed

-----------------------------------------------------------------------------
(* The other client of the pipeline, the motor and the cyclic statuses *)

LEMMA StatusKeeps ==
  ASSUME BridgeInv, NEW map \in Maps, StatusArrives(map)
  PROVE  BridgeInv' /\ (DatagramIsUniform => DatagramIsUniform')
<1>1. /\ status' = [n |-> status.n + 1, map |-> map] /\ fresh' = TRUE
      /\ UNCHANGED <<requests, pipeline, telemetry, axis_waits, since, emitted>>
  BY Zenon DEF StatusArrives
<1> USE DEF requests, pipeline, telemetry
<1>2. status.n \in Nat /\ fresh \in BOOLEAN
  BY StatusIs DEF BridgeInv, TypeOK
<1>3. status' \in Statuses /\ status'.n = status.n + 1
  BY <1>1, <1>2 DEF Statuses
<1>4. TypeOK'
  BY <1>1, <1>3 DEF BridgeInv, TypeOK
<1>5. SlotIsOwned'
  BY <1>1 DEF BridgeInv, SlotIsOwned
<1>6. RequestsInOrder'
  BY <1>1 DEF BridgeInv, RequestsInOrder, ToolsWriteTheirOwn, BufferInOrder, PendingInOrder, RepliesInOrder,
              OfTool, NotBefore, Asks
<1>7. WritesSettle'
  BY <1>1 DEF BridgeInv, WritesSettle, Settled, Done, Effective, Asks, Writes
<1>8. BatchIsUniform'
  <2> SUFFICES ASSUME s_sub # None
               PROVE  /\ s_decimate_count < s_sub.div /\ Len(held) < s_sub.batch
                      /\ since <= status'.n + 0
                      /\ \A j \in 1 .. Len(held) : held[j].map = s_last_map_version /\ held[j].n >= since
                      /\ \A j \in 2 .. Len(held) : held[j].n - held[j - 1].n >= s_sub.div
                      /\ held # <<>> => held[Len(held)].n + s_decimate_count <= status'.n - 1
    BY <1>1 DEF BatchIsUniform
  <2>1. since \in Nat /\ s_decimate_count \in Nat /\ held \in Seq(Statuses)
    BY DEF BridgeInv, TypeOK
  <2>2. held # <<>> => held[Len(held)].n \in Nat
    <3>1. held # <<>> => Len(held) \in 1 .. Len(held)
      BY <2>1, EmptySeq
    <3> QED  BY <2>1, <3>1, ElementOfSeq, StatusIs
  <2> QED  BY <1>2, <1>3, <2>1, <2>2 DEF BridgeInv, BatchIsUniform
<1>9. DatagramIsUniform => DatagramIsUniform'
  BY <1>1 DEF DatagramIsUniform
<1> QED  BY <1>4, <1>5, <1>6, <1>7, <1>8, <1>9 DEF BridgeInv

(* What a step in the pipeline owes to the bridge.                         *)
LEMMA PipelineKeeps ==
  ASSUME BridgeInv, Elsewhere, store' \in [MotorEntries -> Values], SlotIsOwned', axis_waits' \in BOOLEAN,
         s_pending # None => slot'.req = slot.req,
         Effective' => late' = {},
         \A o \in Entries : \A v : Settled(o, v) => SettledNext(o, v),
         \A t \in Tools : /\ tool[t].waits /\ ~tool[t].req.is_read /\ ~Effective /\ Effective'
                          /\ s_pending = [peer |-> t, seq |-> tool[t].last]
                          => SettledNext(tool[t].req.obj, tool[t].req.val)
  PROVE  BridgeInv' /\ (DatagramIsUniform => DatagramIsUniform')
<1> USE DEF Elsewhere, requests, telemetry
<1>1. TypeOK'
  BY DEF BridgeInv, TypeOK
<1>2. RequestsInOrder'
  <2>1. ToolsWriteTheirOwn' /\ RepliesInOrder'
    BY DEF BridgeInv, RequestsInOrder, ToolsWriteTheirOwn, RepliesInOrder
  <2>2. BufferInOrder'
    BY DEF BridgeInv, RequestsInOrder, BufferInOrder, OfTool, NotBefore, Asks
  <2>3. PendingInOrder'
    BY DEF BridgeInv, RequestsInOrder, PendingInOrder, OfTool, NotBefore, Asks
  <2> QED  BY <2>1, <2>2, <2>3 DEF RequestsInOrder
<1>3. ASSUME NEW t \in Tools, tool[t].waits, ~tool[t].req.is_read, DoneNext(t)
      PROVE  SettledNext(tool[t].req.obj, tool[t].req.val)
  <2>1. tool[t].req.obj \in Entries
    BY <1>3, ToolIs, RequestsAre DEF BridgeInv
  <2>2. CASE Done(t)
    <3>1. Settled(tool[t].req.obj, tool[t].req.val)
      BY <1>3, <2>2 DEF BridgeInv, WritesSettle
    <3> QED  BY <2>1, <3>1
  <2>3. CASE ~Done(t)
    <3>1. s_pending = [peer |-> t, seq |-> tool[t].last] /\ Effective' /\ ~Effective
      BY <1>3, <2>3 DEF Done, DoneNext
    <3> QED  BY <1>3, <3>1
  <2> QED  BY <2>2, <2>3
<1>4. WritesSettle'
  <2>1. ASSUME NEW o \in Entries, confirmed'[o] # Unset
        PROVE  SettledNext(o, confirmed'[o])
    <3>1. Settled(o, confirmed[o]) /\ confirmed'[o] = confirmed[o]
      BY <2>1 DEF BridgeInv, WritesSettle
    <3> QED  BY <3>1
  <2>2. \A t \in Tools : tool'[t].waits /\ ~tool'[t].req.is_read => confirmed'[tool'[t].req.obj] = Unset
    BY DEF BridgeInv, WritesSettle
  <2>3. \A t \in Tools : tool'[t].waits /\ ~tool'[t].req.is_read /\ DoneNext(t)
                           => SettledNext(tool'[t].req.obj, tool'[t].req.val)
    BY <1>3
  <2> QED  BY <2>1, <2>2, <2>3, SettlesNext
<1>5. BatchIsUniform'
  BY DEF BridgeInv, BatchIsUniform
<1>6. DatagramIsUniform => DatagramIsUniform'
  BY DEF DatagramIsUniform
<1> QED  BY <1>1, <1>2, <1>4, <1>5, <1>6 DEF BridgeInv

(* A request that takes effect.                                            *)
LEMMA PutIs ==
  ASSUME BridgeInv, NEW req \in MotorRequests, store' = Pipeline!Put(req)
  PROVE  /\ store' \in [MotorEntries -> Values]
         /\ \A o \in MotorEntries : store'[o] = IF Writes(req, o) THEN req.val ELSE store[o]
<1>1. store \in [MotorEntries -> Values]
  BY DEF BridgeInv, TypeOK
<1>2. req.obj \in MotorEntries /\ (~req.is_read => req.val \in Values)
  BY RequestsAre DEF MotorRequests
<1>3. CASE req.is_read
  BY <1>1, <1>3 DEF Pipeline!Put, Writes
<1>4. CASE ~req.is_read
  <2>1. store' = [store EXCEPT ![req.obj] = req.val]
    BY <1>4 DEF Pipeline!Put
  <2> QED  BY <1>1, <1>2, <1>4, <2>1 DEF Writes
<1> QED  BY <1>3, <1>4

(* The request in service is the one its tool waits for, and no other      *)
(* write of its entry is in the buffer, but the same sent again.           *)
LEMMA ServesKeeps ==
  ASSUME BridgeInv, MotorServes
  PROVE  BridgeInv' /\ (DatagramIsUniform => DatagramIsUniform')
<1>1. /\ Elsewhere /\ axis_waits' = axis_waits
      /\ slot # Pipeline!Free /\ slot.phase = "open"
      /\ store' = Pipeline!Put(slot.req) /\ late' = {}
      /\ slot' = [slot EXCEPT !.phase = "effective",
                    !.data = IF slot.req.is_read THEN store[slot.req.obj] ELSE Unset]
  BY Zenon DEF MotorServes, Beside, Pipeline!TakeEffect
<1> DEFINE data == IF slot.req.is_read THEN store[slot.req.obj] ELSE Unset
<1>2. slot \in SlotRecords /\ slot.req \in MotorRequests
  BY <1>1, SlotIs DEF BridgeInv, SlotIsOwned
<1>3. data \in Values \union {Unset}
  <2>1. slot.req.obj \in MotorEntries
    BY <1>2 DEF MotorRequests
  <2> QED  BY <2>1 DEF BridgeInv, TypeOK
<1> HIDE DEF data
<1>4. /\ slot' \in SlotRecords /\ slot'.client = slot.client /\ slot'.req = slot.req
      /\ slot' # Pipeline!Free
  <2>1. slot' = [slot EXCEPT !.phase = "effective", !.data = data]
    BY <1>1 DEF data
  <2>2. slot' \in SlotRecords /\ slot'.client = slot.client /\ slot'.req = slot.req
    BY <1>2, <1>3, <2>1 DEF SlotRecords
  <2> QED  BY <2>2, SlotIs
<1>5. /\ store' \in [MotorEntries -> Values]
      /\ \A o \in MotorEntries : store'[o] = IF Writes(slot.req, o) THEN slot.req.val ELSE store[o]
  BY <1>1, <1>2, PutIs
<1>6. UNCHANGED <<local, arrived, s_pending, tool>>
  BY <1>1 DEF Elsewhere, requests
<1>7. SlotIsOwned' /\ axis_waits' \in BOOLEAN
  BY <1>1, <1>4, <1>6 DEF BridgeInv, TypeOK, SlotIsOwned
<1>8. ASSUME NEW o \in Entries, NEW v, Settled(o, v)
      PROVE  SettledNext(o, v)
  <2>1. v = IF o \in CmcEntries THEN local'[o] ELSE store'[o]
    BY <1>1, <1>5, <1>6, <1>8 DEF Settled, Entries
  <2> QED  BY <1>1, <1>4, <1>6, <1>8, <2>1 DEF Settled, SettledNext
<1>9. ASSUME NEW t \in Tools, tool[t].waits, ~tool[t].req.is_read,
             s_pending = [peer |-> t, seq |-> tool[t].last]
      PROVE  SettledNext(tool[t].req.obj, tool[t].req.val)
  <2>1. tool[t].last \in Nat /\ Writer[tool[t].req.obj] = t
    BY <1>9, ToolIs DEF BridgeInv, RequestsInOrder, ToolsWriteTheirOwn
  <2>2. s_pending # None /\ s_pending.peer = t /\ s_pending.seq = tool[t].last
    <3>1. [peer |-> t, seq |-> tool[t].last] # None
      BY <2>1, NoneIsNoRecord
    <3> QED  BY <1>9, <3>1
  <2>3. slot.req = tool[t].req
    BY <1>9, <2>2 DEF BridgeInv, RequestsInOrder, PendingInOrder, OfTool
  <2> DEFINE o == slot.req.obj
             v == slot.req.val
  <2>4. o \in MotorEntries /\ o \notin CmcEntries /\ store'[o] = v /\ Writer[o] = t
    BY <1>2, <1>5, <1>9, <2>1, <2>3, ConstantsAssumption DEF MotorRequests, Writes
  <2>5. ASSUME NEW i \in 1 .. Len(arrived), Asks(arrived[i]), Writes(arrived[i].req, o)
        PROVE  arrived[i].req = slot.req
    <3>1. arrived[i].peer = t
      BY <2>4, <2>5 DEF BridgeInv, RequestsInOrder, BufferInOrder, Writes
    <3>2. arrived[i].seq \in Nat /\ arrived[i].seq <= tool[t].last
      BY <2>5, <3>1, ArrivedAre, DatagramsAre DEF BridgeInv, TypeOK, RequestsInOrder, BufferInOrder, OfTool
    <3>3. NotBefore(tool[t].last, slot.req, arrived[i])
      BY <2>2, <2>5, <3>1 DEF BridgeInv, RequestsInOrder, PendingInOrder
    <3> QED  BY <2>1, <3>2, <3>3 DEF NotBefore
  <2> HIDE DEF o, v
  <2>6. \A i \in 1 .. Len(arrived') : Asks(arrived'[i]) /\ Writes(arrived'[i].req, o) => arrived'[i].req.val = v
    BY <1>6, <2>5 DEF v
  <2>7. SettledNext(o, v)
    BY <1>1, <1>4, <2>4, <2>6 DEF SettledNext, v
  <2> QED  BY <2>3, <2>7 DEF o, v
<1> QED  BY <1>1, <1>4, <1>5, <1>7, <1>8, <1>9, PipelineKeeps

(* Success and failure of the request in service, and its end.             *)
LEMMA EndsKeeps ==
  ASSUME BridgeInv, Succeeds \/ Fails
  PROVE  BridgeInv' /\ (DatagramIsUniform => DatagramIsUniform')
<1>1. /\ Elsewhere /\ axis_waits' = axis_waits /\ store' = store /\ slot # Pipeline!Free
      /\ \/ /\ slot.phase = "effective" /\ slot' = [slot EXCEPT !.phase = "ok"] /\ late' = late
         \/ /\ slot' = [slot EXCEPT !.phase = "failed", !.data = Unset]
            /\ late' \in {{}, late, {slot.req}}
  <2>1. CASE Succeeds
    BY <2>1, Zenon DEF Succeeds, Beside, Pipeline!Succeed
  <2>2. CASE Fails
    <3>1. /\ Elsewhere /\ axis_waits' = axis_waits /\ store' = store /\ slot # Pipeline!Free
          /\ slot' = [slot EXCEPT !.phase = "failed", !.data = Unset]
          /\ late' \in {{}, late} \/ late' = {slot.req}
      BY <2>2, Zenon DEF Fails, Beside, Pipeline!GiveUp, Pipeline!Forget
    <3> QED  BY <3>1
  <2> QED  BY <2>1, <2>2
<1>2. slot \in SlotRecords /\ slot.req \in MotorRequests
  BY <1>1, SlotIs DEF BridgeInv, SlotIsOwned
<1>3. /\ slot' \in SlotRecords /\ slot'.client = slot.client /\ slot'.req = slot.req
      /\ slot' # Pipeline!Free
      /\ slot'.phase \in {"effective", "ok"} => slot.phase = "effective" /\ late' = late
  <2>1. CASE slot.phase = "effective" /\ slot' = [slot EXCEPT !.phase = "ok"] /\ late' = late
    <3>1. slot' \in SlotRecords /\ slot'.client = slot.client /\ slot'.req = slot.req
      BY <1>2, <2>1 DEF SlotRecords
    <3> QED  BY <2>1, <3>1, SlotIs
  <2>2. CASE slot' = [slot EXCEPT !.phase = "failed", !.data = Unset]
    <3>1. slot' \in SlotRecords /\ slot'.client = slot.client /\ slot'.req = slot.req /\ slot'.phase = "failed"
      BY <1>2, <2>2 DEF SlotRecords
    <3> QED  BY <3>1, SlotIs
  <2> QED  BY <1>1, <2>1, <2>2
<1>4. Effective' => Effective /\ late' = late
  BY <1>1, <1>3 DEF Effective
<1>5. Effective' => late' = {}
  BY <1>4 DEF BridgeInv, WritesSettle
<1>6. UNCHANGED <<local, arrived, s_pending, tool>>
  BY <1>1 DEF Elsewhere, requests
<1>7. late' \in SUBSET MotorRequests /\ (\A req \in late' : req \in late \/ req = slot.req)
  BY <1>1, <1>2 DEF BridgeInv, SlotIsOwned
<1>8. SlotIsOwned' /\ axis_waits' \in BOOLEAN /\ store' \in [MotorEntries -> Values]
  BY <1>1, <1>3, <1>6, <1>7 DEF BridgeInv, TypeOK, SlotIsOwned
<1>9. \A o \in Entries : \A v : Settled(o, v) => SettledNext(o, v)
  BY <1>1, <1>3, <1>6, <1>7 DEF Settled, SettledNext
<1> QED  BY <1>1, <1>3, <1>4, <1>5, <1>8, <1>9, PipelineKeeps

(* A request given up on takes effect late, or is lost for good.           *)
LEMMA LateKeeps ==
  ASSUME BridgeInv, LateRequest
  PROVE  BridgeInv' /\ (DatagramIsUniform => DatagramIsUniform')
<1>1. /\ Elsewhere /\ axis_waits' = axis_waits /\ slot' = slot /\ late' = {}
      /\ store' = store \/ \E req \in late : store' = Pipeline!Put(req)
  BY Zenon DEF LateRequest, Beside, Pipeline!LateEffect, Pipeline!LateLost
<1>2. UNCHANGED <<local, arrived, s_pending, tool>>
  BY <1>1 DEF Elsewhere, requests
<1>3. SlotIsOwned' /\ axis_waits' \in BOOLEAN
  BY <1>1, <1>2 DEF BridgeInv, TypeOK, SlotIsOwned
<1>4. /\ store' \in [MotorEntries -> Values]
      /\ \A o \in MotorEntries : store'[o] = store[o] \/ \E req \in late : Writes(req, o) /\ store'[o] = req.val
  <2>1. CASE store' = store
    BY <2>1 DEF BridgeInv, TypeOK
  <2>2. ASSUME NEW req \in late, store' = Pipeline!Put(req)
        PROVE  <1>4
    BY <2>2, PutIs DEF BridgeInv, SlotIsOwned
  <2> QED  BY <1>1, <2>1, <2>2
<1>5. ASSUME NEW o \in Entries, NEW v, Settled(o, v)
      PROVE  SettledNext(o, v)
  <2>1. v = IF o \in CmcEntries THEN local'[o] ELSE store'[o]
    BY <1>2, <1>4, <1>5 DEF Settled, Entries
  <2> QED  BY <1>1, <1>2, <1>5, <2>1 DEF Settled, SettledNext
<1>6. Effective' => Effective
  BY <1>1 DEF Effective
<1> QED  BY <1>1, <1>3, <1>4, <1>5, <1>6, PipelineKeeps

LEMMA AxisKeeps ==
  ASSUME BridgeInv, AxisBegins \/ AxisPolls
  PROVE  BridgeInv' /\ (DatagramIsUniform => DatagramIsUniform')
<1>1. /\ Elsewhere /\ store' = store /\ late' = late
      /\ \/ /\ axis_waits' = TRUE /\ slot = Pipeline!Free
            /\ \E o \in MotorEntries : slot' = Pipeline!Opened("axis", Read(o))
         \/ /\ axis_waits' = FALSE /\ slot # Pipeline!Free /\ slot.client = "axis" /\ slot' = Pipeline!Free
  BY Zenon DEF AxisBegins, AxisPolls, Pipeline!Begin, Pipeline!Collect
<1>2. UNCHANGED <<local, arrived, s_pending, tool>>
  BY <1>1 DEF Elsewhere, requests
<1>3. axis_waits' \in BOOLEAN /\ store' \in [MotorEntries -> Values] /\ s_pending = None
  <2>1. slot = Pipeline!Free \/ slot.client = "axis"
    BY <1>1
  <2> QED  BY <1>1, <2>1 DEF BridgeInv, TypeOK, SlotIsOwned
<1>4. CASE axis_waits' = TRUE /\ \E o \in MotorEntries : slot' = Pipeline!Opened("axis", Read(o))
  <2>1. PICK o \in MotorEntries : slot' = Pipeline!Opened("axis", Read(o))
    BY <1>4
  <2>2. Read(o) \in MotorRequests /\ Read(o).is_read = TRUE
    <3>1. o \in Entries /\ Read(o).obj = o /\ Read(o).is_read = TRUE
      BY DEF Read, Entries
    <3>2. Read(o) \in Requests
      BY <3>1 DEF Requests
    <3> QED  BY <3>1, <3>2 DEF MotorRequests
  <2>3. /\ slot' \in SlotRecords /\ slot'.client = "axis" /\ slot'.req = Read(o) /\ slot'.phase = "open"
    BY <2>1, <2>2 DEF Pipeline!Opened, SlotRecords
  <2>4. slot' # Pipeline!Free
    BY <2>3, SlotIs
  <2>5. SlotIsOwned'
    BY <1>1, <1>2, <1>3, <1>4, <2>3, <2>4 DEF BridgeInv, SlotIsOwned
  <2>6. ~Effective'
    BY <2>3 DEF Effective
  <2>7. \A p \in Entries : \A v : Settled(p, v) => SettledNext(p, v)
    BY <1>1, <1>2, <2>2, <2>3 DEF Settled, SettledNext, Writes
  <2> QED  BY <1>1, <1>3, <2>5, <2>6, <2>7, PipelineKeeps
<1>5. CASE axis_waits' = FALSE /\ slot' = Pipeline!Free
  <2>1. SlotIsOwned'
    BY <1>1, <1>2, <1>3, <1>5 DEF BridgeInv, SlotIsOwned
  <2>2. ~Effective'
    BY <1>5 DEF Effective
  <2>3. \A p \in Entries : \A v : Settled(p, v) => SettledNext(p, v)
    BY <1>1, <1>2, <1>5 DEF Settled, SettledNext
  <2> QED  BY <1>1, <1>3, <2>1, <2>2, <2>3, PipelineKeeps
<1> QED  BY <1>1, <1>4, <1>5

-----------------------------------------------------------------------------
(* The system *)

LEMMA InitBridge == Init => BridgeInv /\ DatagramIsUniform
<1> SUFFICES ASSUME Init PROVE BridgeInv /\ DatagramIsUniform
  OBVIOUS
<1> USE DEF Init
<1>1. <<>> \in Seq(Datagrams) /\ <<>> \in Seq(Replies) /\ <<>> \in Seq(Statuses) /\ Len(<<>>) = 0
  BY EmptySeq
<1>2. TypeOK
  <2>1. \A t \in Tools : [waits |-> FALSE, last |-> 0] \in [waits : {FALSE}, last : Nat]
    OBVIOUS
  <2>2. tool \in [Tools -> [waits : {FALSE}, last : Nat]
                            \union [waits : {TRUE}, last : Nat, req : Requests, sends : Nat]]
    BY <2>1
  <2>3. replies \in [Tools -> Seq([seq : Nat, res : {"OK", "FAILED", "QUEUE_FULL", "ERROR"}])]
    BY <1>1 DEF Replies
  <2>4. status \in Statuses
    BY DEF Statuses
  <2>5. RxBuffer \in Nat
    BY ConstantsAssumption
  <2>6. confirmed \in [Entries -> Values \union {Unset}]
    OBVIOUS
  <2>7. arrived \in Seq(Datagrams) /\ Len(arrived) <= RxBuffer /\ held \in Seq(Statuses)
    BY <1>1, <2>5
  <2>8. /\ s_decimate_count \in Nat /\ since \in Nat /\ s_last_map_version \in Maps \union {0}
        /\ fresh \in BOOLEAN /\ axis_waits \in BOOLEAN /\ s_pending = None /\ s_sub = None
        /\ store \in [MotorEntries -> Values] /\ local \in [CmcEntries -> Values]
    OBVIOUS
  <2> QED  BY <2>2, <2>3, <2>4, <2>6, <2>7, <2>8, Zenon DEF TypeOK
<1>3. SlotIsOwned
  BY DEF SlotIsOwned
<1>4. \A t \in Tools : ~tool[t].waits
  OBVIOUS
<1>5. RequestsInOrder
  <2>1. \A t \in Tools : Len(replies[t]) = 0
    BY <1>1
  <2>2. BufferInOrder
    BY <1>1 DEF BufferInOrder
  <2>3. RepliesInOrder
    BY <2>1 DEF RepliesInOrder
  <2> QED  BY <1>4, <2>2, <2>3 DEF RequestsInOrder, ToolsWriteTheirOwn, PendingInOrder
<1>6. WritesSettle
  <2>1. \A o \in Entries : confirmed[o] = Unset
    OBVIOUS
  <2> QED  BY <1>4, <2>1 DEF WritesSettle, Effective
<1>7. BatchIsUniform
  BY DEF BatchIsUniform
<1>8. DatagramIsUniform
  <2>1. Len(emitted) = 0
    BY <1>1
  <2> QED  BY <2>1 DEF DatagramIsUniform
<1> QED  BY <1>2, <1>3, <1>5, <1>6, <1>7, <1>8 DEF BridgeInv

(* Tools and network send, and take nothing from the buffer of the CMC.    *)
LEMMA ToolIsAway ==
  ASSUME BridgeInv, NEW t \in Tools, ToolActs(t)
  PROVE  Away /\ ~(Len(arrived') < Len(arrived))
<1>0. arrived \in Seq(Datagrams) /\ Len(arrived) \in Nat
  BY LenProperties DEF BridgeInv, TypeOK
<1>1. ASSUME NEW d, Send(d)
      PROVE  ~(Len(arrived') < Len(arrived))
  <2>1. CASE Len(arrived) < RxBuffer
    <3>1. arrived' = Append(arrived, d)
      BY <1>1, <2>1 DEF Send
    <3>2. arrived \in Seq(Datagrams \union {d}) /\ d \in Datagrams \union {d}
      BY <1>0, SeqMonotonic
    <3>3. Len(arrived') = Len(arrived) + 1
      BY <3>1, <3>2, AppendProperties
    <3> QED  BY <1>0, <3>3
  <2>2. CASE ~(Len(arrived) < RxBuffer)
    <3>1. Len(arrived') = Len(arrived)
      BY <1>1, <2>2 DEF Send
    <3> QED  BY <1>0, <3>1
  <2> QED  BY <2>1, <2>2
<1>2. ASSUME arrived' = arrived
      PROVE  ~(Len(arrived') < Len(arrived))
  <2>1. Len(arrived') = Len(arrived)
    BY <1>2
  <2> QED  BY <1>0, <2>1
<1>3. Away /\ (arrived' = arrived \/ \E d : Send(d))
  <2>1. CASE \E req \in Requests : ToolAsks(t, req)
    BY <2>1, Zenon DEF ToolAsks, Away
  <2>2. CASE ToolTimesOut(t)
    BY <2>2, Zenon DEF ToolTimesOut, Away
  <2>3. CASE ToolHears(t)
    BY <2>3, Zenon DEF ToolHears, Away
  <2>4. CASE ReplyLost(t)
    BY <2>4, Zenon DEF ReplyLost, Away
  <2>5. CASE Junk(t)
    BY <2>5, Zenon DEF Junk, Away
  <2>6. CASE \/ \E wish \in Subscriptions : ToolSubscribes(t, "subscribe", wish)
             \/ ToolSubscribes(t, "unsubscribe", None)
    BY <2>6, Zenon DEF ToolSubscribes, Away
  <2> QED  BY <2>1, <2>2, <2>3, <2>4, <2>5, <2>6 DEF ToolActs
<1> QED  BY <1>1, <1>2, <1>3

LEMMA NextBridge ==
  ASSUME BridgeInv, [Next]_vars
  PROVE  BridgeInv' /\ (DatagramIsUniform => DatagramIsUniform')
<1>1. CASE \E silent \in BOOLEAN : OdTick(silent)
  BY <1>1, OdTickKeeps
<1>2. CASE AxisBegins \/ AxisPolls
  BY <1>2, AxisKeeps
<1>3. CASE MotorServes
  BY <1>3, ServesKeeps
<1>4. CASE Succeeds \/ Fails
  BY <1>4, EndsKeeps
<1>5. CASE LateRequest
  BY <1>5, LateKeeps
<1>6. CASE \E t \in Tools : ToolActs(t)
  BY <1>6, ToolKeeps, ToolIsAway, AwayKeeps
<1>7. CASE \E map \in Maps : StatusArrives(map)
  BY <1>7, StatusKeeps
<1>8. CASE UNCHANGED vars
  <2> USE <1>8 DEF vars, requests, pipeline, telemetry, cyclic
  <2>1. TypeOK' /\ SlotIsOwned' /\ BatchIsUniform'
    BY DEF BridgeInv, TypeOK, SlotIsOwned, BatchIsUniform
  <2>2. RequestsInOrder'
    BY DEF BridgeInv, RequestsInOrder, ToolsWriteTheirOwn, BufferInOrder, PendingInOrder, RepliesInOrder,
           OfTool, NotBefore, Asks
  <2>3. WritesSettle'
    BY DEF BridgeInv, WritesSettle, Settled, Done, Effective, Asks, Writes
  <2>4. DatagramIsUniform => DatagramIsUniform'
    BY DEF DatagramIsUniform
  <2> QED  BY <2>1, <2>2, <2>3, <2>4 DEF BridgeInv
<1> QED  BY <1>1, <1>2, <1>3, <1>4, <1>5, <1>6, <1>7, <1>8 DEF Next

(* A request datagram that od_tick takes.                                  *)
LEMMA TakenHasFate ==
  ASSUME BridgeInv, ServiceAccess, arrived # <<>>, Head(arrived).kind = "request"
  PROVE  LET d == Head(arrived)
         IN s_pending' = [peer |-> d.peer, seq |-> d.seq]
            <=> ~(/\ Len(replies'[d.peer]) > Len(Answered[d.peer])
                  /\ replies'[d.peer][Len(replies'[d.peer])].seq = d.seq)
<1> DEFINE d == Head(arrived)
           mine == [peer |-> d.peer, seq |-> d.seq]
           atOnce == /\ Len(replies'[d.peer]) > Len(Answered[d.peer])
                     /\ replies'[d.peer][Len(replies'[d.peer])].seq = d.seq
<1>1. /\ d \in Datagrams /\ Asks(d) /\ d = arrived[1] /\ 1 \in 1 .. Len(arrived)
      /\ d.peer \in Tools /\ d.seq \in Nat
  BY HeadIs, DatagramsAre DEF Asks
<1>2. mine # None /\ mine.peer = d.peer /\ mine.seq = d.seq
  BY <1>1, NoneIsNoRecord
<1>3. Len(Answered[d.peer]) \in Nat
  BY <1>1, AnsweredIs, LenProperties
<1>4. ASSUME NEW res \in {"OK", "QUEUE_FULL", "ERROR"}, Answer(d, res)
      PROVE  atOnce
  <2>1. /\ Len(Answered[d.peer]) \in Nat /\ Len(replies'[d.peer]) = Len(Answered[d.peer]) + 1
        /\ replies'[d.peer][Len(replies'[d.peer])].seq = d.seq
    BY <1>1, <1>4, AnswerIsTrue
  <2> QED  BY <2>1
<1>5. replies' = Answered => ~atOnce
  BY <1>3
<1>6. AfterPoll = mine => IsRetransmit(d) /\ s_pending = mine /\ s_pending # None /\ slot.req \in MotorRequests
  <2> SUFFICES ASSUME AfterPoll = mine
               PROVE  IsRetransmit(d) /\ s_pending = mine /\ s_pending # None /\ slot.req \in MotorRequests
    OBVIOUS
  <2>1. s_pending = mine /\ s_pending # None
    BY <1>2, AfterPollIs
  <2>2. slot.req \in MotorRequests
    BY <2>1, PendingIs, SlotIs
  <2> QED  BY <1>2, <2>1, <2>2 DEF IsRetransmit
<1>7. IsRetransmit(d) => AfterPoll = mine
  <2> SUFFICES ASSUME IsRetransmit(d) PROVE AfterPoll = mine
    OBVIOUS
  <2>1. AfterPoll \in PendingRecords /\ AfterPoll.peer = d.peer /\ AfterPoll.seq = d.seq
    BY AfterPollIs DEF IsRetransmit
  <2> QED  BY <2>1 DEF PendingRecords
<1> HIDE DEF mine, atOnce
<1>8. s_pending' = mine <=> ~atOnce
  <2>1. CASE HandleLocal(d)
    <3>1. Answer(d, "OK") /\ s_pending' = AfterPoll /\ d.req.obj \in CmcEntries
      BY <2>1 DEF HandleLocal, NotTaken
    <3>2. AfterPoll # mine
      <4> SUFFICES ASSUME AfterPoll = mine PROVE FALSE
        OBVIOUS
      <4>1. s_pending.peer = d.peer /\ s_pending.seq = d.seq /\ s_pending # None /\ slot.req \in MotorRequests
        BY <1>2, <1>6
      <4>2. NotBefore(s_pending.seq, slot.req, arrived[1])
        BY <1>1, <4>1 DEF BridgeInv, RequestsInOrder, PendingInOrder
      <4>3. slot.req = d.req
        BY <1>1, <4>1, <4>2 DEF NotBefore
      <4> QED  BY <3>1, <4>1, <4>3, ConstantsAssumption DEF MotorRequests
    <3> QED  BY <1>4, <3>1, <3>2
  <2>2. CASE HandleRetransmit(d)
    <3>1. IsRetransmit(d) /\ replies' = Answered /\ s_pending' = AfterPoll
      BY <2>2 DEF HandleRetransmit, NotTaken
    <3> QED  BY <1>5, <1>7, <3>1
  <2>3. CASE HandleBegin(d)
    <3>1. s_pending' = mine /\ replies' = Answered
      BY <2>3 DEF HandleBegin, mine
    <3> QED  BY <1>5, <3>1
  <2>4. CASE HandleFull(d)
    <3>1. ~IsRetransmit(d) /\ Answer(d, "QUEUE_FULL") /\ s_pending' = AfterPoll
      BY <2>4 DEF HandleFull, NotTaken
    <3> QED  BY <1>4, <1>6, <3>1
  <2>5. \/ HandleLocal(d) \/ HandleRetransmit(d) \/ HandleBegin(d)
        \/ HandleFull(d) \/ HandleMalformed(d) \/ HandleSubscription(d)
    BY Zenon DEF ServiceAccess
  <2>6. ~HandleMalformed(d) /\ ~HandleSubscription(d)
    BY DEF HandleMalformed, HandleSubscription
  <2> QED  BY <2>1, <2>2, <2>3, <2>4, <2>5, <2>6
<1> QED  BY <1>8 DEF mine, atOnce

LEMMA NextFate ==
  ASSUME BridgeInv, [Next]_vars
  PROVE  [TakenHasOneFate]_vars
<1> SUFFICES ASSUME Len(arrived') < Len(arrived), Head(arrived).kind = "request"
             PROVE  LET d == Head(arrived)
                    IN s_pending' = [peer |-> d.peer, seq |-> d.seq]
                       <=> ~(/\ Len(replies'[d.peer]) > Len(Answered[d.peer])
                             /\ replies'[d.peer][Len(replies'[d.peer])].seq = d.seq)
  BY DEF TakenHasOneFate
<1>1. Len(arrived) \in Nat
  BY LenProperties DEF BridgeInv, TypeOK
<1>2. ASSUME arrived' = arrived PROVE FALSE
  <2>1. Len(arrived') = Len(arrived)
    BY <1>2
  <2> QED  BY <1>1, <2>1
<1>3. CASE \E silent \in BOOLEAN : OdTick(silent)
  <2>1. ServiceAccess
    BY <1>3 DEF OdTick
  <2>2. arrived # <<>>
    BY <1>2, <2>1 DEF ServiceAccess
  <2> QED  BY <2>1, <2>2, TakenHasFate
<1>4. CASE \E t \in Tools : ToolActs(t)
  BY <1>4, ToolIsAway
<1>5. CASE AxisBegins \/ AxisPolls \/ MotorServes \/ Succeeds \/ Fails \/ LateRequest
  <2>1. Elsewhere
    BY <1>5, Zenon DEF AxisBegins, AxisPolls, MotorServes, Succeeds, Fails, LateRequest, Beside
  <2> QED  BY <1>2, <2>1 DEF Elsewhere, requests
<1>6. CASE \E map \in Maps : StatusArrives(map)
  BY <1>2, <1>6 DEF StatusArrives, requests
<1>7. CASE UNCHANGED vars
  BY <1>2, <1>7 DEF vars, requests
<1> QED  BY <1>3, <1>4, <1>5, <1>6, <1>7 DEF Next

(* For every number of tools: od_tick, cmc_od and the pipeline keep each   *)
(* request its owner's and in its tool's order, and what they confirm.     *)
THEOREM BridgeCorrect == Spec => []BridgeInv
<1>1. BridgeInv /\ [Next]_vars => BridgeInv'
  BY NextBridge
<1> QED  BY <1>1, InitBridge, PTL DEF Spec

(* What the OK of od_write promises holds until the next write, whatever   *)
(* is sent again, lost, refused or given up meanwhile.                     *)
THEOREM ConfirmedWritesHold == Spec => []ConfirmedWriteHolds
<1>1. BridgeInv => ConfirmedWriteHolds
  BY DEF BridgeInv, WritesSettle, Settled, ConfirmedWriteHolds
<1> QED  BY <1>1, BridgeCorrect, PTL

(* service_telemetry never mixes maps, subscribers or spacings.            *)
THEOREM DatagramsAreUniform == Spec => []DatagramIsUniform
<1>1. (BridgeInv /\ DatagramIsUniform) /\ [Next]_vars => (BridgeInv /\ DatagramIsUniform)'
  BY NextBridge
<1>2. Init => BridgeInv /\ DatagramIsUniform
  BY InitBridge
<1> QED  BY <1>1, <1>2, PTL DEF Spec

(* service_access_socket answers a request now or keeps it, never both.    *)
THEOREM EachHasOneFate == Spec => OneFate
<1>1. BridgeInv /\ [Next]_vars => [TakenHasOneFate]_vars
  BY NextFate
<1> QED  BY <1>1, BridgeCorrect, PTL DEF Spec, OneFate

=============================================================================
