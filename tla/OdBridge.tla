------------------------------ MODULE OdBridge ------------------------------
(***************************************************************************)
(* app/od: the bridge between PC tools, which send UDP datagrams and       *)
(* retransmit them until they get an answer with their sequence number,    *)
(* and the OD pipeline, which serves one request at a time.  od_tick, once *)
(* per pass of the super-loop, answers the request that has ended, takes   *)
(* one datagram, and adds the newest cyclic status to the telemetry batch  *)
(* of the one subscriber.  Entries owned by the CMC (cmc_od) are read and  *)
(* written at once, without the pipeline.                                  *)
(*                                                                         *)
(* The network keeps the order of datagrams and may lose them; the W6100   *)
(* drops what finds its buffer full.  A tool writes entries of its own.    *)
(***************************************************************************)
EXTENDS Integers, Sequences

CONSTANTS
  Tools,               \* PC tools, each at an address of its own
  MotorEntries,        \* OD entries of the motor
  CmcEntries,          \* 0x30xx entries, owned by the CMC
  Values,              \* values of an entry
  Writer,              \* the tool that writes an entry; others read it
  TELEMETRY_BATCH_MAX, \* samples a batch can hold (4)
  Subscriptions,       \* what a tool asks for: divider and batch
  Maps,                \* versions of the telemetry map
  RETRANSMIT_TRIES,    \* times a tool sends a request (3)
  RxBuffer,            \* datagrams the W6100 holds for the CMC
  Budgets              \* bounds, one choice of which is made at the start:
                       \* requests of tools; stream: subscriptions and
                       \* statuses; trouble: requests of other clients,
                       \* malformed datagrams, losses and failures

Entries == MotorEntries \union CmcEntries

ASSUME ConstantsAssumption ==
  /\ MotorEntries \intersect CmcEntries = {}
  /\ Writer \in [Entries -> Tools]
  /\ TELEMETRY_BATCH_MAX \in Nat \ {0} /\ RETRANSMIT_TRIES \in Nat \ {0}
  /\ Subscriptions \subseteq [div : Nat, batch : Nat]
  /\ RxBuffer \in Nat
  /\ Budgets \subseteq [requests : Nat, stream : Nat, trouble : Nat]

VARIABLES
  tool,                 \* what each tool waits for, and its counters
  arrived,              \* datagrams in the receive buffer of the W6100
  replies,              \* datagrams on their way to each tool
  store, slot, late,    \* the OD pipeline (OdService)
  local,                \* values of the entries the CMC owns
  s_pending,            \* request of a tool that is in the pipeline
  s_sub,                \* the subscriber
  s_decimate_count, s_last_map_version,
  held,                 \* samples held for the next datagram
  fresh,                \* cia402: the status not yet taken
  status,               \* cia402: the last status received
  axis_waits,           \* axis_manager holds the handle of a request
  since,                \* history: first status the subscriber may get
  emitted,              \* history: telemetry datagrams of the last od_tick
  confirmed,            \* history: value of the last confirmed write of an
                        \* entry, Unset from the next write on
  left                  \* bounds: events still to come

pipeline  == <<store, slot, late>>
requests  == <<tool, arrived, replies, local, s_pending, confirmed>>
telemetry == <<s_sub, s_decimate_count, s_last_map_version, held>>
cyclic    == <<fresh, status, axis_waits, since>>
vars == <<requests, pipeline, telemetry, cyclic, emitted, left>>

-----------------------------------------------------------------------------
(* Data *)

Unset == "unset"
None  == [none |-> TRUE]

Pipeline == INSTANCE OdService WITH
  Clients <- {"od", "axis"}, Objects <- MotorEntries, Unknown <- Unset

Read(o)     == [is_read |-> TRUE, obj |-> o, val |-> Unset]
Write(o, v) == [is_read |-> FALSE, obj |-> o, val |-> v]
Requests    == {Read(o) : o \in Entries} \union {Write(o, v) : o \in Entries, v \in Values}

Datagram(t, kind, seq, req) == [peer |-> t, kind |-> kind, seq |-> seq, req |-> req]

Idle == [waits |-> FALSE]

Spend(kind) == left[kind] > 0 /\ left' = [left EXCEPT ![kind] = @ - 1]

-----------------------------------------------------------------------------
(* The tools: client.py, _transaction *)

(* A datagram that finds the buffer full is lost. *)
Send(d) == arrived' = IF Len(arrived) < RxBuffer THEN Append(arrived, d) ELSE arrived

ToolAsks(t, req) ==
  LET seq == tool[t].last + 1
  IN /\ ~tool[t].waits
     /\ req.is_read \/ Writer[req.obj] = t
     /\ Spend("requests")
     /\ Send(Datagram(t, "request", seq, req))
     /\ tool' = [tool EXCEPT ![t] = [waits |-> TRUE, last |-> seq, req |-> req, sends |-> 1]]
     /\ confirmed' = IF req.is_read THEN confirmed ELSE [confirmed EXCEPT ![req.obj] = Unset]
     /\ UNCHANGED <<replies, local, s_pending, pipeline, telemetry, cyclic, emitted>>

Rested(t) == [waits |-> FALSE, last |-> tool[t].last]

(* 50 ms without an answer: send again, or give up. *)
ToolTimesOut(t) ==
  /\ tool[t].waits
  /\ IF tool[t].sends < RETRANSMIT_TRIES
     THEN /\ tool' = [tool EXCEPT ![t].sends = @ + 1]
          /\ Send(Datagram(t, "request", tool[t].last, tool[t].req))
     ELSE /\ tool' = [tool EXCEPT ![t] = Rested(t)]
          /\ UNCHANGED arrived
  /\ UNCHANGED <<replies, local, s_pending, confirmed, pipeline, telemetry, cyclic, emitted, left>>

IsOwnReply_AnySeq(t, r) == TRUE

(* A datagram with another sequence number is skipped. *)
IsOwnReply(t, r) == r.seq = tool[t].last

ToolHears(t) ==
  /\ replies[t] # <<>>
  /\ LET r   == Head(replies[t])
         own == tool[t].waits /\ IsOwnReply(t, r)
     IN /\ replies' = [replies EXCEPT ![t] = Tail(@)]
        /\ tool' = IF own THEN [tool EXCEPT ![t] = Rested(t)] ELSE tool
        /\ confirmed' = IF own /\ ~tool[t].req.is_read /\ r.res = "OK"
                        THEN [confirmed EXCEPT ![tool[t].req.obj] = tool[t].req.val]
                        ELSE confirmed
  /\ UNCHANGED <<arrived, local, s_pending, pipeline, telemetry, cyclic, emitted, left>>

ReplyLost(t) ==
  /\ replies[t] # <<>> /\ Spend("trouble")
  /\ replies' = [replies EXCEPT ![t] = Tail(@)]
  /\ UNCHANGED <<tool, arrived, local, s_pending, confirmed, pipeline, telemetry, cyclic, emitted>>

(* Subscriptions are sent without waiting for an answer. *)
ToolSubscribes(t, kind, wish) ==
  /\ Spend("stream")
  /\ Send(Datagram(t, kind, 0, wish))
  /\ UNCHANGED <<tool, replies, local, s_pending, confirmed, pipeline, telemetry, cyclic, emitted>>

(* Somebody sends what is no message of the protocol. *)
Junk(t) ==
  /\ Spend("trouble")
  /\ Send(Datagram(t, "junk", 0, None))
  /\ UNCHANGED <<tool, replies, local, s_pending, confirmed, pipeline, telemetry, cyclic, emitted>>

-----------------------------------------------------------------------------
(* service_pending and service_access_socket *)

Reply(seq, res) == [seq |-> seq, res |-> res]

Completed == slot # Pipeline!Free /\ slot.client = "od" /\ slot.phase \in {"ok", "failed"}
Polled == s_pending # None /\ Completed

(* The replies after service_pending. *)
Answered ==
  IF Polled
  THEN [replies EXCEPT ![s_pending.peer] =
          Append(@, Reply(s_pending.seq, IF slot.phase = "ok" THEN "OK" ELSE "FAILED"))]
  ELSE replies

AfterPoll == IF Polled THEN None ELSE s_pending

SlotAfterPoll == IF Polled THEN Pipeline!Free ELSE slot

Answer(d, res) == replies' = [Answered EXCEPT ![d.peer] = Append(@, Reply(d.seq, res))]

NotTaken == slot' = SlotAfterPoll /\ s_pending' = AfterPoll

(* cmc_od_read, cmc_od_write: no slot, no retransmission check. *)
HandleLocal(d) ==
  /\ d.kind = "request" /\ d.req.obj \in CmcEntries
  /\ local' = IF d.req.is_read THEN local ELSE [local EXCEPT ![d.req.obj] = d.req.val]
  /\ Answer(d, "OK")
  /\ NotTaken

IsRetransmit_AnyPeer(d) == AfterPoll # None /\ AfterPoll.seq = d.seq

(* is_retransmit_of_in_flight *)
IsRetransmit(d) == AfterPoll # None /\ AfterPoll.seq = d.seq /\ AfterPoll.peer = d.peer

MotorRequest(d) == d.kind = "request" /\ d.req.obj \in MotorEntries

HandleRetransmit(d) ==
  /\ MotorRequest(d) /\ IsRetransmit(d)
  /\ replies' = Answered
  /\ NotTaken
  /\ UNCHANGED local

Vacant_Ignored == AfterPoll = None

(* Neither a tool's request nor another client's is in service. *)
Vacant == AfterPoll = None /\ SlotAfterPoll = Pipeline!Free

HandleBegin(d) ==
  /\ MotorRequest(d) /\ Vacant
  /\ slot' = Pipeline!Opened("od", d.req)
  /\ s_pending' = [peer |-> d.peer, seq |-> d.seq]
  /\ replies' = Answered
  /\ UNCHANGED local

(* ERR_INTERNAL, ERR_DETAIL_QUEUE_FULL *)
HandleFull(d) ==
  /\ MotorRequest(d) /\ ~IsRetransmit(d) /\ ~Vacant
  /\ Answer(d, "QUEUE_FULL")
  /\ NotTaken
  /\ UNCHANGED local

HandleMalformed(d) ==
  /\ d.kind = "junk"
  /\ Answer(d, "ERROR")
  /\ NotTaken
  /\ UNCHANGED local

(* Subscriptions get no answer. *)
HandleSubscription(d) ==
  /\ d.kind \in {"subscribe", "unsubscribe"}
  /\ replies' = Answered
  /\ NotTaken
  /\ UNCHANGED local

ServiceAccess ==
  IF arrived = <<>>
  THEN replies' = Answered /\ NotTaken /\ UNCHANGED <<arrived, local>>
  ELSE LET d == Head(arrived)
       IN /\ arrived' = Tail(arrived)
          /\ \/ HandleLocal(d) \/ HandleRetransmit(d) \/ HandleBegin(d)
             \/ HandleFull(d) \/ HandleMalformed(d) \/ HandleSubscription(d)

-----------------------------------------------------------------------------
(* handle_subscribe, handle_unsubscribe and service_telemetry.  A stream   *)
(* is the record of the four variables.                                    *)

Stream == [sub |-> s_sub, count |-> s_decimate_count, map |-> s_last_map_version, held |-> held]

Smaller(a, b) == IF a < b THEN a ELSE b
Larger(a, b)  == IF a < b THEN b ELSE a

HeldAfterSubscribe_Kept == held

HeldAfterSubscribe == <<>>

AfterDatagram ==
  IF arrived = <<>> THEN Stream
  ELSE LET d == Head(arrived)
       IN CASE d.kind = "subscribe" ->
                 [Stream EXCEPT
                    !.sub   = [peer |-> d.peer, div |-> Larger(d.req.div, 1),
                               batch |-> Smaller(Larger(d.req.batch, 1), TELEMETRY_BATCH_MAX)],
                    !.count = 0,
                    !.held  = HeldAfterSubscribe]
            [] d.kind = "unsubscribe" -> [Stream EXCEPT !.sub = None]
            [] OTHER -> Stream

Emit(st, samples) == <<[peer |-> st.sub.peer, map |-> st.map, samples |-> samples]>>

MapChanged_Never(st) == FALSE

MapChanged(st) == status.map # st.map

(* A batch of another map goes out before the sample is added. *)
Flushed(st) == MapChanged(st) /\ st.held # <<>>

Keep(st) ==
  LET old  == IF Flushed(st) THEN <<>> ELSE st.held
      new  == Append(old, status)
      full == Len(new) >= st.sub.batch
      next == [st EXCEPT !.count = 0, !.map = status.map,
                         !.held  = IF full THEN <<>> ELSE new]
  IN [stream |-> next,
      out    |-> (IF Flushed(st) THEN Emit(st, st.held) ELSE <<>>)
                 \o (IF full THEN Emit(next, new) ELSE <<>>)]

(* What the tick makes of the stream st, and the datagrams it sends: a     *)
(* status is skipped or kept; an empty datagram says that none came.       *)
Serviced(st, silent) ==
  CASE st.sub = None -> [stream |-> st, out |-> <<>>]
    [] st.sub # None /\ fresh /\ st.count + 1 >= st.sub.div -> Keep(st)
    [] st.sub # None /\ fresh /\ st.count + 1 < st.sub.div ->
         [stream |-> [st EXCEPT !.count = @ + 1], out |-> <<>>]
    [] st.sub # None /\ ~fresh ->
         [stream |-> st, out |-> IF silent THEN Emit(st, <<>>) ELSE <<>>]

(* silent: TELEMETRY_KEEPALIVE_MS without a sample. *)
ServiceTelemetry(silent) ==
  LET done == Serviced(AfterDatagram, silent)
  IN /\ s_sub' = done.stream.sub
     /\ s_decimate_count' = done.stream.count
     /\ s_last_map_version' = done.stream.map
     /\ held' = done.stream.held
     /\ emitted' = done.out
     /\ fresh' = (fresh /\ done.stream.sub = None)
     /\ since' = IF arrived # <<>> /\ Head(arrived).kind = "subscribe"
                 THEN status.n + (IF fresh THEN 0 ELSE 1) ELSE since

OdTick(silent) ==
  /\ ServiceAccess
  /\ ServiceTelemetry(silent)
  /\ UNCHANGED <<tool, confirmed, store, late, status, axis_waits, left>>

-----------------------------------------------------------------------------
(* The rest of the super-loop and the motor *)

Elsewhere == UNCHANGED <<requests, telemetry, fresh, status, since, emitted>>

(* axis_manager uses the same slot. *)
AxisBegins ==
  /\ Elsewhere /\ Spend("trouble") /\ axis_waits' = TRUE
  /\ \E o \in MotorEntries : Pipeline!Begin("axis", Read(o))

AxisPolls ==
  Elsewhere /\ axis_waits /\ axis_waits' = FALSE /\ Pipeline!Collect("axis") /\ UNCHANGED left

Beside == Elsewhere /\ UNCHANGED axis_waits

MotorServes == Beside /\ Pipeline!TakeEffect /\ UNCHANGED left
Succeeds == Beside /\ Pipeline!Succeed /\ UNCHANGED left
Fails == Beside /\ Pipeline!GiveUp /\ Spend("trouble")
LateRequest ==
  Beside /\ late # {} /\ (Pipeline!LateEffect \/ Pipeline!LateLost) /\ UNCHANGED left

(* handle_cyclic_status: the newest status replaces one not taken. *)
StatusArrives(map) ==
  /\ Spend("stream")
  /\ status' = [n |-> status.n + 1, map |-> map]
  /\ fresh' = TRUE
  /\ UNCHANGED <<requests, pipeline, telemetry, axis_waits, since, emitted>>

-----------------------------------------------------------------------------
Init ==
  /\ tool = [t \in Tools |-> [waits |-> FALSE, last |-> 0]]
  /\ arrived = <<>> /\ replies = [t \in Tools |-> <<>>]
  /\ store \in [MotorEntries -> Values] /\ slot = Pipeline!Free /\ late = {}
  /\ local \in [CmcEntries -> Values]
  /\ s_pending = None /\ s_sub = None
  /\ s_decimate_count = 0 /\ s_last_map_version = 0 /\ held = <<>>
  /\ fresh = FALSE /\ status = [n |-> 0, map |-> 0]
  /\ axis_waits = FALSE /\ since = 0
  /\ emitted = <<>>
  /\ confirmed = [o \in Entries |-> Unset]
  /\ left \in Budgets

ToolActs(t) ==
  \/ \E req \in Requests : ToolAsks(t, req)
  \/ ToolTimesOut(t) \/ ToolHears(t) \/ ReplyLost(t) \/ Junk(t)
  \/ \E wish \in Subscriptions : ToolSubscribes(t, "subscribe", wish)
  \/ ToolSubscribes(t, "unsubscribe", None)

Next ==
  \/ \E silent \in BOOLEAN : OdTick(silent)
  \/ AxisBegins \/ AxisPolls
  \/ MotorServes \/ Succeeds \/ Fails \/ LateRequest
  \/ \E t \in Tools : ToolActs(t)
  \/ \E map \in Maps : StatusArrives(map)

Spec == Init /\ [][Next]_vars

-----------------------------------------------------------------------------
(* Properties *)

Datagrams ==
  [peer : Tools, kind : {"request"}, seq : Nat, req : Requests]
  \union [peer : Tools, kind : {"subscribe"}, seq : {0}, req : Subscriptions]
  \union [peer : Tools, kind : {"unsubscribe", "junk"}, seq : {0}, req : {None}]

Statuses == [n : Nat, map : Maps \union {0}]

(* Every variable stays in its range; a batch never overruns its buffer. *)
TypeOK ==
  /\ tool \in [Tools -> [waits : {FALSE}, last : Nat]
                        \union [waits : {TRUE}, last : Nat, req : Requests, sends : Nat]]
  /\ arrived \in Seq(Datagrams) /\ Len(arrived) <= RxBuffer
  /\ replies \in [Tools -> Seq([seq : Nat, res : {"OK", "FAILED", "QUEUE_FULL", "ERROR"}])]
  /\ store \in [MotorEntries -> Values] /\ local \in [CmcEntries -> Values]
  /\ s_pending = None \/ s_pending \in [peer : Tools, seq : Nat]
  /\ s_sub = None \/ s_sub \in [peer : Tools, div : Nat \ {0}, batch : 1 .. TELEMETRY_BATCH_MAX]
  /\ s_decimate_count \in Nat /\ s_last_map_version \in Maps \union {0}
  /\ held \in Seq(Statuses) /\ status \in Statuses /\ since \in Nat
  /\ fresh \in BOOLEAN /\ axis_waits \in BOOLEAN
  /\ confirmed \in [Entries -> Values \union {Unset}]

MotorRequests == {req \in Requests : req.obj \in MotorEntries}

SlotRecords == [phase  : {"open", "effective", "mute", "ok", "failed"},
                client : {"od", "axis"}, req : MotorRequests, data : Values \union {Unset}]

(* The bridge has a request pending exactly while one of its own is in the *)
(* pipeline, and axis_manager likewise: neither takes the slot from under  *)
(* the other, loses it, or takes the other's answer.                       *)
SlotIsOwned ==
  /\ slot = Pipeline!Free \/ slot \in SlotRecords
  /\ late \in SUBSET MotorRequests
  /\ s_pending # None <=> slot # Pipeline!Free /\ slot.client = "od"
  /\ axis_waits <=> slot # Pipeline!Free /\ slot.client = "axis"

Asks(d) == d.kind = "request"
Writes(req, o) == ~req.is_read /\ req.obj = o

(* A tool writes what it may write. *)
ToolsWriteTheirOwn ==
  \A t \in Tools : tool[t].waits /\ ~tool[t].req.is_read => Writer[tool[t].req.obj] = t

(* No request bears a number its tool, in state tl, has not reached, and   *)
(* one with the number the tool waits for is the request it waits for.     *)
OfTool(seq, req, tl) == seq <= tl.last /\ (tl.waits /\ seq = tl.last => req = tl.req)

(* The later of two requests of a tool, or the same one again. *)
NotBefore(seq, req, d) == seq <= d.seq /\ (seq = d.seq => req = d.req)

BufferInOrder ==
  \A i \in 1 .. Len(arrived) : Asks(arrived[i]) =>
    /\ ~arrived[i].req.is_read => Writer[arrived[i].req.obj] = arrived[i].peer
    /\ OfTool(arrived[i].seq, arrived[i].req, tool[arrived[i].peer])
    /\ \A j \in i + 1 .. Len(arrived) :
         Asks(arrived[j]) /\ arrived[j].peer = arrived[i].peer
           => NotBefore(arrived[i].seq, arrived[i].req, arrived[j])

PendingInOrder ==
  s_pending # None =>
    /\ OfTool(s_pending.seq, slot.req, tool[s_pending.peer])
    /\ \A i \in 1 .. Len(arrived) :
         Asks(arrived[i]) /\ arrived[i].peer = s_pending.peer
           => NotBefore(s_pending.seq, slot.req, arrived[i])

RepliesInOrder ==
  \A t \in Tools : \A i \in 1 .. Len(replies[t]) : replies[t][i].seq <= tool[t].last

(* What the network keeps in order: the request in service, those in the   *)
(* buffer and the one the tool waits for come from each tool in the order  *)
(* of their numbers, equal numbers are the same request sent again, and    *)
(* a write comes from the one who may write.                               *)
RequestsInOrder ==
  ToolsWriteTheirOwn /\ BufferInOrder /\ PendingInOrder /\ RepliesInOrder

(* Entry o has the value v, and nothing under way will give it another.    *)
Settled(o, v) ==
  /\ v = IF o \in CmcEntries THEN local[o] ELSE store[o]
  /\ \A i \in 1 .. Len(arrived) :
       Asks(arrived[i]) /\ Writes(arrived[i].req, o) => arrived[i].req.val = v
  /\ slot # Pipeline!Free /\ Writes(slot.req, o) => slot.req.val = v
  /\ \A req \in late : Writes(req, o) => req.val = v

Effective == slot # Pipeline!Free /\ slot.phase \in {"effective", "ok"}

(* The tool's request took effect, or its OK is on the way. *)
Done(t) ==
  \/ s_pending = [peer |-> t, seq |-> tool[t].last] /\ Effective
  \/ \E i \in 1 .. Len(replies[t]) : replies[t][i] = Reply(tool[t].last, "OK")

(* A write confirmed, or about to be, is settled. *)
WritesSettle ==
  /\ Effective => late = {}
  /\ \A o \in Entries : confirmed[o] # Unset => Settled(o, confirmed[o])
  /\ \A t \in Tools : tool[t].waits /\ ~tool[t].req.is_read =>
       /\ confirmed[tool[t].req.obj] = Unset
       /\ Done(t) => Settled(tool[t].req.obj, tool[t].req.val)

(* The samples held for the subscriber are those a datagram may bear; the  *)
(* decimation counts the statuses since the last of them.                  *)
BatchIsUniform ==
  s_sub # None =>
    /\ s_decimate_count < s_sub.div /\ Len(held) < s_sub.batch
    /\ since <= status.n + (IF fresh THEN 0 ELSE 1)
    /\ \A j \in 1 .. Len(held) : held[j].map = s_last_map_version /\ held[j].n >= since
    /\ \A j \in 2 .. Len(held) : held[j].n - held[j - 1].n >= s_sub.div
    /\ held # <<>> => held[Len(held)].n + s_decimate_count
                        <= status.n - (IF fresh THEN 1 ELSE 0)

(* Each request in the pipeline its owner's, each tool's in order, what is *)
(* confirmed settled, and the batch of one kind: inductive for the tools,  *)
(* the network, od_tick and the motor.                                     *)
BridgeInv == TypeOK /\ SlotIsOwned /\ RequestsInOrder /\ WritesSettle /\ BatchIsUniform

(* A write confirmed to the tool holds until the tool writes the entry     *)
(* again: no retransmission still in a buffer, no reply to another request *)
(* and no request the CMC gave up on makes it untrue.                      *)
ConfirmedWriteHolds ==
  \A o \in Entries : confirmed[o] # Unset =>
    confirmed[o] = IF o \in CmcEntries THEN local[o] ELSE store[o]

(* od_tick takes a request d: it is in the pipeline, or has an answer.     *)
TakenHasOneFate ==
  Len(arrived') < Len(arrived) /\ Head(arrived).kind = "request" =>
    LET d         == Head(arrived)
        inService == s_pending' = [peer |-> d.peer, seq |-> d.seq]
        answers   == replies'[d.peer]
        atOnce    == Len(answers) > Len(Answered[d.peer]) /\ answers[Len(answers)].seq = d.seq
    IN inService <=> ~atOnce

(* Each request datagram has one fate: answered at once, or the request of *)
(* its tool is in the pipeline and is answered later.  A tool is not told  *)
(* that the queue is full while its own request is the one in it.          *)
OneFate == [][TakenHasOneFate]_vars

(* A telemetry datagram goes to the subscriber, is no longer than it asked *)
(* for, bears one map, and its samples are as far apart as it asked for    *)
(* and none from before it subscribed, whatever changed in the middle of a *)
(* batch.                                                                  *)
DatagramIsUniform ==
  \A i \in 1 .. Len(emitted) :
    LET d == emitted[i]
    IN /\ s_sub # None /\ d.peer = s_sub.peer /\ Len(d.samples) <= s_sub.batch
       /\ \A j \in 1 .. Len(d.samples) : d.samples[j].map = d.map /\ d.samples[j].n >= since
       /\ \A j \in 2 .. Len(d.samples) : d.samples[j].n - d.samples[j - 1].n >= s_sub.div
=============================================================================
