---------------------------- MODULE Cia402Proofs ----------------------------
(***************************************************************************)
(* Theorems about app/cia402 for every number of clients, entries and      *)
(* values and every width of the counters.                                 *)
(***************************************************************************)
EXTENDS Cia402, TLAPS

-----------------------------------------------------------------------------
(* Lemmas about the operators *)

LEMMA TimeoutIsNat == Timeout \in Nat
  BY ConstantsAssumption

LEMMA DeadlinesInRange ==
  /\ Timeout \in -1 .. Timeout /\ Timeout \in 0 .. Timeout
  /\ 0 \in -1 .. Timeout /\ 0 \in 0 .. Timeout
  BY ConstantsAssumption

(* The two counters stay in their width, and handles are never 0. *)
LEMMA CountersInRange ==
  /\ \A s \in Sequence : NextSeq(s) \in Sequence
  /\ \A h \in Handle \ {0} : NextHandle(h) \in Handle \ {0}
  BY ConstantsAssumption DEF Sequence, NextSeq, Handle, NextHandle

(* A message the motor still has is not numbered like the next frame. *)
LEMMA AliveIsOlder ==
  ASSUME NEW m, m.seq \in Sequence, NEW s \in Sequence, Alive(m, s)
  PROVE  m.seq # NextSeq(s)
  BY ConstantsAssumption DEF Alive, Age, Sequence, NextSeq

(* The frame just sent is young. *)
LEMMA OwnFrameIsAlive ==
  ASSUME NEW m, m # NoMsg, NEW s \in Sequence, m.seq = s
  PROVE  Alive(m, s)
  BY ConstantsAssumption DEF Alive, Age, Sequence

LEMMA NoMsgIsNoMessage ==
  /\ NoMsg \notin [seq : Sequence, req : Request]
  /\ NoMsg \notin Reply
  BY DEF Reply, NoMsg

(* The slot inside cia402_tick, where a deadline may have passed. *)
LateSlot == [state : {"IDLE", "REQ_PENDING", "AWAITING", "COMPLETE"},
             handle : Handle, req : Request, req_seq : Sequence,
             ttl : -1 .. Timeout, res : Results, data : Values \union {Unknown}]

(* Sending keeps the slot's request and turns a pending one into awaited. *)
LEMMA SlotAfterSend ==
  ASSUME NEW slot \in Slot, NEW seq \in Sequence, NEW gap \in 1 .. MaxGap,
         NEW new, new = AfterSend(slot, seq, gap)
  PROVE  /\ new \in LateSlot
         /\ new.handle = slot.handle /\ new.req = slot.req
         /\ new.res = slot.res /\ new.data = slot.data
         /\ slot.state = "REQ_PENDING" =>
              new.state = "AWAITING" /\ new.req_seq = seq /\ new.ttl >= 0
         /\ slot.state # "REQ_PENDING" =>
              new.state = slot.state /\ new.req_seq = slot.req_seq
         /\ new.state # "AWAITING" => new.ttl = 0
<1>1. CASE slot.state = "REQ_PENDING"
  <2>1. new = [slot EXCEPT !.state = "AWAITING", !.req_seq = seq, !.ttl = Timeout]
    BY <1>1 DEF AfterSend, Sends
  <2>2. new \in LateSlot
    BY <2>1, DeadlinesInRange DEF Slot, LateSlot
  <2> QED  BY <1>1, <2>1, <2>2, TimeoutIsNat DEF Slot
<1>2. CASE slot.state = "AWAITING"
  <2>1. new = [slot EXCEPT !.ttl = Left(slot.ttl, gap)]
    BY <1>2 DEF AfterSend, Sends, Slot
  <2>2. Left(slot.ttl, gap) \in -1 .. Timeout
    BY ConstantsAssumption DEF Left, Slot
  <2> QED  BY <1>2, <2>1, <2>2, ConstantsAssumption DEF Slot, LateSlot
<1>3. CASE slot.state \in {"IDLE", "COMPLETE"}
  <2>1. new = [slot EXCEPT !.ttl = 0]
    BY <1>3 DEF AfterSend, Sends, Slot
  <2> QED  BY <1>3, <2>1, ConstantsAssumption DEF Slot, LateSlot
<1> QED  BY <1>1, <1>2, <1>3 DEF Slot

(* A reply completes the awaited request with its result, or does nothing. *)
LEMMA SlotAfterReply ==
  ASSUME NEW slot \in LateSlot, NEW got \in Reply \union {NoMsg},
         NEW new, new = AfterReply(slot, got)
  PROVE  \/ /\ got # NoMsg /\ slot.state = "AWAITING" /\ got.seq = slot.req_seq
            /\ new = [slot EXCEPT !.state = "COMPLETE", !.ttl = 0,
                                  !.res = got.res, !.data = got.data]
            /\ new \in LateSlot
         \/ new = slot /\ (got = NoMsg \/ slot.state # "AWAITING" \/ got.seq # slot.req_seq)
<1>1. CASE got # NoMsg /\ Answers(got, slot)
  <2>1. new = [slot EXCEPT !.state = "COMPLETE", !.ttl = 0,
                           !.res = got.res, !.data = got.data]
    BY <1>1 DEF AfterReply
  <2>2. got \in Reply
    BY <1>1
  <2>3. got.res \in Results /\ got.data \in Values \union {Unknown}
    BY <2>2 DEF Reply, Results
  <2>4. new \in LateSlot
    BY <2>1, <2>3, DeadlinesInRange DEF LateSlot
  <2> QED  BY <1>1, <2>1, <2>4 DEF Answers
<1>2. CASE ~(got # NoMsg /\ Answers(got, slot))
  BY <1>2 DEF AfterReply, Answers
<1> QED  BY <1>1, <1>2

(* An expired request fails; nothing else changes. *)
LEMMA SlotAfterTimeout ==
  ASSUME NEW slot \in LateSlot, NEW new, new = AfterTimeout(slot),
         slot.state # "AWAITING" => slot.ttl = 0
  PROVE  /\ new \in Slot
         /\ \/ /\ slot.state = "AWAITING" /\ slot.ttl < 0
               /\ new = [slot EXCEPT !.state = "COMPLETE", !.ttl = 0,
                                     !.res = "NOT_READY", !.data = Unknown]
            \/ new = slot /\ (slot.state # "AWAITING" \/ slot.ttl >= 0)
<1>1. CASE slot.state = "AWAITING" /\ slot.ttl < 0
  <2>1. new = [slot EXCEPT !.state = "COMPLETE", !.ttl = 0,
                           !.res = "NOT_READY", !.data = Unknown]
    BY <1>1 DEF AfterTimeout
  <2>2. new \in Slot
    BY <2>1, DeadlinesInRange DEF LateSlot, Slot, Results
  <2> QED  BY <1>1, <2>1, <2>2
<1>2. CASE ~(slot.state = "AWAITING" /\ slot.ttl < 0)
  <2>1. new = slot
    BY <1>2 DEF AfterTimeout
  <2>2. slot.ttl \in 0 .. Timeout
    BY <1>2, ConstantsAssumption DEF LateSlot
  <2> QED  BY <1>2, <2>1, <2>2 DEF LateSlot, Slot
<1> QED  BY <1>1, <1>2

(* What one tick makes of the slot: it keeps its type, its handle and its  *)
(* request; it is busy if and only if it was; and only a reply with the    *)
(* awaited number completes it with OK.                                    *)
LEMMA SlotAfterTick ==
  ASSUME NEW slot \in Slot, NEW seq \in Sequence, NEW gap \in 1 .. MaxGap,
         NEW got \in Reply \union {NoMsg},
         NEW new, new = AfterTimeout(AfterReply(AfterSend(slot, seq, gap), got))
  PROVE  /\ new \in Slot
         /\ new.handle = slot.handle /\ new.req = slot.req
         /\ slot.state = "IDLE" => new.state = "IDLE"
         /\ slot.state = "COMPLETE" =>
              new.state = "COMPLETE" /\ new.res = slot.res /\ new.data = slot.data
         /\ slot.state \in {"REQ_PENDING", "AWAITING"} =>
              new.state \in {"AWAITING", "COMPLETE"}
         /\ new.state = "AWAITING" =>
              \/ slot.state = "AWAITING" /\ new.req_seq = slot.req_seq
              \/ slot.state = "REQ_PENDING" /\ new.req_seq = seq
         /\ slot.state # "COMPLETE" /\ new.state = "COMPLETE" /\ new.res = "OK" =>
              /\ got # NoMsg /\ got.res = "OK" /\ new.data = got.data
              /\ \/ slot.state = "AWAITING" /\ got.seq = slot.req_seq
                 \/ slot.state = "REQ_PENDING" /\ got.seq = seq
         /\ slot.state = "REQ_PENDING" /\ (got = NoMsg \/ got.seq # seq) =>
              new.state = "AWAITING" /\ new.req_seq = seq
<1> DEFINE sent == AfterSend(slot, seq, gap)
           rcvd == AfterReply(sent, got)
<1>1. /\ sent \in LateSlot
      /\ sent.handle = slot.handle /\ sent.req = slot.req
      /\ sent.res = slot.res /\ sent.data = slot.data
      /\ slot.state = "REQ_PENDING" =>
           sent.state = "AWAITING" /\ sent.req_seq = seq /\ sent.ttl >= 0
      /\ slot.state # "REQ_PENDING" =>
           sent.state = slot.state /\ sent.req_seq = slot.req_seq
      /\ sent.state # "AWAITING" => sent.ttl = 0
  BY SlotAfterSend
<1>2. \/ /\ got # NoMsg /\ sent.state = "AWAITING" /\ got.seq = sent.req_seq
         /\ rcvd = [sent EXCEPT !.state = "COMPLETE", !.ttl = 0,
                                !.res = got.res, !.data = got.data]
         /\ rcvd \in LateSlot
      \/ rcvd = sent /\ (got = NoMsg \/ sent.state # "AWAITING" \/ got.seq # sent.req_seq)
  BY <1>1, SlotAfterReply
<1> HIDE DEF sent
<1>3. rcvd \in LateSlot /\ (rcvd.state # "AWAITING" => rcvd.ttl = 0)
  BY <1>1, <1>2 DEF LateSlot
<1>4. /\ new \in Slot
      /\ \/ /\ rcvd.state = "AWAITING" /\ rcvd.ttl < 0
            /\ new = [rcvd EXCEPT !.state = "COMPLETE", !.ttl = 0,
                                  !.res = "NOT_READY", !.data = Unknown]
         \/ new = rcvd /\ (rcvd.state # "AWAITING" \/ rcvd.ttl >= 0)
  BY <1>3, SlotAfterTimeout DEF sent
<1> HIDE DEF rcvd
<1>5. /\ rcvd.handle = slot.handle /\ rcvd.req = slot.req
      /\ slot.state \in {"IDLE", "COMPLETE"} => rcvd.state = slot.state
      /\ slot.state = "COMPLETE" => rcvd.res = slot.res /\ rcvd.data = slot.data
      /\ slot.state \in {"REQ_PENDING", "AWAITING"} => rcvd.state \in {"AWAITING", "COMPLETE"}
      /\ rcvd.state = "AWAITING" =>
           \/ slot.state = "AWAITING" /\ rcvd.req_seq = slot.req_seq
           \/ slot.state = "REQ_PENDING" /\ rcvd.req_seq = seq
      /\ slot.state # "COMPLETE" /\ rcvd.state = "COMPLETE" /\ rcvd.res = "OK" =>
           /\ got # NoMsg /\ got.res = "OK" /\ rcvd.data = got.data
           /\ \/ slot.state = "AWAITING" /\ got.seq = slot.req_seq
              \/ slot.state = "REQ_PENDING" /\ got.seq = seq
      /\ slot.state = "REQ_PENDING" /\ (got = NoMsg \/ got.seq # seq) =>
           rcvd.state = "AWAITING" /\ rcvd.req_seq = seq /\ rcvd.ttl >= 0
  <2>1. CASE rcvd = sent
    BY <1>1, <1>2, <2>1 DEF Slot
  <2>2. CASE /\ got # NoMsg /\ sent.state = "AWAITING" /\ got.seq = sent.req_seq
             /\ rcvd = [sent EXCEPT !.state = "COMPLETE", !.ttl = 0,
                                    !.res = got.res, !.data = got.data]
    BY <1>1, <2>2 DEF Slot, LateSlot
  <2> QED  BY <1>2, <2>1, <2>2
<1>6. CASE new = rcvd
  BY <1>4, <1>5, <1>6
<1>7. CASE /\ rcvd.state = "AWAITING" /\ rcvd.ttl < 0
           /\ new = [rcvd EXCEPT !.state = "COMPLETE", !.ttl = 0,
                                 !.res = "NOT_READY", !.data = Unknown]
  <2>1. /\ new.handle = rcvd.handle /\ new.req = rcvd.req
        /\ new.state = "COMPLETE" /\ new.res = "NOT_READY"
    BY <1>7, <1>3 DEF LateSlot
  <2>2. rcvd.ttl \in Int
    BY <1>3, TimeoutIsNat DEF LateSlot
  <2> QED  BY <1>4, <1>5, <1>7, <2>1, <2>2
<1> QED  BY <1>4, <1>6, <1>7

-----------------------------------------------------------------------------
(* The invariant holds initially *)

LEMMA InitPipeline == Init => PipelineInv
<1> SUFFICES ASSUME Init PROVE PipelineInv
  OBVIOUS
<1>1. 0 \in Sequence /\ 0 \in Handle /\ 1 \in Handle \ {0}
  BY ConstantsAssumption DEF Sequence, Handle
<1>2. s_od.state = "IDLE" /\ s_od \in Slot
  BY <1>1, DeadlinesInRange DEF Init, Slot, Request, Results
<1>3. TypeOK
  BY <1>1, <1>2 DEF Init, TypeOK, Frame
<1> QED
  BY <1>2, <1>3 DEF Init, PipelineInv, SlotHasOneHolder, MessagesAreOwn, Current,
     AnswersHold, OpenWritesUnacked, OdFrameIsAwaited, AckedIsStored, Answers

-----------------------------------------------------------------------------
(* Every step keeps it *)

(* Beginning a request: the slot was idle, so nobody waited. *)
LEMMA BeginKeeps ==
  ASSUME PipelineInv, NEW c \in Clients, NEW req \in Request, Begin(c, req),
         \/ req.is_read /\ acked' = acked
         \/ ~req.is_read /\ acked' = [acked EXCEPT ![req.obj] = Unknown]
  PROVE  PipelineInv'
<1> USE DEF PipelineInv
<1>1. /\ s_od.state = "IDLE"
      /\ s_od' = [s_od EXCEPT !.state = "REQ_PENDING", !.handle = s_next_handle,
                              !.req = req, !.data = Unknown]
      /\ s_next_handle' = NextHandle(s_next_handle)
      /\ held' = [held EXCEPT ![c] = s_next_handle]
      /\ UNCHANGED <<s_sequence, s_cmd, s_tx, inbox, outbox, dictionary>>
  BY DEF Begin, motor
<1>2. /\ s_next_handle \in Handle /\ s_next_handle # 0
      /\ s_od \in Slot /\ held \in [Clients -> Handle]
      /\ req.obj \in Objects
  BY DEF TypeOK, Request
<1>3. s_od' \in Slot /\ s_od'.state = "REQ_PENDING" /\ s_od'.req = req
      /\ s_od'.handle = s_next_handle
  BY <1>1, <1>2 DEF Slot
<1>4. /\ acked' \in [Objects -> Values \union {Unknown}]
      /\ \A o \in Objects : acked'[o] = acked[o] \/ acked'[o] = Unknown
      /\ ~req.is_read => acked'[req.obj] = Unknown
  BY <1>2 DEF TypeOK
<1>5. TypeOK'
  <2>1. s_next_handle' \in Handle \ {0} /\ held' \in [Clients -> Handle]
    BY <1>1, <1>2, CountersInRange
  <2> QED  BY <1>1, <1>3, <1>4, <2>1 DEF TypeOK
<1>6. SlotHasOneHolder'
  <2>1. \A d \in Clients : held[d] = 0
    BY <1>1 DEF SlotHasOneHolder
  <2>2. \A d \in Clients : held'[d] = IF d = c THEN s_next_handle ELSE 0
    BY <1>1, <1>2, <2>1
  <2> QED  BY <1>2, <1>3, <2>2 DEF SlotHasOneHolder
<1>7. MessagesAreOwn' /\ AnswersHold'
  BY <1>1, <1>3 DEF MessagesAreOwn, AnswersHold, Current, Answers, Alive
<1>8. OpenWritesUnacked'
  <2>1. inbox # NoMsg => inbox.req.obj \in Objects
    BY DEF TypeOK, Request
  <2>2. inbox # NoMsg /\ ~inbox.req.is_read => acked'[inbox.req.obj] = Unknown
    <3>1. inbox # NoMsg /\ ~inbox.req.is_read => acked[inbox.req.obj] = Unknown
      BY DEF OpenWritesUnacked
    <3> QED  BY <1>4, <2>1, <3>1
  <2>3. ~s_od'.req.is_read => acked'[s_od'.req.obj] = Unknown
    BY <1>3, <1>4
  <2> QED  BY <1>1, <2>2, <2>3 DEF OpenWritesUnacked
<1>9. OdFrameIsAwaited' /\ AckedIsStored'
  BY <1>1, <1>4 DEF OdFrameIsAwaited, AckedIsStored
<1> QED  BY <1>5, <1>6, <1>7, <1>8, <1>9

(* Collecting an OK write vouches for its value: the motor holds it, and   *)
(* has nothing left to execute. *)
LEMMA PollKeeps ==
  ASSUME PipelineInv, NEW c \in Clients, Poll(c)
  PROVE  PipelineInv'
<1> USE DEF PipelineInv
<1>1. /\ held[c] # 0 /\ s_od.state = "COMPLETE"
      /\ s_od' = [s_od EXCEPT !.state = "IDLE", !.handle = 0]
      /\ held' = [held EXCEPT ![c] = 0]
      /\ acked' = IF s_od.res = "OK" /\ ~s_od.req.is_read
                  THEN [acked EXCEPT ![s_od.req.obj] = s_od.req.val] ELSE acked
      /\ UNCHANGED <<s_sequence, s_next_handle, s_cmd, s_tx, inbox, outbox, dictionary>>
  BY DEF Poll, motor
<1>2. /\ s_od \in Slot /\ s_od.req \in Request /\ held \in [Clients -> Handle]
      /\ acked \in [Objects -> Values \union {Unknown}]
  BY DEF TypeOK, Slot
<1>3. 0 \in Handle
  BY ConstantsAssumption DEF Handle
<1>4. s_od' \in Slot /\ s_od'.state = "IDLE"
  BY <1>1, <1>2, <1>3 DEF Slot
<1>5. TypeOK'
  <2>1. held' \in [Clients -> Handle]
    BY <1>1, <1>2, <1>3
  <2>2. acked' \in [Objects -> Values \union {Unknown}]
    BY <1>1, <1>2 DEF Request
  <2> QED  BY <1>1, <1>4, <2>1, <2>2 DEF TypeOK
<1>6. SlotHasOneHolder'
  <2>1. \A d \in Clients : held'[d] = 0
    BY <1>1, <1>2 DEF SlotHasOneHolder
  <2> QED  BY <1>4, <2>1 DEF SlotHasOneHolder
<1>7. MessagesAreOwn' /\ AnswersHold' /\ OdFrameIsAwaited'
  BY <1>1, <1>4 DEF MessagesAreOwn, AnswersHold, OdFrameIsAwaited, Current, Answers, Alive
<1>8. CASE s_od.res = "OK" /\ ~s_od.req.is_read
  <2>1. inbox = NoMsg /\ dictionary[s_od.req.obj] = s_od.req.val
    BY <1>1, <1>8 DEF AnswersHold, Stored
  <2>2. OpenWritesUnacked'
    BY <1>1, <1>4, <2>1 DEF OpenWritesUnacked
  <2>3. AckedIsStored'
    BY <1>1, <1>2, <1>8, <2>1 DEF AckedIsStored, Request
  <2> QED  BY <1>5, <1>6, <1>7, <2>2, <2>3
<1>9. CASE ~(s_od.res = "OK" /\ ~s_od.req.is_read)
  <2>1. OpenWritesUnacked' /\ AckedIsStored'
    BY <1>1, <1>4, <1>9 DEF OpenWritesUnacked, AckedIsStored
  <2> QED  BY <1>5, <1>6, <1>7, <2>1
<1> QED  BY <1>8, <1>9

(* axis_manager's command is the tick's business only when it is sent. *)
LEMMA SetCmdKeeps ==
  ASSUME PipelineInv, NEW cmd \in Commands, SetCyclicCmd(cmd)
  PROVE  PipelineInv'
  BY DEF SetCyclicCmd, motor, PipelineInv, TypeOK, SlotHasOneHolder, MessagesAreOwn,
     AnswersHold, OpenWritesUnacked, OdFrameIsAwaited, AckedIsStored, Current,
     Answers, Alive, Stored

(* The motor executes: the write was not vouched for, so no acknowledged   *)
(* value is overwritten, and the staged OK tells the truth.                *)
LEMMA ExecuteKeeps ==
  ASSUME PipelineInv, NEW res \in {"OK", "ERR"}, MotorExecute(res)
  PROVE  PipelineInv'
<1> USE DEF PipelineInv
<1> DEFINE req == inbox.req
<1>1. /\ inbox # NoMsg /\ inbox' = NoMsg
      /\ dictionary' = IF res = "OK" /\ ~req.is_read
                       THEN [dictionary EXCEPT ![req.obj] = req.val] ELSE dictionary
      /\ outbox' = [seq |-> inbox.seq, req |-> req, res |-> res,
                    data |-> IF res = "OK" /\ req.is_read
                             THEN dictionary[req.obj] ELSE Unknown]
      /\ UNCHANGED <<s_sequence, s_next_handle, s_od, s_cmd, s_tx, held, acked>>
  BY DEF MotorExecute, master
<1>2. inbox.seq \in Sequence /\ req \in Request /\ dictionary \in [Objects -> Values]
  BY <1>1 DEF TypeOK
<1>3. req.obj \in Objects /\ (~req.is_read => req.val \in Values)
  BY <1>2 DEF Request
<1>4. outbox' \in Reply /\ outbox' # NoMsg
  <2>1. dictionary[req.obj] \in Values
    BY <1>2, <1>3
  <2> QED  BY <1>1, <1>2, <2>1, NoMsgIsNoMessage DEF Reply
<1>5. TypeOK'
  <2>1. dictionary' \in [Objects -> Values]
    BY <1>1, <1>2, <1>3
  <2> QED  BY <1>1, <1>4, <2>1 DEF TypeOK
<1>6. SlotHasOneHolder' /\ OdFrameIsAwaited'
  BY <1>1 DEF SlotHasOneHolder, OdFrameIsAwaited
<1>7. MessagesAreOwn'
  BY <1>1, <1>4 DEF MessagesAreOwn, Current, Answers, Alive
<1>8. OpenWritesUnacked'
  BY <1>1 DEF OpenWritesUnacked
<1>9. AckedIsStored'
  <2>1. res = "OK" /\ ~req.is_read => acked[req.obj] = Unknown
    BY <1>1 DEF OpenWritesUnacked
  <2> QED  BY <1>1, <1>2, <2>1 DEF AckedIsStored
<1>10. AnswersHold'
  <2>1. ~(s_od.state = "COMPLETE" /\ s_od.res = "OK")
    BY <1>1 DEF AnswersHold
  <2>2. ASSUME Current(outbox)', outbox'.res = "OK"
        PROVE  Stored(s_od.req, outbox.data)'
    <3>1. res = "OK" /\ s_od.req = req
      BY <1>1, <2>2 DEF MessagesAreOwn, Current, Answers
    <3>2. CASE req.is_read
      BY <1>1, <3>1, <3>2 DEF Stored
    <3>3. CASE ~req.is_read
      BY <1>1, <1>2, <1>3, <3>1, <3>3 DEF Stored
    <3> QED  BY <3>2, <3>3
  <2> QED  BY <1>1, <2>1, <2>2 DEF AnswersHold
<1> QED  BY <1>5, <1>6, <1>7, <1>8, <1>9, <1>10

(* One exchange: what is under way afterwards is what was, minus what was  *)
(* lost, plus what the frame just sent brought.                            *)
LEMMA TickKeeps ==
  ASSUME PipelineInv, NEW gap \in 1 .. MaxGap,
         NEW rx \in {"reply", "status", "bad"}, Tick(gap, rx)
  PROVE  /\ PipelineInv'
         /\ s_tx.kind = "od" => s_tx'.kind = "cyclic" /\ s_tx'.cmd = s_cmd
<1> USE DEF PipelineInv
<1> DEFINE seq == NextSeq(s_sequence)
           got == IF rx = "reply" THEN outbox ELSE NoMsg
<1>1. /\ s_sequence' = seq
      /\ s_tx' = [kind |-> IF Sends(s_od) THEN "od" ELSE "cyclic",
                  seq |-> seq, cmd |-> s_cmd]
      /\ s_od' = AfterTimeout(AfterReply(AfterSend(s_od, seq, gap), got))
      /\ UNCHANGED <<s_next_handle, s_cmd, held, dictionary, acked>>
  BY DEF Tick
<1>2. \/ inbox' = inbox /\ Alive(inbox, seq)
      \/ inbox' = NoMsg
      \/ s_od.state = "REQ_PENDING" /\ inbox' = [seq |-> seq, req |-> s_od.req]
  BY DEF Tick, MotorTakes, Sends
<1>3. \/ outbox' = outbox /\ Alive(outbox, seq)
      \/ outbox' = NoMsg
      \/ outbox' = Errored(s_od.req, seq)
  <2>1. PICK out \in (IF rx = "status" THEN {} ELSE {NoMsg}) \union
                     (IF rx = "reply" THEN {}
                      ELSE {IF Alive(outbox, seq) THEN outbox ELSE NoMsg}) :
          outbox' = out \/ outbox' = Errored(s_od.req, seq)
    BY DEF Tick, MotorTakes
  <2> QED  BY <2>1
<1>4. /\ s_sequence \in Sequence /\ seq \in Sequence
      /\ s_od \in Slot /\ s_od.req \in Request /\ got \in Reply \union {NoMsg}
      /\ inbox # NoMsg => inbox.seq \in Sequence
      /\ outbox # NoMsg => outbox.seq \in Sequence
  BY CountersInRange DEF TypeOK, Slot, Reply
<1>5. /\ inbox # NoMsg => inbox.seq # seq
      /\ outbox # NoMsg => outbox.seq # seq
  BY <1>4, AliveIsOlder DEF MessagesAreOwn
<1> HIDE DEF seq
<1>6. /\ s_od' \in Slot
      /\ s_od'.handle = s_od.handle /\ s_od'.req = s_od.req
      /\ s_od.state = "IDLE" => s_od'.state = "IDLE"
      /\ s_od.state = "COMPLETE" =>
           s_od'.state = "COMPLETE" /\ s_od'.res = s_od.res /\ s_od'.data = s_od.data
      /\ s_od.state \in {"REQ_PENDING", "AWAITING"} =>
           s_od'.state \in {"AWAITING", "COMPLETE"}
      /\ s_od'.state = "AWAITING" =>
           \/ s_od.state = "AWAITING" /\ s_od'.req_seq = s_od.req_seq
           \/ s_od.state = "REQ_PENDING" /\ s_od'.req_seq = seq
      /\ s_od.state # "COMPLETE" /\ s_od'.state = "COMPLETE" /\ s_od'.res = "OK" =>
           /\ got # NoMsg /\ got.res = "OK" /\ s_od'.data = got.data
           /\ \/ s_od.state = "AWAITING" /\ got.seq = s_od.req_seq
              \/ s_od.state = "REQ_PENDING" /\ got.seq = seq
      /\ s_od.state = "REQ_PENDING" /\ (got = NoMsg \/ got.seq # seq) =>
           s_od'.state = "AWAITING" /\ s_od'.req_seq = seq
  <2> HIDE DEF got
  <2> QED  BY <1>1, <1>4, SlotAfterTick
<1>7. Errored(s_od.req, seq) \in Reply /\ Errored(s_od.req, seq) # NoMsg
  BY <1>4, NoMsgIsNoMessage DEF Errored, Reply
<1>8. TypeOK'
  <2>1. inbox' \in [seq : Sequence, req : Request] \union {NoMsg}
    BY <1>2, <1>4 DEF TypeOK
  <2>2. outbox' \in Reply \union {NoMsg}
    BY <1>3, <1>7 DEF TypeOK
  <2>3. s_tx' \in Frame
    BY <1>1, <1>4 DEF Frame, TypeOK
  <2> QED  BY <1>1, <1>4, <1>6, <2>1, <2>2, <2>3 DEF TypeOK
<1>9. SlotHasOneHolder'
  <2>1. s_od'.state = "IDLE" <=> s_od.state = "IDLE"
    BY <1>4, <1>6 DEF Slot
  <2> QED  BY <1>1, <1>6, <2>1 DEF SlotHasOneHolder
<1>10. OdFrameIsAwaited' /\ (s_tx.kind = "od" => s_tx'.kind = "cyclic" /\ s_tx'.cmd = s_cmd)
  <2>1. s_od.state = "REQ_PENDING" => s_od'.state = "AWAITING" /\ s_od'.req_seq = seq
    BY <1>5, <1>6
  <2>2. s_tx'.kind = "od" <=> s_od.state = "REQ_PENDING"
    BY <1>1 DEF Sends
  <2> QED  BY <1>1, <2>1, <2>2 DEF OdFrameIsAwaited, Sends
<1>11. MessagesAreOwn'
  <2>1. inbox' # NoMsg => Alive(inbox', seq)
    <3>1. CASE inbox' = [seq |-> seq, req |-> s_od.req]
      BY <1>4, <3>1, OwnFrameIsAlive
    <3> QED  BY <1>2, <3>1
  <2>2. outbox' # NoMsg => Alive(outbox', seq)
    <3>1. CASE outbox' = Errored(s_od.req, seq)
      BY <1>4, <1>7, <3>1, OwnFrameIsAlive DEF Errored
    <3> QED  BY <1>3, <3>1
  <2>3. Current(inbox)' => inbox'.req = s_od'.req
    <3>1. CASE inbox' = inbox
      BY <1>5, <1>6, <3>1 DEF MessagesAreOwn, Current, Answers
    <3>2. CASE inbox' = [seq |-> seq, req |-> s_od.req]
      BY <1>6, <3>2
    <3> QED  BY <1>2, <3>1, <3>2 DEF Current
  <2>4. Current(outbox)' /\ outbox'.res = "OK" => outbox'.req = s_od'.req
    <3>1. CASE outbox' = outbox
      BY <1>5, <1>6, <3>1 DEF MessagesAreOwn, Current, Answers
    <3>2. CASE outbox' = Errored(s_od.req, seq)
      BY <1>6, <3>2 DEF Errored
    <3> QED  BY <1>3, <3>1, <3>2 DEF Current
  <2> QED  BY <1>1, <2>1, <2>2, <2>3, <2>4 DEF MessagesAreOwn
<1>12. AnswersHold'
  <2>1. ASSUME Current(outbox)', outbox'.res = "OK"
        PROVE  inbox' = NoMsg /\ Stored(s_od.req, outbox.data)'
    <3>1. outbox' = outbox
      BY <1>3, <2>1 DEF Current, Errored
    <3>2. Current(outbox) /\ s_od.state = "AWAITING"
      BY <1>5, <1>6, <2>1, <3>1 DEF Current, Answers
    <3>3. inbox = NoMsg /\ Stored(s_od.req, outbox.data)
      BY <2>1, <3>1, <3>2 DEF AnswersHold
    <3> QED  BY <1>1, <1>2, <1>6, <3>1, <3>2, <3>3 DEF Stored
  <2>2. ASSUME s_od'.state = "COMPLETE", s_od'.res = "OK"
        PROVE  inbox' = NoMsg /\ Stored(s_od.req, s_od.data)'
    <3>1. CASE s_od.state = "COMPLETE"
      BY <1>1, <1>2, <1>6, <2>2, <3>1 DEF AnswersHold, Stored
    <3>2. CASE s_od.state # "COMPLETE"
      <4>1. /\ got # NoMsg /\ got = outbox /\ outbox.res = "OK"
            /\ s_od.state = "AWAITING" /\ outbox.seq = s_od.req_seq
            /\ s_od'.data = outbox.data
        BY <1>5, <1>6, <2>2, <3>2
      <4>2. inbox = NoMsg /\ Stored(s_od.req, outbox.data)
        BY <4>1 DEF AnswersHold, Current, Answers
      <4> QED  BY <1>1, <1>2, <1>6, <4>1, <4>2 DEF Stored
    <3> QED  BY <3>1, <3>2
  <2> QED  BY <2>1, <2>2 DEF AnswersHold
<1>13. OpenWritesUnacked'
  BY <1>1, <1>2, <1>4, <1>6 DEF OpenWritesUnacked, Slot
<1>14. AckedIsStored'
  BY <1>1 DEF AckedIsStored
<1> QED  BY <1>8, <1>9, <1>10, <1>11, <1>12, <1>13, <1>14

LEMMA NextPipeline == PipelineInv /\ [Next]_vars => PipelineInv'
<1> SUFFICES ASSUME PipelineInv, [Next]_vars PROVE PipelineInv'
  OBVIOUS
<1>1. CASE \E c \in Clients, o \in Objects : ReadBegin(c, o)
  <2>1. PICK c \in Clients, o \in Objects : ReadBegin(c, o)
    BY <1>1
  <2>2. [is_read |-> TRUE, obj |-> o, val |-> Unknown] \in Request
    BY DEF Request
  <2> QED  BY <2>1, <2>2, BeginKeeps DEF ReadBegin
<1>2. CASE \E c \in Clients, o \in Objects, v \in Values : WriteBegin(c, o, v)
  <2>1. PICK c \in Clients, o \in Objects, v \in Values : WriteBegin(c, o, v)
    BY <1>2
  <2>2. [is_read |-> FALSE, obj |-> o, val |-> v] \in Request
    BY DEF Request
  <2> QED  BY <2>1, <2>2, BeginKeeps DEF WriteBegin
<1>3. CASE \E c \in Clients : Poll(c)
  BY <1>3, PollKeeps
<1>4. CASE \E cmd \in Commands : SetCyclicCmd(cmd)
  BY <1>4, SetCmdKeeps
<1>5. CASE TickAny
  BY <1>5, TickKeeps DEF TickAny
<1>6. CASE \E res \in {"OK", "ERR"} : MotorExecute(res)
  BY <1>6, ExecuteKeeps
<1>7. CASE UNCHANGED vars
  BY <1>7 DEF vars, master, motor, PipelineInv, TypeOK, SlotHasOneHolder,
     MessagesAreOwn, AnswersHold, OpenWritesUnacked, OdFrameIsAwaited,
     AckedIsStored, Current, Answers, Alive, Stored
<1> QED  BY <1>1, <1>2, <1>3, <1>4, <1>5, <1>6, <1>7 DEF Next

-----------------------------------------------------------------------------
(* The theorems *)

(* The pipeline's invariant, whatever frames are lost, late or corrupted.  *)
THEOREM PipelineCorrect == Spec => []PipelineInv
  BY InitPipeline, NextPipeline, PTL DEF Spec

(* Every variable keeps its type: the counters of app/cia402 wrap inside   *)
(* their widths and no handle is ever the invalid one.                     *)
THEOREM TypeCorrect == Spec => []TypeOK
<1>1. PipelineInv => TypeOK
  BY DEF PipelineInv
<1> QED  BY <1>1, PipelineCorrect, PTL

(* What cia402_od_poll acknowledged as written is what the motor holds.    *)
THEOREM AcknowledgedWritesHold == Spec => []AckedIsStored
<1>1. PipelineInv => AckedIsStored
  BY DEF PipelineInv
<1> QED  BY <1>1, PipelineCorrect, PTL

(* What cia402_od_poll returns for a read is the motor's present value.    *)
THEOREM ReadsAreCurrent == Spec => []ReadIsCurrent
<1>1. PipelineInv => ReadIsCurrent
  BY DEF PipelineInv, ReadIsCurrent, AnswersHold, Stored
<1> QED  BY <1>1, PipelineCorrect, PTL

(* The OD slot is busy exactly when one client waits for its handle.       *)
THEOREM SlotIsNeverOrphaned == Spec => []SlotHasOneHolder
<1>1. PipelineInv => SlotHasOneHolder
  BY DEF PipelineInv
<1> QED  BY <1>1, PipelineCorrect, PTL

(* No two frames in a row withhold the cyclic command from the motor.      *)
THEOREM CommandAfterEveryRequest == Spec => CyclicFollowsOd
<1>1. PipelineInv /\ [Next]_vars =>
        [s_tx.kind = "od" /\ s_sequence' # s_sequence
           => s_tx'.kind = "cyclic" /\ s_tx'.cmd = s_cmd]_vars
  <2> SUFFICES ASSUME PipelineInv, Next, s_sequence' # s_sequence
               PROVE  s_tx.kind = "od" => s_tx'.kind = "cyclic" /\ s_tx'.cmd = s_cmd
    OBVIOUS
  <2>1. TickAny
    BY DEF Next, ReadBegin, WriteBegin, Begin, Poll, SetCyclicCmd, MotorExecute, master
  <2> QED  BY <2>1, TickKeeps DEF TickAny
<1> QED  BY <1>1, PipelineCorrect, PTL DEF Spec, CyclicFollowsOd

-----------------------------------------------------------------------------
(* Refinement of OdService *)

(* Phase, Holder and Late of any slot, messages and handles.               *)
Awaits(m, slot) == m # NoMsg /\ Answers(m, slot)

PhaseOf(slot, in, out) ==
  CASE slot.state = "REQ_PENDING" -> "open"
    [] slot.state = "AWAITING" /\ Awaits(in, slot) -> "open"
    [] slot.state = "AWAITING" /\ Awaits(out, slot) /\ out.res = "OK" -> "effective"
    [] slot.state = "COMPLETE" /\ slot.res = "OK" -> "ok"
    [] slot.state = "COMPLETE" /\ slot.res # "OK" -> "failed"
    [] OTHER -> "mute"

HolderOf(h, handle) == CHOOSE c \in Clients : h[c] = handle

LateOf(slot, in) == IF in = NoMsg \/ Awaits(in, slot) THEN {} ELSE {in.req}

LEMMA PhaseOfIs ==
  ASSUME NEW slot \in Slot, NEW in, NEW out,
         Awaits(out, slot) /\ out.res = "OK" => in = NoMsg
  PROVE  /\ slot.state = "REQ_PENDING" => PhaseOf(slot, in, out) = "open"
         /\ slot.state = "AWAITING" /\ Awaits(in, slot) => PhaseOf(slot, in, out) = "open"
         /\ slot.state = "AWAITING" /\ Awaits(out, slot) /\ out.res = "OK" =>
              PhaseOf(slot, in, out) = "effective"
         /\ slot.state = "AWAITING" /\ ~Awaits(in, slot) /\ ~(Awaits(out, slot) /\ out.res = "OK") =>
              PhaseOf(slot, in, out) = "mute"
         /\ slot.state = "COMPLETE" =>
              PhaseOf(slot, in, out) = IF slot.res = "OK" THEN "ok" ELSE "failed"
<1>1. CASE slot.state = "REQ_PENDING"
  BY <1>1 DEF PhaseOf
<1>2. CASE slot.state = "AWAITING" /\ Awaits(in, slot)
  <2>1. ~(Awaits(out, slot) /\ out.res = "OK")
    BY <1>2 DEF Awaits
  <2> QED  BY <1>2, <2>1 DEF PhaseOf
<1>3. CASE slot.state = "AWAITING" /\ Awaits(out, slot) /\ out.res = "OK"
  <2>1. ~Awaits(in, slot)
    BY <1>3 DEF Awaits
  <2> QED  BY <1>3, <2>1 DEF PhaseOf
<1>4. CASE slot.state = "AWAITING" /\ ~Awaits(in, slot) /\ ~(Awaits(out, slot) /\ out.res = "OK")
  BY <1>4 DEF PhaseOf
<1>5. CASE slot.state = "COMPLETE"
  BY <1>5 DEF PhaseOf
<1>6. CASE slot.state = "IDLE"
  BY <1>6
<1> QED  BY <1>1, <1>2, <1>3, <1>4, <1>5, <1>6 DEF Slot

LEMMA HolderOfIs ==
  ASSUME NEW h, NEW handle, NEW c \in Clients, h[c] = handle,
         \A d \in Clients : h[d] = handle => d = c
  PROVE  HolderOf(h, handle) = c
  BY DEF HolderOf

(* The service's slot, spelled out.                                        *)
InService(phase, c, req, data) == [phase |-> phase, client |-> c, req |-> req, data |-> data]

LEMMA ServedNow ==
  /\ Served = IF s_od.state = "IDLE" THEN [phase |-> "free"]
              ELSE InService(PhaseOf(s_od, inbox, outbox), HolderOf(held, s_od.handle), s_od.req,
                     IF PhaseOf(s_od, inbox, outbox) = "effective" THEN outbox.data
                     ELSE IF PhaseOf(s_od, inbox, outbox) = "ok" THEN s_od.data ELSE Unknown)
  /\ Late = LateOf(s_od, inbox)
<1>1. Phase = PhaseOf(s_od, inbox, outbox)
  BY Zenon DEF Phase, PhaseOf, Current, Awaits
<1>2. Holder = HolderOf(held, s_od.handle)
  BY Zenon DEF Holder, HolderOf
<1>3. Data = IF Phase = "effective" THEN outbox.data ELSE IF Phase = "ok" THEN s_od.data ELSE Unknown
  BY DEF Data
<1>4. Late = LateOf(s_od, inbox)
  BY Zenon DEF Late, LateOf, Current, Awaits
<1> QED  BY <1>1, <1>2, <1>3, <1>4 DEF Served, InService

LEMMA ServedNext ==
  /\ Served' = IF s_od'.state = "IDLE" THEN [phase |-> "free"]
               ELSE InService(PhaseOf(s_od', inbox', outbox'), HolderOf(held', s_od'.handle), s_od'.req,
                      IF PhaseOf(s_od', inbox', outbox') = "effective" THEN outbox'.data
                      ELSE IF PhaseOf(s_od', inbox', outbox') = "ok" THEN s_od'.data ELSE Unknown)
  /\ Late' = LateOf(s_od', inbox')
<1>1. Phase' = PhaseOf(s_od', inbox', outbox')
  BY Zenon DEF Phase, PhaseOf, Current, Awaits
<1>2. Holder' = HolderOf(held', s_od'.handle)
  BY Zenon DEF Holder, HolderOf
<1>3. Data' = IF Phase' = "effective" THEN outbox'.data ELSE IF Phase' = "ok" THEN s_od'.data ELSE Unknown
  BY DEF Data
<1>4. Late' = LateOf(s_od', inbox')
  BY Zenon DEF Late, LateOf, Current, Awaits
<1> QED  BY <1>1, <1>2, <1>3, <1>4 DEF Served, InService

(* The steps of the service, in these terms.                               *)
LEMMA InServiceIs ==
  ASSUME NEW ph, NEW c, NEW req, NEW data
  PROVE  /\ InService(ph, c, req, data).phase = ph /\ InService(ph, c, req, data).req = req
         /\ InService(ph, c, req, data).client = c
         /\ ph # "free" => InService(ph, c, req, data) # [phase |-> "free"]
  BY DEF InService

LEMMA InServiceAll ==
  ASSUME NEW Ps, NEW c, NEW req, NEW Ds,
         NEW x \in [phase : Ps, client : {c}, req : {req}, data : Ds]
  PROVE  x = InService(x.phase, c, req, x.data)
  BY DEF InService

LEMMA Loses ==
  ASSUME NEW ph \in {"open", "effective"}, NEW c, NEW req, NEW data,
         Served = InService(ph, c, req, data), Served' = InService("mute", c, req, Unknown),
         Late' \in {{}, Late}, dictionary' = dictionary
  PROVE  Service!Lose
<1> DEFINE changed == [Served EXCEPT !.phase = "mute", !.data = Unknown]
           R == [phase : {ph, "mute"}, client : {c}, req : {req}, data : {data, Unknown}]
<1>1. Served # [phase |-> "free"] /\ Served.phase = ph
  BY InServiceIs
<1>2. Served \in R
  BY DEF InService
<1>3. changed \in R /\ changed.phase = "mute" /\ changed.data = Unknown
  BY <1>2
<1> HIDE DEF changed
<1>4. Served' = changed
  BY <1>3, InServiceAll
<1> QED  BY <1>1, <1>4 DEF Service!Lose, Service!Forget, Service!Free, changed

LEMMA GivesUp ==
  ASSUME NEW ph \in {"open", "effective", "mute"}, NEW c, NEW req, NEW data,
         Served = InService(ph, c, req, data), Served' = InService("failed", c, req, Unknown),
         Late' \in {{}, Late} \/ (ph = "open" /\ Late' = {req}), dictionary' = dictionary
  PROVE  Service!GiveUp
<1> DEFINE changed == [Served EXCEPT !.phase = "failed", !.data = Unknown]
           R == [phase : {ph, "failed"}, client : {c}, req : {req}, data : {data, Unknown}]
<1>1. Served # [phase |-> "free"] /\ Served.phase = ph /\ Served.req = req
  BY InServiceIs
<1>2. Served \in R
  BY DEF InService
<1>3. changed \in R /\ changed.phase = "failed" /\ changed.data = Unknown
  BY <1>2
<1> HIDE DEF changed
<1>4. Served' = changed
  BY <1>3, InServiceAll
<1> QED  BY <1>1, <1>4 DEF Service!GiveUp, Service!Forget, Service!Free, changed

LEMMA Succeeds ==
  ASSUME NEW c, NEW req, NEW data,
         Served = InService("effective", c, req, data), Served' = InService("ok", c, req, data),
         Late' = Late, dictionary' = dictionary
  PROVE  Service!Succeed
<1> DEFINE changed == [Served EXCEPT !.phase = "ok"]
           R == [phase : {"effective", "ok"}, client : {c}, req : {req}, data : {data}]
<1>1. Served # [phase |-> "free"] /\ Served.phase = "effective"
  BY InServiceIs
<1>2. Served \in R /\ Served.data = data
  BY DEF InService
<1>3. changed \in R /\ changed.phase = "ok" /\ changed.data = data
  BY <1>2
<1> HIDE DEF changed
<1>4. Served' = changed
  BY <1>3, InServiceAll
<1> QED  BY <1>1, <1>4 DEF Service!Succeed, Service!Free, changed

LEMMA TakesEffect ==
  ASSUME NEW c, NEW req, NEW data, data = IF req.is_read THEN dictionary[req.obj] ELSE Unknown,
         Served = InService("open", c, req, Unknown), Served' = InService("effective", c, req, data),
         dictionary' = IF req.is_read THEN dictionary ELSE [dictionary EXCEPT ![req.obj] = req.val],
         Late' = {}
  PROVE  Service!TakeEffect
<1> DEFINE changed == [Served EXCEPT !.phase = "effective",
                         !.data = IF Served.req.is_read THEN dictionary[Served.req.obj] ELSE Unknown]
           R == [phase : {"open", "effective"}, client : {c}, req : {req}, data : {data, Unknown}]
<1>1. Served # [phase |-> "free"] /\ Served.phase = "open" /\ Served.req = req
  BY InServiceIs
<1>2. Served \in R
  BY DEF InService
<1>3. changed \in R /\ changed.phase = "effective" /\ changed.data = data
  BY <1>1, <1>2
<1> HIDE DEF changed
<1>4. Served' = changed
  BY <1>3, InServiceAll
<1>5. dictionary' = Service!Put(Served.req)
  BY <1>1 DEF Service!Put
<1> QED  BY <1>1, <1>4, <1>5 DEF Service!TakeEffect, Service!Free, changed

LEMMA LosesLate ==
  ASSUME Served' = Served, Late' \in {{}, Late}, dictionary' = dictionary
  PROVE  Service!LateLost \/ UNCHANGED Service!vars
  BY DEF Service!LateLost, Service!vars

(* The one who waits is the slot's client.                                 *)
LEMMA OneHolder ==
  ASSUME PipelineInv, NEW c \in Clients, held[c] # 0
  PROVE  HolderOf(held, s_od.handle) = c
<1>1. s_od.handle = held[c] /\ \A d \in Clients : held[d] = s_od.handle => d = c
  BY DEF PipelineInv, SlotHasOneHolder
<1> QED  BY <1>1, HolderOfIs

LEMMA BeginImplements ==
  ASSUME PipelineInv, NEW c \in Clients, NEW req \in Request, Begin(c, req)
  PROVE  Service!Begin(c, req)
<1>1. /\ s_od \in Slot /\ held \in [Clients -> Handle] /\ s_next_handle \in Handle \ {0}
      /\ s_od.state = "IDLE" /\ UNCHANGED <<inbox, outbox, dictionary>>
      /\ s_od' = [s_od EXCEPT !.state = "REQ_PENDING", !.handle = s_next_handle,
                              !.req = req, !.data = Unknown]
      /\ held' = [held EXCEPT ![c] = s_next_handle]
  BY DEF Begin, PipelineInv, TypeOK, motor
<1>2. /\ s_od' \in Slot /\ s_od'.state = "REQ_PENDING" /\ s_od'.handle = s_next_handle
      /\ s_od'.req = req
  BY <1>1 DEF Slot
<1>3. PhaseOf(s_od', inbox', outbox') = "open"
  <2>1. ~Awaits(outbox', s_od')
    BY <1>2 DEF Awaits, Answers
  <2> QED  BY <1>2, <2>1, PhaseOfIs
<1>4. HolderOf(held', s_od'.handle) = c
  <2>1. \A d \in Clients : d # c => held'[d] = 0
    BY <1>1 DEF PipelineInv, SlotHasOneHolder
  <2>2. held'[c] = s_next_handle /\ s_next_handle # 0
    BY <1>1
  <2>3. \A d \in Clients : held'[d] = s_next_handle => d = c
    BY <2>1, <2>2
  <2> QED  BY <1>2, <2>2, <2>3, HolderOfIs
<1>5. Served = [phase |-> "free"] /\ Served' = InService("open", c, req, Unknown)
  BY <1>1, <1>2, <1>3, <1>4, ServedNow, ServedNext
<1>6. Late' = Late
  <2>1. ~Awaits(inbox, s_od) /\ ~Awaits(inbox', s_od')
    BY <1>1, <1>2 DEF Awaits, Answers
  <2> QED  BY <1>1, <2>1, ServedNow, ServedNext DEF LateOf
<1> QED  BY <1>1, <1>5, <1>6 DEF Service!Begin, Service!Free, Service!Opened, InService

LEMMA PollImplements ==
  ASSUME PipelineInv, NEW c \in Clients, Poll(c)
  PROVE  Service!Collect(c)
<1>1. /\ s_od \in Slot /\ held[c] # 0 /\ s_od.state = "COMPLETE"
      /\ s_od' = [s_od EXCEPT !.state = "IDLE", !.handle = 0]
      /\ UNCHANGED <<inbox, outbox, dictionary>>
  BY DEF Poll, PipelineInv, TypeOK, motor
<1>2. s_od'.state = "IDLE"
  BY <1>1 DEF Slot
<1>3. ~Awaits(inbox, s_od) /\ ~Awaits(inbox', s_od') /\ ~Awaits(outbox, s_od)
  BY <1>1, <1>2 DEF Awaits, Answers
<1>4. PhaseOf(s_od, inbox, outbox) \in {"ok", "failed"}
  BY <1>1, <1>3, PhaseOfIs
<1>5. HolderOf(held, s_od.handle) = c
  BY <1>1, OneHolder
<1>6. PICK ph \in {"ok", "failed"} : \E data : Served = InService(ph, c, s_od.req, data)
  BY <1>1, <1>4, <1>5, ServedNow
<1>7. Served' = [phase |-> "free"]
  BY <1>2, ServedNext
<1>8. Late' = Late
  BY <1>1, <1>3, ServedNow, ServedNext DEF LateOf
<1>9. Served # [phase |-> "free"] /\ Served.phase \in {"ok", "failed"} /\ Served.client = c
  BY <1>6, InServiceIs
<1> QED  BY <1>1, <1>7, <1>8, <1>9 DEF Service!Collect, Service!Free

LEMMA ExecuteImplements ==
  ASSUME PipelineInv, NEW res \in {"OK", "ERR"}, MotorExecute(res)
  PROVE  Service!Next \/ UNCHANGED Service!vars
<1> DEFINE req == inbox.req
           data == IF res = "OK" /\ req.is_read THEN dictionary[req.obj] ELSE Unknown
<1>1. /\ s_od \in Slot /\ inbox # NoMsg /\ s_od' = s_od /\ held' = held
      /\ inbox' = NoMsg
      /\ outbox' = [seq |-> inbox.seq, req |-> req, res |-> res, data |-> data]
      /\ dictionary' = IF res = "OK" /\ ~req.is_read
                       THEN [dictionary EXCEPT ![req.obj] = req.val] ELSE dictionary
      /\ inbox.seq \in Sequence
  BY DEF MotorExecute, PipelineInv, TypeOK, master
<1> HIDE DEF data
<1>2. outbox' # NoMsg /\ outbox'.seq = inbox.seq /\ outbox'.res = res /\ outbox'.data = data
  BY <1>1 DEF NoMsg
<1>3. /\ Awaits(outbox', s_od') <=> Awaits(inbox, s_od)
      /\ ~Awaits(inbox', s_od')
  BY <1>1, <1>2 DEF Awaits, Answers
<1>4. /\ Awaits(inbox, s_od) => s_od.state = "AWAITING" /\ req = s_od.req
      /\ ~(Awaits(outbox, s_od) /\ outbox.res = "OK")
      /\ ~(s_od.state = "COMPLETE" /\ s_od.res = "OK")
  BY <1>1 DEF PipelineInv, MessagesAreOwn, AnswersHold, Awaits, Answers, Current
<1>5. Late' = {} /\ Late = IF Awaits(inbox, s_od) THEN {} ELSE {req}
  BY <1>1, ServedNow, ServedNext DEF LateOf
<1> DEFINE c == HolderOf(held, s_od.handle)
<1>6. HolderOf(held', s_od'.handle) = c
  BY <1>1
<1> HIDE DEF c
<1>7. CASE Awaits(inbox, s_od)
  <2>1. Served = InService("open", c, req, Unknown)
    <3>1. PhaseOf(s_od, inbox, outbox) = "open"
      BY <1>1, <1>4, <1>7, PhaseOfIs
    <3> QED  BY <1>4, <1>7, <3>1, ServedNow DEF c
  <2>2. CASE res = "OK"
    <3>1. PhaseOf(s_od', inbox', outbox') = "effective"
      BY <1>1, <1>2, <1>3, <1>4, <1>7, <2>2, PhaseOfIs
    <3>2. Served' = InService("effective", c, req, data)
      BY <1>1, <1>2, <1>4, <1>6, <1>7, <3>1, ServedNext
    <3>3. data = IF req.is_read THEN dictionary[req.obj] ELSE Unknown
      BY <2>2 DEF data
    <3>4. dictionary' = IF req.is_read THEN dictionary ELSE [dictionary EXCEPT ![req.obj] = req.val]
      BY <1>1, <2>2
    <3> QED  BY <1>5, <2>1, <3>2, <3>3, <3>4, TakesEffect DEF Service!Next
  <2>3. CASE res = "ERR"
    <3>1. PhaseOf(s_od', inbox', outbox') = "mute"
      BY <1>1, <1>2, <1>3, <1>4, <1>7, <2>3, PhaseOfIs
    <3>2. Served' = InService("mute", c, req, Unknown)
      BY <1>1, <1>4, <1>6, <1>7, <3>1, ServedNext
    <3> QED  BY <1>1, <1>5, <2>1, <2>3, <3>2, Loses DEF Service!Next
  <2> QED  BY <2>2, <2>3
<1>8. CASE ~Awaits(inbox, s_od)
  <2>1. Served' = Served
    <3>1. CASE s_od.state = "IDLE"
      BY <1>1, <3>1, ServedNow, ServedNext
    <3>2. CASE s_od.state # "IDLE"
      <4>1. /\ PhaseOf(s_od', inbox', outbox') = PhaseOf(s_od, inbox, outbox)
            /\ PhaseOf(s_od, inbox, outbox) \notin {"effective", "ok"}
        <5>1. CASE s_od.state = "REQ_PENDING"
          BY <1>1, <1>3, <1>4, <1>8, <5>1, PhaseOfIs
        <5>2. CASE s_od.state = "AWAITING"
          BY <1>1, <1>3, <1>4, <1>8, <5>2, PhaseOfIs
        <5>3. CASE s_od.state = "COMPLETE"
          BY <1>1, <1>3, <1>4, <1>8, <5>3, PhaseOfIs
        <5> QED  BY <1>1, <3>2, <5>1, <5>2, <5>3 DEF Slot
      <4> QED  BY <1>1, <1>6, <3>2, <4>1, ServedNow, ServedNext DEF c
    <3> QED  BY <3>1, <3>2
  <2>2. CASE res = "OK"
    <3>1. dictionary' = IF req.is_read THEN dictionary ELSE [dictionary EXCEPT ![req.obj] = req.val]
      BY <1>1, <2>2
    <3>2. Service!LateEffect
      BY <1>5, <1>8, <2>1, <3>1 DEF Service!LateEffect, Service!Put
    <3> QED  BY <3>2 DEF Service!Next
  <2>3. CASE res = "ERR"
    BY <1>1, <1>5, <2>1, <2>3, LosesLate DEF Service!Next
  <2> QED  BY <2>2, <2>3
<1> QED  BY <1>7, <1>8

(* An exchange moves the request in service on, gives it up or loses it,   *)
(* and may lose an older one; it brings none into effect.                  *)
LEMMA TickImplements ==
  ASSUME PipelineInv, NEW gap \in 1 .. MaxGap,
         NEW rx \in {"reply", "status", "bad"}, Tick(gap, rx)
  PROVE  Service!Next \/ UNCHANGED Service!vars
<1> DEFINE seq == NextSeq(s_sequence)
           got == IF rx = "reply" THEN outbox ELSE NoMsg
<1>1. /\ s_od' = AfterTimeout(AfterReply(AfterSend(s_od, seq, gap), got))
      /\ held' = held /\ dictionary' = dictionary
  BY DEF Tick
<1>2. \/ inbox' = inbox
      \/ inbox' = NoMsg
      \/ s_od.state = "REQ_PENDING" /\ inbox' = [seq |-> seq, req |-> s_od.req]
  BY DEF Tick, MotorTakes, Sends
<1>3. outbox' \in {outbox, NoMsg, Errored(s_od.req, seq)}
  <2>1. PICK out \in (IF rx = "status" THEN {} ELSE {NoMsg}) \union
                     (IF rx = "reply" THEN {}
                      ELSE {IF Alive(outbox, seq) THEN outbox ELSE NoMsg}) :
          outbox' = out \/ outbox' = Errored(s_od.req, seq)
    BY DEF Tick, MotorTakes
  <2> QED  BY <2>1
<1>4. /\ s_sequence \in Sequence /\ seq \in Sequence /\ s_od \in Slot
      /\ got \in Reply \union {NoMsg}
      /\ inbox # NoMsg => inbox.seq \in Sequence
      /\ outbox # NoMsg => outbox.seq \in Sequence
  BY CountersInRange DEF PipelineInv, TypeOK, Reply
<1>5. /\ inbox # NoMsg => inbox.seq # seq
      /\ outbox # NoMsg => outbox.seq # seq
  BY <1>4, AliveIsOlder DEF PipelineInv, MessagesAreOwn
<1> HIDE DEF seq
<1>6. /\ s_od' \in Slot
      /\ s_od'.handle = s_od.handle /\ s_od'.req = s_od.req
      /\ s_od.state = "IDLE" => s_od'.state = "IDLE"
      /\ s_od.state = "COMPLETE" =>
           s_od'.state = "COMPLETE" /\ s_od'.res = s_od.res /\ s_od'.data = s_od.data
      /\ s_od.state = "AWAITING" =>
           \/ s_od'.state = "AWAITING" /\ s_od'.req_seq = s_od.req_seq
           \/ s_od'.state = "COMPLETE"
      /\ s_od.state = "AWAITING" /\ s_od'.state = "COMPLETE" /\ s_od'.res = "OK" =>
           /\ outbox # NoMsg /\ outbox.res = "OK" /\ outbox.seq = s_od.req_seq
           /\ s_od'.data = outbox.data
      /\ s_od.state = "REQ_PENDING" => s_od'.state = "AWAITING" /\ s_od'.req_seq = seq
  <2>1. got # NoMsg => got = outbox /\ got.seq # seq
    BY <1>5
  <2> HIDE DEF got
  <2> QED  BY <1>1, <1>4, <2>1, SlotAfterTick
<1> DEFINE c == HolderOf(held, s_od.handle)
           req == s_od.req
<1>7. HolderOf(held', s_od'.handle) = c
  BY <1>1, <1>6
<1> HIDE DEF c, got
<1>8. /\ Awaits(inbox, s_od) => inbox.req = req
      /\ Awaits(outbox, s_od) /\ outbox.res = "OK" => inbox = NoMsg
      /\ s_od.state = "COMPLETE" /\ s_od.res = "OK" => inbox = NoMsg
  BY DEF PipelineInv, MessagesAreOwn, AnswersHold, Awaits, Current
<1>9. /\ Errored(s_od.req, seq).res = "ERR"
      /\ Errored(s_od.req, seq).seq = seq
  BY DEF Errored
<1>10. CASE s_od.state = "IDLE"
  <2>1. Served' = Served
    BY <1>6, <1>10, ServedNow, ServedNext
  <2>2. Late' \in {{}, Late}
    <3>1. ~Awaits(inbox, s_od) /\ ~Awaits(inbox', s_od')
      BY <1>6, <1>10 DEF Awaits, Answers
    <3> QED  BY <1>2, <1>10, <3>1, ServedNow, ServedNext DEF LateOf
  <2> QED  BY <1>1, <2>1, <2>2, LosesLate DEF Service!Next
<1>11. CASE s_od.state = "COMPLETE"
  <2>1. ~Awaits(inbox, s_od) /\ ~Awaits(inbox', s_od') /\ ~Awaits(outbox, s_od) /\ ~Awaits(outbox', s_od')
    BY <1>6, <1>11 DEF Awaits, Answers
  <2>2. /\ PhaseOf(s_od', inbox', outbox') = PhaseOf(s_od, inbox, outbox)
        /\ PhaseOf(s_od, inbox, outbox) # "effective"
    BY <1>4, <1>6, <1>11, <2>1, PhaseOfIs
  <2>3. Served' = Served
    BY <1>6, <1>7, <1>11, <2>2, ServedNow, ServedNext DEF c
  <2>4. Late' \in {{}, Late}
    BY <1>2, <1>11, <2>1, ServedNow, ServedNext DEF LateOf
  <2> QED  BY <1>1, <2>3, <2>4, LosesLate DEF Service!Next
<1>12. CASE s_od.state = "REQ_PENDING"
  <2>1. Served = InService("open", c, req, Unknown)
    <3>1. PhaseOf(s_od, inbox, outbox) = "open"
      <4>1. ~Awaits(outbox, s_od)
        BY <1>12 DEF Awaits, Answers
      <4> QED  BY <1>4, <1>12, <4>1, PhaseOfIs
    <3> QED  BY <1>12, <3>1, ServedNow DEF c
  <2>2. ~Awaits(inbox, s_od) /\ s_od'.state = "AWAITING" /\ s_od'.req_seq = seq
    BY <1>6, <1>12 DEF Awaits, Answers
  <2>3. ~(Awaits(outbox', s_od') /\ outbox'.res = "OK")
    BY <1>3, <1>5, <1>9, <2>2 DEF Awaits, Answers
  <2>4. CASE inbox' = inbox \/ inbox' = NoMsg
    <3>1. ~Awaits(inbox', s_od')
      BY <1>5, <2>2, <2>4 DEF Awaits, Answers
    <3>2. PhaseOf(s_od', inbox', outbox') = "mute"
      BY <1>6, <2>2, <2>3, <3>1, PhaseOfIs
    <3>3. Served' = InService("mute", c, req, Unknown)
      BY <1>6, <1>7, <2>2, <3>2, ServedNext
    <3>4. Late' \in {{}, Late}
      BY <2>2, <2>4, <3>1, ServedNow, ServedNext DEF LateOf
    <3> QED  BY <1>1, <2>1, <3>3, <3>4, Loses DEF Service!Next
  <2>5. CASE inbox' = [seq |-> seq, req |-> s_od.req]
    <3>1. Awaits(inbox', s_od')
      BY <2>2, <2>5 DEF Awaits, Answers, NoMsg
    <3>2. PhaseOf(s_od', inbox', outbox') = "open"
      BY <1>6, <2>2, <2>3, <3>1, PhaseOfIs
    <3>3. Served' = InService("open", c, req, Unknown)
      BY <1>6, <1>7, <2>2, <3>2, ServedNext
    <3>4. Late' = {}
      BY <3>1, ServedNext DEF LateOf
    <3> QED  BY <1>1, <2>1, <3>3, <3>4, LosesLate DEF Service!Next
  <2> QED  BY <1>2, <2>4, <2>5
<1>13. CASE s_od.state = "AWAITING"
  <2>1. inbox' \in {inbox, NoMsg}
    BY <1>2, <1>13
  <2> DEFINE ph == PhaseOf(s_od, inbox, outbox)
             data == IF ph = "effective" THEN outbox.data ELSE Unknown
  <2>2. /\ ph = IF Awaits(inbox, s_od) THEN "open"
                ELSE IF Awaits(outbox, s_od) /\ outbox.res = "OK" THEN "effective" ELSE "mute"
        /\ ph \in {"open", "effective", "mute"}
    BY <1>4, <1>8, <1>13, PhaseOfIs
  <2> HIDE DEF ph
  <2>3. Served = InService(ph, c, req, data)
    BY <1>13, <2>2, ServedNow DEF c, ph
  <2>4. Late = IF inbox = NoMsg \/ ph = "open" THEN {} ELSE {inbox.req}
    BY <2>2, ServedNow DEF LateOf
  <2>5. CASE s_od'.state = "COMPLETE" /\ s_od'.res = "OK"
    <3>1. ph = "effective" /\ inbox = NoMsg /\ inbox' = NoMsg /\ s_od'.data = outbox.data
      BY <1>6, <1>8, <1>13, <2>1, <2>2, <2>5 DEF Awaits, Answers
    <3>2. PhaseOf(s_od', inbox', outbox') = "ok"
      BY <1>6, <2>5, <3>1, PhaseOfIs
    <3>3. Served' = InService("ok", c, req, data)
      BY <1>6, <1>7, <2>5, <3>1, <3>2, ServedNext
    <3>4. Late' = Late
      BY <2>4, <3>1, ServedNext DEF LateOf
    <3> QED  BY <1>1, <2>3, <3>1, <3>3, <3>4, Succeeds DEF Service!Next
  <2>6. CASE s_od'.state = "COMPLETE" /\ s_od'.res # "OK"
    <3>1. ~Awaits(inbox', s_od') /\ ~Awaits(outbox', s_od')
      BY <2>6 DEF Awaits, Answers
    <3>2. PhaseOf(s_od', inbox', outbox') = "failed"
      BY <1>6, <2>6, <3>1, PhaseOfIs
    <3>3. Served' = InService("failed", c, req, Unknown)
      BY <1>6, <1>7, <2>6, <3>2, ServedNext
    <3>4. Late' = IF inbox' = NoMsg THEN {} ELSE {inbox'.req}
      BY <3>1, ServedNext DEF LateOf
    <3>5. Late' \in {{}, Late} \/ (ph = "open" /\ Late' = {req})
      BY <1>8, <2>1, <2>2, <2>4, <3>4
    <3> QED  BY <1>1, <2>2, <2>3, <3>3, <3>5, GivesUp DEF Service!Next
  <2>7. CASE s_od'.state = "AWAITING"
    <3>1. /\ Awaits(inbox', s_od') => inbox' = inbox /\ Awaits(inbox, s_od)
          /\ inbox' = inbox => (Awaits(inbox', s_od') <=> Awaits(inbox, s_od))
          /\ Awaits(outbox', s_od') /\ outbox'.res = "OK" => outbox' = outbox /\ Awaits(outbox, s_od)
      BY <1>3, <1>6, <1>9, <1>13, <2>1, <2>7 DEF Awaits, Answers
    <3>2. Awaits(outbox', s_od') /\ outbox'.res = "OK" => inbox' = NoMsg
      BY <1>8, <2>1, <3>1
    <3> DEFINE ph1 == PhaseOf(s_od', inbox', outbox')
    <3>3. ph1 = IF Awaits(inbox', s_od') THEN "open"
                ELSE IF Awaits(outbox', s_od') /\ outbox'.res = "OK" THEN "effective" ELSE "mute"
      BY <1>6, <2>7, <3>2, PhaseOfIs
    <3> HIDE DEF ph1
    <3>4. Served' = InService(ph1, c, req, IF ph1 = "effective" THEN outbox'.data ELSE Unknown)
      BY <1>6, <1>7, <2>7, <3>3, ServedNext DEF ph1
    <3>5. Late' = IF inbox' = NoMsg \/ ph1 = "open" THEN {} ELSE {inbox'.req}
      BY <3>3, ServedNext DEF LateOf
    <3>6. Late' \in {{}, Late}
      BY <2>1, <2>2, <2>4, <3>1, <3>3, <3>5
    <3>7. ph1 = ph \/ (ph \in {"open", "effective"} /\ ph1 = "mute")
      BY <1>8, <2>1, <2>2, <3>1, <3>3
    <3>8. CASE ph1 = ph
      <4>1. ph = "effective" => outbox' = outbox
        BY <3>1, <3>3, <3>8
      <4>2. Served' = Served
        BY <2>3, <3>4, <3>8, <4>1
      <4> QED  BY <1>1, <3>6, <4>2, LosesLate DEF Service!Next
    <3>9. CASE ph \in {"open", "effective"} /\ ph1 = "mute"
      <4>1. Served' = InService("mute", c, req, Unknown)
        BY <3>4, <3>9
      <4> QED  BY <1>1, <2>3, <3>6, <3>9, <4>1, Loses DEF Service!Next
    <3> QED  BY <3>7, <3>8, <3>9
  <2> QED  BY <1>6, <1>13, <2>5, <2>6, <2>7
<1> QED  BY <1>4, <1>10, <1>11, <1>12, <1>13 DEF Slot

(* The OD pipeline keeps the promise of cia402.h to its users: one request *)
(* at a time; one that ends OK took effect, and nothing took effect since; *)
(* one given up on never takes effect behind the back of a newer one.      *)
THEOREM PipelineImplementsOdService == Spec => ImplementsOdService
<1>1. Init => Service!Init
  <2> SUFFICES ASSUME Init  PROVE Service!Init
    OBVIOUS
  <2>1. s_od.state = "IDLE" /\ inbox = NoMsg /\ dictionary \in [Objects -> Values]
    BY DEF Init
  <2>2. Served = [phase |-> "free"] /\ Late = {}
    BY <2>1, ServedNow DEF LateOf
  <2> QED  BY <2>1, <2>2 DEF Service!Init, Service!Free
<1>2. PipelineInv /\ [Next]_vars => [Service!Next]_(Service!vars)
  <2> SUFFICES ASSUME PipelineInv, [Next]_vars  PROVE Service!Next \/ UNCHANGED Service!vars
    OBVIOUS
  <2>1. ASSUME NEW c \in Clients, NEW o \in Objects, ReadBegin(c, o)  PROVE Service!Next
    <3>1. [is_read |-> TRUE, obj |-> o, val |-> Unknown] \in Request
      BY DEF Request
    <3>2. Service!Begin(c, [is_read |-> TRUE, obj |-> o, val |-> Unknown])
      BY <2>1, <3>1, BeginImplements DEF ReadBegin
    <3> QED  BY <3>1, <3>2 DEF Service!Next, Service!Request, Request
  <2>2. ASSUME NEW c \in Clients, NEW o \in Objects, NEW v \in Values, WriteBegin(c, o, v)
        PROVE  Service!Next
    <3>1. [is_read |-> FALSE, obj |-> o, val |-> v] \in Request
      BY DEF Request
    <3>2. Service!Begin(c, [is_read |-> FALSE, obj |-> o, val |-> v])
      BY <2>2, <3>1, BeginImplements DEF WriteBegin
    <3> QED  BY <3>1, <3>2 DEF Service!Next, Service!Request, Request
  <2>3. ASSUME NEW c \in Clients, Poll(c)  PROVE Service!Next
    BY <2>3, PollImplements DEF Service!Next
  <2>4. ASSUME NEW cmd \in Commands, SetCyclicCmd(cmd)  PROVE UNCHANGED Service!vars
    <3>1. UNCHANGED <<s_od, held, inbox, outbox, dictionary>>
      BY <2>4 DEF SetCyclicCmd, motor
    <3> QED  BY <3>1, ServedNow, ServedNext DEF Service!vars
  <2>5. CASE TickAny
    BY <2>5, TickImplements DEF TickAny
  <2>6. ASSUME NEW res \in {"OK", "ERR"}, MotorExecute(res)
        PROVE  Service!Next \/ UNCHANGED Service!vars
    BY <2>6, ExecuteImplements
  <2>7. CASE UNCHANGED vars
    <3>1. UNCHANGED <<s_od, held, inbox, outbox, dictionary>>
      BY <2>7 DEF vars, master, motor
    <3> QED  BY <3>1, ServedNow, ServedNext DEF Service!vars
  <2> QED  BY <2>1, <2>2, <2>3, <2>4, <2>5, <2>6, <2>7 DEF Next
<1> QED  BY <1>1, <1>2, PipelineCorrect, PTL DEF Spec, ImplementsOdService, Service!Spec

=============================================================================
