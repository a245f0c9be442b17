------------------------------- MODULE Cia402 -------------------------------
(***************************************************************************)
(* app/cia402: the SPI master towards the motor MCU.  Once per millisecond *)
(* (or later, when the super-loop stalls) cia402_tick exchanges ONE        *)
(* 64-byte frame with the motor: a pending object-dictionary (OD) request  *)
(* if there is one, else the cyclic command.  The single OD slot s_od is   *)
(* shared by every client of the firmware (the setup sequencer, the load   *)
(* factor, the proxy, boot-sync, motor-save and home machines of           *)
(* axis_manager, and the UDP bridge app/od); each client keeps the handle  *)
(* it was given and polls it.                                              *)
(*                                                                         *)
(* The motor MCU and the wire are external: a frame may be lost or         *)
(* corrupted either way, the motor executes a request some time after it   *)
(* arrived and stages one reply, which a later frame clocks out.  Time is  *)
(* kept relative: ttl is deadline_ms - now.  A motor value stands for the  *)
(* stored content of one OD entry.                                         *)
(***************************************************************************)
EXTENDS Integers

CONSTANTS
  Clients,     \* users of the OD pipeline
  Objects,     \* OD entries of the motor
  Values,      \* values an entry can hold
  Unknown,     \* not a value
  Commands,    \* cyclic commands axis_manager may set
  SeqMod,      \* the uint16_t sequence number wraps here (65536)
  HandleHalf,  \* int16_t handles are -HandleHalf .. HandleHalf-1 (32768)
  Timeout,     \* OD_RESPONSE_TIMEOUT_MS (30)
  MaxGap,      \* longest time between two frames, in ms
  MaxDelay     \* age, in frames, at which the motor has dropped a request

ASSUME ConstantsAssumption ==
  /\ SeqMod \in Nat /\ HandleHalf \in Nat /\ Timeout \in Nat
  /\ MaxGap \in Nat /\ MaxDelay \in Nat
  /\ MaxGap >= 1
  /\ HandleHalf >= 2
  /\ Unknown \notin Values
  (* The motor answers a request before the sequence number comes round. *)
  /\ MaxDelay + 2 <= SeqMod

ASSUME NonEmptyAssumption == Values # {} /\ Commands # {}

VARIABLES
  s_sequence,     \* number of the last frame sent
  s_next_handle,  \* next handle to give out
  s_od,           \* the OD request slot
  s_cmd,          \* cyclic command to send
  s_tx,           \* frame last sent
  held,           \* handle each client is waiting on, 0 when none
  inbox,          \* motor: request received and not executed
  outbox,         \* motor: reply staged and not clocked out
  dictionary,     \* motor: stored value of each entry
  acked           \* history: value of the last collected OK write, Unknown
                  \* from the next write_begin on

master == <<s_sequence, s_next_handle, s_od, s_cmd, s_tx>>
motor  == <<inbox, outbox, dictionary>>
vars   == <<master, held, motor, acked>>

-----------------------------------------------------------------------------
(* Types *)

Sequence == 0 .. SeqMod - 1
Handle   == (-HandleHalf) .. (HandleHalf - 1)
Request  == [is_read : {TRUE}, obj : Objects, val : {Unknown}]
            \union [is_read : {FALSE}, obj : Objects, val : Values]
Results  == {"OK", "ERR", "NOT_READY"}   \* ERR: every code but these two
Reply    == [seq : Sequence, req : Request, res : {"OK", "ERR"},
             data : Values \union {Unknown}]
Slot     == [state : {"IDLE", "REQ_PENDING", "AWAITING", "COMPLETE"},
             handle : Handle, req : Request, req_seq : Sequence,
             ttl : 0 .. Timeout, res : Results, data : Values \union {Unknown}]
Frame    == [kind : {"cyclic", "od"}, seq : Sequence, cmd : Commands]
NoMsg    == [none |-> TRUE]

(* The counters stay within their C types across a wrap, handle 0 is never *)
(* given out, and every frame, request and reply is one the code can form. *)
TypeOK ==
  /\ s_sequence \in Sequence
  /\ s_next_handle \in Handle \ {0}
  /\ s_od \in Slot
  /\ s_cmd \in Commands
  /\ s_tx \in Frame
  /\ held \in [Clients -> Handle]
  /\ inbox \in [seq : Sequence, req : Request] \union {NoMsg}
  /\ outbox \in Reply \union {NoMsg}
  /\ dictionary \in [Objects -> Values]
  /\ acked \in [Objects -> Values \union {Unknown}]

-----------------------------------------------------------------------------
(* Counters of fixed width *)

NextSeq_NoWrap(s) == s + 1

NextSeq(s) == IF s = SeqMod - 1 THEN 0 ELSE s + 1

NextHandle_NoSkip(h) == IF h = HandleHalf - 1 THEN -HandleHalf ELSE h + 1

(* alloc_handle: int16_t increment, skipping the invalid handle 0. *)
NextHandle(h) == IF h = HandleHalf - 1 THEN -HandleHalf
                 ELSE IF h = -1 THEN 1 ELSE h + 1

(* Frames sent after the one numbered q, s being the last. *)
Age(q, s) == IF s >= q THEN s - q ELSE s + SeqMod - q

(* The motor has not yet dropped message m when s is the last frame. *)
Alive(m, s) == m # NoMsg /\ Age(m.seq, s) <= MaxDelay

-----------------------------------------------------------------------------
(* The OD pipeline's API *)

Begin(c, req) ==
  /\ held[c] = 0
  /\ s_od.state = "IDLE"
  /\ s_od' = [s_od EXCEPT !.state = "REQ_PENDING", !.handle = s_next_handle,
                          !.req = req, !.data = Unknown]
  /\ s_next_handle' = NextHandle(s_next_handle)
  /\ held' = [held EXCEPT ![c] = s_next_handle]
  /\ UNCHANGED <<s_sequence, s_cmd, s_tx, motor>>

ReadBegin(c, o) ==
  /\ Begin(c, [is_read |-> TRUE, obj |-> o, val |-> Unknown])
  /\ UNCHANGED acked

WriteBegin(c, o, v) ==
  /\ Begin(c, [is_read |-> FALSE, obj |-> o, val |-> v])
  /\ acked' = [acked EXCEPT ![o] = Unknown]

(* cia402_od_poll: only the holder of the slot's handle frees it. *)
Poll(c) ==
  /\ held[c] # 0
  /\ held[c] = s_od.handle
  /\ s_od.state = "COMPLETE"
  /\ s_od' = [s_od EXCEPT !.state = "IDLE", !.handle = 0]
  /\ held' = [held EXCEPT ![c] = 0]
  /\ acked' = IF s_od.res = "OK" /\ ~s_od.req.is_read
              THEN [acked EXCEPT ![s_od.req.obj] = s_od.req.val]
              ELSE acked
  /\ UNCHANGED <<s_sequence, s_next_handle, s_cmd, s_tx, motor>>

SetCyclicCmd(cmd) ==
  /\ s_cmd' = cmd
  /\ UNCHANGED <<s_sequence, s_next_handle, s_od, s_tx, held, motor, acked>>

-----------------------------------------------------------------------------
(* cia402_tick, step by step: slot in, slot out *)

(* Which frame goes out, and the slot after sending it.  A slot that waits *)
(* on has gap ms less to live; -1 stands for every expired deadline.       *)
Sends_UntilAnswered(slot) == slot.state \in {"REQ_PENDING", "AWAITING"}

Sends(slot)  == slot.state = "REQ_PENDING"

Left(t, gap) == IF t >= gap THEN t - gap ELSE -1

AfterSend(slot, seq, gap) ==
  IF Sends(slot)
  THEN [slot EXCEPT !.state = "AWAITING", !.req_seq = seq, !.ttl = Timeout]
  ELSE [slot EXCEPT !.ttl = IF slot.state = "AWAITING" THEN Left(@, gap) ELSE 0]

Answers_AnySequence(r, slot) == slot.state = "AWAITING"

(* handle_od_read_resp, handle_od_write_resp, handle_error. *)
Answers(r, slot) == slot.state = "AWAITING" /\ r.seq = slot.req_seq

AfterReply(slot, r) ==
  IF r # NoMsg /\ Answers(r, slot)
  THEN [slot EXCEPT !.state = "COMPLETE", !.ttl = 0,
                    !.res = r.res, !.data = r.data]
  ELSE slot

AfterTimeout_Never(slot) == slot

(* The time-out is looked at last, so a reply in the same frame wins. *)
AfterTimeout(slot) ==
  IF slot.state = "AWAITING" /\ slot.ttl < 0
  THEN [slot EXCEPT !.state = "COMPLETE", !.ttl = 0,
                    !.res = "NOT_READY", !.data = Unknown]
  ELSE slot

(* What the motor does with a frame: miss it or have nothing to answer,    *)
(* keep the OD request in place of an older one, or find the frame         *)
(* malformed and stage an ERROR that names its sequence number.            *)
Errored(req, seq) == [seq |-> seq, req |-> req, res |-> "ERR", data |-> Unknown]

MotorTakes(od, seq, req, in, out) ==
  \/ inbox' = in /\ outbox' = out
  \/ od /\ inbox' = [seq |-> seq, req |-> req] /\ outbox' = out
  \/ inbox' = in /\ outbox' = Errored(req, seq)

(* One exchange.  rx is what the master's receive buffer holds: the staged *)
(* reply, a status frame, or nothing that validate_rx accepts ("bad", also *)
(* a failed SPI transfer); after a bad exchange the motor may or may not   *)
(* believe that its reply went out.                                        *)
Tick(gap, rx) ==
  LET seq  == NextSeq(s_sequence)
      live == [in  |-> IF Alive(inbox, seq) THEN inbox ELSE NoMsg,
               out |-> IF Alive(outbox, seq) THEN outbox ELSE NoMsg]
      got  == IF rx = "reply" THEN outbox ELSE NoMsg
  IN /\ rx = "reply" => outbox # NoMsg
     /\ s_sequence' = seq
     /\ s_tx' = [kind |-> IF Sends(s_od) THEN "od" ELSE "cyclic",
                 seq |-> seq, cmd |-> s_cmd]
     /\ s_od' = AfterTimeout(AfterReply(AfterSend(s_od, seq, gap), got))
     /\ \E out \in (IF rx = "status" THEN {} ELSE {NoMsg})
                   \union (IF rx = "reply" THEN {} ELSE {live.out}) :
          MotorTakes(Sends(s_od), seq, s_od.req, live.in, out)
     /\ UNCHANGED <<s_next_handle, s_cmd, held, dictionary, acked>>

(* The motor executes the request it holds and stages the answer. *)
MotorExecute(res) ==
  /\ inbox # NoMsg
  /\ LET req == inbox.req
     IN /\ dictionary' = IF res = "OK" /\ ~req.is_read
                         THEN [dictionary EXCEPT ![req.obj] = req.val]
                         ELSE dictionary
        /\ outbox' = [seq |-> inbox.seq, req |-> req, res |-> res,
                      data |-> IF res = "OK" /\ req.is_read
                               THEN dictionary[req.obj] ELSE Unknown]
  /\ inbox' = NoMsg
  /\ UNCHANGED <<master, held, acked>>

-----------------------------------------------------------------------------
(* cia402_init; the rest of s_od is zero and never read while IDLE. *)
Init ==
  /\ s_sequence = 0
  /\ s_next_handle = 1
  /\ s_od \in [state : {"IDLE"}, handle : {0},
               req : [is_read : {TRUE}, obj : Objects, val : {Unknown}],
               req_seq : {0}, ttl : {0}, res : {"OK"}, data : {Unknown}]
  /\ s_cmd \in Commands
  /\ s_tx = [kind |-> "cyclic", seq |-> 0, cmd |-> s_cmd]
  /\ held = [c \in Clients |-> 0]
  /\ inbox = NoMsg /\ outbox = NoMsg
  /\ dictionary \in [Objects -> Values]
  /\ acked = [o \in Objects |-> Unknown]

TickAny == \E gap \in 1 .. MaxGap, rx \in {"reply", "status", "bad"} : Tick(gap, rx)

Next ==
  \/ \E c \in Clients, o \in Objects : ReadBegin(c, o)
  \/ \E c \in Clients, o \in Objects, v \in Values : WriteBegin(c, o, v)
  \/ \E c \in Clients : Poll(c)
  \/ \E cmd \in Commands : SetCyclicCmd(cmd)
  \/ TickAny
  \/ \E res \in {"OK", "ERR"} : MotorExecute(res)

Spec == Init /\ [][Next]_vars

(* main_loop_run calls cia402_tick and every client's tick on each pass. *)
FairSpec == Spec /\ WF_vars(TickAny) /\ \A c \in Clients : WF_vars(Poll(c))

-----------------------------------------------------------------------------
(* Properties *)

(* What axis_manager keeps as "applied" after an OK write is what the      *)
(* motor holds, whatever was lost, late or timed out before: a reply never *)
(* acknowledges another request than its own, and no request the master    *)
(* gave up on takes effect behind a newer acknowledged one.                *)
AckedIsStored ==
  \A o \in Objects : acked[o] # Unknown => dictionary[o] = acked[o]

(* A read that completes OK carries the value the motor holds now, never   *)
(* another entry's value nor one left over from a write's reply.           *)
ReadIsCurrent ==
  s_od.state = "COMPLETE" /\ s_od.res = "OK" /\ s_od.req.is_read
    => s_od.data = dictionary[s_od.req.obj]

(* The slot is busy exactly when one client waits on its handle: no client *)
(* waits on a handle that poll will never match, no two clients wait on    *)
(* the same one, and a busy slot has somebody who will free it.            *)
SlotHasOneHolder ==
  /\ \A c \in Clients : held[c] # 0 => s_od.state # "IDLE" /\ s_od.handle = held[c]
  /\ \A c, d \in Clients : held[c] # 0 /\ held[d] # 0 => c = d
  /\ s_od.state # "IDLE" => \E c \in Clients : held[c] # 0

(* The motor's dead-man is fed under any OD load: the frame after an OD    *)
(* request is a cyclic command, and it carries the command set last.       *)
CyclicFollowsOd ==
  [][s_tx.kind = "od" /\ s_sequence' # s_sequence
       => s_tx'.kind = "cyclic" /\ s_tx'.cmd = s_cmd]_vars

(* A request that was accepted is answered or times out, and its client    *)
(* gets to know: the pipeline does not wedge on a lost frame.              *)
EveryRequestEnds ==
  \A c \in Clients : held[c] # 0 ~> held[c] = 0

-----------------------------------------------------------------------------
(* The inductive invariant behind AckedIsStored, ReadIsCurrent and         *)
(* SlotHasOneHolder: what is under way between master and motor.           *)

Current(m) == m # NoMsg /\ Answers(m, s_od)

(* The write req, or the read req with its data, agrees with the motor. *)
Stored(req, data) ==
  dictionary[req.obj] = IF req.is_read THEN data ELSE req.val

(* Messages under way are young enough not to meet their sequence number   *)
(* again, and one with the awaited number is the awaited request's.        *)
MessagesAreOwn ==
  /\ inbox # NoMsg => Alive(inbox, s_sequence)
  /\ outbox # NoMsg => Alive(outbox, s_sequence)
  /\ Current(inbox) => inbox.req = s_od.req
  /\ Current(outbox) /\ outbox.res = "OK" => outbox.req = s_od.req

(* Once the motor answered OK it has nothing left to do, and what it       *)
(* answered stays true until the answer is collected.                      *)
AnswersHold ==
  /\ Current(outbox) /\ outbox.res = "OK" => inbox = NoMsg /\ Stored(s_od.req, outbox.data)
  /\ s_od.state = "COMPLETE" /\ s_od.res = "OK" => inbox = NoMsg /\ Stored(s_od.req, s_od.data)

(* A write that may still take effect is not vouched for by acked. *)
OpenWritesUnacked ==
  /\ s_od.state # "IDLE" /\ ~s_od.req.is_read => acked[s_od.req.obj] = Unknown
  /\ inbox # NoMsg /\ ~inbox.req.is_read => acked[inbox.req.obj] = Unknown

(* The answer to the frame just sent is still to come. *)
OdFrameIsAwaited ==
  s_tx.kind = "od" => s_od.state = "AWAITING" /\ s_od.req_seq = s_sequence

(* No message under way in either direction can be mistaken for another    *)
(* request's, nor undo what was acknowledged: inductive for cia402_tick.   *)
PipelineInv ==
  /\ TypeOK
  /\ SlotHasOneHolder
  /\ MessagesAreOwn
  /\ AnswersHold
  /\ OpenWritesUnacked
  /\ OdFrameIsAwaited
  /\ AckedIsStored

-----------------------------------------------------------------------------
(* Refinement of OdService *)

Phase ==
  CASE s_od.state = "REQ_PENDING" -> "open"
    [] s_od.state = "AWAITING" /\ Current(inbox) -> "open"
    [] s_od.state = "AWAITING" /\ Current(outbox) /\ outbox.res = "OK" -> "effective"
    [] s_od.state = "COMPLETE" /\ s_od.res = "OK" -> "ok"
    [] s_od.state = "COMPLETE" /\ s_od.res # "OK" -> "failed"
    [] OTHER -> "mute"

(* The request that may still take effect though nobody waits for it. *)
Late == IF inbox = NoMsg \/ Current(inbox) THEN {} ELSE {inbox.req}

Holder == CHOOSE c \in Clients : held[c] = s_od.handle

Data ==
  CASE Phase = "effective" -> outbox.data
    [] Phase = "ok" -> s_od.data
    [] OTHER -> Unknown

Served ==
  IF s_od.state = "IDLE" THEN [phase |-> "free"]
  ELSE [phase |-> Phase, client |-> Holder, req |-> s_od.req, data |-> Data]

Service == INSTANCE OdService WITH store <- dictionary, late <- Late, slot <- Served

(* cia402 implements the promise its header makes to its users. *)
ImplementsOdService == Service!Spec
=============================================================================
