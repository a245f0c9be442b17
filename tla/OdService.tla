----------------------------- MODULE OdService ------------------------------
(***************************************************************************)
(* What cia402.h promises to the users of the OD pipeline, with no wire,   *)
(* frames, sequence numbers, handles or clocks: one request at a time; a   *)
(* request that ends OK took effect after it was begun and nothing else    *)
(* took effect since; a request that ends otherwise may have taken effect, *)
(* or may still do so, but never behind a newer one's back.                *)
(***************************************************************************)
CONSTANTS Clients, Objects, Values, Unknown

VARIABLES
  store,   \* value of each entry
  slot,    \* the request in service: its client, request, phase and data
  late     \* requests given up on that may still take effect: at most one

vars == <<store, slot, late>>

Free    == [phase |-> "free"]
Request == [is_read : {TRUE}, obj : Objects, val : {Unknown}]
           \union [is_read : {FALSE}, obj : Objects, val : Values]

Put(req) == IF req.is_read THEN store ELSE [store EXCEPT ![req.obj] = req.val]

Init ==
  /\ store \in [Objects -> Values]
  /\ slot = Free
  /\ late = {}

Opened(c, req) == [phase |-> "open", client |-> c, req |-> req, data |-> Unknown]

Begin(c, req) ==
  /\ slot = Free
  /\ slot' = Opened(c, req)
  /\ UNCHANGED <<store, late>>

(* An older request may be lost for good in any step. *)
Forget == late' \in {{}, late}

(* The request takes effect, and older ones lose their chance to. *)
TakeEffect ==
  /\ slot # Free /\ slot.phase = "open"
  /\ store' = Put(slot.req)
  /\ slot' = [slot EXCEPT !.phase = "effective",
                !.data = IF slot.req.is_read THEN store[slot.req.obj] ELSE Unknown]
  /\ late' = {}

(* The request or its answer is lost: nothing but giving up is left. *)
Lose ==
  /\ slot # Free /\ slot.phase \in {"open", "effective"}
  /\ slot' = [slot EXCEPT !.phase = "mute", !.data = Unknown]
  /\ Forget
  /\ UNCHANGED store

Succeed ==
  /\ slot # Free /\ slot.phase = "effective"
  /\ slot' = [slot EXCEPT !.phase = "ok"]
  /\ UNCHANGED <<store, late>>

(* A request given up on while under way may take effect later. *)
GiveUp ==
  /\ slot # Free /\ slot.phase \in {"open", "effective", "mute"}
  /\ slot' = [slot EXCEPT !.phase = "failed", !.data = Unknown]
  /\ \/ Forget
     \/ slot.phase = "open" /\ late' = {slot.req}
  /\ UNCHANGED store

Collect(c) ==
  /\ slot # Free /\ slot.phase \in {"ok", "failed"} /\ slot.client = c
  /\ slot' = Free
  /\ UNCHANGED <<store, late>>

LateEffect ==
  /\ late # {}
  /\ \E req \in late : store' = Put(req)
  /\ late' = {}
  /\ UNCHANGED slot

LateLost ==
  /\ late' = {}
  /\ UNCHANGED <<store, slot>>

Next ==
  \/ \E c \in Clients, req \in Request : Begin(c, req)
  \/ TakeEffect \/ Lose \/ Succeed \/ GiveUp \/ LateEffect \/ LateLost
  \/ \E c \in Clients : Collect(c)

Spec == Init /\ [][Next]_vars
=============================================================================
