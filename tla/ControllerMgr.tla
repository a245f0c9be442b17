---------------------------- MODULE ControllerMgr ----------------------------
(***************************************************************************)
(* app/controller_mgr with the selection of app/cmc_state: the panels that *)
(* POLL the CMC, the one outbound connection on which their POLLs are      *)
(* answered in turn, the commands by which they claim the camera, and the  *)
(* time-out by which a panel that is silent loses it.                      *)
(*                                                                         *)
(* Panel k is the one whose address is configured for slot k, and k is its *)
(* device number.  The panels POLL once a second, so that no POLL comes in *)
(* the one pass between the end of a connection and the start of the next. *)
(***************************************************************************)
EXTENDS Integers, FiniteSetsExt

CONSTANTS
  CMC_CONTROLLERS,  \* slots for panels (2)
  Unreachable,      \* panels that take no connection, though their POLLs come
  OpenFails,        \* whether opening the socket may fail at once
  PollFirst,        \* whether a panel sends commands only after a POLL
  MaxTrouble        \* bound: connections refused, broken or slow, and deaths
                    \* and returns of panels

Slots == 1 .. CMC_CONTROLLERS
None  == 0

ASSUME ConstantsAssumption ==
  /\ CMC_CONTROLLERS \in Nat \ {0}
  /\ Unreachable \subseteq Slots
  /\ OpenFails \in BOOLEAN /\ PollFirst \in BOOLEAN
  /\ MaxTrouble \in Nat

VARIABLES
  pc,                      \* the next step of controller_mgr_tick
  in_use, pending_poll_response, conn,   \* controller_t, for each slot
  old,                     \* slots not heard of for CONTROLLER_TIMEOUT_MS
  s_outbound_owner_idx, overdue,         \* CONNECT_TIMEOUT_MS is over
  sock,                    \* the socket: its state and the panel at its end
  s_selected_by,           \* cmc_state; None while ~s_selected
  enable_latch,            \* axis_manager
  alive,                   \* the panels that POLL
  trouble                  \* bound: troubles still to come

panels    == <<in_use, pending_poll_response, old>>
outbound  == <<conn, s_outbound_owner_idx, overdue>>
selection == <<s_selected_by, enable_latch>>
vars == <<pc, panels, outbound, sock, selection, alive, trouble>>

Spend == trouble > 0 /\ trouble' = trouble - 1

At(step, next) == pc = step /\ pc' = next

-----------------------------------------------------------------------------
(* service_poll_socket: handle_poll *)

Poll(k) ==
  /\ pc = "poll" /\ k \in alive
  /\ s_outbound_owner_idx # None \/ pending_poll_response = {}
  /\ pc' = "outbound"
  /\ in_use' = in_use \union {k}
  /\ pending_poll_response' = pending_poll_response \union {k}
  /\ old' = old \ {k}
  /\ UNCHANGED <<outbound, sock, selection, alive, trouble>>

NoPoll ==
  /\ At("poll", "outbound")
  /\ UNCHANGED <<panels, outbound, sock, selection, alive, trouble>>

-----------------------------------------------------------------------------
(* service_outbound_tcp *)

Closed == [state |-> "closed", peer |-> None]

(* release_outbound *)
ReleaseOutbound ==
  /\ sock' = Closed
  /\ conn' = [k \in Slots |-> IF k = s_outbound_owner_idx THEN "IDLE" ELSE conn[k]]
  /\ s_outbound_owner_idx' = None
  /\ overdue' = FALSE

Waiting == in_use \intersect pending_poll_response

Opened == IF OpenFails THEN BOOLEAN ELSE {TRUE}

(* the scan in the order of the slots *)
FirstWaiting == Min(Waiting)

(* start_outbound_tcp; when it fails, the panel stays the owner. *)
Acquire ==
  /\ s_outbound_owner_idx = None /\ Waiting # {}
  /\ LET k == FirstWaiting
     IN /\ s_outbound_owner_idx' = k
        /\ \E ok \in Opened :
             /\ conn' = [conn EXCEPT ![k] = IF ok THEN "CONNECTING" ELSE "IDLE"]
             /\ sock' = IF ok THEN [state |-> "opening", peer |-> k] ELSE Closed
  /\ UNCHANGED <<panels, overdue, trouble>>

Owner == s_outbound_owner_idx

Connecting == Owner # None /\ conn[Owner] = "CONNECTING"

StillWaiting_All == pending_poll_response

StillWaiting == pending_poll_response \ {Owner}

(* The POLL is answered in the pass that finds the connection established, *)
(* so that no pass begins with conn at CONN_ESTABLISHED.                   *)
Answer ==
  /\ Connecting /\ sock.state = "up"
  /\ pending_poll_response' = StillWaiting
  /\ ReleaseOutbound
  /\ UNCHANGED <<in_use, old, trouble>>

SendFails ==
  /\ Connecting /\ sock.state = "up"
  /\ Spend
  /\ ReleaseOutbound
  /\ UNCHANGED panels

(* The POLL is not dropped: it waits for the next connection. *)
ConnectTimesOut ==
  /\ Connecting /\ sock.state # "up" /\ overdue
  /\ ReleaseOutbound
  /\ UNCHANGED <<panels, trouble>>

(* What a failed start_outbound_tcp leaves: an owner that does nothing. *)
OpenFailed == Owner # None /\ conn[Owner] = "IDLE"

NothingToDo ==
  /\ \/ Owner = None /\ Waiting = {}
     \/ OpenFailed
     \/ Connecting /\ sock.state # "up" /\ ~overdue
  /\ UNCHANGED <<panels, outbound, sock, trouble>>

ServiceOutbound ==
  /\ At("outbound", "listen")
  /\ Acquire \/ Answer \/ SendFails \/ ConnectTimesOut \/ NothingToDo
  /\ UNCHANGED <<selection, alive>>

-----------------------------------------------------------------------------
(* service_tcp_listener: handle_command, as far as the selection goes *)

CommandFrom(k) ==
  /\ pc = "listen" /\ k \in alive
  /\ PollFirst => k \in in_use
  /\ UNCHANGED <<pc, panels, outbound, sock, alive, trouble>>

(* cmc_state_handle_select; a denied one changes nothing. *)
Select(k) ==
  /\ CommandFrom(k)
  /\ s_selected_by \in {None, k}
  /\ s_selected_by' = k
  /\ enable_latch' = TRUE

Deselect(k) ==
  /\ CommandFrom(k)
  /\ s_selected_by = k
  /\ s_selected_by' = None
  /\ UNCHANGED enable_latch

Grab(k) ==
  /\ CommandFrom(k)
  /\ s_selected_by' = k
  /\ enable_latch' = TRUE

ListenEnds ==
  /\ At("listen", "timeouts")
  /\ UNCHANGED <<panels, outbound, sock, selection, alive, trouble>>

-----------------------------------------------------------------------------
(* check_controller_timeouts *)

Evicted_Waiting == Waiting \intersect old

Evicted == in_use \intersect old

Deselected_Always(gone) == None

Deselected_Never(gone) == s_selected_by

(* cmc_state_force_deselect: the owner's time-out, and no other's. *)
Deselected(gone) == IF s_selected_by \in gone THEN None ELSE s_selected_by

Released_Kept(gone) == Owner

Released(gone) == IF Owner \in gone THEN None ELSE Owner

CheckTimeouts ==
  /\ At("timeouts", "poll")
  /\ in_use' = in_use \ Evicted
  /\ old' = old \ Evicted
  /\ pending_poll_response' = pending_poll_response \ Evicted
  /\ s_selected_by' = Deselected(Evicted)
  /\ enable_latch' = (enable_latch /\ s_selected_by' = s_selected_by)
  /\ s_outbound_owner_idx' = Released(Evicted)
  /\ conn' = [k \in Slots |-> IF k \in Evicted THEN "IDLE" ELSE conn[k]]
  /\ overdue' = (overdue /\ Owner \notin Evicted)
  /\ sock' = IF Owner \in Evicted THEN Closed ELSE sock
  /\ UNCHANGED <<alive, trouble>>

-----------------------------------------------------------------------------
(* Panels, network, time, and the PC tool *)

Elsewhere == UNCHANGED <<pc, in_use, pending_poll_response>>

Dies(k) ==
  /\ Elsewhere /\ k \in alive /\ Spend
  /\ alive' = alive \ {k}
  /\ UNCHANGED <<old, outbound, sock, selection>>

Returns(k) ==
  /\ Elsewhere /\ k \notin alive /\ Spend
  /\ alive' = alive \union {k}
  /\ UNCHANGED <<old, outbound, sock, selection>>

(* CONTROLLER_TIMEOUT_MS without a POLL *)
Silence(k) ==
  /\ Elsewhere /\ k \in in_use \ (alive \union old)
  /\ old' = old \union {k}
  /\ UNCHANGED <<outbound, sock, selection, alive, trouble>>

NetUp ==
  /\ Elsewhere /\ sock.state = "opening" /\ sock.peer \in alive \ Unreachable
  /\ sock' = [sock EXCEPT !.state = "up"]
  /\ UNCHANGED <<old, outbound, selection, alive, trouble>>

NetDown ==
  /\ Elsewhere /\ sock.state \in {"opening", "up"} /\ Spend
  /\ sock' = [sock EXCEPT !.state = "down"]
  /\ UNCHANGED <<old, outbound, selection, alive>>

(* CONNECT_TIMEOUT_MS; a panel that answers does so earlier. *)
ConnectAges ==
  /\ Elsewhere /\ Connecting /\ sock.state # "up" /\ ~overdue
  /\ overdue' = TRUE
  /\ IF sock.state = "opening" /\ sock.peer \in alive \ Unreachable
     THEN Spend ELSE UNCHANGED trouble
  /\ UNCHANGED <<old, conn, s_outbound_owner_idx, sock, selection, alive>>

ToolEnables(on) ==
  /\ Elsewhere
  /\ enable_latch' = on
  /\ UNCHANGED <<old, outbound, sock, s_selected_by, alive, trouble>>

-----------------------------------------------------------------------------
Init ==
  /\ pc = "poll"
  /\ in_use = {} /\ pending_poll_response = {} /\ old = {}
  /\ conn = [k \in Slots |-> "IDLE"]
  /\ s_outbound_owner_idx = None /\ overdue = FALSE
  /\ sock = Closed
  /\ s_selected_by = None /\ enable_latch = FALSE
  /\ alive \in SUBSET Slots
  /\ trouble = MaxTrouble

Command == \E k \in Slots : Select(k) \/ Deselect(k) \/ Grab(k)

Tick == (\E k \in Slots : Poll(k)) \/ NoPoll \/ ServiceOutbound \/ ListenEnds \/ CheckTimeouts

Next ==
  \/ Tick \/ Command
  \/ \E k \in Slots : Dies(k) \/ Returns(k) \/ Silence(k)
  \/ NetUp \/ NetDown \/ ConnectAges
  \/ \E on \in BOOLEAN : ToolEnables(on)

Spec == Init /\ [][Next]_vars

(* The super-loop goes round, time passes, and a panel that can be reached *)
(* takes the connection.                                                   *)
Fairness ==
  /\ WF_vars(Tick) /\ SF_vars(pc = "outbound" /\ Answer /\ ServiceOutbound)
  /\ WF_vars(NetUp) /\ WF_vars(ConnectAges)
  /\ \A k \in Slots : WF_vars(Silence(k))

FairSpec == Spec /\ Fairness

-----------------------------------------------------------------------------
(* Properties *)

(* Every variable stays in its range. *)
TypeOK ==
  /\ pc \in {"poll", "outbound", "listen", "timeouts"}
  /\ in_use \in SUBSET Slots /\ pending_poll_response \in SUBSET Slots
  /\ old \in SUBSET Slots /\ conn \in [Slots -> {"IDLE", "CONNECTING"}]
  /\ s_outbound_owner_idx \in Slots \union {None} /\ overdue \in BOOLEAN
  /\ sock \in {Closed} \union [state : {"opening", "up", "down"}, peer : Slots]
  /\ s_selected_by \in Slots \union {None} /\ enable_latch \in BOOLEAN
  /\ alive \in SUBSET Slots /\ trouble \in 0 .. MaxTrouble

(* The outbound connection, its owner and the owner's state agree, so that *)
(* a panel gets the answers to its own POLLs: what eviction, time-out and  *)
(* failures must leave behind.                                             *)
OutboundIsTheOwners ==
  /\ \A k \in Slots : conn[k] # "IDLE" => Owner = k
  /\ Connecting <=> sock # Closed
  /\ sock # Closed => sock.peer = Owner
  /\ Owner # None => Owner \in Waiting

(* The slots of the panels and the socket they share stay in step.         *)
OutboundInv == TypeOK /\ OutboundIsTheOwners

(* A panel holds the camera only while its slot is in use, so that its     *)
(* silence is noticed: what eviction must undo, and a claim must not skip. *)
OwnerIsWatched == s_selected_by # None => s_selected_by \in in_use

(* Only a GRAB, which enables the drive, the owner's own DESELECT or the   *)
(* owner's time-out ends a selection, and only the time-out disables the   *)
(* drive: the eviction of one panel never takes the camera from the other. *)
SelectionEndsRightly ==
  [][s_selected_by # None /\ s_selected_by' # s_selected_by
       => \/ s_selected_by' # None /\ enable_latch'
          \/ s_selected_by \in alive /\ enable_latch' = enable_latch /\ UNCHANGED in_use
          \/ s_selected_by \in old /\ ~enable_latch']_vars

(* Every POLL is answered, or its panel is gone: both panels get their     *)
(* turns on the one connection.  Once a socket could not be opened the     *)
(* code promises nothing: its owner keeps the connection until evicted.    *)
PollsAnswered ==
  \A k \in Slots \ Unreachable :
    k \in pending_poll_response ~> (k \notin pending_poll_response \/ OpenFailed)

(* A panel that is gone does not keep the camera. *)
GoneOwnerLosesCamera ==
  \A k \in Slots : (k \notin alive /\ s_selected_by = k) ~> (k \in alive \/ s_selected_by # k)
=============================================================================
