------------------------ MODULE ControllerMgrProofs ------------------------
(***************************************************************************)
(* Theorems about app/controller_mgr for every number of slots, whichever  *)
(* panels take connections, and any number of troubles.                    *)
(***************************************************************************)
EXTENDS ControllerMgr, FiniteSetTheorems, WellFoundedInduction, TLAPS

(* The scan of the slots finds the first one: what Min chooses exists.     *)
(* The set with the fewest predecessors is found in the well-founded order *)
(* of finite sets.                                                         *)
LEMMA FirstExists ==
  ASSUME NEW T, T \subseteq Slots, T # {}
  PROVE  \E m \in T : \A k \in T : m =< k
<1> DEFINE UpTo(k) == {j \in T : j =< k}
           Family  == {UpTo(k) : k \in T}
<1>1. Slots \subseteq Int /\ IsFiniteSet(Slots)
  BY FS_Interval, ConstantsAssumption DEF Slots
<1>2. Family \subseteq FiniteSubsetsOf(Slots)
  <2>1. \A k \in T : UpTo(k) \in SUBSET Slots
    OBVIOUS
  <2>2. \A k \in T : UpTo(k) \in FiniteSubsetsOf(Slots)
    BY <1>1, <2>1, FS_FiniteSubsetsOfFinite
  <2> QED  BY <2>2
<1>3. PICK F \in Family : \A G \in Family : <<G, F>> \notin StrictSubsetOrdering(Slots)
  <2>1. Family # {}
    OBVIOUS
  <2> HIDE DEF Family
  <2> QED  BY <1>2, <2>1, FS_StrictSubsetOrderingWellFounded, WFMin
<1>4. PICK m \in T : F = UpTo(m)
  OBVIOUS
<1>5. ASSUME NEW k \in T PROVE m =< k
  <2> SUFFICES ASSUME k < m PROVE FALSE
    BY <1>1
  <2>1. UpTo(k) \subseteq UpTo(m)
    <3> SUFFICES ASSUME NEW j \in T, j =< k PROVE j =< m
      OBVIOUS
    <3>1. j \in Int /\ k \in Int /\ m \in Int
      BY <1>1
    <3> QED  BY <3>1
  <2>2. UpTo(k) # UpTo(m)
    BY <1>1
  <2>3. <<UpTo(k), UpTo(m)>> \in StrictSubsetOrdering(Slots)
    BY <2>1, <2>2 DEF StrictSubsetOrdering
  <2> QED  BY <1>3, <1>4, <2>3
<1> QED  BY <1>5

LEMMA FirstWaitingWaits ==
  ASSUME TypeOK, Waiting # {}
  PROVE  FirstWaiting \in Waiting /\ FirstWaiting \in Slots
<1>1. Waiting \subseteq Slots
  BY DEF Waiting, TypeOK
<1>2. \E m \in Waiting : \A k \in Waiting : m =< k
  BY <1>1, FirstExists
<1>3. Min(Waiting) \in Waiting
  BY <1>2, Zenon DEF Min
<1> QED  BY <1>1, <1>3 DEF FirstWaiting

-----------------------------------------------------------------------------
(* The outbound connection *)

LEMMA InitOutbound == Init => OutboundInv
<1> SUFFICES ASSUME Init PROVE OutboundInv
  OBVIOUS
<1>1. None \notin Slots
  BY ConstantsAssumption DEF None, Slots
<1>2. overdue \in BOOLEAN /\ enable_latch \in BOOLEAN
  BY Zenon DEF Init
<1>3. trouble \in 0 .. MaxTrouble /\ conn \in [Slots -> {"IDLE", "CONNECTING"}]
  BY ConstantsAssumption DEF Init
<1>4. TypeOK
  BY <1>2, <1>3 DEF Init, TypeOK
<1>5. OutboundIsTheOwners
  BY <1>1 DEF Init, OutboundIsTheOwners, Connecting, Owner, Closed
<1> QED  BY <1>4, <1>5 DEF OutboundInv

(* What a step leaves that does not touch the connection.                  *)
LEMMA AsideKeeps ==
  ASSUME OutboundInv, UNCHANGED <<outbound, sock>>,
         Waiting \subseteq Waiting'
  PROVE  OutboundIsTheOwners'
<1>1. Owner' = Owner /\ Connecting' = Connecting /\ conn' = conn /\ sock' = sock
  BY DEF Owner, Connecting, outbound
<1> QED  BY <1>1 DEF OutboundInv, OutboundIsTheOwners

(* The end of a connection leaves no owner, no socket and no panel that    *)
(* believes it is connected.                                               *)
LEMMA ReleaseKeeps ==
  ASSUME OutboundInv, ReleaseOutbound
  PROVE  /\ OutboundIsTheOwners'
         /\ conn' \in [Slots -> {"IDLE", "CONNECTING"}] /\ sock' = Closed
         /\ s_outbound_owner_idx' = None /\ overdue' \in BOOLEAN
<1>1. /\ sock' = Closed /\ s_outbound_owner_idx' = None
      /\ conn' = [k \in Slots |-> IF k = s_outbound_owner_idx THEN "IDLE" ELSE conn[k]]
  BY DEF ReleaseOutbound
<1>2. overdue' \in BOOLEAN
  BY Zenon DEF ReleaseOutbound
<1>3. conn \in [Slots -> {"IDLE", "CONNECTING"}]
      /\ \A k \in Slots : conn[k] # "IDLE" => s_outbound_owner_idx = k
  BY DEF OutboundInv, TypeOK, OutboundIsTheOwners, Owner
<1>4. \A k \in Slots : conn'[k] = "IDLE"
  BY <1>1, <1>3
<1>5. ~Connecting'
  BY <1>1 DEF Connecting, Owner
<1>6. OutboundIsTheOwners'
  BY <1>1, <1>4, <1>5 DEF OutboundIsTheOwners, Owner
<1> QED  BY <1>1, <1>2, <1>3, <1>6

LEMMA ServiceKeeps ==
  ASSUME OutboundInv, ServiceOutbound
  PROVE  OutboundInv'
<1> USE DEF OutboundInv
<1>1. pc' = "listen" /\ UNCHANGED <<selection, alive>>
  BY DEF ServiceOutbound, At
<1>2. CASE Acquire
  <2> DEFINE k == FirstWaiting
  <2>1. k \in Waiting /\ k \in Slots /\ k # None
    BY <1>2, FirstWaitingWaits, ConstantsAssumption DEF Acquire, Slots, None
  <2>2. PICK ok \in Opened :
          /\ conn' = [conn EXCEPT ![k] = IF ok THEN "CONNECTING" ELSE "IDLE"]
          /\ sock' = IF ok THEN [state |-> "opening", peer |-> k] ELSE Closed
    BY <1>2 DEF Acquire
  <2>3. s_outbound_owner_idx = None /\ s_outbound_owner_idx' = k /\ UNCHANGED <<panels, overdue, trouble>>
    BY <1>2 DEF Acquire
  <2> HIDE DEF k
  <2>4. \A j \in Slots : conn[j] = "IDLE"
    BY <2>3, ConstantsAssumption DEF OutboundIsTheOwners, Owner, Slots, None
  <2>5. conn \in [Slots -> {"IDLE", "CONNECTING"}]
    BY DEF TypeOK
  <2>6. conn' \in [Slots -> {"IDLE", "CONNECTING"}]
        /\ conn'[k] = (IF ok THEN "CONNECTING" ELSE "IDLE")
        /\ \A j \in Slots : j # k => conn'[j] = "IDLE"
    BY <2>1, <2>2, <2>4, <2>5
  <2>7. sock' \in {Closed} \union [state : {"opening", "up", "down"}, peer : Slots]
    BY <2>1, <2>2
  <2>8. TypeOK'
    BY <1>1, <2>1, <2>3, <2>6, <2>7 DEF TypeOK, panels, selection
  <2>9. /\ Waiting' = Waiting
        /\ Connecting' <=> conn'[k] = "CONNECTING"
    BY <2>1, <2>3 DEF Waiting, panels, Connecting, Owner
  <2>10. OutboundIsTheOwners'
    BY <2>1, <2>2, <2>3, <2>6, <2>9 DEF OutboundIsTheOwners, Owner, Closed
  <2> QED  BY <2>8, <2>10
<1>3. CASE Answer
  <2>1. ReleaseOutbound /\ UNCHANGED <<in_use, old, trouble>>
        /\ pending_poll_response' \in SUBSET Slots
    BY <1>3 DEF Answer, StillWaiting, TypeOK
  <2>2. TypeOK'
    BY <1>1, <2>1, ReleaseKeeps DEF TypeOK, selection
  <2> QED  BY <2>1, <2>2, ReleaseKeeps
<1>4. CASE SendFails
  <2>1. ReleaseOutbound /\ UNCHANGED panels /\ trouble' \in 0 .. MaxTrouble
    BY <1>4, ConstantsAssumption DEF SendFails, Spend, TypeOK
  <2>2. TypeOK'
    BY <1>1, <2>1, ReleaseKeeps DEF TypeOK, selection, panels
  <2> QED  BY <2>1, <2>2, ReleaseKeeps
<1>5. CASE ConnectTimesOut
  <2>1. ReleaseOutbound /\ UNCHANGED <<panels, trouble>>
    BY <1>5 DEF ConnectTimesOut
  <2>2. TypeOK'
    BY <1>1, <2>1, ReleaseKeeps DEF TypeOK, selection, panels
  <2> QED  BY <2>1, <2>2, ReleaseKeeps
<1>6. CASE NothingToDo
  <2>1. UNCHANGED <<panels, outbound, sock, trouble>>
    BY <1>6 DEF NothingToDo
  <2>2. TypeOK'
    BY <1>1, <2>1 DEF TypeOK, selection, panels, outbound
  <2>3. Waiting' = Waiting
    BY <2>1 DEF Waiting, panels
  <2> QED  BY <2>1, <2>2, <2>3, AsideKeeps
<1> QED  BY <1>2, <1>3, <1>4, <1>5, <1>6 DEF ServiceOutbound

(* An eviction takes the panel's connection down with its slot.            *)
LEMMA TimeoutsKeep ==
  ASSUME OutboundInv, CheckTimeouts
  PROVE  OutboundInv'
<1> USE DEF OutboundInv
<1>1. /\ in_use' = in_use \ Evicted /\ old' = old \ Evicted
      /\ pending_poll_response' = pending_poll_response \ Evicted
      /\ s_selected_by' = Deselected(Evicted)
      /\ s_outbound_owner_idx' = Released(Evicted)
      /\ conn' = [k \in Slots |-> IF k \in Evicted THEN "IDLE" ELSE conn[k]]
      /\ sock' = IF Owner \in Evicted THEN Closed ELSE sock
      /\ pc' = "poll" /\ UNCHANGED <<alive, trouble>>
  BY DEF CheckTimeouts, At
<1>2. enable_latch' \in BOOLEAN /\ overdue' \in BOOLEAN
  BY Zenon DEF CheckTimeouts
<1>3. conn' \in [Slots -> {"IDLE", "CONNECTING"}]
      /\ \A k \in Slots : conn'[k] = IF k \in Evicted THEN "IDLE" ELSE conn[k]
  BY <1>1 DEF TypeOK
<1>4. TypeOK'
  BY <1>1, <1>2, <1>3 DEF TypeOK, Deselected, Released, Owner
<1>5. Waiting' = Waiting \ Evicted
  BY <1>1 DEF Waiting
<1>6. None \notin Evicted
  BY ConstantsAssumption DEF Evicted, TypeOK, Slots, None
<1>7. CASE Owner \in Evicted
  <2>1. Owner' = None /\ sock' = Closed
    BY <1>1, <1>7 DEF Owner, Released
  <2>2. \A k \in Slots : conn'[k] = "IDLE"
    BY <1>3, <1>7 DEF OutboundIsTheOwners
  <2> QED  BY <1>4, <2>1, <2>2 DEF OutboundIsTheOwners, Connecting
<1>8. CASE Owner \notin Evicted
  <2>1. Owner' = Owner /\ sock' = sock
    BY <1>1, <1>8 DEF Owner, Released
  <2>2. Owner # None => Owner \in Slots
    BY DEF TypeOK, Owner
  <2>3. Connecting' <=> Connecting
    BY <1>3, <1>8, <2>1, <2>2 DEF Connecting
  <2> QED  BY <1>3, <1>4, <1>5, <1>8, <2>1, <2>2, <2>3 DEF OutboundIsTheOwners
<1> QED  BY <1>7, <1>8

LEMMA NextOutbound == OutboundInv /\ [Next]_vars => OutboundInv'
<1> SUFFICES ASSUME OutboundInv, [Next]_vars PROVE OutboundInv'
  OBVIOUS
<1> USE DEF OutboundInv
<1>1. ASSUME NEW k \in Slots, Poll(k) PROVE OutboundInv'
  <2>1. TypeOK'
    BY <1>1 DEF Poll, TypeOK, outbound, selection
  <2>2. Waiting \subseteq Waiting'
    BY <1>1 DEF Poll, Waiting
  <2> QED  BY <1>1, <2>1, <2>2, AsideKeeps DEF Poll
<1>2. ASSUME NoPoll \/ ListenEnds \/ UNCHANGED vars PROVE OutboundInv'
  <2>1. UNCHANGED <<panels, outbound, sock, selection, alive, trouble>>
        /\ pc' \in {"poll", "outbound", "listen", "timeouts"}
    BY <1>2 DEF NoPoll, ListenEnds, At, vars, TypeOK
  <2>2. TypeOK' /\ Waiting' = Waiting
    BY <2>1 DEF TypeOK, panels, outbound, selection, Waiting
  <2> QED  BY <2>1, <2>2, AsideKeeps
<1>3. ASSUME ServiceOutbound PROVE OutboundInv'
  BY <1>3, ServiceKeeps
<1>4. ASSUME CheckTimeouts PROVE OutboundInv'
  BY <1>4, TimeoutsKeep
<1>5. ASSUME NEW k \in Slots, Select(k) \/ Deselect(k) \/ Grab(k) PROVE OutboundInv'
  <2>1. enable_latch' \in BOOLEAN
    <3>1. CASE Deselect(k)
      BY <3>1 DEF Deselect, TypeOK
    <3>2. CASE Select(k) \/ Grab(k)
      BY <3>2, Zenon DEF Select, Grab
    <3> QED  BY <1>5, <3>1, <3>2
  <2>2. UNCHANGED <<pc, panels, outbound, sock, alive, trouble>>
        /\ s_selected_by' \in Slots \union {None}
    BY <1>5 DEF Select, Deselect, Grab, CommandFrom
  <2>3. TypeOK' /\ Waiting' = Waiting
    BY <2>1, <2>2 DEF TypeOK, panels, outbound, Waiting
  <2> QED  BY <2>2, <2>3, AsideKeeps
<1>6. ASSUME NEW k \in Slots, Dies(k) \/ Returns(k) \/ Silence(k) PROVE OutboundInv'
  <2>1. /\ UNCHANGED <<pc, in_use, pending_poll_response, outbound, sock, selection>>
        /\ old' \in SUBSET Slots /\ alive' \in SUBSET Slots
    BY <1>6 DEF Dies, Returns, Silence, Elsewhere, TypeOK
  <2>2. trouble' \in 0 .. MaxTrouble
    BY <1>6, ConstantsAssumption DEF Dies, Returns, Silence, Spend, TypeOK
  <2>3. TypeOK' /\ Waiting' = Waiting
    BY <2>1, <2>2 DEF TypeOK, outbound, selection, Waiting
  <2> QED  BY <2>1, <2>3, AsideKeeps
<1>7. ASSUME NetUp \/ NetDown PROVE OutboundInv'
  <2>1. UNCHANGED <<pc, in_use, pending_poll_response, old, outbound, selection, alive>>
        /\ \E s \in {"up", "down"} : sock' = [sock EXCEPT !.state = s]
    BY <1>7 DEF NetUp, NetDown, Elsewhere
  <2>2. trouble' \in 0 .. MaxTrouble
    BY <1>7, ConstantsAssumption DEF NetUp, NetDown, Spend, TypeOK
  <2>3. sock # Closed /\ sock \in [state : {"opening", "up", "down"}, peer : Slots]
    BY <1>7 DEF NetUp, NetDown, TypeOK, Closed
  <2>4. sock' \in [state : {"opening", "up", "down"}, peer : Slots] /\ sock'.peer = sock.peer
        /\ sock' # Closed
    BY <2>1, <2>3 DEF Closed
  <2>5. TypeOK'
    BY <2>1, <2>2, <2>4 DEF TypeOK, outbound, selection
  <2>6. Waiting' = Waiting /\ Connecting' = Connecting /\ Owner' = Owner
    BY <2>1 DEF Waiting, Connecting, Owner, outbound
  <2>7. OutboundIsTheOwners'
    BY <2>1, <2>3, <2>4, <2>6 DEF OutboundIsTheOwners, outbound
  <2> QED  BY <2>5, <2>7
<1>8. ASSUME ConnectAges PROVE OutboundInv'
  <2>1. UNCHANGED <<pc, in_use, pending_poll_response, old, conn, s_outbound_owner_idx, sock,
                    selection, alive>>
    BY <1>8 DEF ConnectAges, Elsewhere
  <2>2. trouble' \in 0 .. MaxTrouble
    BY <1>8, ConstantsAssumption DEF ConnectAges, Spend, TypeOK
  <2>3. overdue' \in BOOLEAN
    BY <1>8, Zenon DEF ConnectAges
  <2>4. TypeOK'
    BY <2>1, <2>2, <2>3 DEF TypeOK, selection
  <2>5. OutboundIsTheOwners'
    BY <2>1 DEF OutboundIsTheOwners, Waiting, Connecting, Owner
  <2> QED  BY <2>4, <2>5
<1>9. ASSUME NEW on \in BOOLEAN, ToolEnables(on) PROVE OutboundInv'
  <2>1. UNCHANGED <<pc, in_use, pending_poll_response, old, outbound, sock, s_selected_by, alive, trouble>>
        /\ enable_latch' \in BOOLEAN
    BY <1>9 DEF ToolEnables, Elsewhere
  <2>2. TypeOK' /\ Waiting' = Waiting
    BY <2>1 DEF TypeOK, outbound, Waiting
  <2> QED  BY <2>1, <2>2, AsideKeeps
<1> QED  BY <1>1, <1>2, <1>3, <1>4, <1>5, <1>6, <1>7, <1>8, <1>9 DEF Next, Tick, Command

-----------------------------------------------------------------------------
(* The theorems *)

(* The panels' slots, the connection they share and its socket agree after *)
(* any sequence of POLLs, failures, time-outs and evictions.               *)
THEOREM OutboundCorrect == Spec => []OutboundInv
  BY InitOutbound, NextOutbound, PTL DEF Spec

(* Where a panel sends commands only after it has POLLed, the holder of    *)
(* the camera has a slot, so that check_controller_timeouts sees it go.    *)
THEOREM HolderIsWatched ==
  ASSUME PollFirst
  PROVE  Spec => []OwnerIsWatched
<1>1. Init => OwnerIsWatched
  BY DEF Init, OwnerIsWatched
<1>2. OwnerIsWatched /\ [Next]_vars => OwnerIsWatched'
  <2> SUFFICES ASSUME OwnerIsWatched, [Next]_vars PROVE OwnerIsWatched'
    OBVIOUS
  <2>1. CASE Command
    BY <2>1, PollFirst
       DEF Command, Select, Deselect, Grab, CommandFrom, panels, OwnerIsWatched
  <2>2. CASE CheckTimeouts
    BY <2>2 DEF CheckTimeouts, Deselected, OwnerIsWatched
  <2>3. CASE (\E k \in Slots : Poll(k)) \/ NoPoll \/ ServiceOutbound \/ ListenEnds
    <3>1. UNCHANGED selection /\ in_use \subseteq in_use'
      BY <2>3 DEF Poll, NoPoll, ServiceOutbound, ListenEnds, Acquire, Answer, SendFails,
         ConnectTimesOut, NothingToDo, panels
    <3> QED  BY <3>1 DEF OwnerIsWatched, selection
  <2>4. CASE \/ \E k \in Slots : Dies(k) \/ Returns(k) \/ Silence(k)
             \/ NetUp \/ NetDown \/ ConnectAges
             \/ \E on \in BOOLEAN : ToolEnables(on)
             \/ UNCHANGED vars
    <3>1. UNCHANGED <<s_selected_by, in_use>>
      BY <2>4 DEF Dies, Returns, Silence, NetUp, NetDown, ConnectAges, ToolEnables, Elsewhere,
         vars, panels, selection
    <3> QED  BY <3>1 DEF OwnerIsWatched
  <2> QED  BY <2>1, <2>2, <2>3, <2>4 DEF Next, Tick
<1> QED  BY <1>1, <1>2, PTL DEF Spec

(* cmc_state_force_deselect takes the camera from the panel that is evicted *)
(* and from no other; otherwise only a claim or the holder itself ends a    *)
(* selection.                                                               *)
THEOREM SelectionsEndRightly == Spec => SelectionEndsRightly
<1> DEFINE Rightly ==
      s_selected_by # None /\ s_selected_by' # s_selected_by
       => \/ s_selected_by' # None /\ enable_latch'
          \/ s_selected_by \in alive /\ enable_latch' = enable_latch /\ UNCHANGED in_use
          \/ s_selected_by \in old /\ ~enable_latch'
<1>1. ASSUME Next PROVE Rightly
  <2>1. CASE Command
    <3>1. PICK k \in Slots : Select(k) \/ Deselect(k) \/ Grab(k)
      BY <2>1 DEF Command
    <3>2. k # None
      BY ConstantsAssumption DEF Slots, None
    <3>3. CASE Select(k) \/ Grab(k)
      BY <3>2, <3>3 DEF Select, Grab
    <3>4. CASE Deselect(k)
      BY <3>4 DEF Deselect, CommandFrom, panels
    <3> QED  BY <3>1, <3>3, <3>4
  <2>2. CASE CheckTimeouts
    <3>1. enable_latch' <=> enable_latch /\ s_selected_by' = s_selected_by
      BY <2>2, Zenon DEF CheckTimeouts
    <3>2. s_selected_by' = Deselected(Evicted)
      BY <2>2 DEF CheckTimeouts
    <3> QED  BY <3>1, <3>2 DEF Deselected, Evicted
  <2>3. CASE ~Command /\ ~CheckTimeouts
    <3>1. s_selected_by' = s_selected_by
      BY <1>1, <2>3 DEF Next, Tick, Poll, NoPoll, ServiceOutbound, ListenEnds, Dies, Returns, Silence,
         NetUp, NetDown, ConnectAges, ToolEnables, selection
    <3> QED  BY <3>1
  <2> QED  BY <2>1, <2>2, <2>3
<1>2. [Next]_vars => [Rightly]_vars
  BY <1>1
<1> QED  BY <1>2, PTL DEF Spec, SelectionEndsRightly
=============================================================================
