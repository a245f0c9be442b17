-------------------------- MODULE AxisMotionProofs --------------------------
(***************************************************************************)
(* Theorems about the setup of a move and its trigger, for every set of    *)
(* modes and targets, every length of the pulses, and any number of        *)
(* requests, losses and faults.  Their hypothesis is ~Eager: nobody        *)
(* changes the setup while it is being applied.                            *)
(***************************************************************************)
EXTENDS AxisMotion, TLAPS

Users  == {"sequencer", "other"}
Values == MotorModes \union Targets \union {"other"}

-----------------------------------------------------------------------------
(* Requests, the slot and what is recorded of the setup *)

LEMMA FreeHasNoClient ==
  ASSUME NEW r \in SlotRecords
  PROVE  r # Pipeline!Free /\ r.client \in Users /\ r.req \in Writes
<1>1. Pipeline!Free.phase = "free" /\ r.phase # "free"
  BY DEF Pipeline!Free, SlotRecords
<1> QED  BY <1>1 DEF SlotRecords, Users

LEMMA OpenedIs ==
  ASSUME NEW c \in Users, NEW req \in Writes
  PROVE  /\ Pipeline!Opened(c, req) \in SlotRecords
         /\ Pipeline!Opened(c, req).client = c
         /\ Pipeline!Opened(c, req).req = req
         /\ Pipeline!Opened(c, req).phase = "open"
<1>1. Pipeline!Opened(c, req) = [phase |-> "open", client |-> c, req |-> req, data |-> Unset]
  BY DEF Pipeline!Opened
<1>2. [phase |-> "open", client |-> c, req |-> req, data |-> Unset] \in SlotRecords
  BY DEF SlotRecords, Users
<1> QED  BY <1>1, <1>2

LEMMA DesiredIs ==
  ASSUME op_mode_commanded \in AxisModes, target_position \in Targets
  PROVE  /\ Desired \in [mode : MotorModes, target : Targets]
         /\ \A p \in Params : Desired[p] \in MotorModes \union Targets
<1>1. MotorMode(op_mode_commanded) \in MotorModes
  BY DEF MotorMode, MotorModes, AxisModes
<1>2. /\ Desired \in [mode : MotorModes, target : Targets]
      /\ Desired["mode"] \in MotorModes /\ Desired["target"] \in Targets
  BY <1>1 DEF Desired
<1> QED  BY <1>2 DEF Params

LEMMA WritesAre ==
  /\ OtherWrite \in Writes /\ OtherWrite.obj = "other" /\ OtherWrite.val = "other"
  /\ ~OtherWrite.is_read
  /\ \A p \in Params :
       /\ WriteOf(p).obj = p /\ WriteOf(p).val = Desired[p] /\ ~WriteOf(p).is_read
       /\ Desired[p] \in MotorModes \union Targets => WriteOf(p) \in Writes
<1>1. OtherWrite \in Writes /\ OtherWrite.obj = "other" /\ OtherWrite.val = "other"
  BY DEF OtherWrite, Writes
<1>2. OtherWrite.is_read = FALSE
  BY Zenon DEF OtherWrite
<1>3. ASSUME NEW p \in Params
      PROVE  /\ WriteOf(p).obj = p /\ WriteOf(p).val = Desired[p]
             /\ Desired[p] \in MotorModes \union Targets => WriteOf(p) \in Writes
  BY DEF WriteOf, Writes
<1>4. \A p : WriteOf(p).is_read = FALSE
  BY Zenon DEF WriteOf
<1> QED  BY <1>1, <1>2, <1>3, <1>4

LEMMA PutIs ==
  \A req \in Writes : Pipeline!Put(req) = [store EXCEPT ![req.obj] = req.val]
<1>1. \A req \in Writes : req.is_read = FALSE
  BY DEF Writes
<1>2. \A req : Pipeline!Put(req) = IF req.is_read THEN store ELSE [store EXCEPT ![req.obj] = req.val]
  BY DEF Pipeline!Put
<1> QED  BY <1>1, <1>2, Zenon

AppliedType == [mode : MotorModes \union {Unset}, target : Targets \union {Unset}]

(* One parameter recorded, the other left alone.                           *)
LEMMA RecordedIs ==
  ASSUME op_mode_commanded \in AxisModes, target_position \in Targets,
         s_applied \in AppliedType, s_seq_step \in Params, NEW ok \in BOOLEAN
  PROVE  /\ Recorded(ok) \in AppliedType
         /\ ok => Recorded(ok)[s_seq_step] = Desired[s_seq_step]
         /\ \A p \in Params : ~ok \/ p # s_seq_step => Recorded(ok)[p] = s_applied[p]
<1>1. Desired["mode"] \in MotorModes /\ Desired["target"] \in Targets
  BY DesiredIs
<1> HIDE DEF Desired
<1>2. CASE s_seq_step = "mode"
  BY <1>1, <1>2 DEF Recorded, AppliedType, Params
<1>3. CASE s_seq_step = "target"
  BY <1>1, <1>3 DEF Recorded, AppliedType, Params
<1> QED  BY <1>2, <1>3 DEF Params

LEMMA FirstDiffIs ==
  ASSUME op_mode_commanded \in AxisModes, target_position \in Targets,
         NEW a \in AppliedType
  PROVE  /\ FirstDiff(a) \in Params \union {"IDLE"}
         /\ FirstDiff(a) # "IDLE" => a[FirstDiff(a)] # Desired[FirstDiff(a)]
         /\ Desired = a => FirstDiff(a) = "IDLE"
  BY DEF FirstDiff, Desired, AppliedType, Params

-----------------------------------------------------------------------------
(* axis_manager_tick *)

(* setup_sequencer_tick keeps to one write at a time, and records a value  *)
(* as applied only when the motor holds it.                                *)
LEMMA SequencerKeeps ==
  ASSUME SetupInv, SetupSequencerTick, UNCHANGED <<setup, store, late>>
  PROVE  /\ s_applied' \in AppliedType /\ s_seq_step' \in Params \union {"IDLE"}
         /\ sent' \in BOOLEAN
         /\ PipelineOK' /\ StepIsTracked' /\ AppliedIsStored'
         /\ Idle(s_seq_step) /\ Desired = s_applied
              => Idle(s_seq_step') /\ Desired = s_applied'
<1> DEFINE polled  == ~Idle(s_seq_step) /\ Completed("sequencer")
           ok      == slot.phase = "ok"
           applied == IF polled THEN Recorded(ok) ELSE s_applied
           free    == polled \/ slot = Pipeline!Free
           next    == FirstDiff(applied)
<1>1. /\ op_mode_commanded \in AxisModes /\ target_position \in Targets
      /\ s_applied \in AppliedType /\ s_seq_step \in Params \union {"IDLE"}
      /\ sent \in BOOLEAN
  BY DEF SetupInv, TypeOK, AppliedType
<1>2. Desired' = Desired /\ \A p : WriteOf(p)' = WriteOf(p)
  BY DEF setup, Desired, WriteOf
<1>3. CASE ~Idle(s_seq_step) /\ ~polled
  <2>1. UNCHANGED <<applying, slot, sent>>
    BY <1>3 DEF SetupSequencerTick
  <2> QED
    BY <1>1, <1>2, <1>3, <2>1
       DEF SetupInv, PipelineOK, StepIsTracked, AppliedIsStored, applying, Effective
<1>4. CASE ~(~Idle(s_seq_step) /\ ~polled)
  <2>1. /\ s_applied' = applied
        /\ IF next # "IDLE" /\ free
           THEN StartSdoWrite(next)
           ELSE /\ s_seq_step' = "IDLE"
                /\ slot' = IF polled THEN Pipeline!Free ELSE slot
                /\ UNCHANGED sent
    BY <1>4 DEF SetupSequencerTick
  <2>2. polled => s_seq_step \in Params
    BY <1>1 DEF Idle
  <2>3. /\ applied \in AppliedType
        /\ \A p \in Params : \/ applied[p] = s_applied[p]
                             \/ polled /\ ok /\ p = s_seq_step /\ applied[p] = Desired[p]
    BY <1>1, <2>2, RecordedIs
  <2>4. /\ next \in Params \union {"IDLE"}
        /\ next # "IDLE" => applied[next] # Desired[next]
        /\ Desired = applied => next = "IDLE"
    BY <1>1, <2>3, FirstDiffIs
  <2>5. polled => slot # Pipeline!Free /\ slot.client = "sequencer" /\ slot.req = WriteOf(s_seq_step)
    BY DEF Completed, SetupInv, StepIsTracked
  <2>6. polled /\ ok => late = {} /\ store[s_seq_step] = Desired[s_seq_step]
    BY <2>2, <2>5, WritesAre DEF SetupInv, StepIsTracked, Effective
  <2>7. Idle(s_seq_step) => ~polled
    OBVIOUS
  <2> HIDE DEF polled, ok, applied, free, next
  <2>8. AppliedIsStored'
    BY <1>2, <2>1, <2>3, <2>6 DEF SetupInv, AppliedIsStored
  <2>9. \A req \in late' : \/ req = OtherWrite
                           \/ \E p \in Params : req = WriteOf(p)' /\ s_applied'[p] # Desired'[p]
    BY <1>2, <2>1, <2>3, <2>6 DEF SetupInv, StepIsTracked
  <2>10. CASE next # "IDLE" /\ free
    <3>1. s_seq_step' = next /\ slot' = Pipeline!Opened("sequencer", WriteOf(next)) /\ sent' = FALSE
      BY <2>1, <2>10 DEF StartSdoWrite
    <3>2. next \in Params /\ WriteOf(next) \in Writes /\ "sequencer" \in Users
      BY <1>1, <2>4, <2>10, WritesAre, DesiredIs DEF Users
    <3>3. /\ slot' \in SlotRecords /\ slot'.client = "sequencer"
          /\ slot'.req = WriteOf(next) /\ slot'.phase = "open"
      BY <3>1, <3>2, OpenedIs
    <3>4. slot' # Pipeline!Free
      BY <3>3, FreeHasNoClient
    <3>5. PipelineOK'
      BY <3>3 DEF SetupInv, PipelineOK
    <3>6. StepIsTracked'
      BY <1>2, <2>1, <2>4, <2>9, <2>10, <3>1, <3>3, <3>4 DEF StepIsTracked, Effective, Idle
    <3>7. ~(Idle(s_seq_step) /\ Desired = s_applied)
      BY <2>4, <2>7, <2>10 DEF applied
    <3> QED  BY <2>1, <2>3, <2>8, <3>1, <3>2, <3>5, <3>6, <3>7
  <2>11. CASE ~(next # "IDLE" /\ free)
    <3>1. s_seq_step' = "IDLE" /\ sent' = sent /\ slot' = IF polled THEN Pipeline!Free ELSE slot
      BY <2>1, <2>11
    <3>2. slot' = Pipeline!Free \/ (slot' = slot /\ ~polled)
      BY <3>1
    <3>3. PipelineOK'
      BY <3>2 DEF SetupInv, PipelineOK
    <3>4. slot' # Pipeline!Free => slot' = slot /\ slot.client # "sequencer"
      BY <1>4, <3>2 DEF SetupInv, StepIsTracked
    <3>5. StepIsTracked'
      BY <1>2, <2>1, <2>9, <3>1, <3>4 DEF SetupInv, StepIsTracked, Effective, Idle
    <3>6. Idle(s_seq_step) => applied = s_applied
      BY <2>7 DEF applied
    <3> QED  BY <1>1, <2>1, <2>3, <2>8, <3>1, <3>3, <3>5, <3>6 DEF Idle
  <2> QED  BY <2>10, <2>11
<1> QED  BY <1>3, <1>4

(* compose_cyclic_cmd triggers only a setup that is applied, abandons the  *)
(* pulse at a quick stop, and owes what a fault interrupts.                *)
LEMMA ComposeKeeps ==
  ASSUME SetupInv, NEW pulse \in BOOLEAN, ComposeCyclicCmd(pulse),
         UNCHANGED <<setup, motor>>, pc' = "cia402",
         Idle(s_seq_step) /\ Desired = s_applied => Idle(s_seq_step') /\ Desired = s_applied'
  PROVE  /\ enable_latch' \in BOOLEAN /\ quick_stop_pulse' \in BOOLEAN
         /\ clear_fault_pulse' \in BOOLEAN /\ start_move_pulse' \in BOOLEAN
         /\ s_new_setpoint_remaining' \in 0 .. PulseCycles
         /\ s_halt_remaining' \in 0 .. PulseCycles
         /\ s_fault_reset_remaining' \in 0 .. PulseCycles
         /\ controlword' \in SUBSET Bits /\ owed' \in {"no", "yes", "stopped", "again"}
         /\ TriggerIsTracked'
<1> DEFINE reset == IF pulse THEN PulseCycles ELSE s_fault_reset_remaining
<1> USE ConstantsAssumption
<1>1. reset \in 0 .. PulseCycles
  BY DEF SetupInv, TypeOK
<1>2. /\ clear_fault_pulse' = FALSE
      /\ ComposeQuickStop(reset) \/ ComposeFault(reset) \/ ComposeMotion(reset)
  BY DEF ComposeCyclicCmd
<1>3. Desired' = Desired
  BY DEF setup, Desired
<1>4. \A n \in 0 .. PulseCycles : Dec(n) \in 0 .. PulseCycles /\ (Dec(n) > 0 => n > 0)
  BY DEF Dec
<1>5. \A b \in Bits : \A on : Bit(b, on) \subseteq Bits /\ (\A c \in Bits : c \in Bit(b, on) => c = b)
  BY DEF Bit
<1> HIDE DEF reset
<1>6. CASE ComposeQuickStop(reset)
  <2>1. /\ enable_latch' \in BOOLEAN /\ quick_stop_pulse' \in BOOLEAN
        /\ clear_fault_pulse' \in BOOLEAN
    BY <1>2, <1>6, Zenon DEF ComposeQuickStop, LatchAfterQuickStop
  <2>2. /\ s_new_setpoint_remaining' = 0 /\ s_halt_remaining' = 0
        /\ s_fault_reset_remaining' = 0
        /\ controlword' = Bit("FAULT_RESET", reset > 0)
        /\ owed' = IF owed = "yes" /\ ~start_move_pulse THEN "stopped" ELSE owed
        /\ start_move_pulse' = start_move_pulse
    BY <1>6 DEF ComposeQuickStop, PulseAfterQuickStop
  <2>3. controlword' \in SUBSET Bits /\ "NEW_SETPOINT" \notin controlword'
    BY <1>5, <2>2 DEF Bits
  <2>4. TriggerIsTracked'
    BY <2>2, <2>3 DEF SetupInv, TypeOK, TriggerIsTracked
  <2> QED  BY <2>1, <2>2, <2>3, <2>4 DEF SetupInv, TypeOK
<1>7. CASE ComposeFault(reset)
  <2>1. clear_fault_pulse' \in BOOLEAN
    BY <1>2, Zenon
  <2>2. /\ s_fault_reset_remaining' = Dec(reset)
        /\ controlword' = {"QUICK_STOP"} \union Bit("FAULT_RESET", reset > 0)
        /\ owed' = IF s_new_setpoint_remaining > 0 THEN "again" ELSE owed
        /\ UNCHANGED <<enable_latch, quick_stop_pulse, start_move_pulse,
                       s_new_setpoint_remaining, s_halt_remaining>>
    BY <1>7 DEF ComposeFault
  <2>3. controlword' \in SUBSET Bits /\ "NEW_SETPOINT" \notin controlword'
    BY <1>5, <2>2 DEF Bits
  <2>4. TriggerIsTracked'
    BY <1>3, <2>2, <2>3 DEF SetupInv, TypeOK, TriggerIsTracked
  <2> QED  BY <1>1, <1>4, <2>1, <2>2, <2>3, <2>4 DEF SetupInv, TypeOK
<1>8. CASE ComposeMotion(reset)
  <2> DEFINE trigger == start_move_pulse /\ ~SetupBusy(s_seq_step', s_applied')
             new     == IF trigger THEN PulseCycles ELSE s_new_setpoint_remaining
  <2>1. clear_fault_pulse' \in BOOLEAN
    BY <1>2, Zenon
  <2>2. /\ s_fault_reset_remaining' = Dec(reset)
        /\ s_halt_remaining' = Dec(s_halt_remaining)
        /\ s_new_setpoint_remaining' = Dec(new)
        /\ controlword' =
             {"QUICK_STOP"}
             \union Bit("FAULT_RESET", reset > 0)
             \union Bit("ENABLE", Enabled)
             \union Bit("HALT", s_halt_remaining > 0 \/ (Enabled /\ op_mode_commanded = "HOLD"))
             \union Bit("NEW_SETPOINT", new > 0)
        /\ UNCHANGED <<enable_latch, quick_stop_pulse, owed>>
    BY <1>8 DEF ComposeMotion
  <2>3. start_move_pulse' = (start_move_pulse /\ ~trigger)
    BY <1>8 DEF ComposeMotion, LatchAfterTrigger
  <2>4. start_move_pulse' \in BOOLEAN /\ (start_move_pulse' <=> start_move_pulse /\ ~trigger)
    BY <2>3, Zenon
  <2>5. new \in 0 .. PulseCycles
    BY DEF SetupInv, TypeOK
  <2>6. trigger => Idle(s_seq_step') /\ Desired = s_applied'
    BY DEF SetupBusy
  <2>7. new > 0 => Idle(s_seq_step') /\ Desired = s_applied'
    BY <2>6 DEF SetupInv, TriggerIsTracked
  <2>8. Idle(s_seq_step') /\ Desired = s_applied' /\ start_move_pulse => trigger
    BY DEF SetupBusy
  <2>9. trigger => start_move_pulse /\ new > 0
    OBVIOUS
  <2>10. ~trigger => new = s_new_setpoint_remaining
    OBVIOUS
  <2> HIDE DEF trigger, new
  <2>11. controlword' \in SUBSET Bits /\ ("NEW_SETPOINT" \in controlword' <=> new > 0)
    <3>1. "NEW_SETPOINT" \in Bit("NEW_SETPOINT", new > 0) <=> new > 0
      BY DEF Bit
    <3> QED  BY <1>5, <2>2, <3>1 DEF Bits
  <2>12. TriggerIsTracked'
    <3>1. s_new_setpoint_remaining' > 0 => new > 0
      BY <1>4, <2>2, <2>5
    <3>2. start_move_pulse' => owed' \in {"yes", "again"}
      BY <2>2, <2>4 DEF SetupInv, TriggerIsTracked
    <3>3. "NEW_SETPOINT" \in controlword' => ~start_move_pulse'
      BY <2>4, <2>7, <2>8, <2>11
    <3>4. owed' = "no" => /\ s_new_setpoint_remaining' > 0 => "NEW_SETPOINT" \in controlword'
                          /\ "NEW_SETPOINT" \in controlword' => "NEW_SETPOINT" \in motor'.cw
      BY <2>2, <2>9, <2>10, <2>11, <3>1 DEF SetupInv, TriggerIsTracked
    <3>5. owed' = "stopped" => s_new_setpoint_remaining' = 0 /\ "NEW_SETPOINT" \notin controlword'
      BY <2>2, <2>9, <2>10, <2>11 DEF SetupInv, TriggerIsTracked, Dec
    <3> QED  BY <1>3, <2>7, <2>11, <3>1, <3>2, <3>3, <3>4, <3>5 DEF TriggerIsTracked
  <2>13. enable_latch' \in BOOLEAN /\ quick_stop_pulse' \in BOOLEAN
    BY <2>2 DEF SetupInv, TypeOK
  <2> QED  BY <1>1, <1>4, <2>1, <2>2, <2>4, <2>5, <2>11, <2>12, <2>13 DEF SetupInv, TypeOK
<1> QED  BY <1>2, <1>6, <1>7, <1>8

LEMMA AxisTickKeeps ==
  ASSUME SetupInv, NEW dwell \in BOOLEAN, AxisTick(dwell)
  PROVE  SetupInv'
<1>1. PICK pulse \in BOOLEAN : /\ ClearFaultAfterDwell(dwell, pulse)
                               /\ SetupSequencerTick /\ ComposeCyclicCmd(pulse)
  BY DEF AxisTick
<1>2. pc' = "cia402" /\ UNCHANGED <<setup, axis_state, store, late, motor, left>>
  BY DEF AxisTick
<1>3. fault_seen' \in BOOLEAN
  BY <1>1, Zenon DEF ClearFaultAfterDwell
<1>4. UNCHANGED <<setup, store, late>> /\ UNCHANGED <<setup, motor>>
  BY <1>2
<1>5. /\ s_applied' \in AppliedType /\ s_seq_step' \in Params \union {"IDLE"}
      /\ sent' \in BOOLEAN
      /\ PipelineOK' /\ StepIsTracked' /\ AppliedIsStored'
      /\ Idle(s_seq_step) /\ Desired = s_applied
           => Idle(s_seq_step') /\ Desired = s_applied'
  BY <1>1, <1>4, SequencerKeeps
<1>6. /\ enable_latch' \in BOOLEAN /\ quick_stop_pulse' \in BOOLEAN
      /\ clear_fault_pulse' \in BOOLEAN /\ start_move_pulse' \in BOOLEAN
      /\ s_new_setpoint_remaining' \in 0 .. PulseCycles
      /\ s_halt_remaining' \in 0 .. PulseCycles
      /\ s_fault_reset_remaining' \in 0 .. PulseCycles
      /\ controlword' \in SUBSET Bits /\ owed' \in {"no", "yes", "stopped", "again"}
      /\ TriggerIsTracked'
  BY <1>1, <1>2, <1>4, <1>5, ComposeKeeps
<1>7. TypeOK'
  BY <1>2, <1>3, <1>5, <1>6 DEF SetupInv, TypeOK, AppliedType, setup
<1> QED  BY <1>5, <1>6, <1>7 DEF SetupInv

-----------------------------------------------------------------------------
(* Steps of the pipeline: the setup stays as it is *)

PipelineStep ==
  \/ Pipeline!TakeEffect \/ Pipeline!Lose \/ Pipeline!Succeed \/ Pipeline!GiveUp
  \/ Pipeline!LateEffect \/ Pipeline!LateLost
  \/ Pipeline!Begin("other", OtherWrite) \/ Pipeline!Collect("other")

(* The request moves on to another phase; the one that may come late is    *)
(* the one before or this one.                                             *)
LEMMA PhaseKeeps ==
  ASSUME SetupInv, UNCHANGED <<setup, applying, store>>,
         slot # Pipeline!Free, slot' \in SlotRecords,
         slot'.client = slot.client, slot'.req = slot.req,
         Effective' => Effective /\ late' = late,
         late' \subseteq late \union (IF slot.phase \in {"open", "mute"} THEN {slot.req} ELSE {})
  PROVE  PipelineOK' /\ StepIsTracked' /\ AppliedIsStored'
<1> USE DEF SetupInv
<1>1. slot \in SlotRecords /\ slot' # Pipeline!Free /\ slot.req \in Writes /\ slot.client \in Users
  BY FreeHasNoClient DEF PipelineOK
<1>2. /\ Desired' = Desired /\ \A p : WriteOf(p)' = WriteOf(p)
      /\ s_applied' = s_applied /\ s_seq_step' = s_seq_step
  BY DEF setup, applying, Desired, WriteOf
<1>3. PipelineOK'
  BY <1>1 DEF PipelineOK
<1>4. AppliedIsStored'
  BY <1>2 DEF AppliedIsStored
<1>5. \/ slot.req = OtherWrite
      \/ /\ s_seq_step \in Params /\ slot.req = WriteOf(s_seq_step)
         /\ s_applied[s_seq_step] # Desired[s_seq_step]
  BY <1>1 DEF StepIsTracked, TypeOK, Users, Idle
<1>6. \A req \in late' : \/ req = OtherWrite
                         \/ \E p \in Params : req = WriteOf(p)' /\ s_applied'[p] # Desired'[p]
  BY <1>2, <1>5 DEF StepIsTracked
<1>7. Effective' => late' = {} /\ store'[slot'.req.obj] = slot'.req.val
  BY DEF StepIsTracked
<1> QED  BY <1>1, <1>2, <1>3, <1>4, <1>6, <1>7 DEF StepIsTracked

LEMMA TakeEffectKeeps ==
  ASSUME SetupInv, UNCHANGED <<setup, applying>>, Pipeline!TakeEffect
  PROVE  PipelineOK' /\ StepIsTracked' /\ AppliedIsStored'
<1> USE DEF SetupInv
<1>1. slot # Pipeline!Free /\ store' = Pipeline!Put(slot.req) /\ late' = {}
  BY DEF Pipeline!TakeEffect
<1>2. slot \in SlotRecords /\ slot.req \in Writes /\ slot.client \in Users
  BY <1>1, FreeHasNoClient DEF PipelineOK
<1>3. slot.req.is_read = FALSE
  BY <1>2 DEF Writes
<1>4. slot' = [slot EXCEPT !.phase = "effective", !.data = Unset]
  BY <1>3 DEF Pipeline!TakeEffect
<1>5. /\ slot' \in SlotRecords /\ slot'.phase = "effective"
      /\ slot'.client = slot.client /\ slot'.req = slot.req
  BY <1>2, <1>4 DEF SlotRecords
<1>6. slot' # Pipeline!Free
  BY <1>5, FreeHasNoClient
<1>7. store' = [store EXCEPT ![slot.req.obj] = slot.req.val]
  BY <1>1, <1>2, PutIs
<1>8. slot.req.obj \in Params \union {"other"} /\ slot.req.val \in MotorModes \union Targets \union {"other"}
  BY <1>2 DEF Writes
<1>9. PipelineOK' /\ store'[slot.req.obj] = slot.req.val
  BY <1>1, <1>5, <1>7, <1>8 DEF PipelineOK
<1>10. /\ Desired' = Desired /\ \A p : WriteOf(p)' = WriteOf(p)
       /\ s_applied' = s_applied /\ s_seq_step' = s_seq_step
  BY DEF setup, applying, Desired, WriteOf
<1>11. StepIsTracked'
  BY <1>1, <1>5, <1>6, <1>9, <1>10 DEF StepIsTracked, Effective
     , SlotRecords
<1>12. \/ slot.req.obj = "other"
       \/ slot.req.obj = s_seq_step /\ slot.req.val = Desired[s_seq_step]
  BY <1>1, <1>2, WritesAre DEF StepIsTracked, TypeOK, Users, Idle
<1>13. \A p \in Params : store'[p] = store[p] \/ store'[p] = Desired[p]
  BY <1>7, <1>12 DEF PipelineOK, Params
<1>14. AppliedIsStored'
  BY <1>10, <1>13 DEF AppliedIsStored
<1> QED  BY <1>9, <1>11, <1>14

LEMMA LateKeeps ==
  ASSUME SetupInv, UNCHANGED <<setup, applying>>, Pipeline!LateEffect \/ Pipeline!LateLost
  PROVE  PipelineOK' /\ StepIsTracked' /\ AppliedIsStored'
<1> USE DEF SetupInv
<1>1. slot' = slot /\ late' = {}
  BY DEF Pipeline!LateEffect, Pipeline!LateLost
<1>2. /\ Desired' = Desired /\ \A p : WriteOf(p)' = WriteOf(p)
      /\ s_applied' = s_applied /\ s_seq_step' = s_seq_step
  BY DEF setup, applying, Desired, WriteOf
<1>3. CASE store' = store
  BY <1>1, <1>2, <1>3 DEF PipelineOK, StepIsTracked, AppliedIsStored, Effective
<1>4. CASE Pipeline!LateEffect
  <2>1. PICK req \in late : store' = Pipeline!Put(req)
    BY <1>4 DEF Pipeline!LateEffect
  <2>2. req \in Writes /\ store' = [store EXCEPT ![req.obj] = req.val]
    BY <2>1, PutIs DEF PipelineOK
  <2>3. req.obj \in Params \union {"other"} /\ req.val \in MotorModes \union Targets \union {"other"}
    BY <2>2 DEF Writes
  <2>4. PipelineOK'
    BY <1>1, <2>2, <2>3 DEF PipelineOK
  <2>5. ~Effective /\ ~Effective'
    BY <1>1, <2>1 DEF StepIsTracked, Effective
  <2>6. StepIsTracked'
    BY <1>1, <1>2, <2>5 DEF StepIsTracked
  <2>7. req.obj = "other" \/ req.val = Desired[req.obj]
    BY <2>1, WritesAre DEF StepIsTracked
  <2>8. \A p \in Params : store'[p] = store[p] \/ store'[p] = Desired[p]
    BY <2>2, <2>7 DEF PipelineOK, Params
  <2>9. AppliedIsStored'
    BY <1>2, <2>8 DEF AppliedIsStored
  <2> QED  BY <2>4, <2>6, <2>9
<1> QED  BY <1>3, <1>4 DEF Pipeline!LateLost

LEMMA PipelineKeeps ==
  ASSUME SetupInv, UNCHANGED <<setup, applying>>, PipelineStep
  PROVE  PipelineOK' /\ StepIsTracked' /\ AppliedIsStored'
<1> USE DEF SetupInv
<1>1. slot # Pipeline!Free => slot \in SlotRecords
  BY DEF PipelineOK
<1>2. CASE Pipeline!Lose \/ Pipeline!GiveUp \/ Pipeline!Succeed
  <2>1. /\ slot # Pipeline!Free /\ store' = store
        /\ \/ slot' = [slot EXCEPT !.phase = "mute", !.data = Unset]
           \/ slot' = [slot EXCEPT !.phase = "failed", !.data = Unset]
           \/ slot' = [slot EXCEPT !.phase = "ok"] /\ slot.phase = "effective" /\ late' = late
        /\ late' \subseteq late \union (IF slot.phase \in {"open", "mute"} THEN {slot.req} ELSE {})
    BY <1>2 DEF Pipeline!Lose, Pipeline!GiveUp, Pipeline!Succeed, Pipeline!Forget
  <2>2. /\ slot' \in SlotRecords /\ slot'.client = slot.client /\ slot'.req = slot.req
        /\ slot'.phase \in {"mute", "failed"} \/ (slot.phase = "effective" /\ late' = late)
    BY <1>1, <2>1 DEF SlotRecords
  <2>3. Effective' => Effective /\ late' = late
    BY <2>1, <2>2 DEF Effective
  <2> QED  BY <2>1, <2>2, <2>3, PhaseKeeps
<1>3. CASE Pipeline!Begin("other", OtherWrite)
  <2>1. /\ slot = Pipeline!Free /\ slot' = Pipeline!Opened("other", OtherWrite)
        /\ UNCHANGED <<store, late>>
    BY <1>3 DEF Pipeline!Begin
  <2>2. /\ slot' \in SlotRecords /\ slot'.client = "other"
        /\ slot'.req = OtherWrite /\ slot'.phase = "open"
    BY <2>1, WritesAre, OpenedIs DEF Users
  <2>3. slot' # Pipeline!Free
    BY <2>2, FreeHasNoClient
  <2>4. /\ Desired' = Desired /\ \A p : WriteOf(p)' = WriteOf(p)
        /\ s_applied' = s_applied /\ s_seq_step' = s_seq_step
    BY DEF setup, applying, Desired, WriteOf
  <2> QED  BY <2>1, <2>2, <2>3, <2>4 DEF PipelineOK, StepIsTracked, AppliedIsStored, Effective
<1>4. CASE Pipeline!Collect("other")
  <2>1. slot' = Pipeline!Free /\ slot.client = "other" /\ UNCHANGED <<store, late>>
    BY <1>4 DEF Pipeline!Collect
  <2>2. /\ Desired' = Desired /\ \A p : WriteOf(p)' = WriteOf(p)
        /\ s_applied' = s_applied /\ s_seq_step' = s_seq_step
    BY DEF setup, applying, Desired, WriteOf
  <2> QED  BY <2>1, <2>2 DEF PipelineOK, StepIsTracked, AppliedIsStored, Effective
<1> QED  BY <1>2, <1>3, <1>4, TakeEffectKeeps, LateKeeps DEF PipelineStep

-----------------------------------------------------------------------------
(* Frames and the motor *)

(* The motor takes or misses a controlword: what it executes was owed, and *)
(* is now given.                                                           *)
LEMMA FrameKeepsTrigger ==
  ASSUME SetupInv, NEW delivered \in BOOLEAN, pc = "cia402", pc' = "handlers",
         IF delivered THEN MotorTakes(controlword) ELSE UNCHANGED motor,
         owed' = (IF Executes THEN "no" ELSE owed),
         UNCHANGED <<setup, applying, latches, pulses, controlword>>
  PROVE  /\ motor' \in [state : MotorStates, cw : SUBSET EdgeBits]
         /\ owed' \in {"no", "yes", "stopped", "again"} /\ TriggerIsTracked'
         /\ Executes => Desired = s_applied /\ owed \notin {"no", "stopped"}
<1> USE DEF SetupInv
<1>1. /\ motor.cw \in SUBSET EdgeBits /\ motor.state \in MotorStates
      /\ motor \in [state : MotorStates, cw : SUBSET EdgeBits]
      /\ owed \in {"no", "yes", "stopped", "again"}
  BY DEF TypeOK
<1>2. CASE motor' = motor
  <2>1. ~Executes
    BY <1>2 DEF Executes
  <2>2. owed' = owed
    BY <2>1
  <2> QED  BY <1>1, <1>2, <2>1, <2>2 DEF TriggerIsTracked, setup, applying, latches, pulses, Desired
<1>3. CASE MotorTakes(controlword)
  <2>1. motor'.cw = controlword \intersect EdgeBits /\ motor'.state \in MotorStates
    BY <1>1, <1>3 DEF MotorTakes, MotorStates
  <2>2. motor' \in [state : MotorStates, cw : SUBSET EdgeBits]
    BY <1>1, <1>3 DEF MotorTakes, MotorStates
  <2>3. "NEW_SETPOINT" \in motor'.cw <=> "NEW_SETPOINT" \in controlword
    BY <2>1 DEF EdgeBits
  <2>4. Executes => /\ "NEW_SETPOINT" \in controlword /\ Desired = s_applied
                   /\ ~start_move_pulse /\ owed \notin {"no", "stopped"}
    BY <2>3 DEF Executes, TriggerIsTracked
  <2>5. (Executes => owed' = "no") /\ (~Executes => owed' = owed)
    BY Zenon
  <2>6. TriggerIsTracked'
    <3>1. s_new_setpoint_remaining > 0 => Idle(s_seq_step) /\ Desired = s_applied
      BY DEF TriggerIsTracked
    <3>2. start_move_pulse => owed' \in {"yes", "again"}
      BY <2>4, <2>5 DEF TriggerIsTracked
    <3>3. owed' = "no" => (s_new_setpoint_remaining > 0 => "NEW_SETPOINT" \in controlword)
      BY <2>4, <2>5 DEF TriggerIsTracked
    <3>4. owed' = "stopped" => s_new_setpoint_remaining = 0 /\ "NEW_SETPOINT" \notin controlword
      BY <2>5 DEF TriggerIsTracked
    <3> QED  BY <2>3, <3>1, <3>2, <3>3, <3>4
             DEF TriggerIsTracked, setup, applying, latches, pulses, Desired
  <2> QED  BY <1>1, <2>2, <2>4, <2>5, <2>6
<1> QED  BY <1>2, <1>3

LEMMA CyclicFrameKeeps ==
  ASSUME SetupInv, NEW delivered \in BOOLEAN, NEW ends \in {"ok", "fail", "no"},
         CyclicFrame(delivered, ends)
  PROVE  SetupInv' /\ (Executes => Desired = s_applied /\ owed \notin {"no", "stopped"})
<1> USE DEF SetupInv
<1>1. /\ pc = "cia402" /\ pc' = "handlers"
      /\ IF delivered THEN MotorTakes(controlword) ELSE UNCHANGED motor
      /\ owed' = IF Executes THEN "no" ELSE owed
      /\ UNCHANGED <<setup, latches, pulses, fault_seen, applying, controlword, sent>>
  BY DEF CyclicFrame
<1>2. /\ motor' \in [state : MotorStates, cw : SUBSET EdgeBits]
      /\ owed' \in {"no", "yes", "stopped", "again"} /\ TriggerIsTracked'
      /\ Executes => Desired = s_applied /\ owed \notin {"no", "stopped"}
  BY <1>1, FrameKeepsTrigger
<1>3. /\ PipelineStep \/ UNCHANGED <<store, slot, late>>
      /\ axis_state' \in {axis_state, motor.state}
  BY DEF CyclicFrame, PipelineStep
<1>4. PipelineOK' /\ StepIsTracked' /\ AppliedIsStored'
  <2>1. CASE PipelineStep
    BY <1>1, <2>1, PipelineKeeps
  <2>2. CASE UNCHANGED <<store, slot, late>>
    BY <1>1, <2>2 DEF PipelineOK, StepIsTracked, AppliedIsStored, Effective, WriteOf, Desired, setup, applying
  <2> QED  BY <1>3, <2>1, <2>2
<1>5. TypeOK'
  BY <1>1, <1>2, <1>3 DEF TypeOK, setup, latches, pulses, applying
<1> QED  BY <1>2, <1>4, <1>5

LEMMA Cia402TickKeeps ==
  ASSUME SetupInv, Cia402Tick
  PROVE  SetupInv' /\ (Executes => Desired = s_applied /\ owed \notin {"no", "stopped"})
<1> USE DEF SetupInv
<1>1. CASE NotDue \/ OdFrame
  <2>1. /\ pc = "cia402" /\ pc' = "handlers" /\ sent' \in BOOLEAN
        /\ axis_state' \in {axis_state, motor.state}
        /\ UNCHANGED <<setup, latches, pulses, fault_seen, applying, controlword, store, slot, late, motor, owed>>
    <3>1. CASE NotDue
      BY <3>1 DEF NotDue, TypeOK, pipeline
    <3>2. CASE OdFrame
      <4>1. sent' \in BOOLEAN
        BY <3>2, Zenon DEF OdFrame
      <4> QED  BY <3>2, <4>1 DEF OdFrame
    <3> QED  BY <1>1, <3>1, <3>2
  <2>2. ~Executes
    BY <2>1 DEF Executes
  <2>3. TypeOK'
    BY <2>1 DEF TypeOK, setup, latches, pulses, applying
  <2>4. PipelineOK' /\ StepIsTracked' /\ AppliedIsStored'
    BY <2>1 DEF PipelineOK, StepIsTracked, AppliedIsStored, Effective, WriteOf, Desired, setup, applying
  <2>5. TriggerIsTracked'
    BY <2>1 DEF TriggerIsTracked, Desired, setup, latches, pulses, applying
  <2> QED  BY <2>2, <2>3, <2>4, <2>5
<1>2. CASE \E delivered \in BOOLEAN, ends \in {"ok", "fail", "no"} : CyclicFrame(delivered, ends)
  BY <1>2, CyclicFrameKeeps
<1> QED  BY <1>1, <1>2 DEF Cia402Tick

(* The motor, the other client and the wire, while the handlers run.       *)
LEMMA BesideKeeps ==
  ASSUME SetupInv, OtherBegins \/ OtherPolls \/ MotorServes \/ Lost \/ LateRequest \/ MotorFault
  PROVE  SetupInv' /\ ~Executes
<1> USE DEF SetupInv
<1>1. /\ pc = "handlers" /\ pc' = "handlers"
      /\ PipelineStep \/ UNCHANGED <<store, slot, late>>
      /\ UNCHANGED <<setup, latches, pulses, axis_state, fault_seen, applying, controlword, owed>>
  BY DEF OtherBegins, OtherPolls, MotorServes, Lost, LateRequest, MotorFault,
         MotorSteps, Handler, PipelineStep, pipeline
<1>2. sent' \in BOOLEAN
  <2>1. CASE OtherBegins
    BY <2>1, Zenon DEF OtherBegins
  <2>2. CASE OtherPolls \/ MotorServes \/ Lost \/ LateRequest \/ MotorFault
    BY <2>2 DEF OtherPolls, MotorServes, Lost, LateRequest, MotorFault, MotorSteps, pipeline, TypeOK
  <2> QED  BY <2>1, <2>2
<1>3. motor' \in [state : MotorStates, cw : SUBSET EdgeBits] /\ motor'.cw = motor.cw
  <2>1. CASE MotorFault
    BY <2>1 DEF MotorFault, TypeOK, MotorStates
  <2>2. CASE OtherBegins \/ OtherPolls \/ MotorServes \/ Lost \/ LateRequest
    BY <2>2 DEF OtherBegins, OtherPolls, MotorServes, Lost, LateRequest, MotorSteps, TypeOK
  <2> QED  BY <2>1, <2>2
<1>4. ~Executes
  BY <1>3 DEF Executes
<1>5. TypeOK'
  BY <1>1, <1>2, <1>3 DEF TypeOK, setup, latches, pulses, applying
<1>6. TriggerIsTracked'
  BY <1>1, <1>3 DEF TriggerIsTracked, Desired, setup, latches, pulses, applying
<1>7. PipelineOK' /\ StepIsTracked' /\ AppliedIsStored'
  <2>1. CASE PipelineStep
    BY <1>1, <2>1, PipelineKeeps
  <2>2. CASE UNCHANGED <<store, slot, late>>
    BY <1>1, <2>2 DEF PipelineOK, StepIsTracked, AppliedIsStored, Effective, WriteOf, Desired, setup, applying
  <2> QED  BY <1>1, <2>1, <2>2
<1> QED  BY <1>4, <1>5, <1>6, <1>7

-----------------------------------------------------------------------------
(* Handlers *)

(* The setup changes only when all of it is applied: nothing is under way  *)
(* then, and nothing older can come late.                                  *)
LEMMA SettersKeep ==
  ASSUME ~Eager, SetupInv, Request, MaySetUp,
         op_mode_commanded' \in AxisModes, target_position' \in Targets,
         UNCHANGED <<enable_latch, quick_stop_pulse, clear_fault_pulse, pulses>>,
         \/ start_move_pulse' = start_move_pulse /\ owed' = owed
         \/ start_move_pulse' = TRUE /\ owed' = "yes"
  PROVE  SetupInv' /\ ~Executes
<1> USE DEF SetupInv
<1>1. /\ pc = "handlers" /\ pc' = "handlers" /\ s_new_setpoint_remaining = 0
      /\ Idle(s_seq_step) /\ Desired = s_applied /\ ~start_move_pulse
      /\ UNCHANGED <<axis_state, fault_seen, applying, controlword, pipeline, motor>>
  BY DEF Request, Handler, MaySetUp, Settled
<1>2. ~Executes
  BY <1>1 DEF Executes
<1>3. start_move_pulse' \in BOOLEAN
  BY Zenon DEF TypeOK
<1>4. TypeOK'
  BY <1>1, <1>3 DEF TypeOK, applying, pipeline, pulses
<1>5. PipelineOK'
  BY <1>1 DEF PipelineOK, pipeline
<1>6. \A req \in late : req = OtherWrite
  BY <1>1 DEF StepIsTracked
<1>7. StepIsTracked'
  BY <1>1, <1>6 DEF StepIsTracked, pipeline, applying, Effective, Idle
<1>8. AppliedIsStored'
  BY <1>1 DEF AppliedIsStored, pipeline, applying
<1>9. TriggerIsTracked'
  BY <1>1 DEF TriggerIsTracked, pulses
<1> QED  BY <1>2, <1>4, <1>5, <1>7, <1>8, <1>9

(* The requests that leave the setup alone.                                *)
LEMMA RequestsKeep ==
  ASSUME SetupInv, Request, UNCHANGED setup,
         enable_latch' \in BOOLEAN, quick_stop_pulse' \in BOOLEAN, clear_fault_pulse' \in BOOLEAN,
         s_halt_remaining' \in 0 .. PulseCycles,
         UNCHANGED <<s_new_setpoint_remaining, s_fault_reset_remaining>>,
         \/ start_move_pulse' = start_move_pulse /\ owed' = owed
         \/ start_move_pulse' = TRUE /\ owed' = "yes"
  PROVE  SetupInv' /\ ~Executes
<1> USE DEF SetupInv
<1>1. /\ pc = "handlers" /\ pc' = "handlers"
      /\ UNCHANGED <<axis_state, fault_seen, applying, controlword, pipeline, motor>>
  BY DEF Request, Handler
<1>2. ~Executes
  BY <1>1 DEF Executes
<1>3. start_move_pulse' \in BOOLEAN
  BY Zenon DEF TypeOK
<1>4. Desired' = Desired /\ \A p : WriteOf(p)' = WriteOf(p)
  BY DEF setup, Desired, WriteOf
<1>5. TypeOK'
  BY <1>1, <1>3 DEF TypeOK, applying, pipeline, setup
<1>6. PipelineOK' /\ StepIsTracked' /\ AppliedIsStored'
  BY <1>1, <1>4 DEF PipelineOK, StepIsTracked, AppliedIsStored, pipeline, applying, Effective
<1>7. TriggerIsTracked'
  BY <1>1, <1>4 DEF TriggerIsTracked, applying
<1> QED  BY <1>2, <1>5, <1>6, <1>7

LEMMA OperatorKeeps ==
  ASSUME ~Eager, SetupInv, Operator
  PROVE  SetupInv' /\ ~Executes
<1>1. /\ enable_latch \in BOOLEAN /\ quick_stop_pulse \in BOOLEAN /\ clear_fault_pulse \in BOOLEAN
      /\ s_halt_remaining \in 0 .. PulseCycles /\ op_mode_commanded \in AxisModes
      /\ target_position \in Targets
  BY DEF SetupInv, TypeOK
<1>2. CASE \E m \in Modes : SetOpMode(m)
  <2>1. PICK m \in Modes : SetOpMode(m)
    BY <1>2
  <2> QED  BY <1>1, <2>1, SettersKeep, ConstantsAssumption DEF SetOpMode, latches
<1>3. CASE \E t \in Targets : SetTargetPosition(t)
  <2>1. PICK t \in Targets : SetTargetPosition(t)
    BY <1>3
  <2> QED  BY <1>1, <2>1, SettersKeep DEF SetTargetPosition, latches
<1>4. CASE \E t \in Targets : MoveToShot(t)
  <2>1. PICK t \in Targets : MoveToShot(t)
    BY <1>4
  <2> QED  BY <1>1, <2>1, SettersKeep DEF MoveToShot, AxisModes
<1>5. CASE \E on \in BOOLEAN : RequestEnable(on)
  <2>1. PICK on \in BOOLEAN : RequestEnable(on)
    BY <1>5
  <2>2. enable_latch' \in BOOLEAN
    BY <2>1, Zenon DEF RequestEnable
  <2> QED  BY <1>1, <2>1, <2>2, RequestsKeep DEF RequestEnable, pulses
<1>6. CASE RequestStartMove
  BY <1>1, <1>6, RequestsKeep DEF RequestStartMove, pulses
<1>7. CASE RequestQuickStop
  <2>1. quick_stop_pulse' \in BOOLEAN
    BY <1>7, Zenon DEF RequestQuickStop
  <2> QED  BY <1>1, <1>7, <2>1, RequestsKeep DEF RequestQuickStop, pulses
<1>8. CASE RequestHalt
  BY <1>1, <1>8, RequestsKeep, ConstantsAssumption DEF RequestHalt, latches
<1>9. CASE RequestClearFault
  <2>1. clear_fault_pulse' \in BOOLEAN
    BY <1>9, Zenon DEF RequestClearFault
  <2> QED  BY <1>1, <1>9, <2>1, RequestsKeep DEF RequestClearFault, pulses
<1> QED  BY <1>2, <1>3, <1>4, <1>5, <1>6, <1>7, <1>8, <1>9 DEF Operator

-----------------------------------------------------------------------------
(* The theorems *)

LEMMA InitSetup == Init => SetupInv
<1> SUFFICES ASSUME Init PROVE SetupInv
  OBVIOUS
<1>1. Modes \subseteq AxisModes /\ "OFF" \in Modes
  BY ConstantsAssumption
<1>2. s_applied = [p \in Params |-> Unset] /\ s_applied \in AppliedType
  BY DEF Init, Params, AppliedType
<1>3. TypeOK
  <2>1. /\ enable_latch \in BOOLEAN /\ quick_stop_pulse \in BOOLEAN
        /\ clear_fault_pulse \in BOOLEAN /\ start_move_pulse \in BOOLEAN
        /\ fault_seen \in BOOLEAN /\ sent \in BOOLEAN
    BY Zenon DEF Init
  <2> QED  BY <1>2, <2>1, ConstantsAssumption DEF Init, TypeOK, AppliedType, AxisModes, MotorStates
<1>4. PipelineOK
  <2>1. PICK m \in Modes, t \in Targets :
             store = [mode |-> MotorMode(m), target |-> t, other |-> "other"]
    BY DEF Init
  <2>2. MotorMode(m) \in MotorModes
    BY <1>1 DEF MotorMode, MotorModes, AxisModes
  <2> QED  BY <2>1, <2>2 DEF Init, PipelineOK, Params
<1>5. StepIsTracked
  BY DEF Init, StepIsTracked, Idle, Effective
<1>6. TriggerIsTracked
  <2>1. ~start_move_pulse
    BY Zenon DEF Init
  <2> QED  BY <2>1 DEF Init, TriggerIsTracked
<1>7. AppliedIsStored
  <2>1. Desired["mode"] \in MotorModes /\ Desired["target"] \in Targets
    BY <1>3, DesiredIs DEF TypeOK
  <2>2. \A p \in Params : s_applied[p] = Unset /\ Desired[p] # Unset
    BY <1>2, <2>1, ConstantsAssumption DEF Params, MotorModes, Unset
  <2> QED  BY <2>2 DEF AppliedIsStored
<1> QED  BY <1>3, <1>4, <1>5, <1>6, <1>7 DEF SetupInv

(* Every step keeps the invariant, and one in which the motor moves finds  *)
(* the commanded setup applied and a move owed.                            *)
LEMMA NextSetup ==
  ASSUME ~Eager, SetupInv, [Next]_vars
  PROVE  SetupInv' /\ (Executes => Desired = s_applied /\ owed \notin {"no", "stopped"})
<1>1. CASE \E dwell \in BOOLEAN : AxisTick(dwell)
  <2>1. SetupInv'
    BY <1>1, AxisTickKeeps
  <2>2. motor' = motor
    BY <1>1 DEF AxisTick
  <2>3. ~Executes
    BY <2>2 DEF Executes
  <2> QED  BY <2>1, <2>3
<1>2. CASE Cia402Tick
  BY <1>2, Cia402TickKeeps
<1>3. CASE Operator
  BY <1>3, OperatorKeeps
<1>4. CASE OtherBegins \/ OtherPolls \/ MotorServes \/ Lost \/ LateRequest \/ MotorFault
  BY <1>4, BesideKeeps
<1>5. CASE UNCHANGED vars
  <2> USE <1>5 DEF vars, setup, latches, pulses, applying, pipeline
  <2>1. TypeOK' /\ PipelineOK'
    BY DEF SetupInv, TypeOK, PipelineOK
  <2>2. StepIsTracked' /\ AppliedIsStored'
    BY DEF SetupInv, StepIsTracked, AppliedIsStored, Effective, WriteOf, Desired
  <2>3. TriggerIsTracked'
    BY DEF SetupInv, TriggerIsTracked, Desired
  <2>4. ~Executes
    BY DEF Executes
  <2> QED  BY <2>1, <2>2, <2>3, <2>4 DEF SetupInv
<1> QED  BY <1>1, <1>2, <1>3, <1>4, <1>5 DEF Next

(* What counts as applied is what the motor holds, and nothing is          *)
(* triggered that is not owed, as long as nobody changes the setup while   *)
(* it is being applied: setup_sequencer_tick, apply_completed_step and     *)
(* compose_cyclic_cmd.                                                     *)
THEOREM SetupCorrect ==
  ASSUME ~Eager
  PROVE  Spec => []SetupInv
<1>1. SetupInv /\ [Next]_vars => SetupInv'
  BY NextSetup
<1> QED  BY <1>1, InitSetup, PTL DEF Spec

(* The motor moves only to the commanded setup: the trigger waits in       *)
(* compose_cyclic_cmd until setup_sequencer_busy says no.                  *)
THEOREM NoForeignSetup ==
  ASSUME ~Eager
  PROVE  Spec => SetupBeforeTrigger
<1>1. SetupInv /\ [Next]_vars => [Executes => \A p \in Params : store[p] = Desired[p]]_vars
  <2> SUFFICES ASSUME SetupInv, [Next]_vars, Executes
               PROVE  \A p \in Params : store[p] = Desired[p]
    OBVIOUS
  <2>1. Desired = s_applied
    BY NextSetup
  <2> QED  BY <2>1 DEF SetupInv, AppliedIsStored
<1> QED  BY <1>1, SetupCorrect, PTL DEF Spec, SetupBeforeTrigger

(* A trigger is used once: the latch is cleared with it, and the motor     *)
(* sees one edge however many frames bear the bit.                         *)
THEOREM OneMoveEach ==
  ASSUME ~Eager
  PROVE  Spec => OneMovePerRequest
<1>1. SetupInv /\ [Next]_vars => [Executes => owed # "no"]_vars
  BY NextSetup
<1> QED  BY <1>1, SetupCorrect, PTL DEF Spec, OneMovePerRequest

(* A quick stop ends the pulse under way for good.                         *)
THEOREM StoppedStaysStopped ==
  ASSUME ~Eager
  PROVE  Spec => QuickStopAbandonsMove
<1>1. SetupInv /\ [Next]_vars => [Executes => owed # "stopped"]_vars
  BY NextSetup
<1> QED  BY <1>1, SetupCorrect, PTL DEF Spec, QuickStopAbandonsMove
=============================================================================
