----------------------------- MODULE AxisMotion -----------------------------
(***************************************************************************)
(* app/axis_manager: setting a move up and triggering it.  Handlers of the *)
(* protocol modules write the commanded mode and target and leave request  *)
(* latches; axis_manager_tick, once per pass of the super-loop, brings the *)
(* motor's stored setup in line by OD writes (setup_sequencer_tick), one   *)
(* at a time, and composes the cyclic controlword, in which                *)
(* s_new_setpoint_remaining ticks of NEW_SETPOINT execute the stored setup.*)
(*                                                                         *)
(* A pass is: axis_manager_tick, cia402_tick (at most one frame, and none  *)
(* when less than a millisecond has passed), then the handlers.  The OD    *)
(* pipeline is OdService, which Cia402 implements.  The motor runs beside  *)
(* the loop; what it does commutes with axis_manager_tick, so its steps    *)
(* are taken while the handlers run.                                       *)
(*                                                                         *)
(* The setup is two of the seven entries the code writes, all handled      *)
(* alike: the mode, which comes first, and the target.  Targets stand for  *)
(* clamped and scaled positions.                                           *)
(***************************************************************************)
EXTENDS Integers

CONSTANTS
  Modes,        \* axis modes the operator uses, OFF among them
  Targets,      \* target positions
  BootTarget,   \* the target of axis_manager_init (0)
  PulseCycles,  \* NEW_SETPOINT_, HALT_ and FAULT_RESET_PULSE_CYCLES (3)
  Eager,        \* may handlers change the setup while it is being applied?
  Bounds        \* bounds: operator requests; and OD requests of other clients,
                \* motor faults, and OD requests or answers lost, late or
                \* refused, together (trouble), in a behaviour

AxisModes == {"OFF", "JOYSTICK", "PROFILE_VELOCITY", "PROFILE_POSITION",
              "HOLD", "TORQUE"}

(* The sentinels of axis_manager_init.  to_scaled_i32 saturates above      *)
(* INT32_MIN, so that no target is one.                                    *)
Unset == "unset"

ASSUME ConstantsAssumption ==
  /\ "OFF" \in Modes /\ Modes \subseteq AxisModes
  /\ Unset \notin Targets /\ BootTarget \in Targets
  /\ PulseCycles \in Nat \ {0}
  /\ Eager \in BOOLEAN
  /\ Bounds \subseteq [requests : Nat, trouble : Nat]

VARIABLES
  op_mode_commanded, target_position,                \* the commanded setup
  enable_latch, quick_stop_pulse, clear_fault_pulse, start_move_pulse,
  s_new_setpoint_remaining, s_halt_remaining, s_fault_reset_remaining,
  axis_state,                      \* state in the last status received
  fault_seen,                      \* s_fault_active_since_ms # 0
  s_applied, s_seq_step,           \* setup sequencer
  controlword,                     \* set by cia402_set_cyclic_cmd
  pc,                              \* where in the pass the super-loop is
  store, slot, late,               \* the OD pipeline (OdService)
  sent,                            \* the slot's request frame went out
  motor,                           \* motor: its state, and the edge-triggered
                                   \* bits of the last controlword it got
  owed,                            \* history: is a requested move to come?
  left                             \* bounds: events still to come

setup    == <<op_mode_commanded, target_position>>
latches  == <<enable_latch, quick_stop_pulse, clear_fault_pulse, start_move_pulse>>
pulses   == <<s_new_setpoint_remaining, s_halt_remaining, s_fault_reset_remaining>>
applying == <<s_applied, s_seq_step>>
pipeline == <<store, slot, late, sent>>
vars == <<setup, latches, pulses, axis_state, fault_seen, applying, controlword,
          pc, pipeline, motor, owed, left>>

-----------------------------------------------------------------------------
(* Data *)

(* axis_mode_to_cia402 *)
MotorMode(m) ==
  CASE m \in {"JOYSTICK", "PROFILE_VELOCITY", "HOLD"} -> "PROFILE_VELOCITY"
    [] m = "PROFILE_POSITION" -> "PROFILE_POSITION"
    [] m = "TORQUE" -> "TORQUE"
    [] OTHER -> "DISABLED"

MotorModes  == {"DISABLED", "PROFILE_VELOCITY", "PROFILE_POSITION", "TORQUE"}
Params      == {"mode", "target"}
Bits        == {"ENABLE", "QUICK_STOP", "NEW_SETPOINT", "FAULT_RESET", "HALT"}
MotorStates == {"READY", "RUNNING", "FAULT"}

(* compute_desired *)
Desired == [mode |-> MotorMode(op_mode_commanded), target |-> target_position]

Pipeline == INSTANCE OdService WITH
  Clients <- {"sequencer", "other"},
  Objects <- Params \union {"other"},
  Values  <- MotorModes \union Targets \union {"other"},
  Unknown <- Unset

WriteOf(p) == [is_read |-> FALSE, obj |-> p, val |-> Desired[p]]
OtherWrite == [is_read |-> FALSE, obj |-> "other", val |-> "other"]

Idle(step) == step = "IDLE"
Completed(c) == slot # Pipeline!Free /\ slot.client = c /\ slot.phase \in {"ok", "failed"}
Dec(n) == IF n > 0 THEN n - 1 ELSE 0
Bit(b, on) == IF on THEN {b} ELSE {}

-----------------------------------------------------------------------------
(* axis_manager_tick *)

(* The automatic fault clearing: AUTO_FAULT_CLEAR_DELAY_MS after the fault *)
(* was first seen, and again and again while it lasts.  pulse is           *)
(* clear_fault_pulse as compose_cyclic_cmd finds it.                       *)
ClearFaultAfterDwell(dwell, pulse) ==
  /\ fault_seen' = (axis_state = "FAULT")
  /\ dwell => axis_state = "FAULT" /\ fault_seen
  /\ pulse = (clear_fault_pulse \/ dwell)

Recorded_Always(ok) == [s_applied EXCEPT ![s_seq_step] = Desired[s_seq_step]]

(* apply_completed_step records what is desired now, not what was sent. *)
Recorded(ok) ==
  IF ok THEN [s_applied EXCEPT ![s_seq_step] = Desired[s_seq_step]] ELSE s_applied

(* First parameter to write, in the order of setup_sequencer_tick. *)
FirstDiff(applied) ==
  CASE Desired.mode # applied.mode -> "mode"
    [] Desired.mode = applied.mode /\ Desired.target # applied.target -> "target"
    [] OTHER -> "IDLE"

StartSdoWrite(p) ==
  /\ s_seq_step' = p
  /\ slot' = Pipeline!Opened("sequencer", WriteOf(p))
  /\ sent' = FALSE

(* setup_sequencer_tick: poll the write in flight, then start the next     *)
(* one unless another client holds the slot.                               *)
SetupSequencerTick ==
  LET polled  == ~Idle(s_seq_step) /\ Completed("sequencer")
      applied == IF polled THEN Recorded(slot.phase = "ok") ELSE s_applied
      free    == polled \/ slot = Pipeline!Free
  IN IF ~Idle(s_seq_step) /\ ~polled
     THEN UNCHANGED <<applying, slot, sent>>
     ELSE /\ s_applied' = applied
          /\ IF FirstDiff(applied) # "IDLE" /\ free
             THEN StartSdoWrite(FirstDiff(applied))
             ELSE /\ s_seq_step' = "IDLE"
                  /\ slot' = IF polled THEN Pipeline!Free ELSE slot
                  /\ UNCHANGED sent

SetupBusy_StepOnly(step, applied) == ~Idle(step)

(* setup_busy: the trigger waits for the whole setup to be acknowledged. *)
SetupBusy(step, applied) == ~Idle(step) \/ Desired # applied

LatchAfterTrigger_Kept(trigger) == start_move_pulse

LatchAfterTrigger(trigger) == start_move_pulse /\ ~trigger

Enabled_ModeOnly == op_mode_commanded # "OFF"

Enabled == enable_latch /\ op_mode_commanded # "OFF"

PulseAfterQuickStop_Kept == s_new_setpoint_remaining

PulseAfterQuickStop == 0

LatchAfterQuickStop_Kept == enable_latch

LatchAfterQuickStop == FALSE

(* A pulse that has begun is abandoned; start_move_pulse stays as it is. *)
ComposeQuickStop(reset) ==
  /\ quick_stop_pulse
  /\ enable_latch' = LatchAfterQuickStop
  /\ quick_stop_pulse' = FALSE
  /\ s_new_setpoint_remaining' = PulseAfterQuickStop
  /\ s_halt_remaining' = 0
  /\ s_fault_reset_remaining' = 0
  /\ controlword' = Bit("FAULT_RESET", reset > 0)
  /\ owed' = IF owed = "yes" /\ ~start_move_pulse THEN "stopped" ELSE owed
  /\ UNCHANGED start_move_pulse

ComposeFault(reset) ==
  /\ ~quick_stop_pulse /\ axis_state = "FAULT"
  /\ s_fault_reset_remaining' = Dec(reset)
  /\ controlword' = {"QUICK_STOP"} \union Bit("FAULT_RESET", reset > 0)
  /\ owed' = IF s_new_setpoint_remaining > 0 THEN "again" ELSE owed
  /\ UNCHANGED <<enable_latch, quick_stop_pulse, start_move_pulse,
                 s_new_setpoint_remaining, s_halt_remaining>>

ComposeMotion(reset) ==
  LET trigger == start_move_pulse /\ ~SetupBusy(s_seq_step', s_applied')
      new     == IF trigger THEN PulseCycles ELSE s_new_setpoint_remaining
  IN /\ ~quick_stop_pulse /\ axis_state # "FAULT"
     /\ s_fault_reset_remaining' = Dec(reset)
     /\ s_halt_remaining' = Dec(s_halt_remaining)
     /\ s_new_setpoint_remaining' = Dec(new)
     /\ start_move_pulse' = LatchAfterTrigger(trigger)
     /\ controlword' =
          {"QUICK_STOP"}
          \union Bit("FAULT_RESET", reset > 0)
          \union Bit("ENABLE", Enabled)
          \union Bit("HALT", s_halt_remaining > 0 \/ (Enabled /\ op_mode_commanded = "HOLD"))
          \union Bit("NEW_SETPOINT", new > 0)
     /\ UNCHANGED <<enable_latch, quick_stop_pulse, owed>>

ComposeCyclicCmd(pulse) ==
  LET reset == IF pulse THEN PulseCycles ELSE s_fault_reset_remaining
  IN /\ clear_fault_pulse' = FALSE
     /\ ComposeQuickStop(reset) \/ ComposeFault(reset) \/ ComposeMotion(reset)

(* app/od, the other client, has polled in its part of the last pass. *)
AxisTick(dwell) ==
  /\ pc \in {"boot", "handlers"} /\ ~Completed("other")
  /\ \E pulse \in BOOLEAN :
       /\ ClearFaultAfterDwell(dwell, pulse)
       /\ SetupSequencerTick
       /\ ComposeCyclicCmd(pulse)
  /\ pc' = "cia402"
  /\ UNCHANGED <<setup, axis_state, store, late, motor, left>>

-----------------------------------------------------------------------------
(* cia402_tick, as far as axis_manager can tell *)

(* Not a millisecond since the last frame. *)
NotDue ==
  /\ pc = "cia402"
  /\ pc' = "handlers"
  /\ UNCHANGED <<setup, latches, pulses, axis_state, fault_seen, applying,
                 controlword, pipeline, motor, owed, left>>

Unsent == slot # Pipeline!Free /\ slot.phase = "open" /\ ~sent

(* A new request's frame goes out in place of the controlword. *)
OdFrame ==
  /\ pc = "cia402" /\ Unsent
  /\ sent' = TRUE
  /\ axis_state' \in {axis_state, motor.state}
  /\ pc' = "handlers"
  /\ UNCHANGED <<setup, latches, pulses, fault_seen, applying, controlword, store, slot, late, motor, owed, left>>

(* What the motor does with a controlword: INTERFACE_SPEC and mc_if_od.h. *)
EdgeBits == {"NEW_SETPOINT", "FAULT_RESET"}

Edge(cw, b) == b \in cw /\ b \notin motor.cw

MotorTakes(cw) ==
  motor' = [cw    |-> cw \intersect EdgeBits,
            state |-> IF motor.state = "FAULT" /\ ~Edge(cw, "FAULT_RESET") THEN "FAULT"
                      ELSE IF {"ENABLE", "QUICK_STOP"} \subseteq cw THEN "RUNNING"
                      ELSE "READY"]

(* The step in which the motor latches its stored setup and moves. *)
Executes ==
  /\ "NEW_SETPOINT" \in motor'.cw /\ "NEW_SETPOINT" \notin motor.cw
  /\ motor'.state = "RUNNING"

Spend(kind) == left[kind] > 0 /\ left' = [left EXCEPT ![kind] = @ - 1]

Mute == slot # Pipeline!Free /\ slot.phase = "mute"

(* The controlword goes out; the motor may miss it, and with it comes in a *)
(* status or the end of the OD request in service.                         *)
CyclicFrame(delivered, ends) ==
  /\ pc = "cia402" /\ ~Unsent
  /\ IF delivered THEN MotorTakes(controlword) ELSE UNCHANGED motor
  /\ \/ ends = "no" /\ axis_state' \in {axis_state, motor.state}
        /\ UNCHANGED <<store, slot, late, left>>
     \/ ends = "ok" /\ Pipeline!Succeed /\ UNCHANGED <<axis_state, left>>
     \/ ends = "fail" /\ Pipeline!GiveUp /\ UNCHANGED axis_state
        /\ IF Mute THEN UNCHANGED left ELSE Spend("trouble")
  /\ owed' = IF Executes THEN "no" ELSE owed
  /\ pc' = "handlers"
  /\ UNCHANGED <<setup, latches, pulses, fault_seen, applying, controlword, sent>>

Cia402Tick ==
  \/ NotDue
  \/ OdFrame
  \/ \E delivered \in BOOLEAN, ends \in {"ok", "fail", "no"} : CyclicFrame(delivered, ends)

-----------------------------------------------------------------------------
(* Handlers: od_tick, controller_mgr_tick, web_tick *)

Settled ==
  /\ Idle(s_seq_step) /\ Desired = s_applied
  /\ ~start_move_pulse /\ s_new_setpoint_remaining = 0

Handler(kind) ==
  /\ pc = "handlers"
  /\ Spend(kind)
  /\ UNCHANGED <<axis_state, fault_seen, applying, controlword, pc>>

Request == Handler("requests") /\ UNCHANGED <<pipeline, motor>>

MaySetUp == Eager \/ Settled

SetOpMode(m) ==
  /\ Request /\ MaySetUp
  /\ op_mode_commanded' = m
  /\ UNCHANGED <<target_position, latches, pulses, owed>>

SetTargetPosition(t) ==
  /\ Request /\ MaySetUp
  /\ target_position' = t
  /\ UNCHANGED <<op_mode_commanded, latches, pulses, owed>>

(* cmc_state_move_to_shot: mode, target and trigger in one call. *)
MoveToShot(t) ==
  /\ Request /\ MaySetUp
  /\ op_mode_commanded' = "PROFILE_POSITION"
  /\ target_position' = t
  /\ start_move_pulse' = TRUE
  /\ owed' = "yes"
  /\ UNCHANGED <<enable_latch, quick_stop_pulse, clear_fault_pulse, pulses>>

RequestStartMove ==
  /\ Request
  /\ start_move_pulse' = TRUE
  /\ owed' = "yes"
  /\ UNCHANGED <<setup, enable_latch, quick_stop_pulse, clear_fault_pulse, pulses>>

RequestEnable(on) ==
  /\ Request
  /\ enable_latch' = on
  /\ UNCHANGED <<setup, quick_stop_pulse, clear_fault_pulse, start_move_pulse, pulses, owed>>

RequestQuickStop ==
  /\ Request
  /\ quick_stop_pulse' = TRUE
  /\ UNCHANGED <<setup, enable_latch, clear_fault_pulse, start_move_pulse, pulses, owed>>

RequestHalt ==
  /\ Request
  /\ s_halt_remaining' = PulseCycles
  /\ UNCHANGED <<setup, latches, s_new_setpoint_remaining, s_fault_reset_remaining, owed>>

RequestClearFault ==
  /\ Request
  /\ clear_fault_pulse' = TRUE
  /\ UNCHANGED <<setup, enable_latch, quick_stop_pulse, start_move_pulse, pulses, owed>>

(* Another client of the OD pipeline, app/od for one. *)
OtherBegins ==
  /\ Handler("trouble")
  /\ Pipeline!Begin("other", OtherWrite)
  /\ sent' = FALSE
  /\ UNCHANGED <<setup, latches, pulses, motor, owed>>

OtherPolls ==
  /\ pc = "handlers"
  /\ Pipeline!Collect("other")
  /\ UNCHANGED <<setup, latches, pulses, axis_state, fault_seen, applying,
                 controlword, pc, sent, motor, owed, left>>

-----------------------------------------------------------------------------
(* The motor *)

MotorSteps == /\ pc = "handlers"
              /\ UNCHANGED <<setup, latches, pulses, axis_state, fault_seen, applying,
                             controlword, pc, sent, motor, owed>>

MotorServes == MotorSteps /\ sent /\ Pipeline!TakeEffect /\ UNCHANGED left

Lost == MotorSteps /\ sent /\ Pipeline!Lose /\ Spend("trouble")

LateRequest == MotorSteps /\ (Pipeline!LateEffect \/ Pipeline!LateLost) /\ UNCHANGED left

(* A fault stops the drive. *)
MotorFault ==
  /\ Handler("trouble")
  /\ motor' = [motor EXCEPT !.state = "FAULT"]
  /\ UNCHANGED <<setup, latches, pulses, pipeline, owed>>

-----------------------------------------------------------------------------
(* axis_manager_init, with no configuration in flash *)
Init ==
  /\ op_mode_commanded = "OFF" /\ target_position = BootTarget
  /\ enable_latch = FALSE /\ quick_stop_pulse = FALSE
  /\ clear_fault_pulse = FALSE /\ start_move_pulse = FALSE
  /\ s_new_setpoint_remaining = 0 /\ s_halt_remaining = 0
  /\ s_fault_reset_remaining = 0
  /\ axis_state = "DISABLED" /\ fault_seen = FALSE
  /\ s_applied = [p \in Params |-> Unset] /\ s_seq_step = "IDLE"
  /\ controlword = {}
  /\ pc = "boot"
  /\ \E m \in Modes, t \in Targets :
       store = [mode |-> MotorMode(m), target |-> t, other |-> "other"]
  /\ slot = Pipeline!Free /\ late = {} /\ sent = FALSE
  /\ motor = [state |-> "READY", cw |-> {}]
  /\ owed = "no"
  /\ left \in Bounds

Operator ==
  \/ \E m \in Modes : SetOpMode(m)
  \/ \E t \in Targets : SetTargetPosition(t) \/ MoveToShot(t)
  \/ \E on \in BOOLEAN : RequestEnable(on)
  \/ RequestStartMove \/ RequestQuickStop \/ RequestHalt \/ RequestClearFault

Next ==
  \/ \E dwell \in BOOLEAN : AxisTick(dwell)
  \/ Cia402Tick
  \/ Operator \/ OtherBegins \/ OtherPolls
  \/ MotorServes \/ Lost \/ LateRequest \/ MotorFault

Spec == Init /\ [][Next]_vars

(* The super-loop goes round, frames are due again and again, the motor    *)
(* serves requests, and frames are not lost for ever.                      *)
Fairness ==
  /\ WF_vars(AxisTick(FALSE)) /\ WF_vars(Cia402Tick)
  /\ WF_vars(OtherPolls) /\ SF_vars(MotorServes)
  /\ SF_vars(OdFrame)
  /\ \A ends \in {"ok", "fail", "no"} : SF_vars(CyclicFrame(TRUE, ends))

FairSpec == Spec /\ Fairness

-----------------------------------------------------------------------------
(* Properties *)

(* Every variable stays in its range; no countdown of pulses falls below   *)
(* zero or outgrows PulseCycles.                                           *)
TypeOK ==
  /\ op_mode_commanded \in AxisModes /\ target_position \in Targets
  /\ enable_latch \in BOOLEAN /\ quick_stop_pulse \in BOOLEAN
  /\ clear_fault_pulse \in BOOLEAN /\ start_move_pulse \in BOOLEAN
  /\ s_new_setpoint_remaining \in 0 .. PulseCycles
  /\ s_halt_remaining \in 0 .. PulseCycles
  /\ s_fault_reset_remaining \in 0 .. PulseCycles
  /\ axis_state \in MotorStates \union {"DISABLED"} /\ fault_seen \in BOOLEAN
  /\ s_applied \in [mode : MotorModes \union {Unset}, target : Targets \union {Unset}]
  /\ s_seq_step \in Params \union {"IDLE"}
  /\ controlword \in SUBSET Bits
  /\ pc \in {"boot", "cia402", "handlers"}
  /\ sent \in BOOLEAN
  /\ motor \in [state : MotorStates, cw : SUBSET EdgeBits]
  /\ owed \in {"no", "yes", "stopped", "again"}

(* The setup the sequencer takes for applied is the one the motor holds,   *)
(* whatever failed, was retried or came late on the way.                   *)
AppliedIsStored ==
  \A p \in Params : s_applied[p] = Desired[p] => store[p] = Desired[p]

(* The requests there are, and the slot that bears one. *)
Writes == [is_read : {FALSE}, obj : Params \union {"other"},
           val : MotorModes \union Targets \union {"other"}]

SlotRecords == [phase  : {"open", "effective", "mute", "ok", "failed"},
                client : {"sequencer", "other"}, req : Writes, data : {Unset}]

PipelineOK ==
  /\ store \in [Params \union {"other"} -> MotorModes \union Targets \union {"other"}]
  /\ slot = Pipeline!Free \/ slot \in SlotRecords
  /\ late \in SUBSET Writes

Effective == slot # Pipeline!Free /\ slot.phase \in {"effective", "ok"}

(* The sequencer's step is the request in the slot, and the step is one    *)
(* that was needed.  Once it took effect nothing older can, and a write    *)
(* given up that still may is of a parameter that will be written again.   *)
StepIsTracked ==
  /\ ~Idle(s_seq_step) =>
       /\ slot # Pipeline!Free /\ slot.client = "sequencer"
       /\ slot.req = WriteOf(s_seq_step)
       /\ s_applied[s_seq_step] # Desired[s_seq_step]
  /\ slot # Pipeline!Free /\ slot.client = "sequencer" => ~Idle(s_seq_step)
  /\ slot # Pipeline!Free /\ slot.client = "other" => slot.req = OtherWrite
  /\ Effective => late = {} /\ store[slot.req.obj] = slot.req.val
  /\ \A req \in late : \/ req = OtherWrite
                      \/ \E p \in Params : req = WriteOf(p) /\ s_applied[p] # Desired[p]

(* The setup stays applied while a pulse lasts.  A request not yet given   *)
(* is owed; when nothing is, a bit on the wire is one the motor has seen,  *)
(* and after a quick stop there is none.                                   *)
TriggerIsTracked ==
  /\ s_new_setpoint_remaining > 0 => Idle(s_seq_step) /\ Desired = s_applied
  /\ pc = "cia402" /\ "NEW_SETPOINT" \in controlword =>
       Idle(s_seq_step) /\ Desired = s_applied /\ ~start_move_pulse
  /\ start_move_pulse => owed \in {"yes", "again"}
  /\ owed = "no" =>
       /\ s_new_setpoint_remaining > 0 => "NEW_SETPOINT" \in controlword
       /\ "NEW_SETPOINT" \in controlword => "NEW_SETPOINT" \in motor.cw
  /\ owed = "stopped" => s_new_setpoint_remaining = 0 /\ "NEW_SETPOINT" \notin controlword

(* What the sequencer and the composer of controlwords leave behind after  *)
(* every step of the pass: counters in range, the setup that counts as     *)
(* applied is the motor's, and no trigger but one that is owed; inductive  *)
(* for the pass, the handlers, the pipeline and the motor.                 *)
SetupInv ==
  TypeOK /\ PipelineOK /\ StepIsTracked /\ TriggerIsTracked /\ AppliedIsStored

(* The motor never latches a setup other than the commanded one: README.md *)
(* of axis_manager, "Start-move trigger".                                  *)
SetupBeforeTrigger ==
  [][Executes => \A p \in Params : store[p] = Desired[p]]_vars

(* A move is executed at most once for each request, except that a fault   *)
(* in the middle of the pulse may repeat it.                               *)
OneMovePerRequest == [][Executes => owed # "no"]_vars

(* A quick stop abandons the move whose pulse has begun but which the      *)
(* motor has not taken: a new enable does not start it.  README.md,        *)
(* quick_stop, says so of a move that still waits for its setup as well;   *)
(* that one is executed after the next enable.                             *)
QuickStopAbandonsMove == [][Executes => owed # "stopped"]_vars

(* A quick stop clears the enable, whatever enable was requested before    *)
(* the pass that takes it; and once cleared the drive leaves RUNNING,      *)
(* though the one controlword with the QUICK_STOP bit cleared may never go *)
(* out, unless the operator enables it again.                              *)
QuickStopStops ==
  /\ quick_stop_pulse ~> ~quick_stop_pulse /\ ~enable_latch
  /\ ~enable_latch ~> motor.state # "RUNNING" \/ enable_latch

(* The motor ends up with the commanded setup.                             *)
SetupConverges == <>[](\A p \in Params : store[p] = Desired[p])

(* A requested trigger is given as soon as the setup is there.             *)
StartIsServed == start_move_pulse ~> (~start_move_pulse \/ axis_state = "FAULT")
=============================================================================
