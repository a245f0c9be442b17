------------------------------ MODULE CmcShots ------------------------------
(***************************************************************************)
(* app/cmc_state: the shots and the stick.  Panels store the position the  *)
(* motor is at, recall it (CUT, FADE), STOP, and send MOVEMENT messages    *)
(* with the position of a stick; cmc_state_update_from_motor, once per     *)
(* pass, concludes from the motor's status whether a shot was reached, and *)
(* stops the axis when MOVEMENT messages cease.                            *)
(*                                                                         *)
(* A pass is: axis_manager_tick, which counts the pulses down, with        *)
(* cia402_tick, which may or may not send the controlword to the motor;    *)
(* cmc_state_update_from_motor; controller_mgr_tick.  The setup sequencer  *)
(* (AxisMotion) is reduced to when the motor has mode and target.          *)
(* Durations of moves, faults and quick stops are left out, and so are the *)
(* buttons on the board and the modes and targets a PC tool sets.          *)
(***************************************************************************)
EXTENDS Integers

CONSTANTS
  CMC_MAX_SHOTS,  \* shot slots (100)
  Positions,      \* positions of the axis
  Loaded,         \* tables of shots the flash may hold at boot
  PULSE_CYCLES,   \* NEW_SETPOINT_PULSE_CYCLES and HALT_PULSE_CYCLES (3)
  Bounds          \* bounds: shots stored and recalled and stops (requests),
                  \* MOVEMENT messages, late triggers and disabled drives
                  \* (trouble), in a behaviour

ShotNos == 1 .. CMC_MAX_SHOTS
NoShot  == 0
Empty   == "empty"
Center  == 0

ASSUME ConstantsAssumption ==
  /\ CMC_MAX_SHOTS \in Nat \ {0}
  /\ Positions # {} /\ Empty \notin Positions
  /\ Loaded \subseteq [ShotNos -> Positions \union {Empty}]
  /\ PULSE_CYCLES \in Nat \ {0}
  /\ Bounds \subseteq [requests : Nat, movements : Nat, trouble : Nat]

VARIABLES
  pc,                                 \* the next step of the super-loop
  s_shots,
  s_current_shot, s_next_shot, s_moving, s_on_shot,
  age,                                \* of s_move_started_ms
  s_move_ack_seen, s_move_ack_warned,
  s_movement_active, silent,          \* JOYSTICK_WATCHDOG_MS without MOVEMENT
  op_mode_commanded, target_position, joystick_raw,  \* axis_manager
  enable_latch, start_move_pulse,                    \* axis_manager
  s_new_setpoint_remaining, s_halt_remaining,        \* axis_manager
  stored,                             \* mode and target the motor has stored
  overtaken,                          \* was the setup changed while it was
                                      \* being written?
  status,                             \* the last status received
  homed,                              \* axis_manager_is_homed (OdClients)
  motor,                              \* what it does, where it is, and the
                                      \* controlword it saw last
  taken,                              \* history: has the motor taken the
                                      \* trigger of the last recall?
  hampered,                           \* history: was the drive off in the
                                      \* last move, or its trigger late?
  left                                \* bounds: events still to come

shots    == <<s_shots, s_current_shot, s_next_shot, s_moving, s_on_shot>>
ack      == <<age, s_move_ack_seen, s_move_ack_warned>>
stick    == <<s_movement_active, silent, joystick_raw>>
commands == <<op_mode_commanded, target_position, enable_latch, start_move_pulse>>
pulses   == <<s_new_setpoint_remaining, s_halt_remaining>>
setup    == <<stored, overtaken>>
history  == <<taken, hampered>>
vars == <<pc, shots, ack, stick, commands, pulses, setup, status, homed, motor, history, left>>

At(step, next) == pc = step /\ pc' = next

Spend(kind) == left[kind] > 0 /\ left' = [left EXCEPT ![kind] = @ - 1]

-----------------------------------------------------------------------------
(* axis_manager_tick and cia402_tick, with the motor at the other end *)

Status == [moving |-> motor.does # "rest", on_target |-> motor.on_target, pos |-> motor.pos]

(* What the setup sequencer has told the motor after this pass: the mode,  *)
(* then the target, all of it when it is ready.  A value changed while it  *)
(* was being written counts as applied though the motor has another one.   *)
Commanded == [mode |-> op_mode_commanded, target |-> target_position]

Written(ready) ==
  CASE stored = Commanded -> {stored}
    [] stored # Commanded /\ overtaken ->
         [mode : {stored.mode, op_mode_commanded}, target : Positions]
    [] stored # Commanded /\ ~overtaken ->
         IF ready THEN {Commanded}
         ELSE {stored, [stored EXCEPT !.mode = op_mode_commanded], Commanded}

(* The trigger waits for the setup, then becomes a pulse. *)
Triggers(ready) == start_move_pulse /\ ready

NewSetpointCycles(ready) ==
  IF Triggers(ready) THEN PULSE_CYCLES ELSE s_new_setpoint_remaining

Bits == {"ENABLE", "HALT", "NEW_SETPOINT"}

Controlword(ready) ==
  {bit \in Bits :
     \/ bit = "ENABLE" /\ enable_latch /\ op_mode_commanded # "OFF"
     \/ bit = "HALT" /\ s_halt_remaining > 0
     \/ bit = "NEW_SETPOINT" /\ NewSetpointCycles(ready) > 0}

OneLess(n) == IF n > 0 THEN n - 1 ELSE 0

(* Each pass uses up a cycle of the pulses, whether a frame goes out or not. *)
AxisTick(ready) ==
  /\ At("axis", "update")
  /\ stored' \in Written(ready)
  /\ start_move_pulse' = (start_move_pulse /\ ~Triggers(ready))
  /\ s_new_setpoint_remaining' = OneLess(NewSetpointCycles(ready))
  /\ s_halt_remaining' = OneLess(s_halt_remaining)
  /\ status' \in {status, Status}
  /\ UNCHANGED <<shots, ack, stick, op_mode_commanded, target_position, enable_latch,
                 overtaken, homed, hampered, left>>

(* The motor acts on the rising edges of NEW_SETPOINT and HALT; the former *)
(* starts the move to the stored target in position mode.                  *)
Rises(bit, cw) == bit \in cw /\ bit \notin motor.cw

Starts(cw, has) ==
  "ENABLE" \in cw /\ Rises("NEW_SETPOINT", cw) /\ has.mode = "PROFILE_POSITION"

Jogs(has) ==
  has.mode = "JOYSTICK" /\ op_mode_commanded = "JOYSTICK" /\ joystick_raw # Center

Does(cw, has) ==
  CASE "ENABLE" \notin cw -> "rest"
    [] Starts(cw, has) -> "go"
    [] "ENABLE" \in cw /\ ~Starts(cw, has) ->
         CASE Rises("HALT", cw) -> "rest"
           [] ~Rises("HALT", cw) /\ has.mode = "PROFILE_POSITION" ->
                IF motor.does = "go" THEN "go" ELSE "rest"
           [] OTHER -> IF Jogs(has) THEN "jog" ELSE "rest"

(* A cyclic frame reaches the motor with the controlword of this pass. *)
Frame(ready) ==
  /\ AxisTick(ready)
  /\ LET cw == Controlword(ready)
     IN /\ motor' = [motor EXCEPT !.cw = cw,
                                  !.does = Does(cw, stored'),
                                  !.goal = IF Starts(cw, stored') THEN stored'.target ELSE @,
                                  !.on_target = @ /\ ~Starts(cw, stored')]
        /\ taken' = (taken \/ (Starts(cw, stored') /\ stored' = Commanded /\ ~start_move_pulse'))

(* None does: it is not due, carries an OD request instead, or is lost. *)
NoFrame(ready) == AxisTick(ready) /\ UNCHANGED <<motor, taken>>

-----------------------------------------------------------------------------
(* cmc_state_update_from_motor *)

RawAfterWatchdog_Kept(fires) == joystick_raw

RawAfterWatchdog(fires) == IF fires THEN Center ELSE joystick_raw

WatchdogFires_Settled == s_movement_active /\ silent /\ ~s_moving

WatchdogFires == s_movement_active /\ silent

JoystickWatchdog ==
  /\ joystick_raw' = RawAfterWatchdog(WatchdogFires)
  /\ s_movement_active' = (s_movement_active /\ ~WatchdogFires)
  /\ UNCHANGED silent

Overdue_Never == FALSE

(* MOVE_ACK_WATCHDOG_MS after the request *)
Overdue == age = "late"

AckWatchdog ==
  IF s_next_shot # NoShot
  THEN /\ s_move_ack_seen' = (s_move_ack_seen \/ status.moving)
       /\ s_move_ack_warned' = (s_move_ack_warned \/ (~s_move_ack_seen' /\ Overdue))
  ELSE UNCHANGED <<s_move_ack_seen, s_move_ack_warned>>

Arrived_NoGrace == status.on_target /\ ~status.moving

(* on_target is not trusted for ARRIVAL_GRACE_MS after the request. *)
Arrived == status.on_target /\ ~status.moving /\ age # "grace"

TrackMotor ==
  \/ /\ s_next_shot = NoShot
     /\ s_moving' = status.moving
     /\ UNCHANGED <<s_current_shot, s_next_shot, s_on_shot>>
  \/ /\ s_next_shot # NoShot /\ Arrived
     /\ s_moving' = FALSE
     /\ s_on_shot' = TRUE
     /\ s_current_shot' = s_next_shot
     /\ s_next_shot' = NoShot
  \/ /\ s_next_shot # NoShot /\ ~Arrived
     /\ s_moving' = TRUE
     /\ s_on_shot' = FALSE
     /\ UNCHANGED <<s_current_shot, s_next_shot>>

UpdateFromMotor ==
  /\ At("update", "handlers")
  /\ JoystickWatchdog /\ AckWatchdog /\ TrackMotor
  /\ UNCHANGED <<s_shots, age, commands, pulses, setup, status, homed, motor, history, left>>

-----------------------------------------------------------------------------
(* Handlers, called by controller_mgr_tick *)

Handler(kind) == pc = "handlers" /\ Spend(kind) /\ UNCHANGED <<pc, status, homed, motor>>

(* A handler that changes the setup may find the last change still being written. *)
SetupOvertaken(mode, target) ==
  stored # Commanded /\ (overtaken \/ [mode |-> mode, target |-> target] # Commanded)

HandlersEnd ==
  /\ At("handlers", "axis")
  /\ UNCHANGED <<shots, ack, stick, commands, pulses, setup, status, homed, motor, history, left>>

(* cmc_state_store_shot *)
StoreShot(n) ==
  /\ Handler("requests")
  /\ s_shots' = [s_shots EXCEPT ![n] = status.pos]
  /\ s_current_shot' = n
  /\ UNCHANGED <<s_next_shot, s_moving, s_on_shot, ack, stick, commands, pulses, setup, history>>

(* the slot of cmc_state_store_next *)
Following == IF s_current_shot \in 1 .. CMC_MAX_SHOTS - 1 THEN s_current_shot + 1 ELSE 1

StoreNext == StoreShot(Following)

(* cmc_state_move_to_shot, for a shot that is stored, on a homed axis *)
MoveToShot(n) ==
  /\ Handler("requests")
  /\ s_shots[n] # Empty /\ homed
  /\ op_mode_commanded' = "PROFILE_POSITION"
  /\ target_position' = s_shots[n]
  /\ start_move_pulse' = TRUE
  /\ s_next_shot' = n
  /\ s_moving' = TRUE
  /\ s_on_shot' = FALSE
  /\ age' = "grace"
  /\ s_move_ack_seen' = FALSE
  /\ s_move_ack_warned' = FALSE
  /\ overtaken' = SetupOvertaken("PROFILE_POSITION", s_shots[n])
  /\ taken' = FALSE
  /\ hampered' = ~enable_latch
  /\ UNCHANGED <<s_shots, s_current_shot, stick, enable_latch, pulses, stored>>

(* cmc_state_stop_movement *)
StopMovement ==
  /\ Handler("requests")
  /\ s_halt_remaining' = PULSE_CYCLES
  /\ s_moving' = FALSE
  /\ s_next_shot' = NoShot
  /\ UNCHANGED <<s_shots, s_current_shot, s_on_shot, ack, stick, commands,
                 s_new_setpoint_remaining, setup, history>>

Refused_Never == FALSE

Refused == s_moving

(* cmc_state_handle_movement *)
HandleMovement(pan) ==
  /\ Handler("movements")
  /\ IF Refused
     THEN UNCHANGED <<stick, op_mode_commanded, overtaken>>
     ELSE /\ silent' = FALSE
          /\ s_movement_active' = TRUE
          /\ op_mode_commanded' = "JOYSTICK"
          /\ joystick_raw' = pan
          /\ overtaken' = SetupOvertaken("JOYSTICK", target_position)
  /\ UNCHANGED <<shots, ack, target_position, enable_latch, start_move_pulse, pulses, stored, history>>

(* SELECT and GRAB, app/controller_mgr; or the PC tool *)
Enable ==
  /\ pc = "handlers" /\ ~enable_latch
  /\ enable_latch' = TRUE
  /\ UNCHANGED <<pc, shots, ack, stick, op_mode_commanded, target_position, start_move_pulse,
                 pulses, setup, status, homed, motor, history, left>>

(* the time-out of a panel, or the PC tool *)
Disable ==
  /\ Handler("trouble") /\ enable_latch
  /\ enable_latch' = FALSE
  /\ hampered' = TRUE
  /\ UNCHANGED <<shots, ack, stick, op_mode_commanded, target_position, start_move_pulse,
                 pulses, setup, taken>>

-----------------------------------------------------------------------------
(* Time and the motor *)

Elsewhere == UNCHANGED <<pc, shots, commands, pulses, setup, status, taken>>

(* Can the motor still take the trigger of this move? *)
Pending == start_move_pulse \/ (s_new_setpoint_remaining > 0 /\ ~taken)

(* Later in the move.  When the grace period is over the trigger has been  *)
(* given and the status is one from after it, or it was late.              *)
MoveAges ==
  /\ Elsewhere /\ age # "late"
  /\ age' = IF age = "grace" THEN "early" ELSE "late"
  /\ IF age = "grace" /\ (Pending \/ status # Status)
     THEN Spend("trouble") /\ hampered' = TRUE
     ELSE UNCHANGED <<left, hampered>>
  /\ UNCHANGED <<s_move_ack_seen, s_move_ack_warned, stick, homed, motor>>

Silence ==
  /\ Elsewhere /\ ~silent
  /\ silent' = TRUE
  /\ UNCHANGED <<ack, s_movement_active, joystick_raw, homed, motor, hampered, left>>

MotorArrives ==
  /\ Elsewhere /\ motor.does = "go"
  /\ motor' = [motor EXCEPT !.does = "rest", !.pos = motor.goal, !.on_target = TRUE]
  /\ UNCHANGED <<ack, stick, homed, hampered, left>>

MotorJogs(p, reached) ==
  /\ Elsewhere /\ motor.does = "jog"
  /\ motor' = [motor EXCEPT !.pos = p, !.on_target = reached]
  /\ UNCHANGED <<ack, stick, homed, hampered, left>>

-----------------------------------------------------------------------------
(* Where the axis is at the start; positions differ in nothing but name. *)
Start == CHOOSE p \in Positions : TRUE

(* cmc_state_init loads the shots from flash. *)
Init ==
  /\ pc = "axis"
  /\ s_shots \in Loaded
  /\ s_current_shot = NoShot /\ s_next_shot = NoShot
  /\ s_moving = FALSE /\ s_on_shot = FALSE
  /\ age = "late" /\ s_move_ack_seen = FALSE /\ s_move_ack_warned = FALSE
  /\ s_movement_active = FALSE /\ silent = TRUE /\ joystick_raw = Center
  /\ op_mode_commanded = "OFF" /\ target_position = Start
  /\ enable_latch = FALSE /\ start_move_pulse = FALSE
  /\ s_new_setpoint_remaining = 0 /\ s_halt_remaining = 0
  /\ stored = Commanded /\ overtaken = FALSE
  /\ homed \in BOOLEAN
  /\ \E reached \in BOOLEAN :
       motor = [does |-> "rest", pos |-> Start, goal |-> Start, on_target |-> reached, cw |-> {}]
  /\ status = Status
  /\ taken = FALSE /\ hampered = FALSE
  /\ left \in Bounds

SuperLoop ==
  \/ \E ready \in BOOLEAN : Frame(ready) \/ NoFrame(ready)
  \/ UpdateFromMotor \/ HandlersEnd

Panel ==
  \/ \E n \in ShotNos : StoreShot(n) \/ MoveToShot(n)
  \/ StoreNext \/ StopMovement
  \/ \E pan \in {Center, 1} : HandleMovement(pan)
  \/ Enable \/ Disable

Next ==
  \/ SuperLoop \/ Panel
  \/ MoveAges \/ Silence \/ MotorArrives
  \/ \E p \in Positions, reached \in BOOLEAN : MotorJogs(p, reached)

Spec == Init /\ [][Next]_vars

(* The super-loop goes round, setups are written, frames go out and bring  *)
(* a status, time passes, and a motor that runs gets there.                *)
Fairness ==
  /\ WF_vars(SuperLoop) /\ SF_vars(Frame(TRUE) /\ status' = Status)
  /\ WF_vars(MoveAges) /\ WF_vars(Silence) /\ WF_vars(MotorArrives)

FairSpec == Spec /\ Fairness

-----------------------------------------------------------------------------
(* Properties *)

Modes        == {"OFF", "JOYSTICK", "PROFILE_POSITION"}
MotorStates  == [does : {"rest", "jog", "go"}, pos : Positions, goal : Positions,
                 on_target : BOOLEAN, cw : SUBSET Bits]
StatusValues == [moving : BOOLEAN, on_target : BOOLEAN, pos : Positions]

(* Every variable stays in its range; shot numbers are those of slots.     *)
TypeOK ==
  /\ pc \in {"axis", "update", "handlers"}
  /\ s_shots \in [ShotNos -> Positions \union {Empty}]
  /\ s_current_shot \in ShotNos \union {NoShot} /\ s_next_shot \in ShotNos \union {NoShot}
  /\ s_moving \in BOOLEAN /\ s_on_shot \in BOOLEAN
  /\ age \in {"grace", "early", "late"}
  /\ s_move_ack_seen \in BOOLEAN /\ s_move_ack_warned \in BOOLEAN
  /\ s_movement_active \in BOOLEAN /\ silent \in BOOLEAN /\ joystick_raw \in {Center, 1}
  /\ op_mode_commanded \in Modes /\ target_position \in Positions
  /\ enable_latch \in BOOLEAN /\ start_move_pulse \in BOOLEAN
  /\ s_new_setpoint_remaining \in 0 .. PULSE_CYCLES /\ s_halt_remaining \in 0 .. PULSE_CYCLES
  /\ stored \in [mode : Modes, target : Positions] /\ overtaken \in BOOLEAN
  /\ status \in StatusValues /\ motor \in MotorStates
  /\ homed \in BOOLEAN /\ taken \in BOOLEAN /\ hampered \in BOOLEAN

(* While a shot is under way the stick is locked out and the axis stays in *)
(* position mode: "PROFILE_POSITION takes precedence over the joystick".   *)
ShotHasPrecedence ==
  s_next_shot # NoShot => s_moving /\ op_mode_commanded = "PROFILE_POSITION"

(* The motor stands where the recalled shot is. *)
AtShot == motor.does = "rest" /\ motor.pos = target_position

(* A shot whose trigger the motor took counts as reached only when the     *)
(* motor stands there, whatever halts, older pulses and stale status come  *)
(* in between; not so when the drive was off or the trigger came after the *)
(* grace period.                                                           *)
ArrivalIsReal ==
  [][~s_on_shot /\ s_on_shot' /\ taken /\ ~hampered => AtShot]_vars

(* What cmc_state.c says of the grace period: "By then the motor MCU has   *)
(* definitely seen NEW_SETPOINT".  So a shot counts as reached only when   *)
(* the motor stands there, unless the drive was off or the trigger late.   *)
GraceSuffices ==
  [][~s_on_shot /\ s_on_shot' /\ ~hampered => AtShot]_vars

(* No deflection of the stick without its watchdog.                        *)
StickIsWatched == joystick_raw # Center => s_movement_active

(* Why an arrival can be believed.  Once the motor has taken the trigger   *)
(* it goes to the shot or stands there, and no pulse still running can     *)
(* give it another edge; the trigger was taken in the grace period, and a  *)
(* status after it that says on_target at rest says it of this shot.       *)
MoveIsTracked ==
  s_next_shot # NoShot /\ ~hampered =>
    /\ enable_latch
    /\ Pending => age = "grace"
    /\ taken =>
         /\ ~start_move_pulse /\ stored = Commanded
         /\ motor.goal = target_position
         /\ motor.does = "go" \/ AtShot
         /\ s_new_setpoint_remaining > 0 => "NEW_SETPOINT" \in motor.cw
         /\ s_halt_remaining > 0 => "HALT" \in motor.cw
         /\ status.on_target /\ ~status.moving => age = "grace" \/ AtShot

(* Shot numbers and states in range, the stick under its watchdog, and a   *)
(* shot under way alone with the axis, on its way or there: inductive for  *)
(* the pass, the panels' messages and the motor.                           *)
ShotsInv == TypeOK /\ StickIsWatched /\ ShotHasPrecedence /\ MoveIsTracked

(* When MOVEMENT messages cease, the axis stops.                           *)
SilentStickStops == motor.does = "jog" ~> motor.does # "jog"

(* A recalled shot is reached, stopped, or reported as a missed move,      *)
(* unless the motor was seen to move and then the drive was switched off   *)
(* or the trigger was never taken.                                         *)
MoveEnds ==
  s_next_shot # NoShot
    ~> \/ s_next_shot = NoShot
       \/ s_move_ack_warned
       \/ s_move_ack_seen /\ (hampered \/ ~taken)
=============================================================================
