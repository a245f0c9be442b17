--------------------------- MODULE CmcShotsProofs ---------------------------
(***************************************************************************)
(* Theorems about app/cmc_state for every number of shots, every set of    *)
(* positions and any number of messages.                                   *)
(***************************************************************************)
EXTENDS CmcShots, TLAPS

(* A status tells where the motor is, whether it moves and is on target.   *)
LEMMA StatusTells ==
  ASSUME motor \in MotorStates
  PROVE  /\ Status \in StatusValues
         /\ Status.moving <=> motor.does # "rest"
         /\ Status.on_target <=> motor.on_target
<1>1. /\ Status.moving = (motor.does # "rest")
      /\ Status.on_target = motor.on_target
      /\ Status = [moving |-> Status.moving, on_target |-> Status.on_target, pos |-> motor.pos]
  BY DEF Status
<1>2. motor.on_target \in BOOLEAN /\ motor.pos \in Positions
  BY DEF MotorStates
<1>3. Status.moving \in BOOLEAN /\ Status.on_target \in BOOLEAN
  BY <1>1, <1>2, Zenon
<1>4. Status \in StatusValues
  BY <1>2, Zenon DEF Status, StatusValues
<1> QED  BY <1>1, <1>4, Zenon

LEMMA InitShots == Init => ShotsInv
<1> SUFFICES ASSUME Init PROVE ShotsInv
  OBVIOUS
<1>1. Start \in Positions
  BY ConstantsAssumption DEF Start
<1>2. motor \in MotorStates
  BY <1>1 DEF Init, MotorStates
<1>3. status \in StatusValues
  BY <1>2, StatusTells DEF Init
<1>4. s_shots \in [ShotNos -> Positions \union {Empty}]
  BY ConstantsAssumption DEF Init
<1>5. stored \in [mode : Modes, target : Positions]
  BY <1>1 DEF Init, Commanded, Modes
<1>6. 0 \in 0 .. PULSE_CYCLES
  BY ConstantsAssumption
<1>7. TypeOK
  BY <1>1, <1>2, <1>3, <1>4, <1>5, <1>6 DEF Init, TypeOK, Modes
<1> QED  BY <1>7 DEF Init, ShotsInv, StickIsWatched, ShotHasPrecedence, MoveIsTracked

(* A pass counts the pulses down, and changes nothing in a setup that is   *)
(* written.                                                                *)
LEMMA TickDoes ==
  ASSUME ShotsInv, NEW ready \in BOOLEAN, AxisTick(ready)
  PROVE  /\ pc' = "update"
         /\ stored' \in [mode : Modes, target : Positions]
         /\ stored = Commanded => stored' = stored
         /\ Commanded' = Commanded
         /\ start_move_pulse' \in BOOLEAN
         /\ start_move_pulse' <=> start_move_pulse /\ ~ready
         /\ s_new_setpoint_remaining' \in 0 .. PULSE_CYCLES
         /\ s_new_setpoint_remaining' > 0 => NewSetpointCycles(ready) > 0
         /\ ~start_move_pulse => NewSetpointCycles(ready) = s_new_setpoint_remaining
         /\ s_halt_remaining' \in 0 .. PULSE_CYCLES
         /\ s_halt_remaining' > 0 => s_halt_remaining > 0
         /\ status' \in StatusValues
         /\ status' \in {status, Status}
         /\ UNCHANGED <<shots, ack, stick, op_mode_commanded, target_position, enable_latch,
                        overtaken, homed, hampered, left>>
<1> USE DEF ShotsInv, TypeOK
<1>1. /\ pc' = "update" /\ stored' \in Written(ready) /\ status' \in {status, Status}
      /\ s_new_setpoint_remaining' = OneLess(NewSetpointCycles(ready))
      /\ s_halt_remaining' = OneLess(s_halt_remaining)
      /\ UNCHANGED <<shots, ack, stick, op_mode_commanded, target_position, enable_latch,
                     overtaken, homed, hampered, left>>
  BY DEF AxisTick, At
<1>2. /\ start_move_pulse' \in BOOLEAN
      /\ start_move_pulse' <=> start_move_pulse /\ ~ready
  BY Zenon DEF AxisTick, Triggers
<1>3. Commanded \in [mode : Modes, target : Positions] /\ Commanded' = Commanded
  BY <1>1 DEF Commanded
<1>4. Written(ready) \subseteq [mode : Modes, target : Positions]
  <2>1. CASE stored = Commanded
    BY <2>1 DEF Written
  <2>2. CASE stored # Commanded /\ overtaken
    BY <2>2 DEF Written
  <2>3. CASE stored # Commanded /\ ~overtaken
    BY <1>3, <2>3 DEF Written
  <2> QED  BY <2>1, <2>2, <2>3
<1>5. stored = Commanded => stored' = stored
  BY <1>1 DEF Written
<1>6. NewSetpointCycles(ready) \in 0 .. PULSE_CYCLES
  BY ConstantsAssumption DEF NewSetpointCycles
<1>7. /\ s_new_setpoint_remaining' \in 0 .. PULSE_CYCLES
      /\ s_new_setpoint_remaining' > 0 => NewSetpointCycles(ready) > 0
      /\ s_halt_remaining' \in 0 .. PULSE_CYCLES
      /\ s_halt_remaining' > 0 => s_halt_remaining > 0
  BY <1>1, <1>6, ConstantsAssumption DEF OneLess
<1>8. ~start_move_pulse => NewSetpointCycles(ready) = s_new_setpoint_remaining
  BY DEF NewSetpointCycles, Triggers
<1>9. status' \in StatusValues
  BY <1>1, StatusTells
<1> QED  BY <1>1, <1>2, <1>3, <1>4, <1>5, <1>7, <1>8, <1>9

(* A pass without a frame: the pulses run on, and a motor that has seen    *)
(* their edge sees none again.                                             *)
LEMMA NoFrameKeeps ==
  ASSUME ShotsInv, NEW ready \in BOOLEAN, NoFrame(ready)
  PROVE  ShotsInv'
<1> USE DEF ShotsInv
<1>1. AxisTick(ready) /\ UNCHANGED <<motor, taken>>
  BY DEF NoFrame
<1>2. TypeOK'
  BY <1>1, TickDoes DEF TypeOK, shots, ack, stick
<1>3. StickIsWatched' /\ ShotHasPrecedence'
  BY <1>1, TickDoes DEF StickIsWatched, ShotHasPrecedence, shots, stick
<1>4. MoveIsTracked'
  <2> SUFFICES ASSUME s_next_shot # NoShot, ~hampered
               PROVE  MoveIsTracked'
    BY <1>1, TickDoes DEF MoveIsTracked, shots
  <2>1. Status.moving <=> motor.does # "rest"
    BY StatusTells DEF TypeOK
  <2>2. Pending' => Pending
    BY <1>1, TickDoes DEF Pending, NewSetpointCycles, Triggers
  <2>3. taken => ~start_move_pulse
    BY DEF MoveIsTracked
  <2> QED  BY <1>1, <2>1, <2>2, <2>3, TickDoes DEF MoveIsTracked, AtShot, shots, ack
<1> QED  BY <1>2, <1>3, <1>4

(* What a controlword means to the motor. *)
LEMMA ControlwordTells ==
  ASSUME NEW ready \in BOOLEAN
  PROVE  /\ Controlword(ready) \subseteq Bits
         /\ "ENABLE" \in Controlword(ready) <=> enable_latch /\ op_mode_commanded # "OFF"
         /\ "HALT" \in Controlword(ready) <=> s_halt_remaining > 0
         /\ "NEW_SETPOINT" \in Controlword(ready) <=> NewSetpointCycles(ready) > 0
  BY DEF Controlword, Bits

(* A frame: the edge sends the motor to what it has stored, and when that  *)
(* is the shot's setup the trigger of the recall is taken.  Once taken, no *)
(* later frame of the same pulses has another edge.                        *)
LEMMA FrameKeeps ==
  ASSUME ShotsInv, NEW ready \in BOOLEAN, Frame(ready)
  PROVE  ShotsInv'
<1> USE DEF ShotsInv
<1> DEFINE cw == Controlword(ready)
           starts == Starts(cw, stored')
<1>1. /\ AxisTick(ready)
      /\ motor' = [motor EXCEPT !.cw = cw,
                                !.does = Does(cw, stored'),
                                !.goal = IF starts THEN stored'.target ELSE @,
                                !.on_target = @ /\ ~starts]
  BY DEF Frame
<1>2. /\ taken' \in BOOLEAN
      /\ taken' <=> taken \/ (starts /\ stored' = Commanded /\ ~start_move_pulse')
  BY Zenon DEF Frame, TypeOK
<1>3. motor \in MotorStates
  BY DEF TypeOK
<1>4. Does(cw, stored') \in {"rest", "jog", "go"}
  BY DEF Does
<1>5. /\ motor' \in MotorStates
      /\ motor'.cw = cw /\ motor'.does = Does(cw, stored') /\ motor'.pos = motor.pos
      /\ motor'.goal = IF starts THEN stored'.target ELSE motor.goal
  <2>1. (motor.on_target /\ ~starts) \in BOOLEAN
    OBVIOUS
  <2>2. stored'.target \in Positions /\ cw \in SUBSET Bits
    BY <1>1, TickDoes, ControlwordTells
  <2> HIDE DEF cw, starts
  <2> QED  BY <1>1, <1>3, <1>4, <2>1, <2>2 DEF MotorStates
<1>6. TypeOK'
  BY <1>1, <1>2, <1>5, TickDoes DEF TypeOK, shots, ack, stick
<1>7. StickIsWatched' /\ ShotHasPrecedence'
  BY <1>1, TickDoes DEF StickIsWatched, ShotHasPrecedence, shots, stick
<1>8. MoveIsTracked'
  <2> SUFFICES ASSUME s_next_shot # NoShot, ~hampered
               PROVE  MoveIsTracked'
    BY <1>1, TickDoes DEF MoveIsTracked, shots
  <2>1. /\ enable_latch /\ op_mode_commanded = "PROFILE_POSITION"
        /\ "ENABLE" \in cw
    BY ControlwordTells DEF MoveIsTracked, ShotHasPrecedence
  <2>2. Status.moving <=> motor.does # "rest"
    BY StatusTells DEF TypeOK
  <2>3. Pending' => Pending
    BY <1>1, <1>2, TickDoes DEF Pending, NewSetpointCycles, Triggers
  <2>4. /\ s_new_setpoint_remaining' > 0 => "NEW_SETPOINT" \in cw
        /\ s_halt_remaining' > 0 => "HALT" \in cw
    BY <1>1, TickDoes, ControlwordTells
  <2>5. CASE ~taken'
    BY <1>1, <2>1, <2>3, <2>5, TickDoes DEF MoveIsTracked, ack
  <2>6. CASE taken
    <3>1. /\ ~start_move_pulse /\ stored' = Commanded /\ stored'.mode = "PROFILE_POSITION"
      <4>1. ~start_move_pulse /\ stored = Commanded
        BY <2>6 DEF MoveIsTracked
      <4>2. stored' = stored
        BY <1>1, <4>1, TickDoes
      <4>3. Commanded.mode = "PROFILE_POSITION"
        BY <2>1 DEF Commanded
      <4> QED  BY <4>1, <4>2, <4>3
    <3>2. ~Rises("NEW_SETPOINT", cw) /\ ~Rises("HALT", cw)
      BY <1>1, <2>6, <3>1, TickDoes, ControlwordTells DEF MoveIsTracked, Rises
    <3>3. Does(cw, stored') = IF motor.does = "go" THEN "go" ELSE "rest"
      BY <2>1, <3>1, <3>2 DEF Does, Starts
    <3>4. motor'.goal = motor.goal
      BY <1>5, <3>2 DEF Starts
    <3> HIDE DEF cw, starts
    <3> QED  BY <1>1, <1>5, <2>1, <2>2, <2>3, <2>4, <2>6, <3>1, <3>3, <3>4, TickDoes
             DEF MoveIsTracked, AtShot, shots, ack
  <2>7. CASE ~taken /\ taken'
    <3>1. starts /\ stored' = Commanded /\ ~start_move_pulse'
      BY <1>2, <2>7
    <3>2. Does(cw, stored') = "go" /\ motor'.goal = target_position
      BY <1>5, <2>1, <3>1 DEF Does, Starts, Commanded
    <3>3. age = "grace"
      <4>1. NewSetpointCycles(ready) > 0
        BY <3>1, ControlwordTells DEF Starts, Rises
      <4> QED  BY <2>7, <4>1 DEF MoveIsTracked, Pending, NewSetpointCycles, Triggers
    <3> HIDE DEF cw, starts
    <3> QED  BY <1>1, <1>5, <2>1, <2>3, <2>4, <2>7, <3>1, <3>2, <3>3, TickDoes
             DEF MoveIsTracked, AtShot, shots, ack
  <2> QED  BY <2>5, <2>6, <2>7
<1> QED  BY <1>6, <1>7, <1>8

(* The update concludes from the status, and stops a stick that is silent. *)
LEMMA UpdateKeeps ==
  ASSUME ShotsInv, UpdateFromMotor
  PROVE  ShotsInv'
<1> USE DEF ShotsInv
<1>1. /\ joystick_raw' = RawAfterWatchdog(WatchdogFires) /\ UNCHANGED silent
      /\ UNCHANGED <<s_shots, age, commands, pulses, setup, status, homed, motor, history>>
  BY DEF UpdateFromMotor, JoystickWatchdog
<1>2. s_movement_active' \in BOOLEAN /\ (s_movement_active' <=> s_movement_active /\ ~WatchdogFires)
  BY Zenon DEF UpdateFromMotor, JoystickWatchdog
<1>3. s_move_ack_seen' \in BOOLEAN /\ s_move_ack_warned' \in BOOLEAN
  <2>1. CASE s_next_shot # NoShot
    BY <2>1, Zenon DEF UpdateFromMotor, AckWatchdog
  <2>2. CASE s_next_shot = NoShot
    BY <2>2 DEF UpdateFromMotor, AckWatchdog, TypeOK
  <2> QED  BY <2>1, <2>2
<1>4. s_moving' \in BOOLEAN
  <2>1. status.moving \in BOOLEAN
    BY DEF TypeOK, StatusValues
  <2>2. TRUE \in BOOLEAN /\ FALSE \in BOOLEAN
    OBVIOUS
  <2> QED  BY <2>1, <2>2, Zenon DEF UpdateFromMotor, TrackMotor
<1>5. s_on_shot' \in BOOLEAN
  <2>1. s_on_shot \in BOOLEAN
    BY DEF TypeOK
  <2> QED  BY <2>1, Zenon DEF UpdateFromMotor, TrackMotor
<1>6. TypeOK'
  BY <1>1, <1>2, <1>3, <1>4, <1>5
     DEF UpdateFromMotor, At, TrackMotor, RawAfterWatchdog, Center, TypeOK, commands, pulses, setup, history
<1>7. StickIsWatched' /\ ShotHasPrecedence'
  BY <1>1, <1>2 DEF StickIsWatched, ShotHasPrecedence, RawAfterWatchdog, WatchdogFires,
     UpdateFromMotor, TrackMotor, commands
<1>8. MoveIsTracked'
  BY <1>1 DEF UpdateFromMotor, TrackMotor, MoveIsTracked, AtShot, Pending, Commanded,
     commands, pulses, setup, history
<1> QED  BY <1>6, <1>7, <1>8

(* The grace period ends when the trigger had its effect on the status, or *)
(* the move counts as hampered.                                            *)
LEMMA MoveAgesKeeps ==
  ASSUME ShotsInv, MoveAges
  PROVE  ShotsInv'
<1> USE DEF ShotsInv
<1>1. /\ UNCHANGED <<pc, shots, commands, pulses, setup, status, stick, homed, motor, taken>>
      /\ UNCHANGED <<s_move_ack_seen, s_move_ack_warned>>
      /\ age' = IF age = "grace" THEN "early" ELSE "late"
  BY DEF MoveAges, Elsewhere
<1>2. age' \in {"grace", "early", "late"} /\ age' # "grace"
  BY <1>1
<1>3. hampered' \in BOOLEAN
  <2>1. CASE age = "grace" /\ (Pending \/ status # Status)
    BY <2>1, Zenon DEF MoveAges
  <2>2. CASE ~(age = "grace" /\ (Pending \/ status # Status))
    BY <2>2 DEF MoveAges, TypeOK
  <2> QED  BY <2>1, <2>2
<1>4. TypeOK'
  BY <1>1, <1>2, <1>3 DEF TypeOK, shots, stick, commands, pulses, setup
<1>5. StickIsWatched' /\ ShotHasPrecedence'
  BY <1>1 DEF StickIsWatched, ShotHasPrecedence, shots, stick, commands
<1>6. CASE hampered'
  BY <1>4, <1>5, <1>6 DEF MoveIsTracked
<1>7. CASE ~hampered'
  <2>1. ~hampered /\ (age = "grace" => ~Pending /\ status = Status)
    BY <1>7 DEF MoveAges
  <2>2. (Status.moving <=> motor.does # "rest") /\ (Status.on_target <=> motor.on_target)
    BY StatusTells DEF TypeOK
  <2>3. MoveIsTracked'
    BY <1>1, <1>2, <2>1, <2>2 DEF MoveIsTracked, AtShot, Pending, Commanded, shots, commands, pulses, setup
  <2> QED  BY <1>4, <1>5, <2>3
<1> QED  BY <1>6, <1>7

(* The motor runs to its goal, or follows the stick: never both. *)
LEMMA MotorKeeps ==
  ASSUME ShotsInv,
         MotorArrives \/ \E p \in Positions, reached \in BOOLEAN : MotorJogs(p, reached)
  PROVE  ShotsInv'
<1> USE DEF ShotsInv
<1>1. UNCHANGED <<pc, shots, ack, stick, commands, pulses, setup, status, homed, history>>
  BY DEF MotorArrives, MotorJogs, Elsewhere, history
<1>2. motor' \in MotorStates
  <2>1. motor \in MotorStates
    BY DEF TypeOK
  <2>2. CASE MotorArrives
    BY <2>1, <2>2, Zenon DEF MotorArrives, MotorStates
  <2>3. CASE \E p \in Positions, reached \in BOOLEAN : MotorJogs(p, reached)
    BY <2>1, <2>3 DEF MotorJogs, MotorStates
  <2> QED  BY <2>2, <2>3
<1>3. TypeOK'
  BY <1>1, <1>2 DEF TypeOK, shots, ack, stick, commands, pulses, setup, history
<1>4. StickIsWatched' /\ ShotHasPrecedence'
  BY <1>1 DEF StickIsWatched, ShotHasPrecedence, shots, stick, commands
<1>5. CASE MotorArrives
  <2>1. /\ motor.does = "go" /\ motor'.does = "rest" /\ motor'.pos = motor.goal /\ motor'.goal = motor.goal
        /\ motor'.cw = motor.cw
    BY <1>5 DEF MotorArrives, MotorStates, TypeOK
  <2>2. MoveIsTracked'
    BY <1>1, <2>1 DEF MoveIsTracked, AtShot, Pending, Commanded,
         shots, ack, commands, pulses, setup, history
  <2> QED  BY <1>3, <1>4, <2>2
<1>6. CASE \E p \in Positions, reached \in BOOLEAN : MotorJogs(p, reached)
  <2>1. /\ motor.does = "jog" /\ motor'.does = "jog" /\ motor'.goal = motor.goal
        /\ motor'.cw = motor.cw
    BY <1>6 DEF MotorJogs, MotorStates, TypeOK
  <2>2. MoveIsTracked'
    BY <1>1, <2>1 DEF MoveIsTracked, AtShot, Pending, Commanded,
         shots, ack, commands, pulses, setup, history
  <2> QED  BY <1>3, <1>4, <2>2
<1> QED  BY <1>5, <1>6

LEMMA NextShots == ShotsInv /\ [Next]_vars => ShotsInv'
<1> SUFFICES ASSUME ShotsInv, [Next]_vars PROVE ShotsInv'
  OBVIOUS
<1> USE DEF ShotsInv
<1> USE DEF shots, ack, stick, commands, pulses, setup, history, Handler, Elsewhere
<1>1. ASSUME NEW ready \in BOOLEAN, Frame(ready) \/ NoFrame(ready) PROVE ShotsInv'
  BY <1>1, FrameKeeps, NoFrameKeeps
<1>2. ASSUME HandlersEnd \/ UNCHANGED vars PROVE ShotsInv'
  <2>1. TypeOK'
    BY <1>2 DEF HandlersEnd, At, vars, TypeOK
  <2>2. (StickIsWatched /\ ShotHasPrecedence)'
    BY <1>2 DEF HandlersEnd, vars, StickIsWatched, ShotHasPrecedence
  <2>3. MoveIsTracked'
    BY <1>2 DEF HandlersEnd, vars, MoveIsTracked, AtShot, Pending, Commanded
  <2> QED  BY <2>1, <2>2, <2>3
<1>3. ASSUME UpdateFromMotor PROVE ShotsInv'
  BY <1>3, UpdateKeeps
<1>4. ASSUME NEW n \in ShotNos, StoreShot(n) PROVE ShotsInv'
  <2>1. s_shots' \in [ShotNos -> Positions \union {Empty}]
    BY <1>4 DEF StoreShot, TypeOK, StatusValues
  <2>2. TypeOK'
    BY <1>4, <2>1 DEF StoreShot, TypeOK
  <2>3. (StickIsWatched /\ ShotHasPrecedence)'
    BY <1>4 DEF StoreShot, StickIsWatched, ShotHasPrecedence
  <2>4. MoveIsTracked'
    BY <1>4 DEF StoreShot, MoveIsTracked, AtShot, Pending, Commanded
  <2> QED  BY <2>2, <2>3, <2>4
<1>5. ASSUME StoreNext PROVE ShotsInv'
  <2>1. Following \in ShotNos
    BY ConstantsAssumption DEF Following, ShotNos
  <2> QED  BY <1>4, <1>5, <2>1 DEF StoreNext
<1>6. ASSUME NEW n \in ShotNos, MoveToShot(n) PROVE ShotsInv'
  <2>1. /\ s_moving' \in BOOLEAN /\ s_on_shot' \in BOOLEAN /\ start_move_pulse' \in BOOLEAN
        /\ s_move_ack_seen' \in BOOLEAN /\ s_move_ack_warned' \in BOOLEAN /\ hampered' \in BOOLEAN
        /\ taken' \in BOOLEAN /\ (taken' <=> FALSE) /\ overtaken' \in BOOLEAN
    BY <1>6, Zenon DEF MoveToShot, SetupOvertaken
  <2>2. target_position' \in Positions
    BY <1>6 DEF MoveToShot, TypeOK
  <2>3. TypeOK'
    BY <1>6, <2>1, <2>2 DEF MoveToShot, TypeOK, Modes
  <2>4. (StickIsWatched /\ ShotHasPrecedence)'
    BY <1>6 DEF MoveToShot, StickIsWatched, ShotHasPrecedence
  <2>5. hampered' <=> ~enable_latch
    BY <1>6, Zenon DEF MoveToShot
  <2>6. MoveIsTracked'
    BY <1>6, <2>1, <2>5 DEF MoveToShot, MoveIsTracked, AtShot, Pending, Commanded, TypeOK
  <2> QED  BY <2>3, <2>4, <2>6
<1>7. ASSUME StopMovement PROVE ShotsInv'
  <2>1. s_moving' \in BOOLEAN /\ s_halt_remaining' \in 0 .. PULSE_CYCLES
    <3>1. s_moving' \in BOOLEAN
      BY <1>7, Zenon DEF StopMovement
    <3>2. s_halt_remaining' \in 0 .. PULSE_CYCLES
      BY <1>7, ConstantsAssumption DEF StopMovement
    <3> QED  BY <3>1, <3>2
  <2>2. TypeOK'
    BY <1>7, <2>1 DEF StopMovement, TypeOK
  <2>3. (StickIsWatched /\ ShotHasPrecedence /\ MoveIsTracked)'
    BY <1>7 DEF StopMovement, StickIsWatched, ShotHasPrecedence, MoveIsTracked
  <2> QED  BY <2>2, <2>3
<1>8. ASSUME NEW pan \in {Center, 1}, HandleMovement(pan) PROVE ShotsInv'
  <2>1. s_movement_active' \in BOOLEAN /\ silent' \in BOOLEAN /\ overtaken' \in BOOLEAN
    <3>1. CASE Refused
      BY <1>8, <3>1 DEF HandleMovement, TypeOK
    <3>2. CASE ~Refused
      BY <1>8, <3>2, Zenon DEF HandleMovement, SetupOvertaken
    <3> QED  BY <3>1, <3>2
  <2>2. TypeOK'
    BY <1>8, <2>1 DEF HandleMovement, TypeOK, Modes
  <2>3. (StickIsWatched /\ ShotHasPrecedence)'
    BY <1>8 DEF HandleMovement, Refused, StickIsWatched, ShotHasPrecedence
  <2>4. MoveIsTracked'
    BY <1>8 DEF HandleMovement, Refused, ShotHasPrecedence, MoveIsTracked, AtShot, Pending, Commanded
  <2> QED  BY <2>2, <2>3, <2>4
<1>9. ASSUME Enable \/ Disable PROVE ShotsInv'
  <2>1. enable_latch' \in BOOLEAN
    BY <1>9, Zenon DEF Enable, Disable
  <2>2. hampered' \in BOOLEAN
    <3>1. CASE Enable
      BY <3>1 DEF Enable, TypeOK
    <3>2. CASE Disable
      BY <3>2, Zenon DEF Disable
    <3> QED  BY <1>9, <3>1, <3>2
  <2>3. TypeOK'
    BY <1>9, <2>1, <2>2 DEF Enable, Disable, TypeOK
  <2>4. (StickIsWatched /\ ShotHasPrecedence)'
    BY <1>9 DEF Enable, Disable, StickIsWatched, ShotHasPrecedence
  <2>5. MoveIsTracked'
    BY <1>9 DEF Enable, Disable, MoveIsTracked, AtShot, Pending, Commanded
  <2> QED  BY <2>3, <2>4, <2>5
<1>10. ASSUME MoveAges PROVE ShotsInv'
  BY <1>10, MoveAgesKeeps
<1>11. ASSUME Silence PROVE ShotsInv'
  <2>1. silent' \in BOOLEAN
    BY <1>11, Zenon DEF Silence
  <2>2. TypeOK'
    BY <1>11, <2>1 DEF Silence, TypeOK
  <2>3. (StickIsWatched /\ ShotHasPrecedence)'
    BY <1>11 DEF Silence, StickIsWatched, ShotHasPrecedence
  <2>4. MoveIsTracked'
    BY <1>11 DEF Silence, MoveIsTracked, AtShot, Pending, Commanded
  <2> QED  BY <2>2, <2>3, <2>4
<1>12. ASSUME MotorArrives PROVE ShotsInv'
  BY <1>12, MotorKeeps
<1>13. ASSUME NEW p \in Positions, NEW reached \in BOOLEAN, MotorJogs(p, reached) PROVE ShotsInv'
  BY <1>13, MotorKeeps
<1> QED  BY <1>1, <1>2, <1>3, <1>4, <1>5, <1>6, <1>7, <1>8, <1>9, <1>10, <1>11, <1>12, <1>13
         DEF Next, SuperLoop, Panel

-----------------------------------------------------------------------------
(* The theorems *)

(* The state of shots and stick is sound after any sequence of messages.   *)
THEOREM ShotsCorrect == Spec => []ShotsInv
  BY InitShots, NextShots, PTL DEF Spec

(* A shot under way keeps the stick out: cmc_state_handle_movement.        *)
THEOREM ShotTakesPrecedence == Spec => []ShotHasPrecedence
<1>1. ShotsInv => ShotHasPrecedence
  BY DEF ShotsInv
<1> QED  BY <1>1, ShotsCorrect, PTL

(* cmc_state_update_from_motor announces a shot whose trigger the motor    *)
(* took only when it stands there, unless the drive was off in the move or *)
(* the trigger late.                                                       *)
THEOREM ArrivalsAreReal == Spec => ArrivalIsReal
<1>1. ShotsInv /\ [Next]_vars => [~s_on_shot /\ s_on_shot' /\ taken /\ ~hampered => AtShot]_vars
  <2> SUFFICES ASSUME ShotsInv, Next, ~s_on_shot, s_on_shot', taken, ~hampered
               PROVE  AtShot
    OBVIOUS
  <2>1. UpdateFromMotor
    BY DEF ShotsInv, TypeOK, Next, SuperLoop, Panel, Frame, NoFrame, AxisTick, HandlersEnd,
       StoreShot, StoreNext, MoveToShot, StopMovement, HandleMovement, Enable, Disable, MoveAges,
       Silence, MotorArrives, MotorJogs, Elsewhere, shots
  <2> QED  BY <2>1 DEF ShotsInv, TypeOK, UpdateFromMotor, TrackMotor, Arrived, MoveIsTracked, AtShot
<1> QED  BY <1>1, ShotsCorrect, PTL DEF Spec, ArrivalIsReal
=============================================================================
