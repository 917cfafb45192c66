----------------------------- MODULE MockDriver -----------------------------
(***************************************************************************)
(* The robot driver behind IRobotDriver, as src/src/adapters/mock/         *)
(* mock_driver.cc implements it.  Each method is an operator from the      *)
(* state of the driver and controller to [ok, robot]: the Status, and the  *)
(* state afterwards.  The executor calls them one at a time under its      *)
(* driver mutex, so each is one atomic step.                               *)
(*                                                                         *)
(* program_running_ and state_.program_running are always assigned         *)
(* together, so one field stands for both.  The instant motion_ends_at_ is *)
(* the flag motion_due, raised by the passage of time.  Joint values,      *)
(* poses, frames and models are left out.                                  *)
(***************************************************************************)
EXTENDS CommandGuard

\* Number of axes and of digital outputs the controller has.
CONSTANTS AxisCount, DigitalIoCount

ASSUME DigitalIoAssumption == DigitalIoCount \in Nat

\* A site that configures robot.axis_count and joint limits gives one pair of
\* limits per axis: the configuration loader refuses everything else.
ASSUME AxisAssumption ==
    /\ AxisCount \in Nat \ {0}
    /\ Policy.joint_limits_verified => Len(Policy.joint_limits) = AxisCount

Robots == [mode : ControllerModes, connected : BOOLEAN, api_control : BOOLEAN,
           servo_on : BOOLEAN, emergency_stop : BOOLEAN,
           alarm_active : BOOLEAN, moving : BOOLEAN, paused : BOOLEAN,
           program_running : BOOLEAN, speed_ratio : Nat,
           jog_active : BOOLEAN, program_loaded : BOOLEAN,
           motion_due : BOOLEAN, outputs : SUBSET (0..(DigitalIoCount - 1))]

Accept(r) == [ok |-> TRUE, robot |-> r]
Refuse(r) == [ok |-> FALSE, robot |-> r]

\* A MockDriver that has not been connected, and one after Disconnect: the
\* digital outputs are all Disconnect leaves alone.
Unconnected(outputs) ==
    [mode |-> "Unknown", connected |-> FALSE, api_control |-> FALSE,
     servo_on |-> FALSE, emergency_stop |-> FALSE, alarm_active |-> FALSE,
     moving |-> FALSE, paused |-> FALSE, program_running |-> FALSE,
     speed_ratio |-> 0, jog_active |-> FALSE, program_loaded |-> FALSE,
     motion_due |-> FALSE, outputs |-> outputs]

Connect(r) ==
    IF r.connected THEN Refuse(r)
    ELSE Accept([r EXCEPT !.connected = TRUE, !.mode = "Automatic",
                          !.speed_ratio = 10])

Disconnect(r) == Accept(Unconnected(r.outputs))

AcquireControl(r) ==
    IF r.connected THEN Accept([r EXCEPT !.api_control = TRUE]) ELSE Refuse(r)

ReleaseControl(r) == Accept([r EXCEPT !.api_control = FALSE])

PowerOn(r) ==
    IF r.connected /\ r.api_control /\ ~r.emergency_stop /\ ~r.alarm_active
    THEN Accept([r EXCEPT !.servo_on = TRUE])
    ELSE Refuse(r)

\* No motion, no pause, no program, no jog: what Stop, StopProgram and
\* PowerOff have in common.
AtRest(r) == [r EXCEPT !.moving = FALSE, !.paused = FALSE,
                       !.program_running = FALSE, !.jog_active = FALSE]

\* Mutant: a motion on hold survives the power off.
PowerOffKeepingPause(r) ==
    Accept([r EXCEPT !.moving = FALSE, !.program_running = FALSE,
                     !.jog_active = FALSE, !.servo_on = FALSE])

PowerOff(r) == Accept([AtRest(r) EXCEPT !.servo_on = FALSE])

ClearFault(r) ==
    IF r.emergency_stop THEN Refuse(r)
    ELSE Accept([r EXCEPT !.alarm_active = FALSE])

SetGlobalSpeed(r, ratio) ==
    IF ratio \in 1..100 THEN Accept([r EXCEPT !.speed_ratio = ratio])
                        ELSE Refuse(r)

CheckReadyLocked(r) ==
    /\ r.connected /\ r.api_control /\ r.servo_on
    /\ ~r.emergency_stop /\ ~r.alarm_active /\ ~r.moving /\ ~r.paused

BeginMotionLocked(r) == [r EXCEPT !.moving = TRUE, !.paused = FALSE,
                                  !.jog_active = FALSE, !.motion_due = FALSE]

\* MoveJ, MoveL and MoveC: readiness, then the speed of the profile.
Move(r, speeds, speed) ==
    IF CheckReadyLocked(r) /\ speed \in speeds
    THEN Accept(BeginMotionLocked(r))
    ELSE Refuse(r)

RefreshMotionLocked(r) ==
    IF r.moving /\ ~r.jog_active /\ r.motion_due
    THEN [r EXCEPT !.moving = FALSE, !.program_running = FALSE]
    ELSE r

Hold(r) ==
    LET fresh == RefreshMotionLocked(r) IN
    IF fresh.moving
    THEN Accept([fresh EXCEPT !.moving = FALSE, !.paused = TRUE])
    ELSE Refuse(fresh)

Resume(r) == IF r.paused THEN Accept(BeginMotionLocked(r)) ELSE Refuse(r)

\* Mutant: a motion on hold stays on hold.
StopKeepingPause(r, mode) ==
    IF mode = "Quick" THEN Refuse(r)
    ELSE Accept([AtRest(r) EXCEPT !.paused = r.paused])

\* The mode defaults to Controlled when the command has no payload.
Stop(r, mode) ==
    IF mode = "Quick" THEN Refuse(r)
    ELSE Accept(IF mode = "PowerOffRequest"
                THEN [AtRest(r) EXCEPT !.servo_on = FALSE] ELSE AtRest(r))

Jog(r, p) ==
    IF p.axis \notin 1..AxisCount THEN Refuse(r)
    ELSE IF ~p.start
         THEN Accept([r EXCEPT !.moving = FALSE, !.paused = FALSE,
                               !.jog_active = FALSE])
    ELSE IF r.jog_active THEN Accept(r)
    ELSE IF CheckReadyLocked(r)
         THEN Accept([r EXCEPT !.moving = TRUE, !.paused = FALSE,
                               !.jog_active = TRUE])
    ELSE Refuse(r)

LoadProgram(r, name) ==
    IF r.connected /\ r.api_control /\ name # ""
    THEN Accept([r EXCEPT !.program_loaded = TRUE])
    ELSE Refuse(r)

StartProgram(r) ==
    IF CheckReadyLocked(r) /\ r.program_loaded
    THEN Accept(BeginMotionLocked([r EXCEPT !.program_running = TRUE]))
    ELSE Refuse(r)

StopProgram(r) == Accept(AtRest(r))

\* Mutant: the index is compared with the number of outputs as if it began at one.
WriteDigitalOutputOffByOne(r, index, value) ==
    IF index <= DigitalIoCount
    THEN Accept([r EXCEPT !.outputs = IF value THEN @ \cup {index}
                                               ELSE @ \ {index}])
    ELSE Refuse(r)

WriteDigitalOutput(r, index, value) ==
    IF index < DigitalIoCount
    THEN Accept([r EXCEPT !.outputs = IF value THEN @ \cup {index}
                                               ELSE @ \ {index}])
    ELSE Refuse(r)

\* What ReadState reports once it has refreshed the motion, with the lifecycle
\* that both the driver and the executor derive from it.
Snapshot(r) ==
    [mode |-> r.mode, connected |-> r.connected, api_control |-> r.api_control,
     servo_on |-> r.servo_on, emergency_stop |-> r.emergency_stop,
     alarm_active |-> r.alarm_active, moving |-> r.moving, paused |-> r.paused,
     program_running |-> r.program_running, speed_ratio |-> r.speed_ratio,
     lifecycle |-> DeriveLifecycleState(r)]

\* The hooks through which the outside world reaches a MockDriver.
SetEmergencyStop(r, on) ==
    IF on THEN [r EXCEPT !.emergency_stop = TRUE, !.moving = FALSE,
                         !.paused = FALSE, !.servo_on = FALSE]
          ELSE [r EXCEPT !.emergency_stop = FALSE]

SetAlarm(r, on) ==
    IF on THEN [r EXCEPT !.alarm_active = TRUE, !.moving = FALSE]
          ELSE [r EXCEPT !.alarm_active = FALSE]

SetControllerMode(r, mode) == [r EXCEPT !.mode = mode]

\* CommandExecutor::Impl::Execute: the driver method each command calls.
Execute(r, req) ==
    LET p == req.payload IN
    CASE req.type = "AcquireControl" -> AcquireControl(r)
      [] req.type = "ReleaseControl" -> ReleaseControl(r)
      [] req.type = "PowerOn"        -> PowerOn(r)
      [] req.type = "PowerOff"       -> PowerOff(r)
      [] req.type = "ClearFault"     -> ClearFault(r)
      [] req.type = "SetGlobalSpeed" -> SetGlobalSpeed(r, p.ratio)
      [] req.type = "MoveJ"          -> Move(r, 1..100, p.speed)
      [] req.type \in {"MoveL", "MoveC"} -> Move(r, Nat \ {0}, p.speed)
      [] req.type = "Hold"           -> Hold(r)
      [] req.type = "Resume"         -> Resume(r)
      [] req.type = "Stop"           ->
            Stop(r, IF p.kind = "None" THEN "Controlled" ELSE p.mode)
      [] req.type = "Jog"            -> Jog(r, p)
      [] req.type = "WriteDigitalOutput" ->
            WriteDigitalOutput(r, p.index, p.value)
      [] req.type = "LoadProgram"    -> LoadProgram(r, p.name)
      [] req.type = "StartProgram"   -> StartProgram(r)
      [] req.type = "StopProgram"    -> StopProgram(r)
=============================================================================
