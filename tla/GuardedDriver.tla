--------------------------- MODULE GuardedDriver ----------------------------
(***************************************************************************)
(* The command guard in front of the driver, without the executor: every   *)
(* command is validated on a fresh snapshot and, if admitted, executed at  *)
(* once.  This is the sequential behaviour the executor approximates with  *)
(* cached snapshots; it shows whether guard and driver agree about when a  *)
(* command may run, in every state a sequence of commands and controller   *)
(* events can reach.                                                       *)
(***************************************************************************)
EXTENDS MockDriver

CONSTANT Requests      \* the command requests clients may send

ASSUME RequestsAssumption ==
    \A req \in Requests :
        /\ req.type \in CommandTypes
        /\ req.payload.kind = "Speed" => req.payload.ratio \in Nat
        /\ req.payload.kind = "Jog" => /\ req.payload.axis \in Int
                                       /\ req.payload.start \in BOOLEAN

VARIABLES robot,       \* state of driver and controller
          jog_active,  \* the executor's jog_active_
          loaded       \* the executor holds the name of an approved program

vars == <<robot, jog_active, loaded>>

Init == /\ robot = Connect(Unconnected({})).robot
        /\ jog_active = FALSE
        /\ loaded = FALSE

\* The guard, with a valid lease, and the executor's own check of a program.
Admitted(req) ==
    /\ Validate(req, Snapshot(RefreshMotionLocked(robot)), TRUE, jog_active) = "Ok"
    /\ req.type = "StartProgram" => loaded

\* WorkerLoop's bookkeeping of jog and program after a successful command.
Run(req) ==
    LET result == Execute(RefreshMotionLocked(robot), req)
        halts  == req.type \in {"Stop", "PowerOff"}
    IN
    /\ Admitted(req)
    /\ robot' = result.robot
    /\ jog_active' = IF ~result.ok THEN jog_active
                     ELSE IF req.type = "Jog" THEN req.payload.start
                     ELSE jog_active /\ ~halts
    /\ loaded' = (loaded \/ (result.ok /\ req.type = "LoadProgram"))

MotionEnds == /\ robot.moving /\ ~robot.jog_active /\ ~robot.motion_due
              /\ robot' = [robot EXCEPT !.motion_due = TRUE]
              /\ UNCHANGED <<jog_active, loaded>>

EmergencyStop == /\ \E on \in BOOLEAN : robot' = SetEmergencyStop(robot, on)
                 /\ UNCHANGED <<jog_active, loaded>>

ControllerAlarm == /\ robot' = SetAlarm(robot, TRUE)
                   /\ UNCHANGED <<jog_active, loaded>>

ModeSwitch == /\ \E mode \in {"Manual", "Automatic"} :
                     robot' = SetControllerMode(robot, mode)
              /\ UNCHANGED <<jog_active, loaded>>

Next == \/ \E req \in Requests : Run(req)
        \/ MotionEnds
        \/ EmergencyStop
        \/ ControllerAlarm
        \/ ModeSwitch

Spec == Init /\ [][Next]_vars
-----------------------------------------------------------------------------
\* The driver and the executor's two flags keep their types.
TypeOK == /\ robot \in Robots
          /\ jog_active \in BOOLEAN
          /\ loaded \in BOOLEAN

\* The controller moves only with a connection, with servo power and without an
\* emergency stop, however commands and controller events alternate: no path
\* leaves the arm paused or moving when power goes away, from where Resume,
\* which looks at nothing but the pause, would move it.
PoweredMotion ==
    (robot.moving \/ robot.paused) =>
        robot.connected /\ robot.servo_on /\ ~robot.emergency_stop

\* Commands the guard may admit and the driver still refuse: Hold is admitted for
\* a program that is not moving, a quick stop is refused by the driver alone, the
\* heartbeat of a jog that was held and resumed finds an ordinary motion, without
\* joint limits the guard does not know how many axes there are, and the allowlist
\* may name a digital output the controller does not have.
Exempt(req) ==
    \/ req.type = "Hold"
    \/ req.type = "Stop" /\ req.payload.kind = "Stop" /\ req.payload.mode = "Quick"
    \/ req.type = "Jog" /\ (jog_active \/ ~Policy.joint_limits_verified)
    \/ req.type = "WriteDigitalOutput"

\* The guard is at least as strict as the driver: a command it admits on a fresh
\* snapshot is, the exempt ones apart, one the driver executes.  So a refusal by
\* the driver after validation is the sign of a snapshot that was out of date.
GuardCoversDriver ==
    \A req \in Requests :
        Admitted(req) /\ ~Exempt(req)
            => Execute(RefreshMotionLocked(robot), req).ok

=============================================================================
