---------------------------- MODULE StateMachine ----------------------------
(***************************************************************************)
(* The controller snapshot and the pure derivation of the lifecycle state  *)
(* (src/src/control/state_machine.cc).  Poses, joint values, names and the *)
(* sequence number of a snapshot are left out: no decision of the service  *)
(* reads them.                                                             *)
(***************************************************************************)
EXTENDS Naturals

ControllerModes == {"Manual", "ManualFast", "Automatic", "Unknown"}

Lifecycles == {"Disconnected", "Connecting", "Standby", "Ready", "Executing",
               "Paused", "Fault", "EmergencyStop", "Unknown"}

\* RobotSnapshot: what the controller reports, and the derived lifecycle.
Snapshots == [mode            : ControllerModes,
              connected       : BOOLEAN,
              api_control     : BOOLEAN,
              servo_on        : BOOLEAN,
              emergency_stop  : BOOLEAN,
              alarm_active    : BOOLEAN,
              moving          : BOOLEAN,
              paused          : BOOLEAN,
              program_running : BOOLEAN,
              speed_ratio     : Nat,
              lifecycle       : Lifecycles]

\* A default-constructed RobotSnapshot.
NoSnapshot == [mode |-> "Unknown", connected |-> FALSE, api_control |-> FALSE,
               servo_on |-> FALSE, emergency_stop |-> FALSE,
               alarm_active |-> FALSE, moving |-> FALSE, paused |-> FALSE,
               program_running |-> FALSE, speed_ratio |-> 0,
               lifecycle |-> "Unknown"]

\* From the most dangerous condition to the least: the first that holds wins.
DeriveLifecycleState(s) ==
    IF s.emergency_stop THEN "EmergencyStop"
    ELSE IF ~s.connected THEN "Disconnected"
    ELSE IF s.alarm_active THEN "Fault"
    ELSE IF s.paused THEN "Paused"
    ELSE IF s.moving \/ s.program_running THEN "Executing"
    ELSE IF s.api_control /\ s.servo_on /\ s.mode = "Automatic" THEN "Ready"
    ELSE "Standby"
=============================================================================
