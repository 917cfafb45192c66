---------------------------- MODULE CommandGuard ----------------------------
(***************************************************************************)
(* The software safety gate every command passes twice, once when it is    *)
(* submitted and once right before it is executed                          *)
(* (src/src/control/command_guard.cc).  Validate is a pure function of the *)
(* request, a snapshot, the validity of the request's lease, and whether a *)
(* jog is running; its result is a status code.                            *)
(***************************************************************************)
EXTENDS StateMachine, Integers, Sequences

CONSTANTS Policy,   \* the site's SafetyPolicy
          NaN       \* a double that is not finite; the finite ones are integers

ASSUME NaNAssumption == NaN \notin Int

\* What the configuration loader and the types of the fields make sure of.
ASSUME PolicyAssumption ==
    /\ Policy.maximum_joint_speed_percent \in 1..100
    /\ Policy.maximum_linear_speed \in Nat \ {0}
    /\ Policy.writable_digital_outputs \subseteq Nat

CommandTypes == {"AcquireControl", "ReleaseControl", "PowerOn", "PowerOff",
                 "ClearFault", "SetGlobalSpeed", "MoveJ", "MoveL", "MoveC",
                 "Hold", "Resume", "Stop", "Jog", "WriteDigitalOutput",
                 "LoadProgram", "StartProgram", "StopProgram"}

IsFinite(x) == x # NaN

NonNegative(x) == IsFinite(x) /\ x >= 0

\* The kind of payload the variant may hold, for each command type.
PayloadKinds(type) ==
    CASE type = "SetGlobalSpeed"      -> {"Speed"}
      [] type = "MoveJ"               -> {"MoveJ"}
      [] type = "MoveL"               -> {"MoveL"}
      [] type = "MoveC"               -> {"MoveC"}
      [] type = "Stop"                -> {"None", "Stop"}
      [] type = "Jog"                 -> {"Jog"}
      [] type = "WriteDigitalOutput"  -> {"DigitalOutput"}
      [] type = "LoadProgram"         -> {"Program"}
      [] OTHER                        -> {"None"}

ValidatePayloadType(req) == req.payload.kind \in PayloadKinds(req.type)

IsFinitePose(pose) ==
    /\ \A i \in 1..3 : IsFinite(pose.xyz[i]) /\ IsFinite(pose.abc[i])
    /\ pose.configuration >= 0

IsInsideWorkspace(pose) ==
    \A i \in 1..3 : /\ Policy.workspace.minimum[i] <= pose.xyz[i]
                    /\ pose.xyz[i] <= Policy.workspace.maximum[i]

ValidateMoveJ(p) ==
    IF ~Policy.joint_limits_verified
    THEN "FailedPrecondition"
    ELSE IF /\ p.tool # "" /\ p.work_object # ""
            /\ p.speed \in 1..Policy.maximum_joint_speed_percent
            /\ NonNegative(p.blend)
            /\ Len(p.degrees) = Len(Policy.joint_limits)
            /\ \A i \in DOMAIN p.degrees :
                  /\ IsFinite(p.degrees[i])
                  /\ p.degrees[i] >= Policy.joint_limits[i].minimum
                  /\ p.degrees[i] <= Policy.joint_limits[i].maximum
         THEN "Ok"
         ELSE "InvalidArgument"

\* ValidateMoveL and ValidateMoveC differ only in the poses they look at: the
\* target alone, or the via point and the target.
ValidateCartesian(p, poses) ==
    IF ~Policy.cartesian_workspace_verified
    THEN "FailedPrecondition"
    ELSE IF /\ p.tool # "" /\ p.work_object # ""
            /\ p.work_object = Policy.cartesian_workspace_frame
            /\ \A pose \in poses : IsFinitePose(pose) /\ IsInsideWorkspace(pose)
            /\ p.speed \in 1..Policy.maximum_linear_speed
            /\ NonNegative(p.blend)
         THEN "Ok"
         ELSE "InvalidArgument"

ValidateMoveL(p) == ValidateCartesian(p, {p.target})

ValidateMoveC(p) == ValidateCartesian(p, {p.via, p.target})

RequireLease(lease_valid) == IF lease_valid THEN "Ok" ELSE "PermissionDenied"

\* cond is a precondition on the controller, checked before the lease.
RequireThenLease(cond, lease_valid) ==
    IF cond THEN RequireLease(lease_valid) ELSE "FailedPrecondition"

\* Mutant: any lifecycle that is not a failure will do for a motion.
ValidateCommonMotionTrustingLifecycle(s, lease_valid) ==
    IF ~lease_valid
    THEN "PermissionDenied"
    ELSE IF /\ Policy.motion_enabled /\ Policy.joint_limits_verified
            /\ s.lifecycle \notin {"Unknown", "Disconnected", "Fault", "EmergencyStop"}
            /\ s.mode = "Automatic" /\ s.api_control /\ s.servo_on
            /\ ~s.paused /\ ~s.program_running
         THEN "Ok"
         ELSE "FailedPrecondition"

ValidateCommonMotion(s, lease_valid) ==
    IF ~lease_valid
    THEN "PermissionDenied"
    ELSE IF /\ Policy.motion_enabled /\ Policy.joint_limits_verified
            /\ s.lifecycle = "Ready" /\ s.mode = "Automatic"
            /\ s.connected /\ s.api_control /\ s.servo_on
            /\ ~s.emergency_stop /\ ~s.alarm_active
            /\ ~s.moving /\ ~s.paused /\ ~s.program_running
         THEN "Ok"
         ELSE "FailedPrecondition"

\* A speed ratio the site allows, for SetGlobalSpeed and as the condition of jog.
SafeRatio(ratio) == ratio # 0 /\ ratio <= Policy.maximum_joint_speed_percent

ValidateJog(p, s, lease_valid, jog_active) ==
    LET axes == Len(Policy.joint_limits) IN
    IF p.axis < 1 \/ (axes # 0 /\ p.axis > axes)
    THEN "InvalidArgument"
    ELSE IF ~lease_valid
    THEN "PermissionDenied"
    ELSE IF ~(/\ s.connected /\ s.api_control
              /\ ~s.emergency_stop /\ ~s.alarm_active
              /\ s.lifecycle # "Unknown" /\ ~s.program_running
              /\ s.mode = "Manual")
    THEN "FailedPrecondition"
    ELSE IF \/ ~p.start
            \/ /\ s.moving => jog_active
               /\ Policy.motion_enabled /\ Policy.joint_limits_verified
               /\ s.servo_on /\ ~s.paused
               /\ SafeRatio(s.speed_ratio)
    THEN "Ok"
    ELSE "FailedPrecondition"

\* CommandGuard::Validate.
Validate(req, s, lease_valid, jog_active) ==
    LET type  == req.type
        p     == req.payload
        known == s.lifecycle # "Unknown"
        Then(first, second) == IF first = "Ok" THEN second ELSE first
        controlled == RequireThenLease(s.connected /\ s.api_control, lease_valid)
        supervised == RequireThenLease(s.connected /\ s.api_control /\ known,
                                       lease_valid)
        motion     == ValidateCommonMotion(s, lease_valid)
    IN
    IF ~ValidatePayloadType(req) THEN "InvalidArgument" ELSE
    CASE type = "Stop" ->
            IF s.connected THEN "Ok" ELSE "FailedPrecondition"
      [] type = "AcquireControl" -> RequireThenLease(s.connected, lease_valid)
      [] type = "ReleaseControl" -> RequireLease(lease_valid)
      [] type = "ClearFault" ->
            RequireThenLease(s.connected /\ ~s.emergency_stop /\ known,
                             lease_valid)
      [] type = "PowerOn" ->
            RequireThenLease(/\ s.connected /\ s.api_control
                             /\ ~s.emergency_stop /\ ~s.alarm_active /\ known,
                             lease_valid)
      [] type \in {"PowerOff", "StopProgram"} -> controlled
      [] type = "SetGlobalSpeed" ->
            Then(supervised, IF SafeRatio(p.ratio) THEN "Ok"
                                                   ELSE "InvalidArgument")
      [] type = "WriteDigitalOutput" ->
            Then(supervised, IF p.index \in Policy.writable_digital_outputs
                             THEN "Ok" ELSE "PermissionDenied")
      [] type = "LoadProgram" ->
            Then(supervised, IF p.name = "" THEN "InvalidArgument"
                             ELSE IF /\ Policy.program_execution_enabled
                                     /\ p.name \in Policy.approved_programs
                                  THEN "Ok" ELSE "PermissionDenied")
      [] type = "StartProgram" ->
            Then(motion, IF Policy.program_execution_enabled
                         THEN "Ok" ELSE "FailedPrecondition")
      [] type = "MoveJ" -> Then(motion, ValidateMoveJ(p))
      [] type = "MoveL" -> Then(motion, ValidateMoveL(p))
      [] type = "MoveC" -> Then(motion, ValidateMoveC(p))
      [] type = "Hold" ->
            RequireThenLease(s.moving \/ s.program_running, lease_valid)
      [] type = "Resume" -> RequireThenLease(s.paused, lease_valid)
      [] type = "Jog" -> ValidateJog(p, s, lease_valid, jog_active)
=============================================================================
