---------------------------- MODULE ConfigLoader ----------------------------
(***************************************************************************)
(* What becomes of a deployment document: LoadServiceConfig                *)
(* (src/src/config/config_loader.cc) and LoadGrpcServerOptions             *)
(* (src/apps/robot_manager/transport/grpc_config_loader.cc) as functions   *)
(* from a document to a configuration, or to Refused.                      *)
(*                                                                         *)
(* A document is the outcome of ReadMapping and of the scalar parsers: one *)
(* field per setting, named like the variable that holds it in the loader. *)
(* Missing stands for a setting that is not there, Malformed for one that  *)
(* is not of its type, be it an empty scalar, a number out of the range of *)
(* int, a bool that is neither true nor false, or a list that is no list   *)
(* of scalars; a range is a record of two integers.  readable says that    *)
(* LoadConfigDocument succeeds: the file opens, is YAML, repeats no key,   *)
(* and has no null, reference or tag.  unknown and unknown_grpc say that a *)
(* key outside of transport, or in transport.grpc, is not a known one.     *)
(***************************************************************************)
EXTENDS Integers, Sequences

CONSTANTS Missing, Malformed, Refused

Absent == {Missing, Malformed}

RequiredScalars == {"instance_id", "robot_id", "driver", "address", "model"}

RequiredBooleans == {"verify_sdk", "sdk_debug", "motion_enabled", "programs_enabled"}

RequiredIntegers == {"schema_version", "state_poll", "state_stale", "queue_size",
                     "history_size", "lease_ttl", "jog_timeout",
                     "maximum_joint_speed", "maximum_linear_speed"}

Workspace == {"frame", "x_range", "y_range", "z_range"}

RequiredPresent(d) ==
    /\ \A key \in RequiredScalars \cup RequiredIntegers : d[key] \notin Absent
    /\ \A key \in RequiredBooleans : d[key] \in BOOLEAN

\* Timing, queue and speed limits.
InRange(d) ==
    /\ d.schema_version = 1
    /\ d.state_poll >= 1 /\ d.state_stale >= d.state_poll
    /\ d.queue_size >= 1 /\ d.history_size >= 1
    /\ d.lease_ttl >= 1 /\ d.jog_timeout >= d.state_poll
    /\ d.maximum_joint_speed \in 1..100
    /\ d.maximum_linear_speed >= 1

AxisCountOk(d) ==
    d.axis_count # Missing => d.axis_count # Malformed /\ d.axis_count >= 1

\* ParseRange.
ParsesAsRange(range) == range \notin Absent /\ range.minimum < range.maximum

\* OptionalList: no list at all, or one that is not empty.
OptionalList(list) == list # Malformed /\ list # <<>>

JointLimitsVerified(d) == d.joint_limits # Missing

\* Mutant: the number of joint limits is not compared with the number of axes.
JointLimitsOkUncounted(d) ==
    /\ OptionalList(d.joint_limits)
    /\ JointLimitsVerified(d) =>
          \A i \in DOMAIN d.joint_limits : ParsesAsRange(d.joint_limits[i])
    /\ d.motion_enabled => JointLimitsVerified(d)

JointLimitsOk(d) ==
    /\ OptionalList(d.joint_limits)
    /\ JointLimitsVerified(d) =>
          /\ \A i \in DOMAIN d.joint_limits : ParsesAsRange(d.joint_limits[i])
          /\ d.axis_count # Missing => Len(d.joint_limits) = d.axis_count
    /\ d.motion_enabled => JointLimitsVerified(d)

\* All of the workspace or nothing of it.
HasWorkspace(d) == \E key \in Workspace : d[key] # Missing

WorkspaceOk(d) ==
    HasWorkspace(d) => /\ d.frame \notin Absent
                       /\ \A key \in Workspace \ {"frame"} : ParsesAsRange(d[key])

OutputsOk(d) ==
    /\ OptionalList(d.outputs)
    /\ d.outputs # Missing =>
          \A i \in DOMAIN d.outputs : d.outputs[i] # Malformed /\ d.outputs[i] >= 0

ProgramsOk(d) ==
    /\ OptionalList(d.programs)
    /\ d.programs_enabled => d.programs # Missing

\* The elements of an optional list.
Elements(list) == IF list = Missing THEN {} ELSE {list[i] : i \in DOMAIN list}

\* The policy and the options a document stands for.
ServiceConfig(d) ==
    [driver_name |-> d.driver,
     axis_count |-> IF d.axis_count = Missing THEN 0 ELSE d.axis_count,
     maximum_queue_size |-> d.queue_size,
     maximum_command_history |-> d.history_size,
     safety_policy |->
        [motion_enabled |-> d.motion_enabled,
         program_execution_enabled |-> d.programs_enabled,
         joint_limits_verified |-> JointLimitsVerified(d),
         cartesian_workspace_verified |-> HasWorkspace(d),
         maximum_joint_speed_percent |-> d.maximum_joint_speed,
         maximum_linear_speed |-> d.maximum_linear_speed,
         joint_limits |-> IF JointLimitsVerified(d) THEN d.joint_limits ELSE <<>>,
         workspace |->
            IF HasWorkspace(d)
            THEN [minimum |-> <<d.x_range.minimum, d.y_range.minimum, d.z_range.minimum>>,
                  maximum |-> <<d.x_range.maximum, d.y_range.maximum, d.z_range.maximum>>]
            ELSE [minimum |-> <<0, 0, 0>>, maximum |-> <<0, 0, 0>>],
         cartesian_workspace_frame |-> IF HasWorkspace(d) THEN d.frame ELSE "wobj0",
         writable_digital_outputs |-> Elements(d.outputs),
         approved_programs |-> Elements(d.programs)]]

LoadServiceConfig(d) ==
    IF /\ d.readable /\ ~d.unknown /\ RequiredPresent(d) /\ InRange(d)
       /\ AxisCountOk(d) /\ JointLimitsOk(d) /\ WorkspaceOk(d) /\ OutputsOk(d) /\ ProgramsOk(d)
    THEN ServiceConfig(d)
    ELSE Refused

-----------------------------------------------------------------------------
TlsSettings == {"client_ca", "certificate", "private_key", "client_names"}

\* In the clear on the loopback, or mutual TLS with everything it takes.
TransportOk(o) ==
    IF o.insecure THEN o.listen = "loopback"
                  ELSE \A key \in TlsSettings : o[key] \notin Absent

LoadGrpcServerOptions(d) ==
    LET options == [key \in {"listen", "insecure"} \cup TlsSettings |-> d[key]]
    IN IF /\ d.readable /\ ~d.unknown_grpc
          /\ d.listen \notin Absent /\ d.insecure \in BOOLEAN
          /\ TransportOk(options)
       THEN options
       ELSE Refused
=============================================================================
