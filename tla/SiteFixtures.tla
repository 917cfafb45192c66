---------------------------- MODULE SiteFixtures ----------------------------
(***************************************************************************)
(* A small site for model checking: one safety policy and the requests the *)
(* runs draw from.  Two joints and a workspace of one unit are enough to   *)
(* be inside or outside of every limit.                                    *)
(***************************************************************************)
EXTENDS Integers, Sequences

SitePolicy ==
    [motion_enabled |-> TRUE, program_execution_enabled |-> TRUE,
     joint_limits_verified |-> TRUE, cartesian_workspace_verified |-> TRUE,
     maximum_joint_speed_percent |-> 20, maximum_linear_speed |-> 500,
     joint_limits |-> <<[minimum |-> -1, maximum |-> 1],
                        [minimum |-> 0, maximum |-> 2]>>,
     workspace |-> [minimum |-> <<0, 0, 0>>, maximum |-> <<1, 1, 1>>],
     cartesian_workspace_frame |-> "wobj0",
     writable_digital_outputs |-> {1, 3},
     approved_programs |-> {"weld"}]

None == [kind |-> "None"]

MoveJPayload(degrees, speed, blend) ==
    [kind |-> "MoveJ", degrees |-> degrees, tool |-> "tool0",
     work_object |-> "wobj0", speed |-> speed, blend |-> blend]

Pose(x) == [xyz |-> <<x, 0, 1>>, abc |-> <<0, 0, 0>>, configuration |-> 0]

MoveLPayload(x, frame) ==
    [kind |-> "MoveL", target |-> Pose(x), tool |-> "tool0",
     work_object |-> frame, speed |-> 100, blend |-> 0]

MoveCPayload(via, x) ==
    [kind |-> "MoveC", via |-> Pose(via), target |-> Pose(x), tool |-> "tool0",
     work_object |-> "wobj0", speed |-> 100, blend |-> 0]

JogPayload(axis, start) == [kind |-> "Jog", axis |-> axis, start |-> start]

StopPayload(mode) == [kind |-> "Stop", mode |-> mode]

Home == MoveJPayload(<<0, 0>>, 10, 0)

Request(type, payload, client, key) ==
    [type |-> type, payload |-> payload, client |-> client, key |-> key]
=============================================================================
