---------------------------- MODULE MCProcesses -----------------------------
(***************************************************************************)
(* The programs on the site of SiteFixtures, with documents that differ    *)
(* from the site's own one in one or two settings.                         *)
(***************************************************************************)
EXTENDS Processes, SiteFixtures

SiteDocument ==
    [readable |-> TRUE, unknown |-> FALSE, unknown_grpc |-> FALSE,
     schema_version |-> 1, instance_id |-> "cell", robot_id |-> "arm",
     driver |-> "mock", address |-> "host", model |-> "six",
     verify_sdk |-> TRUE, sdk_debug |-> FALSE,
     state_poll |-> 2, state_stale |-> 3, queue_size |-> 1, history_size |-> 2,
     lease_ttl |-> 5, jog_timeout |-> 3, axis_count |-> 2,
     motion_enabled |-> TRUE, programs_enabled |-> TRUE,
     maximum_joint_speed |-> 20, maximum_linear_speed |-> 500,
     joint_limits |-> SitePolicy.joint_limits,
     frame |-> "wobj0",
     x_range |-> [minimum |-> 0, maximum |-> 1],
     y_range |-> [minimum |-> 0, maximum |-> 1],
     z_range |-> [minimum |-> 0, maximum |-> 1],
     outputs |-> <<1, 3>>, programs |-> <<"weld">>,
     listen |-> "loopback", insecure |-> TRUE, client_ca |-> Missing,
     certificate |-> Missing, private_key |-> Missing, client_names |-> Missing]

\* Settings out of range, absent, or at odds with another one.
Changes ==
    {<<"readable", FALSE>>, <<"unknown", TRUE>>, <<"unknown_grpc", TRUE>>,
     <<"schema_version", 2>>, <<"robot_id", Missing>>, <<"driver", "none">>,
     <<"sdk_debug", Malformed>>,
     <<"state_poll", 0>>, <<"state_poll", 4>>, <<"state_stale", 1>>, <<"queue_size", 0>>,
     <<"history_size", 0>>, <<"history_size", 1>>, <<"lease_ttl", 0>>,
     <<"jog_timeout", 1>>, <<"axis_count", Missing>>, <<"axis_count", 0>>, <<"axis_count", 1>>,
     <<"motion_enabled", FALSE>>, <<"programs_enabled", FALSE>>,
     <<"maximum_joint_speed", 0>>, <<"maximum_joint_speed", 101>>,
     <<"maximum_linear_speed", 0>>,
     <<"joint_limits", Missing>>, <<"joint_limits", <<>>>>,
     <<"joint_limits", <<[minimum |-> 0, maximum |-> 1]>>>>,
     <<"joint_limits", <<[minimum |-> 1, maximum |-> 1], Malformed>>>>,
     <<"frame", Missing>>, <<"x_range", Missing>>, <<"z_range", Malformed>>,
     <<"outputs", <<0, -1>>>>, <<"outputs", Missing>>, <<"programs", <<>>>>,
     <<"programs", Missing>>, <<"listen", "network">>, <<"insecure", FALSE>>,
     <<"insecure", Malformed>>}

\* The settings that decide which others are needed.
Switches ==
    {change \in Changes : change[1] \in {"axis_count", "motion_enabled",
                                        "programs_enabled", "insecure"}}

SiteDocuments ==
    {[SiteDocument EXCEPT ![one[1]] = one[2], ![two[1]] = two[2]] :
        one \in Changes, two \in Switches} \cup
    {SiteDocument,
     [SiteDocument EXCEPT !.insecure = FALSE, !.listen = "network", !.client_ca = "ca",
                          !.certificate = "chain", !.private_key = "key",
                          !.client_names = "names"]}

\* A controller nobody has touched yet, and one an earlier session left ready.
TwoRobots ==
    {Unconnected({}),
     [Unconnected({}) EXCEPT !.api_control = TRUE, !.servo_on = TRUE]}

Message(type, payload, key) ==
    [type |-> type, payload |-> payload, client |-> "c1", key |-> key, timeout |-> 0]

RivalMessages ==
    {Message("MoveJ", Home, "a"), Message("MoveJ", Home, "b"),
     Message("MoveJ", MoveJPayload(<<>>, 10, 0), "c"),
     Message("NotSet", None, "d"),
     Message("Stop", [mode |-> "Unspecified"], "s"),
     Message("Jog", [kind |-> "Jog", axis |-> 1, direction |-> 0, start |-> TRUE], "e")}
=============================================================================
