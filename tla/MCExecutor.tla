----------------------------- MODULE MCExecutor -----------------------------
(***************************************************************************)
(* Instances of the command executor for TLC.                              *)
(***************************************************************************)
EXTENDS ExecutorClaims, SiteFixtures

\* A controller that an earlier session left under API control with servo power:
\* the EFORT adapter reads both from the controller when it connects.
ReadyRobot == {[Unconnected({}) EXCEPT !.api_control = TRUE, !.servo_on = TRUE]}

MoveHoldStop == {Request("MoveJ", Home, "c1", "move"),
                 Request("Hold", None, "c1", "hold"),
                 Request("Stop", None, "c1", "stop")}

MoveAndStop == {Request("MoveJ", Home, "c1", "move"),
                Request("Stop", None, "c1", "stop")}

MoveAndJog == {Request("MoveJ", Home, "c1", "move"),
               Request("Jog", JogPayload(1, TRUE), "c1", "start")}

MoveAndHold == {Request("MoveJ", Home, "c1", "move"),
                Request("Hold", None, "c1", "hold")}

JogAndStop == {Request("Jog", JogPayload(1, TRUE), "c1", "start"),
               Request("Jog", JogPayload(1, TRUE), "c1", "heartbeat"),
               Request("Jog", JogPayload(1, FALSE), "c1", "end"),
               Request("Stop", None, "c1", "stop")}

Program == {Request("LoadProgram", [kind |-> "Program", name |-> "weld"], "c1", "load"),
            Request("StartProgram", None, "c1", "start"),
            Request("StopProgram", None, "c1", "end"),
            Request("MoveJ", Home, "c1", "move"),
            Request("Stop", None, "c1", "stop")}
=============================================================================
