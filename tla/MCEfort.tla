------------------------------- MODULE MCEfort ------------------------------
(***************************************************************************)
(* A session with an EFORT controller: every command but ReleaseControl,   *)
(* which Shutdown carries out, and jogs of two axes.                       *)
(***************************************************************************)
EXTENDS EfortDriver, SiteFixtures

\* Six joints, which is what the adapter requires of a MoveJ.
SixAxisPolicy ==
    [SitePolicy EXCEPT !.joint_limits = [i \in 1..6 |-> [minimum |-> -1, maximum |-> 1]]]

SixAxisHome == MoveJPayload([i \in 1..6 |-> 0], 10, 0)

Plain == {"AcquireControl", "PowerOn", "PowerOff", "ClearFault", "Hold", "Resume",
          "StartProgram", "StopProgram", "Stop"}

SessionRequests ==
    {Request(type, None, "c1", "k") : type \in Plain} \cup
    {Request("Stop", StopPayload(mode), "c1", "k") :
        mode \in {"Quick", "PowerOffRequest"}} \cup
    {Request("Jog", JogPayload(axis, start), "c1", "k") :
        axis \in {1, 2}, start \in BOOLEAN} \cup
    {Request("MoveJ", SixAxisHome, "c1", "k"),
     Request("MoveL", MoveLPayload(1, "wobj0"), "c1", "k"),
     Request("MoveC", MoveCPayload(0, 1), "c1", "k"),
     Request("SetGlobalSpeed", [kind |-> "Speed", ratio |-> 10], "c1", "k"),
     Request("WriteDigitalOutput",
             [kind |-> "DigitalOutput", index |-> 3, value |-> TRUE], "c1", "k"),
     Request("LoadProgram", [kind |-> "Program", name |-> "weld"], "c1", "k")}
=============================================================================
