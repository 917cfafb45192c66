-------------------------- MODULE MCGuardedDriver ---------------------------
(***************************************************************************)
(* Every command type, with payloads on both sides of the site's limits.   *)
(***************************************************************************)
EXTENDS GuardedDriver, SiteFixtures

Plain == {"AcquireControl", "ReleaseControl", "PowerOn", "PowerOff",
          "ClearFault", "Hold", "Resume", "StartProgram", "StopProgram", "Stop"}

SessionRequests ==
    {Request(type, None, "c1", "k") : type \in Plain} \cup
    {Request("MoveJ", p, "c1", "k") :
        p \in {Home, MoveJPayload(<<-1, 2>>, 20, 0), MoveJPayload(<<2, 0>>, 10, 0),
               MoveJPayload(<<0>>, 10, 0), MoveJPayload(<<0, NaN>>, 10, 0),
               MoveJPayload(<<0, 0>>, 21, 0), MoveJPayload(<<0, 0>>, 0, 0),
               MoveJPayload(<<0, 0>>, 10, -1)}} \cup
    {Request("MoveL", p, "c1", "k") :
        p \in {MoveLPayload(1, "wobj0"), MoveLPayload(2, "wobj0"),
               MoveLPayload(1, "bench")}} \cup
    {Request("MoveC", p, "c1", "k") :
        p \in {MoveCPayload(0, 1), MoveCPayload(2, 1)}} \cup
    {Request("Stop", StopPayload(mode), "c1", "k") :
        mode \in {"Controlled", "Quick", "PowerOffRequest"}} \cup
    {Request("Jog", JogPayload(axis, start), "c1", "k") :
        axis \in {0, 1, 3}, start \in BOOLEAN} \cup
    {Request("SetGlobalSpeed", [kind |-> "Speed", ratio |-> n], "c1", "k") :
        n \in {0, 20, 21}} \cup
    {Request("WriteDigitalOutput",
             [kind |-> "DigitalOutput", index |-> n, value |-> b], "c1", "k") :
        n \in 1..3, b \in BOOLEAN} \cup
    {Request("LoadProgram", [kind |-> "Program", name |-> n], "c1", "k") :
        n \in {"", "weld", "other"}} \cup
    {Request("MoveJ", None, "c1", "k")}
=============================================================================
