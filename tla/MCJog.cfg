CONSTANTS
    Policy <- SitePolicy
    NaN = NaN
    AxisCount = 2
    DigitalIoCount = 3
    Clients = {"c1"}
    NoClient = "nobody"
    MaxQueue = 1
    MaxHistory = 2
    Threads = {t1}
    Requests <- JogAndMove
    InitialRobots <- ReadyRobot
    Faults = {"Manual", "read", "call", "timeout"}
    MaxCommands = 3
    MaxLeases = 1
    Keys = {k1, k2}
SPECIFICATION Spec
INVARIANTS
    JogIsWatched
    QueueBounded
SYMMETRY KeySymmetry
