CONSTANTS
    Policy <- SitePolicy
    NaN = NaN
    AxisCount = 2
    DigitalIoCount = 3
    Clients = {"c1"}
    NoClient = "nobody"
    MaxQueue = 1
    MaxHistory = 2
    Threads = {t1}
    Requests <- MoveAndJog
    InitialRobots <- ReadyRobot
    Faults = {"Manual", "timeout", "lease"}
    MaxCommands = 2
    MaxLeases = 1
SPECIFICATION FairSpec
PROPERTIES
    EveryCommandEnds
    ShutdownCompletes
    JogComesToRest
