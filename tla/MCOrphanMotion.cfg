CONSTANTS
    Policy <- SitePolicy
    NaN = NaN
    AxisCount = 2
    DigitalIoCount = 3
    Clients = {"c1"}
    NoClient = "nobody"
    MaxQueue = 1
    MaxHistory = 2
    Threads = {t1}
    Requests <- MoveAndHold
    InitialRobots <- ReadyRobot
    Faults = {"lease"}
    MaxCommands = 2
    MaxLeases = 2
SPECIFICATION FairSpec
PROPERTIES
    OrphanMotionEnds
