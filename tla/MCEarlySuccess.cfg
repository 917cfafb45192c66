CONSTANTS
    Policy <- SitePolicy
    NaN = NaN
    AxisCount = 2
    DigitalIoCount = 3
    Clients = {"c1"}
    NoClient = "nobody"
    MaxQueue = 1
    MaxHistory = 2
    Threads = {t1}
    Requests <- MoveAndStop
    InitialRobots <- ReadyRobot
    Faults = {}
    MaxCommands = 1
    MaxLeases = 1
SPECIFICATION Spec
PROPERTIES
    SucceededMeansDone
