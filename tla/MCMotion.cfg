CONSTANTS
    Policy <- SitePolicy
    NaN = NaN
    AxisCount = 2
    DigitalIoCount = 3
    Clients = {"c1"}
    NoClient = "nobody"
    MaxQueue = 2
    MaxHistory = 3
    Threads = {t1}
    Requests <- MoveHoldStop
    InitialRobots <- ReadyRobot
    Faults = {"lease", "call", "estop"}
    MaxCommands = 2
    MaxLeases = 1
SPECIFICATION Spec
INVARIANTS
    TypeOK
    QueueMatchesRecords
    WorkerOwnsCommand
    StopsFirst
    SettledAfterShutdown
PROPERTIES
    StoppedMeansAtRest
