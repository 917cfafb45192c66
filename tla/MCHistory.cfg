CONSTANTS
    Policy <- SitePolicy
    NaN = NaN
    AxisCount = 2
    DigitalIoCount = 3
    Clients = {"c1"}
    NoClient = "nobody"
    MaxQueue = 1
    MaxHistory = 3
    Threads = {t1}
    Requests <- Program
    InitialRobots <- ReadyRobot
    Faults = {"alarm"}
    MaxCommands = 4
    MaxLeases = 1
SPECIFICATION Spec
INVARIANTS
    StopProgramSparesMotion
PROPERTIES
    OpenCommandsAreKept
    StopIsAccepted
