CONSTANTS
    Policy <- SitePolicy
    NaN = NaN
    AxisCount = 2
    DigitalIoCount = 3
    Clients = {"c1"}
    NoClient = "nobody"
    MaxQueue = 1
    MaxHistory = 2
    Threads = {t1, t2}
    Requests = {}
    InitialRobots <- TwoRobots
    Faults = {"lease", "read", "timeout", "delay"}
    MaxCommands = 3
    MaxLeases = 1
    Missing = Missing
    Malformed = Malformed
    Refused = Refused
    Documents <- SiteDocuments
    Drivers = {"mock"}
    Messages <- RivalMessages
    Shell = "c1"
    Target <- Home
    MaxCalls = 1
    Faultless = {"robot_manager"}
SPECIFICATION FairProcessSpec
INVARIANTS
    NoOrphanRunning
    OneMotionAtATime
    IdempotencyConsistent
    NoCallOutlivesExecutor
    EndsClean
    ZeroMeansMoved
    ConfigIsUsable
PROPERTIES
    VerdictsAreFinal
    SignalEnds
