CONSTANTS
    Policy <- SixAxisPolicy
    NaN = NaN
    Requests <- SessionRequests
    Events = {"estop", "alarm", "link", "mode", "crash"}
    MaxIncidents = 1
SPECIFICATION Spec
INVARIANTS
    TypeOK
    HaltIsComplete
    RestIsTrue
    JogIsKnown
    NoSessionLeft
PROPERTIES
    StartsFromRest
