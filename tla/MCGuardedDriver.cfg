CONSTANTS
    Policy <- SitePolicy
    NaN = NaN
    AxisCount = 2
    DigitalIoCount = 3
    Requests <- SessionRequests
SPECIFICATION Spec
INVARIANTS
    TypeOK
    PoweredMotion
    GuardCoversDriver
