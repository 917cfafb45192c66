CONSTANTS
    Clients = {c1, c2}
    NoClient = NoClient
    Threads = {t1, t2}
    Ttl = 2
    MaxTime = 6
    MaxLeases = 3
SPECIFICATION Spec
INVARIANTS
    TypeOK
    ExclusiveControl
    PromiseKept
PROPERTIES
    NoReturnToOldLease
    ImplementsContract
