\* A heartbeat that read the run before its status changed; one failing call.
SPECIFICATION Spec
CONSTANTS
    Runs = {"r1"}
    NoRun = NoRun
    MaxMsgs = 1
    Poison = {}
    MaxDeliver = 1
    MaxFaults = 1
    Requests = {"s1", "c1"}
    Workers = {w1}
    MaxDeliveries = 1
    ReqKind <- CancelKind
    ReqRun <- CancelRun
SYMMETRY WorkerSymmetry
PROPERTIES
    HeartbeatKeepsStatus
\* Requests are used up, and messages can run out of deliveries.
CHECK_DEADLOCK FALSE
