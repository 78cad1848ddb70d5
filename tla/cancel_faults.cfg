\* Safety under two faults: a run, a cancel, two workers, one redelivery.
SPECIFICATION Spec
CONSTANTS
    Runs = {"r1"}
    NoRun = NoRun
    MaxMsgs = 1
    Poison = {}
    MaxDeliver = 2
    MaxFaults = 2
    Requests = {"s1", "c1"}
    Workers = {w1, w2}
    MaxDeliveries = 2
    ReqKind <- CancelKind
    ReqRun <- CancelRun
SYMMETRY WorkerSymmetry
INVARIANTS
    TypeOK
    NoAcceptedRunLost
    CancelOnlyIfAsked
\* Requests are used up, and messages can run out of deliveries.
CHECK_DEADLOCK FALSE
