\* No fault: two runs, one of them cancelled, and a message that does not decode.
SPECIFICATION EndlessTasksSpec
CONSTANTS
    Runs = {"r1", "r2"}
    NoRun = NoRun
    MaxMsgs = 3
    Poison = {1}
    MaxDeliver = 1
    MaxFaults = 0
    Requests = {"b1", "s2", "c1"}
    Workers = {w1}
    MaxDeliveries = 3
    ReqKind <- TwoRunsKind
    ReqRun <- TwoRunsRun
INVARIANT
    HangingNeedsFaults
PROPERTIES
    TerminalIsFinal
    QueueDrains
    KnownCancelStopsFlow
\* Requests are used up, and messages can run out of deliveries.
CHECK_DEADLOCK FALSE
