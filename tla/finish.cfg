\* Two faults: an approved bundle, up to three deliveries.
SPECIFICATION FairSpec
CONSTANTS
    Runs = {"r1"}
    NoRun = NoRun
    MaxMsgs = 1
    Poison = {}
    MaxDeliver = 3
    MaxFaults = 2
    Requests = {"b1", "a1"}
    Workers = {w1}
    MaxDeliveries = 3
    ReqKind <- ApprovedKind
    ReqRun <- ApprovedRun
INVARIANT
    RetriesNeedFaults
PROPERTIES
    AcceptedRunsFinish
    KeepsContract
\* Requests are used up, and messages can run out of deliveries.
CHECK_DEADLOCK FALSE
