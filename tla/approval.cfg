\* Safety under one fault: two approves and a reject race on a spawning bundle.
SPECIFICATION Spec
CONSTANTS
    Runs = {"r1"}
    NoRun = NoRun
    MaxMsgs = 2
    Poison = {}
    MaxDeliver = 1
    MaxFaults = 1
    Requests = {"b1", "a1", "a2", "j1"}
    Workers = {w1}
    MaxDeliveries = 1
    ReqKind <- ApprovalKind
    ReqRun <- ApprovalRun
INVARIANTS
    ApprovalGate
PROPERTIES
    KeepsContract
    TerminalIsFinal
\* Requests are used up, and messages can run out of deliveries.
CHECK_DEADLOCK FALSE
