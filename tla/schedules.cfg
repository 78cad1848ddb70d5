\* Three faults: two gateways over a schedule of either type.
SPECIFICATION FairSpec
CONSTANTS
    Schedules = {"s1"}
    Gateways = {g1, g2}
    Interval = 2
    Lease = 2
    MaxDelay = 2
    MaxDispatches = 2
    MaxFaults = 3
INVARIANTS
    TypeOK
    RecordedIsQueued
    OnTheGrid
    DuplicatesNeedFaults
PROPERTIES
    ClosedStaysClosed
    DueIsDispatched
