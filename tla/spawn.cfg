\* Two faults: two parents share two workers with their children.
SPECIFICATION FairSpec
CONSTANTS
    p1 = p1
    p2 = p2
    Parents = {p1, p2}
    Children <- TwoOfP1
    Workers = 2
    MaxChildRuns <- OneChild
    MaxParallel <- OneAtATime
    Timed = {p1}
    MaxFaults = 2
INVARIANTS
    TypeOK
    ChildLimit
    ActiveIsWaiting
    AwaitedChildIsQueued
    CompletedAfterChildren
PROPERTIES
    CallsReturn
    CancelledParentStops
\* A parent without a deadline may wait for ever.
CHECK_DEADLOCK FALSE
