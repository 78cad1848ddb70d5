\* Two spawn tasks start together.
SPECIFICATION Spec
CONSTANTS
    p1 = p1
    p2 = p2
    Parents = {p1, p2}
    Children <- TwoOfP2
    Workers = 2
    MaxChildRuns <- OneChild
    MaxParallel <- OneAtATime
    Timed = {p1}
    MaxFaults = 0
INVARIANTS
    ParallelLimit
\* A parent without a deadline may wait for ever.
CHECK_DEADLOCK FALSE
