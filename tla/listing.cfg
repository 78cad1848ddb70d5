\* Three runs, four puts at two times, one failing read; pages of one and two.
SPECIFICATION FairSpec
CONSTANTS
    Runs <- ThreeRuns
    PageSizes = {1, 2}
    WatchTime = 1
    MaxTime = 2
    MaxPuts = 4
    MaxFaults = 1
INVARIANTS
    TypeOK
    WalkIsExact
    TwiceOnlyIfBackdated
PROPERTY
    WatcherCatchesUp
\* A walk may be over, and there are no more puts.
CHECK_DEADLOCK FALSE
