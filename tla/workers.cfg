\* One patch, two faults; a TTL of two heartbeats.
SPECIFICATION FairSpec
CONSTANTS
    Timeout = 1
    Lifetime = 2
    MaxPatches = 1
    MaxFaults = 2
INVARIANTS
    TypeOK
    MemoryIsRight
    DeadIsNotActive
    HideIsKept
PROPERTIES
    StoppedIsKept
    RecordCatchesUp
