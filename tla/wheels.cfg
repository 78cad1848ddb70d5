\* Two requests, two uploads, two faults.
SPECIFICATION FairSpec
CONSTANTS
    r1 = r1
    r2 = r2
    Requests = {r1, r2}
    Wheels <- FourWheels
    Selectable <- ThreeSelectable
    MaxUploads = 2
    MaxFaults = 2
INVARIANTS
    TypeOK
    RecordedIsFile
    OkMeansInstalled
PROPERTY
    SyncConverges
