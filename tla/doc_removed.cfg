\* No fault: one request at a time and one upload.
SPECIFICATION FairSpec
CONSTANTS
    r1 = r1
    r2 = r2
    Requests = {r1}
    Wheels <- FourWheels
    Selectable <- ThreeSelectable
    MaxUploads = 1
    MaxFaults = 0
PROPERTY
    DeletedIsRemoved
