\* Indices from 0 on, as the sketches configure it, two paths per device.
CONSTANTS
    Records <- MCRecords
    NoRecord = NoRecord
    MaxServerCrashes = 0
    A = A
    B = B
    FirstQ = 0
    PathCount = 2
    Retries = 2
    Rounds = 1
    MaxReboots = 0
SYMMETRY Swap
SPECIFICATION Spec
INVARIANTS
    TypeOK
    EnrolledBut0IsStored
    FetchedIsStored
CHECK_DEADLOCK FALSE
