\* Indices from 0 on, as the sketches configure it.
CONSTANTS
    Records <- MCRecords
    NoRecord = NoRecord
    MaxServerCrashes = 0
    A = A
    B = B
    FirstQ = 0
    PathCount = 1
    Retries = 2
    Rounds = 2
    MaxReboots = 0
SPECIFICATION Spec
INVARIANTS
    EnrolledIsStored
CHECK_DEADLOCK FALSE
