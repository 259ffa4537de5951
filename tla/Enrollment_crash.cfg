\* The server is killed or loses power once, one path per device.
CONSTANTS
    Records <- MCRecords
    NoRecord = NoRecord
    MaxServerCrashes = 1
    A = A
    B = B
    FirstQ = 1
    PathCount = 1
    Retries = 1
    Rounds = 2
    MaxReboots = 0
SPECIFICATION Spec
INVARIANTS
    EnrolledIsStored
    ReadyMeansBothRoots
CHECK_DEADLOCK FALSE
