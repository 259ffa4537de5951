\* A restart of a device, polling, a silent or slow ground station.
CONSTANTS
    Records <- MCRecords
    NoRecord = NoRecord
    MaxServerCrashes = 0
    A = A
    B = B
    FirstQ = 1
    PathCount = 1
    Retries = 2
    Rounds = 2
    MaxReboots = 1
SPECIFICATION FairSpec
INVARIANTS
    EnrolledIsStored
    FetchedPathExists
PROPERTIES
    EnrollmentEnds
    FetchEnds
CHECK_DEADLOCK FALSE
