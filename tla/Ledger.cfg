\* Three records, three crashes of either kind.
CONSTANTS
    Records = {r1, r2, r3}
    NoRecord = NoRecord
    MaxServerCrashes = 3
SPECIFICATION LedgerSpec
INVARIANTS
    LoggedIsStored
    ReadableLinesLinked
    OmissionsBounded
CHECK_DEADLOCK FALSE
