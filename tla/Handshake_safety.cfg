\* Two sessions, one crash, session numbers may collide.
CONSTANTS
    A = A
    B = B
    Sessions = {1, 2}
    FirstQ = 1
    NumberOfSessions = 2
    LmsLeaves = 3
    StoredQ <- MCStoredFresh
    ResetDevices = {}
    PromptReflash = TRUE
    MaxCrashes = 1
    MaxResponderRuns = 3
SPECIFICATION Spec
INVARIANTS
    TypeOK
    OneTimeSigning
    PersistedBeforeUse
    ResponderKeysEarned
    ResponderAgreement
    InitiatorAgreement
    CountedIsAccepted
PROPERTIES
    ImplementsOneTimeKeys
CHECK_DEADLOCK FALSE
