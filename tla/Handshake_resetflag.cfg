\* The sketch with resetQCounter = true is still on the board when it crashes.
CONSTANTS
    A = A
    B = B
    Sessions = {1}
    FirstQ = 0
    NumberOfSessions = 2
    LmsLeaves = 2
    StoredQ = {0}
    ResetDevices = {A}
    PromptReflash = FALSE
    MaxCrashes = 1
    MaxResponderRuns = 2
SPECIFICATION Spec
INVARIANTS
    OneTimeSigning
CHECK_DEADLOCK FALSE
