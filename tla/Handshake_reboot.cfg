\* Power failures during and between boots: flash written by an earlier
\* experiment, and a first boot with resetQCounter = true.
CONSTANTS
    A = A
    B = B
    Sessions = {1}
    FirstQ = 1
    NumberOfSessions = 2
    LmsLeaves = 4
    StoredQ <- MCStoredOld
    ResetDevices = {A, B}
    PromptReflash = TRUE
    MaxCrashes = 2
    MaxResponderRuns = 2
SPECIFICATION FairSpec
INVARIANTS
    OneTimeSigning
PROPERTIES
    CounterOnlyAdvances
    ExperimentEnds
    ResponderReturns
CHECK_DEADLOCK FALSE
