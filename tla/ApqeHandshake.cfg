\* A restarts into the session numbers of its first boot; B into its request ids.
CONSTANTS
    A = A
    B = B
    Sessions = 2
    MaxBoots = 2
    MaxRuns = 2
SPECIFICATION FairSpec
INVARIANTS
    TypeOK
    InitiatorAgreement
    ResponderAgreement
    AcceptedOnce
    KeyOfCredentials
PROPERTIES
    ExperimentEnds
\* The experiment is over and the UAVs idle.
CHECK_DEADLOCK FALSE
