\* Height 3, chains of 15 steps, 16-bit checksum.
CONSTANTS
    LMS_HEIGHT = 3
    NodesAt <- MCNodesAt
    DigestDigits = 2
    MAX_CHAIN = 15
    ChecksumShift = 16
    Digests <- MCDigests
    OwnSeed = OwnSeed
    OtherSeed = OtherSeed
    Zeroed = Zeroed
    NoSignature = NoSignature
    NoNode = NoNode
    NoDigest = NoDigest
SPECIFICATION Spec
INVARIANTS
    TypeOK
    BuiltIsTree
    VerdictIsRight
    NoDomination
CHECK_DEADLOCK FALSE
