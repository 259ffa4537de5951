\* Fragments of two bytes, at most three of them; six messages of two sources.
CONSTANTS
    s1 = s1
    s2 = s2
    Messages <- MCMessages
    FRAGMENT_HEADER_BYTES = 1
    FRAGMENT_PAYLOAD_BYTES = 2
    MAX_FRAGMENTS = 3
    MAX_PROTOCOL_MESSAGE_BYTES = 6
    Calls <- MCCalls
    AnyType = 0
    AnySession = 0
    NoHeader = NoHeader
    NoMessage = NoMessage
SPECIFICATION Spec
INVARIANTS
    TypeOK
    SentIsAcceptable
    ReceivedInPlace
PROPERTIES
    ImplementsMessageChannel
