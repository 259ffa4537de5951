------------------------- MODULE FragmentTransport -------------------------
(***************************************************************************)
(* FragmentedUdp of both protocols: a message goes out as datagrams of at  *)
(* most FRAGMENT_PAYLOAD_BYTES bytes, each with the header of the message  *)
(* and its own index; a receive call locks on to the first acceptable      *)
(* header and puts the fragments of that header at their place in the      *)
(* caller's buffer until it has all of them or its time is up.             *)
(*                                                                         *)
(* Datagrams are lost, repeated and reordered: any datagram sent may be    *)
(* read at any time, any number of times or never (a datagram drained by   *)
(* discardPending is one that this call never reads).  A short write sends *)
(* a datagram that ends early; one of no bytes at all is never read.  The  *)
(* fields of a header that is itself cut off are not modelled, since such  *)
(* a datagram is refused before they are read.  A byte is named by         *)
(* where it comes from, byte i of message m: what a buffer holds shows     *)
(* whose bytes it holds.  The buffer belongs to the caller and is not      *)
(* cleared between calls.                                                  *)
(***************************************************************************)
EXTENDS Naturals, FiniteSets

CONSTANTS
    Messages,                   \* records: id, src, type, session, length
    FRAGMENT_HEADER_BYTES,
    FRAGMENT_PAYLOAD_BYTES,
    MAX_FRAGMENTS,
    MAX_PROTOCOL_MESSAGE_BYTES,
    Calls,                      \* receive calls: type, session, capacity
    AnyType,                    \* 0xff
    AnySession,                 \* 0
    NoHeader,                   \* the call has not locked on yet
    NoMessage                   \* origin of the bytes of a fresh buffer

Chunk == FRAGMENT_PAYLOAD_BYTES

VARIABLES progress,    \* progress[m]: fragments of m handed to the network
          sending,     \* sending[m]: unsent, sending, sent or failed
          cut,         \* cut[m]: bytes of m's last datagram that a short write sent, or 0
          call,        \* state and arguments of receiveMessage
          lock,        \* active..: the header of the message being received
          seen,        \* receivedFragments
          completed,   \* how many of them
          output       \* the caller's buffer

vars == <<progress, sending, cut, call, lock, seen, completed, output>>

sendVars == <<progress, sending, cut>>
recvVars == <<call, lock, seen, completed, output>>

FragmentCount(m) == (m.length + Chunk - 1) \div Chunk

Header(m) == [src |-> m.src, type |-> m.type, session |-> m.session,
              length |-> m.length, count |-> FragmentCount(m)]

Offset(k) == k * Chunk

\* Slip: the last fragment is not shortened.
PayloadLengthFull(m, k) == Chunk

PayloadLength(m, k) == IF Offset(k) + Chunk <= m.length THEN Chunk ELSE m.length - Offset(k)

DatagramLength(m, k) == FRAGMENT_HEADER_BYTES + PayloadLength(m, k)

\* The payload is given by the message it was cut from; bytes is what parsePacket
\* finds of the datagram.
Fragment(m, k) == [header |-> Header(m), index |-> k,
                   payloadLength |-> PayloadLength(m, k), of |-> m,
                   bytes |-> DatagramLength(m, k)]

\* What endPacket sends after a short write of the fragment that is next.
Truncated(m) == [Fragment(m, progress[m]) EXCEPT !.bytes = cut[m]]

Network == (UNION { {Fragment(m, k) : k \in 0..progress[m]-1} : m \in Messages })
           \cup {Truncated(m) : m \in {n \in Messages : cut[n] > 0}}

Headers == {Header(m) : m \in Messages}

ASSUME TransportAssumption ==
    /\ FRAGMENT_HEADER_BYTES \in Nat \ {0}
    /\ FRAGMENT_PAYLOAD_BYTES \in Nat \ {0}
    /\ MAX_FRAGMENTS \in Nat
    /\ MAX_PROTOCOL_MESSAGE_BYTES \in Nat
    /\ \A m \in Messages : m.length \in Nat
    /\ \A c \in Calls : c.capacity \in 0..MAX_PROTOCOL_MESSAGE_BYTES
    /\ NoMessage \notin Messages
    /\ NoHeader \notin Headers

Places == 0..MAX_PROTOCOL_MESSAGE_BYTES-1

Byte(m, i) == <<m, i>>

TypeOK ==
    /\ progress \in [Messages -> 0..MAX_FRAGMENTS]
    /\ sending \in [Messages -> {"unsent", "sending", "sent", "failed"}]
    /\ cut \in [Messages -> 0..FRAGMENT_HEADER_BYTES + Chunk - 1]
    /\ call \in [state : {"idle", "receiving", "returned"}, args : Calls]
    /\ lock \in Headers \cup {NoHeader}
    /\ seen \subseteq 0..MAX_FRAGMENTS-1
    /\ completed \in 0..MAX_FRAGMENTS
    /\ output \in [Places -> (Messages \X Nat) \cup {Byte(NoMessage, 0)}]

Init == /\ progress = [m \in Messages |-> 0]
        /\ sending = [m \in Messages |-> "unsent"]
        /\ cut = [m \in Messages |-> 0]
        /\ call \in [state : {"idle"}, args : Calls]
        /\ lock = NoHeader
        /\ seen = {}
        /\ completed = 0
        /\ output = [i \in Places |-> Byte(NoMessage, 0)]

-----------------------------------------------------------------------------
(* sendMessage: one message of a peer at a time, each at most once *)

Sendable(m) == /\ m.length \in 1..MAX_PROTOCOL_MESSAGE_BYTES
               /\ FragmentCount(m) \in 1..MAX_FRAGMENTS

StartSend(m) ==
    /\ sending[m] = "unsent"
    /\ \A n \in Messages : n.src = m.src => sending[n] /= "sending"
    /\ sending' = [sending EXCEPT ![m] = IF Sendable(m) THEN "sending" ELSE "failed"]
    /\ UNCHANGED <<progress, cut, recvVars>>

\* Slip: the loop runs once too often.
LastFragmentLate(m) == progress[m] = FragmentCount(m)

LastFragment(m) == progress[m] + 1 = FragmentCount(m)

SendFragment(m) ==
    /\ sending[m] = "sending"
    /\ progress' = [progress EXCEPT ![m] = @ + 1]
    /\ sending' = IF LastFragment(m)
                  THEN [sending EXCEPT ![m] = "sent"]
                  ELSE sending
    /\ UNCHANGED <<cut, recvVars>>

\* beginPacket or endPacket fails (n = 0), or write takes only n bytes and they go
\* out all the same; the rest of the message is not sent.
SendFails(m) ==
    /\ sending[m] = "sending"
    /\ sending' = [sending EXCEPT ![m] = "failed"]
    /\ \E n \in 0..DatagramLength(m, progress[m]) - 1 : cut' = [cut EXCEPT ![m] = n]
    /\ UNCHANGED <<progress, recvVars>>

-----------------------------------------------------------------------------
(* receiveMessage *)

StartReceive(args) ==
    /\ call.state /= "receiving"
    /\ call' = [state |-> "receiving", args |-> args]
    /\ lock' = NoHeader
    /\ seen' = {}
    /\ completed' = 0
    /\ UNCHANGED <<sendVars, output>>

\* Slip: the length of the datagram is not held against that of its payload.
WellFormedAnyLength(f) ==
    /\ f.bytes >= FRAGMENT_HEADER_BYTES
    /\ f.header.count \in 1..MAX_FRAGMENTS
    /\ f.index < f.header.count
    /\ f.payloadLength <= Chunk
    /\ f.header.length <= MAX_PROTOCOL_MESSAGE_BYTES

\* What readOneDatagram lets through.
WellFormed(f) == /\ f.bytes >= FRAGMENT_HEADER_BYTES
                 /\ f.header.count \in 1..MAX_FRAGMENTS
                 /\ f.index < f.header.count
                 /\ f.payloadLength <= Chunk
                 /\ FRAGMENT_HEADER_BYTES + f.payloadLength = f.bytes
                 /\ f.header.length <= MAX_PROTOCOL_MESSAGE_BYTES

Wanted(f) == /\ call.args.type \in {AnyType, f.header.type}
             /\ call.args.session \in {AnySession, f.header.session}

\* The header the call is locked on to once it has read f.
LockAfter(f) == IF lock = NoHeader /\ f.header.length <= call.args.capacity
                THEN f.header
                ELSE lock

\* Slip: the source of the fragment is not compared.
MatchesAnySource(f) ==
    LET l == LockAfter(f)
    IN  l /= NoHeader /\ f.header = [l EXCEPT !.src = f.header.src]

Matches(f) == LockAfter(f) = f.header

Fits(f) == Offset(f.index) + f.payloadLength <= f.header.length

Placed(f) == /\ WellFormed(f) /\ Wanted(f)
             /\ Matches(f)
             /\ Fits(f)

\* Slip: a repeated fragment counts again.
FreshOrNot(f) == f.index < MAX_FRAGMENTS

Fresh(f) == f.index \notin seen

\* Byte i of the message as m_fragmentBuffer holds it: past the end of the datagram
\* is what earlier ones left there.
Buffered(f, i) == IF FRAGMENT_HEADER_BYTES + (i - Offset(f.index)) < f.bytes
                  THEN Byte(f.of, i) ELSE Byte(NoMessage, 0)

\* The memcpy into the caller's buffer.
Written(f) == [i \in Places |->
                  IF i \in Offset(f.index)..Offset(f.index) + f.payloadLength - 1
                  THEN Buffered(f, i) ELSE output[i]]

\* A datagram with no effect, or one that only locks the call on to its header.
Skip(f) ==
    /\ call.state = "receiving"
    /\ \/ ~Placed(f)
       \/ ~Fresh(f)
    /\ lock' = IF WellFormed(f) /\ Wanted(f) THEN LockAfter(f) ELSE lock
    /\ UNCHANGED <<sendVars, call, seen, completed, output>>

Place(f) ==
    /\ call.state = "receiving"
    /\ Placed(f)
    /\ Fresh(f)
    /\ lock' = LockAfter(f)
    /\ output' = Written(f)
    /\ seen' = seen \cup {f.index}
    /\ completed' = completed + 1
    /\ call' = IF completed' = lock'.count THEN [call EXCEPT !.state = "returned"] ELSE call
    /\ UNCHANGED sendVars

\* The time is up; what has arrived stays in the buffer.
Deadline ==
    /\ call.state = "receiving"
    /\ call' = [call EXCEPT !.state = "idle"]
    /\ UNCHANGED <<sendVars, lock, seen, completed, output>>

Next == \/ \E m \in Messages : StartSend(m) \/ SendFragment(m) \/ SendFails(m)
        \/ \E f \in Network : Skip(f) \/ Place(f)
        \/ \E args \in Calls : StartReceive(args)
        \/ Deadline

Spec == Init /\ [][Next]_vars

-----------------------------------------------------------------------------
(* Properties *)

\* A datagram handed over whole can be placed, and no other: readOneDatagram lets it
\* through exactly if no short write cut it off; its payload is not empty and lies
\* within the length its header announces; and the payloads of a message meet without
\* gap or overlap, so that the last byte of the last one is the last of the message.
SentIsAcceptable ==
    \A f \in Network :
        /\ WellFormed(f) <=> f \in {Fragment(f.of, k) : k \in 0..progress[f.of]-1}
        /\ Fits(f) /\ f.payloadLength > 0
        /\ IF f.index + 1 = f.header.count
           THEN Offset(f.index) + f.payloadLength = f.header.length
           ELSE Offset(f.index + 1) = Offset(f.index) + f.payloadLength

\* A fragment marked as received is in the caller's buffer at its place, whole,
\* and was sent by the source the call is locked on to; what an earlier call
\* left in the buffer shows only in places of fragments still missing.
ReceivedInPlace ==
    \A k \in seen :
        \E m \in Messages :
            /\ Header(m) = lock
            /\ k < progress[m]
            /\ \A i \in Offset(k)..Offset(k) + PayloadLength(m, k) - 1 : output[i] = Byte(m, i)

\* What the headers must ensure, and sendMessage does not: two messages of more
\* than one fragment never share one.
DistinctHeaders ==
    \A m, n \in Messages : Header(m) = Header(n) /\ FragmentCount(m) > 1 => m = n

Channel == INSTANCE MessageChannel WITH
    Content <- [m \in Messages |-> [i \in 0..m.length-1 |-> Byte(m, i)]],
    Nothing <- NoMessage,
    offered <- {m \in Messages : sending[m] = "sent"},
    returned <- IF call.state = "returned" THEN [i \in 0..lock.length-1 |-> output[i]] ELSE NoMessage

\* A receive call returns the whole content of one message that was handed over
\* completely, never a mixture of two messages, of two sources, or of a message
\* and what was in the buffer before, or it returns nothing.
ImplementsMessageChannel == Channel!Spec
=============================================================================
