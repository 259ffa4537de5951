---------------------- MODULE FragmentTransport_proofs ----------------------
(***************************************************************************)
(* Proofs about FragmentTransport, for any fragment size, any number of    *)
(* messages of any lengths, and any receive calls.                         *)
(***************************************************************************)
EXTENDS FragmentTransport, FiniteSetTheorems, TLAPS

-----------------------------------------------------------------------------
(* Cutting a message into fragments *)

LEMMA ChunkType == Chunk \in Nat /\ Chunk > 0
BY TransportAssumption DEF Chunk

LEMMA DivBounds ==
    ASSUME NEW a \in Nat, NEW c \in Nat, c > 0
    PROVE  /\ a \div c \in Nat
           /\ (a \div c) * c <= a
           /\ a < (a \div c) * c + c
BY SMT

LEMMA Monotone ==
    ASSUME NEW a \in Nat, NEW b \in Nat, NEW c \in Nat, a <= b
    PROVE  a * c <= b * c
BY SMT

\* FragmentCount is the number of fragments that covers the message.
LEMMA CountBounds ==
    ASSUME NEW m \in Messages
    PROVE  /\ FragmentCount(m) \in Nat
           /\ m.length <= FragmentCount(m) * Chunk
           /\ FragmentCount(m) * Chunk < m.length + Chunk
<1>1. m.length \in Nat /\ m.length + Chunk - 1 \in Nat
  BY TransportAssumption, ChunkType
<1>2. /\ FragmentCount(m) \in Nat
      /\ FragmentCount(m) * Chunk <= m.length + Chunk - 1
      /\ m.length + Chunk - 1 < FragmentCount(m) * Chunk + Chunk
  BY <1>1, ChunkType, DivBounds DEF FragmentCount
<1>3. FragmentCount(m) * Chunk \in Nat
  BY <1>2, ChunkType
<1> QED
  BY <1>1, <1>2, <1>3, ChunkType

\* Fragments lie within the message and meet without gap.
LEMMA FragmentShape ==
    ASSUME NEW m \in Messages, NEW k \in Nat, k < FragmentCount(m)
    PROVE  /\ Offset(k) \in Nat
           /\ PayloadLength(m, k) \in 1..Chunk
           /\ Offset(k) + PayloadLength(m, k) <= m.length
           /\ k + 1 = FragmentCount(m) => Offset(k) + PayloadLength(m, k) = m.length
           /\ k + 1 < FragmentCount(m) => Offset(k + 1) = Offset(k) + PayloadLength(m, k)
<1>1. m.length \in Nat
  BY TransportAssumption
<1>2. Offset(k) \in Nat /\ Offset(k + 1) \in Nat /\ Offset(k + 1) = Offset(k) + Chunk
  BY ChunkType DEF Offset
<1>3. Offset(k + 1) <= FragmentCount(m) * Chunk
  BY Monotone, CountBounds, ChunkType DEF Offset
<1>4. FragmentCount(m) * Chunk \in Nat
  BY CountBounds, ChunkType
<1>5. Offset(k) < m.length
  BY <1>1, <1>2, <1>3, <1>4, CountBounds, ChunkType
<1>6. CASE k + 1 = FragmentCount(m)
  <2>1. m.length <= Offset(k) + Chunk
    BY <1>6, <1>2, CountBounds DEF Offset
  <2> QED
    BY <1>1, <1>2, <1>5, <1>6, <2>1, ChunkType DEF PayloadLength
<1>7. CASE k + 1 < FragmentCount(m)
  <2>1. Offset(k + 1) + Chunk <= FragmentCount(m) * Chunk
    <3>1. Offset(k + 2) <= FragmentCount(m) * Chunk
      BY <1>7, Monotone, CountBounds, ChunkType DEF Offset
    <3> QED
      BY <3>1, ChunkType DEF Offset
  <2>2. Offset(k) + Chunk < m.length
    BY <1>1, <1>2, <1>4, <2>1, CountBounds, ChunkType
  <2> QED
    BY <1>1, <1>2, <1>7, <2>2, ChunkType DEF PayloadLength
<1> QED
  BY <1>6, <1>7, CountBounds

\* Every byte of a message is in one of its fragments.
LEMMA EveryByteCovered ==
    ASSUME NEW m \in Messages, NEW i \in 0..m.length-1
    PROVE  \E k \in 0..FragmentCount(m)-1 : i \in Offset(k)..Offset(k) + PayloadLength(m, k) - 1
<1>1. m.length \in Nat /\ i \in Nat /\ i < m.length
  BY TransportAssumption
<1> DEFINE k == i \div Chunk
<1>2. k \in Nat /\ k * Chunk <= i /\ i < k * Chunk + Chunk /\ k * Chunk \in Nat
  BY <1>1, ChunkType, DivBounds
<1> HIDE DEF k
<1>3. k < FragmentCount(m)
  <2>1. SUFFICES ASSUME FragmentCount(m) <= k PROVE FALSE
    BY <1>2, CountBounds
  <2>2. FragmentCount(m) * Chunk <= k * Chunk /\ FragmentCount(m) * Chunk \in Nat
    BY <1>2, <2>1, CountBounds, Monotone, ChunkType
  <2> QED
    BY <1>1, <1>2, <2>2, CountBounds
<1>4. i < Offset(k) + PayloadLength(m, k)
  BY <1>1, <1>2, ChunkType DEF Offset, PayloadLength
<1>5. Offset(k) \in Nat /\ PayloadLength(m, k) \in Nat /\ Offset(k) <= i
  BY <1>2, <1>3, FragmentShape DEF Offset
<1> QED
  BY <1>1, <1>2, <1>3, <1>4, <1>5, CountBounds

\* Places of different fragments do not overlap.
LEMMA Disjoint ==
    ASSUME NEW j \in Nat, NEW k \in Nat, NEW i \in Nat,
           Offset(j) <= i, i < Offset(j) + Chunk, Offset(k) <= i, i < Offset(k) + Chunk
    PROVE  j = k
<1>1. \A a, b \in Nat : a < b => Offset(a) + Chunk <= Offset(b)
  <2>1. SUFFICES ASSUME NEW a \in Nat, NEW b \in Nat, a < b PROVE Offset(a) + Chunk <= Offset(b)
    OBVIOUS
  <2>2. Offset(a + 1) <= Offset(b)
    BY <2>1, Monotone, ChunkType DEF Offset
  <2> QED
    BY <2>2, ChunkType DEF Offset
<1>2. Offset(j) \in Nat /\ Offset(k) \in Nat
  BY ChunkType DEF Offset
<1> QED
  BY <1>1, <1>2, ChunkType

LEMMA HeaderFields ==
    ASSUME NEW m \in Messages
    PROVE  Header(m).length = m.length /\ Header(m).count = FragmentCount(m) /\ Header(m) # NoHeader
BY TransportAssumption DEF Header, Headers

\* Fragment k of m as it is on its way, n bytes of it.
IsFragment(f, m, k, n) ==
    /\ f = [Fragment(m, k) EXCEPT !.bytes = n]
    /\ f.header = Header(m) /\ f.index = k /\ f.of = m
    /\ f.payloadLength = PayloadLength(m, k) /\ f.bytes = n

\* A datagram on its way is whole, or is what a short write left of its message's next.
LEMMA NetworkFragments ==
    ASSUME NEW f \in Network, progress \in [Messages -> Nat]
    PROVE  \E m \in Messages, k \in Nat :
              \/ k < progress[m] /\ IsFragment(f, m, k, DatagramLength(m, k))
              \/ k = progress[m] /\ cut[m] > 0 /\ IsFragment(f, m, k, cut[m])
<1>1. CASE \E m \in Messages : \E k \in 0..progress[m]-1 : f = Fragment(m, k)
  <2>1. PICK m \in Messages : \E k \in 0..progress[m]-1 : f = Fragment(m, k)
    BY <1>1
  <2>2. PICK k \in 0..progress[m]-1 : f = Fragment(m, k)
    BY <2>1
  <2>3. k \in Nat /\ k < progress[m]
    BY <2>2
  <2>4. IsFragment(f, m, k, DatagramLength(m, k))
    BY <2>2 DEF Fragment, IsFragment
  <2> QED
    BY <2>3, <2>4
<1>2. CASE \E m \in Messages : cut[m] > 0 /\ f = Truncated(m)
  <2>1. PICK m \in Messages : cut[m] > 0 /\ f = Truncated(m)
    BY <1>2
  <2>2. IsFragment(f, m, progress[m], cut[m])
    BY <2>1 DEF Truncated, Fragment, IsFragment
  <2> QED
    BY <2>1, <2>2
<1> QED
  BY <1>1, <1>2 DEF Network

-----------------------------------------------------------------------------
(* The inductive invariant *)

\* How far sendMessage is with a message.
SendInv ==
    \A m \in Messages :
        /\ sending[m] \in {"sending", "sent"} => Sendable(m)
        /\ sending[m] = "unsent" => progress[m] = 0
        /\ sending[m] = "sending" => progress[m] < FragmentCount(m)
        /\ sending[m] = "sent" => progress[m] = FragmentCount(m)
        /\ sending[m] = "failed" => progress[m] = 0 \/ (Sendable(m) /\ progress[m] < FragmentCount(m))
        /\ cut[m] > 0 => /\ sending[m] = "failed" /\ Sendable(m)
                         /\ progress[m] < FragmentCount(m)
                         /\ cut[m] < DatagramLength(m, progress[m])

\* What the receive call knows about the message it is locked on to.
LockInv ==
    /\ lock = NoHeader => seen = {}
    /\ lock # NoHeader =>
          /\ \E m \in Messages : Header(m) = lock /\ Sendable(m)
          /\ seen \subseteq 0..lock.count-1
    /\ completed = Cardinality(seen)
    /\ call.state = "returned" => lock # NoHeader /\ completed = lock.count

IInv == TypeOK /\ SendInv /\ LockInv /\ ReceivedInPlace

\* A message with a fragment on its way was fit to send.
LEMMA SentFragments ==
    ASSUME TypeOK, SendInv, NEW m \in Messages, NEW k \in Nat, k < progress[m]
    PROVE  Sendable(m) /\ k < FragmentCount(m)
<1>1. progress[m] \in Nat /\ sending[m] \in {"unsent", "sending", "sent", "failed"}
  BY TransportAssumption DEF TypeOK
<1>2. Sendable(m) /\ progress[m] <= FragmentCount(m)
  BY <1>1, CountBounds DEF SendInv
<1> QED
  BY <1>1, <1>2, CountBounds

\* The receiver lets through whole datagrams and no other.
LEMMA WellFormedIsWhole ==
    ASSUME TypeOK, SendInv, NEW f \in Network
    PROVE  \E m \in Messages, k \in Nat :
              /\ Sendable(m) /\ k < FragmentCount(m)
              /\ f.header = Header(m) /\ f.index = k /\ f.of = m
              /\ f.payloadLength = PayloadLength(m, k)
              /\ \/ /\ WellFormed(f)
                    /\ k < progress[m]
                    /\ f.bytes = DatagramLength(m, k) /\ f = Fragment(m, k)
                 \/ /\ ~WellFormed(f)
                    /\ k = progress[m]
                    /\ f.bytes < DatagramLength(m, k)
<1>1. progress \in [Messages -> Nat] /\ cut \in [Messages -> Nat]
  BY TransportAssumption, ChunkType DEF TypeOK
<1>2. PICK m \in Messages, k \in Nat :
          \/ k < progress[m] /\ IsFragment(f, m, k, DatagramLength(m, k))
          \/ k = progress[m] /\ cut[m] > 0 /\ IsFragment(f, m, k, cut[m])
  BY <1>1, NetworkFragments
<1>3. Sendable(m) /\ k < FragmentCount(m)
  BY <1>2, SentFragments DEF SendInv
<1>4. /\ f.header = Header(m) /\ f.index = k /\ f.of = m
      /\ f.payloadLength = PayloadLength(m, k)
  BY <1>2 DEF IsFragment
<1>5. PayloadLength(m, k) \in 1..Chunk
  BY <1>3, FragmentShape
<1>6. CASE k < progress[m] /\ IsFragment(f, m, k, DatagramLength(m, k))
  <2>1. f.bytes = DatagramLength(m, k)
    BY <1>6 DEF IsFragment
  <2>2. f = Fragment(m, k)
    BY <1>6 DEF IsFragment, Fragment
  <2>3. f.header.length = m.length /\ f.header.count = FragmentCount(m)
    BY <1>4, HeaderFields
  <2>4. WellFormed(f)
    BY <1>3, <1>4, <1>5, <2>1, <2>3, ChunkType, TransportAssumption
    DEF WellFormed, Sendable, DatagramLength
  <2> QED
    BY <1>3, <1>4, <1>6, <2>1, <2>2, <2>4
<1>7. CASE k = progress[m] /\ cut[m] > 0 /\ IsFragment(f, m, k, cut[m])
  <2>1. f.bytes = cut[m] /\ cut[m] < DatagramLength(m, k)
    BY <1>7 DEF IsFragment, SendInv
  <2>2. ~WellFormed(f)
    BY <1>1, <1>4, <1>5, <2>1, TransportAssumption DEF WellFormed, DatagramLength
  <2> QED
    BY <1>3, <1>4, <1>7, <2>1, <2>2
<1> QED
  BY <1>2, <1>6, <1>7

LEMMA SeenFinite ==
    ASSUME TypeOK
    PROVE  IsFiniteSet(seen) /\ Cardinality(seen) \in Nat
<1>1. IsFiniteSet(0..MAX_FRAGMENTS-1)
  BY FS_Interval, TransportAssumption
<1> QED
  BY <1>1, FS_Subset, FS_CardinalityType DEF TypeOK

LEMMA InvInit == Init => IInv
<1>1. SUFFICES ASSUME Init PROVE IInv
  OBVIOUS
<1>2. TypeOK
  BY <1>1, TransportAssumption, ChunkType DEF Init, TypeOK
<1>3. SendInv
  BY <1>1 DEF Init, SendInv
<1>4. LockInv
  BY <1>1, FS_EmptySet DEF Init, LockInv
<1>5. ReceivedInPlace
  BY <1>1 DEF Init, ReceivedInPlace
<1> QED
  BY <1>2, <1>3, <1>4, <1>5 DEF IInv

\* Steps of a sender: the receiver's part stays, and what has been sent stays sent.
LEMMA InvSender ==
    ASSUME IInv, NEW m \in Messages, StartSend(m) \/ SendFragment(m) \/ SendFails(m)
    PROVE  IInv'
<1> USE DEF recvVars
<1>0. progress \in [Messages -> Nat] /\ FragmentCount(m) \in Nat
  BY TransportAssumption, CountBounds DEF IInv, TypeOK
<1>1. CASE StartSend(m)
  <2>1. TypeOK'
    BY <1>1 DEF IInv, TypeOK, StartSend
  <2>2. SendInv'
    <3>1. \A n \in Messages : FragmentCount(n) \in Nat
      BY CountBounds
    <3>2. Sendable(m) => 0 < FragmentCount(m)
      BY <1>0 DEF Sendable
    <3> QED
      BY <1>0, <1>1, <3>1, <3>2 DEF IInv, TypeOK, SendInv, StartSend, Sendable
  <2>3. LockInv' /\ ReceivedInPlace'
    BY <1>1 DEF IInv, LockInv, ReceivedInPlace, StartSend, Sendable
  <2> QED
    BY <2>1, <2>2, <2>3 DEF IInv
<1>2. CASE SendFragment(m)
  <2>1. progress[m] + 1 <= FragmentCount(m) /\ progress[m] + 1 \in 0..MAX_FRAGMENTS
    BY <1>0, <1>2, TransportAssumption DEF IInv, SendInv, SendFragment, Sendable
  <2>2. TypeOK'
    BY <1>2, <2>1 DEF IInv, TypeOK, SendFragment
  <2>3. SendInv'
    BY <1>0, <1>2, <2>1 DEF IInv, TypeOK, SendInv, SendFragment, LastFragment, Sendable
  <2>4. \A n \in Messages : progress'[n] \in Nat /\ progress[n] \in Nat /\ progress[n] <= progress'[n]
    BY <1>0, <1>2 DEF SendFragment
  <2>5. ReceivedInPlace'
    BY <1>2, <2>4, TransportAssumption DEF IInv, TypeOK, ReceivedInPlace, SendFragment
  <2>6. LockInv'
    BY <1>2 DEF IInv, LockInv, SendFragment, Sendable
  <2> QED
    BY <2>2, <2>3, <2>5, <2>6 DEF IInv
<1>3. CASE SendFails(m)
  <2>1. Sendable(m) /\ progress[m] < FragmentCount(m)
    BY <1>3 DEF IInv, SendInv, SendFails
  <2>2. PayloadLength(m, progress[m]) \in 1..Chunk
    BY <1>0, <2>1, FragmentShape
  <2>3. PICK n \in 0..DatagramLength(m, progress[m]) - 1 : cut' = [cut EXCEPT ![m] = n]
    BY <1>3 DEF SendFails
  <2>4. /\ n \in 0..FRAGMENT_HEADER_BYTES + Chunk - 1
        /\ n < DatagramLength(m, progress[m])
    BY <2>2, <2>3, ChunkType, TransportAssumption DEF DatagramLength
  <2>5. TypeOK'
    BY <1>3, <2>3, <2>4 DEF IInv, TypeOK, SendFails
  <2>6. SendInv'
    BY <1>0, <1>3, <2>1, <2>3, <2>4
    DEF IInv, TypeOK, SendInv, SendFails, Sendable, DatagramLength, PayloadLength, Offset
  <2>7. LockInv' /\ ReceivedInPlace'
    BY <1>3 DEF IInv, LockInv, ReceivedInPlace, SendFails, Sendable
  <2> QED
    BY <2>5, <2>6, <2>7 DEF IInv
<1> QED
  BY <1>1, <1>2, <1>3

LEMMA InvStartReceive ==
    ASSUME IInv, NEW args \in Calls, StartReceive(args)
    PROVE  IInv'
<1> USE DEF sendVars
<1>1. TypeOK'
  BY TransportAssumption DEF IInv, TypeOK, StartReceive
<1>2. SendInv'
  BY DEF IInv, SendInv, StartReceive, Sendable
<1>3. LockInv'
  BY FS_EmptySet DEF LockInv, StartReceive
<1>4. ReceivedInPlace'
  BY DEF ReceivedInPlace, StartReceive
<1> QED
  BY <1>1, <1>2, <1>3, <1>4 DEF IInv

LEMMA InvDeadline ==
    ASSUME IInv, Deadline
    PROVE  IInv'
<1>1. TypeOK' /\ SendInv'
  BY DEF IInv, TypeOK, SendInv, Deadline, Sendable, sendVars
<1>2. LockInv' /\ ReceivedInPlace'
  BY DEF IInv, TypeOK, LockInv, ReceivedInPlace, Deadline, Sendable, sendVars
<1> QED
  BY <1>1, <1>2 DEF IInv

LEMMA InvSkip ==
    ASSUME IInv, NEW f \in Network, Skip(f)
    PROVE  IInv'
<1> USE DEF sendVars
<1>1. PICK m \in Messages : Sendable(m) /\ f.header = Header(m)
  BY WellFormedIsWhole DEF IInv
<1>2. Sendable(m)
  BY <1>1
<1>3. lock' = lock \/ (lock = NoHeader /\ lock' = Header(m))
  BY <1>1 DEF Skip, LockAfter
<1>4. TypeOK'
  BY <1>3 DEF IInv, TypeOK, Skip, Headers
<1>5. SendInv'
  BY DEF IInv, SendInv, Skip, Sendable
<1>6. LockInv'
  <2>1. CASE lock' = lock
    BY <2>1 DEF IInv, LockInv, Skip, Sendable
  <2>2. CASE lock = NoHeader /\ lock' = Header(m)
    <3>1. seen' = {} /\ lock' # NoHeader /\ call' = call /\ completed' = completed
      BY <2>2, HeaderFields DEF IInv, LockInv, Skip
    <3> QED
      BY <1>2, <2>2, <3>1 DEF IInv, LockInv, Skip, Sendable
  <2> QED
    BY <1>3, <2>1, <2>2
<1>7. ReceivedInPlace'
  BY <1>3 DEF IInv, LockInv, ReceivedInPlace, Skip
<1> QED
  BY <1>4, <1>5, <1>6, <1>7 DEF IInv

LEMMA InvPlace ==
    ASSUME IInv, NEW f \in Network, Place(f)
    PROVE  IInv'
<1> USE DEF sendVars
<1>1. PICK n \in Messages, j \in Nat :
          /\ Sendable(n) /\ j < FragmentCount(n)
          /\ j < progress[n]
          /\ f.header = Header(n) /\ f.index = j
          /\ f.payloadLength = PayloadLength(n, j) /\ f.of = n
          /\ f.bytes = DatagramLength(n, j)
  BY WellFormedIsWhole DEF IInv, Place, Placed
<1>2. Sendable(n) /\ j < FragmentCount(n) /\ FragmentCount(n) \in 1..MAX_FRAGMENTS
  BY <1>1 DEF Sendable
<1>3. /\ lock' = Header(n)
      /\ lock = NoHeader \/ lock = Header(n)
      /\ lock' # NoHeader /\ lock'.count = FragmentCount(n)
  BY <1>1, HeaderFields DEF Place, Placed, Matches, LockAfter
<1>4. seen' = seen \cup {j} /\ j \notin seen /\ completed' = completed + 1
  BY <1>1 DEF Place, Fresh
<1>5. n.length \in Nat /\ n.length <= MAX_PROTOCOL_MESSAGE_BYTES
  BY <1>2, TransportAssumption DEF Sendable
<1>6. /\ Offset(j) \in Nat /\ PayloadLength(n, j) \in 1..Chunk
      /\ Offset(j) + PayloadLength(n, j) <= n.length
  BY <1>2, FragmentShape
<1>7. seen \subseteq 0..FragmentCount(n)-1 /\ seen' \subseteq 0..FragmentCount(n)-1
  <2>1. seen \subseteq 0..FragmentCount(n)-1
    BY <1>3, HeaderFields DEF IInv, LockInv
  <2> QED
    BY <1>2, <1>4, <2>1
<1>8. /\ seen' \subseteq 0..MAX_FRAGMENTS-1
      /\ completed' = Cardinality(seen')
      /\ completed' \in 0..MAX_FRAGMENTS
  <2>1. completed' = Cardinality(seen')
    BY <1>4, SeenFinite, FS_AddElement DEF IInv, LockInv
  <2>2. seen' \subseteq 0..MAX_FRAGMENTS-1
    BY <1>2, <1>7, TransportAssumption
  <2>3. Cardinality(seen') \in Nat /\ Cardinality(seen') <= MAX_FRAGMENTS
    <3>1. IsFiniteSet(0..MAX_FRAGMENTS-1) /\ Cardinality(0..MAX_FRAGMENTS-1) = MAX_FRAGMENTS
      <4>1. 0 \in Int /\ MAX_FRAGMENTS-1 \in Int /\ MAX_FRAGMENTS \in Nat
        BY TransportAssumption
      <4> QED
        BY <4>1, FS_Interval
    <3>2. IsFiniteSet(seen') /\ Cardinality(seen') <= Cardinality(0..MAX_FRAGMENTS-1)
      BY <2>2, <3>1, FS_Subset
    <3> QED
      BY <3>1, <3>2, FS_CardinalityType
  <2> QED
    BY <2>1, <2>2, <2>3, TransportAssumption
<1>9. output' = [i \in Places |->
                   IF i \in Offset(j)..Offset(j) + PayloadLength(n, j) - 1
                   THEN Byte(n, i) ELSE output[i]]
  <2>1. /\ \A i \in Offset(j)..Offset(j) + PayloadLength(n, j) - 1 : Buffered(f, i) = Byte(n, i)
    <3>1. SUFFICES ASSUME NEW i \in Offset(j)..Offset(j) + PayloadLength(n, j) - 1
                   PROVE  FRAGMENT_HEADER_BYTES + (i - Offset(f.index)) < f.bytes
      BY <1>1 DEF Buffered
    <3> QED
      BY <1>1, <1>6, TransportAssumption DEF DatagramLength
  <2>2. output' = Written(f)
    BY DEF Place
  <2> QED
    BY <1>1, <2>1, <2>2 DEF Written
<1>10. \/ call' = [call EXCEPT !.state = "returned"] /\ completed' = lock'.count
       \/ call' = call
  BY DEF Place
<1>11. TypeOK'
  <2>1. output' \in [Places -> (Messages \X Nat) \cup {Byte(NoMessage, 0)}]
    BY <1>9, TransportAssumption DEF IInv, TypeOK, Byte, Places
  <2>2. call' \in [state : {"idle", "receiving", "returned"}, args : Calls]
    BY <1>10 DEF IInv, TypeOK
  <2>3. lock' \in Headers \cup {NoHeader}
    BY <1>3 DEF Headers
  <2> QED
    BY <1>8, <2>1, <2>2, <2>3 DEF IInv, TypeOK, Place
<1>12. SendInv'
  BY DEF IInv, SendInv, Place, Sendable
<1>13. LockInv'
  <2>1. Sendable(n)'
    BY <1>2 DEF Sendable
  <2>2. call.state = "receiving"
    BY DEF Place
  <2>3. call'.state = "returned" => completed' = lock'.count
    BY <1>10, <2>2 DEF IInv, TypeOK
  <2> QED
    BY <1>3, <1>7, <1>8, <2>1, <2>3 DEF LockInv
<1>14. ReceivedInPlace'
  <2>1. SUFFICES ASSUME NEW k \in seen'
                 PROVE  \E m \in Messages :
                           /\ Header(m) = lock'
                           /\ k < progress'[m]
                           /\ \A i \in Offset(k)..Offset(k) + PayloadLength(m, k) - 1 :
                                 output'[i] = Byte(m, i)
    BY DEF ReceivedInPlace
  <2>2. progress' = progress
    BY DEF Place
  <2>3. CASE k = j
    <3>1. \A i \in Offset(j)..Offset(j) + PayloadLength(n, j) - 1 : output'[i] = Byte(n, i)
      BY <1>5, <1>6, <1>9, TransportAssumption DEF Places
    <3> QED
      BY <1>1, <1>3, <2>2, <2>3, <3>1
  <2>4. CASE k # j
    <3>1. k \in seen /\ k \in Nat /\ lock = Header(n)
      BY <1>3, <1>4, <1>7, <2>4 DEF IInv, LockInv
    <3>2. PICK m \in Messages :
              /\ Header(m) = lock
              /\ k < progress[m]
              /\ \A i \in Offset(k)..Offset(k) + PayloadLength(m, k) - 1 : output[i] = Byte(m, i)
      BY <3>1 DEF IInv, ReceivedInPlace
    <3>3. FragmentCount(m) = FragmentCount(n) /\ m.length = n.length
      BY <3>1, <3>2, HeaderFields
    <3>4. k < FragmentCount(m)
      BY <1>7, <3>1, <3>3, CountBounds
    <3>5. /\ Offset(k) \in Nat /\ PayloadLength(m, k) \in 1..Chunk
          /\ Offset(k) + PayloadLength(m, k) <= m.length
      BY <3>1, <3>4, FragmentShape
    <3>6. ASSUME NEW i \in Offset(k)..Offset(k) + PayloadLength(m, k) - 1
          PROVE  output'[i] = Byte(m, i)
      <4>1. /\ i \in Nat /\ Offset(k) <= i /\ i < Offset(k) + Chunk /\ i < m.length
        BY <1>5, <3>3, <3>5, ChunkType
      <4>2. ~(Offset(j) <= i /\ i < Offset(j) + Chunk)
        BY <2>4, <3>1, <4>1, Disjoint
      <4>3. i \in Places /\ i \notin Offset(j)..Offset(j) + PayloadLength(n, j) - 1
        BY <1>5, <1>6, <3>3, <4>1, <4>2, ChunkType, TransportAssumption DEF Places
      <4> QED
        BY <1>9, <3>2, <4>3
    <3> QED
      BY <1>3, <2>2, <3>1, <3>2, <3>6
  <2> QED
    BY <2>3, <2>4
<1> QED
  BY <1>11, <1>12, <1>13, <1>14 DEF IInv

LEMMA InvStutter ==
    ASSUME IInv, UNCHANGED vars
    PROVE  IInv'
<1>1. TypeOK' /\ SendInv'
  BY DEF IInv, TypeOK, SendInv, Sendable, vars
<1>2. LockInv' /\ ReceivedInPlace'
  BY DEF IInv, LockInv, ReceivedInPlace, Sendable, vars
<1> QED
  BY <1>1, <1>2 DEF IInv

LEMMA InvStep == IInv /\ [Next]_vars => IInv'
<1>1. SUFFICES ASSUME IInv, [Next]_vars PROVE IInv'
  OBVIOUS
<1>2. CASE \E m \in Messages : StartSend(m) \/ SendFragment(m) \/ SendFails(m)
  BY <1>1, <1>2, InvSender
<1>3. CASE \E f \in Network : Skip(f) \/ Place(f)
  BY <1>1, <1>3, InvSkip, InvPlace
<1>4. CASE \E args \in Calls : StartReceive(args)
  BY <1>1, <1>4, InvStartReceive
<1>5. CASE Deadline
  BY <1>1, <1>5, InvDeadline
<1>6. CASE UNCHANGED vars
  BY <1>1, <1>6, InvStutter
<1> QED
  BY <1>1, <1>2, <1>3, <1>4, <1>5, <1>6 DEF Next

LEMMA Invariance == Spec => []IInv
BY InvInit, InvStep, PTL DEF Spec

-----------------------------------------------------------------------------
(* What follows from it *)

\* Type correctness of the transport, for every fragment size and every set of messages.
THEOREM TransportTypeCorrect == Spec => []TypeOK
BY Invariance, PTL DEF IInv

\* Of the datagrams sendMessage makes the receiver lets through the whole ones and no
\* other, and those of a message tile it, for every message length and fragment size.
THEOREM SentIsAcceptableHolds == Spec => []SentIsAcceptable
<1>1. IInv => SentIsAcceptable
  <2>1. SUFFICES ASSUME IInv, NEW f \in Network
        PROVE  /\ WellFormed(f) <=> f \in {Fragment(f.of, k) : k \in 0..progress[f.of]-1}
               /\ Fits(f) /\ f.payloadLength > 0
               /\ IF f.index + 1 = f.header.count
                  THEN Offset(f.index) + f.payloadLength = f.header.length
                  ELSE Offset(f.index + 1) = Offset(f.index) + f.payloadLength
    BY DEF SentIsAcceptable
  <2>2. PICK m \in Messages, k \in Nat :
            /\ Sendable(m) /\ k < FragmentCount(m)
            /\ f.header = Header(m) /\ f.index = k /\ f.of = m
            /\ f.payloadLength = PayloadLength(m, k)
            /\ \/ /\ WellFormed(f)
                  /\ k < progress[m]
                  /\ f.bytes = DatagramLength(m, k) /\ f = Fragment(m, k)
               \/ /\ ~WellFormed(f)
                  /\ k = progress[m]
                  /\ f.bytes < DatagramLength(m, k)
    BY <2>1, WellFormedIsWhole DEF IInv
  <2>3. progress[m] \in Nat
    BY <2>1, TransportAssumption DEF IInv, TypeOK
  <2>4. f.header.length = m.length /\ f.header.count = FragmentCount(m)
    BY <2>2, HeaderFields
  <2>5. /\ PayloadLength(m, k) \in 1..Chunk
        /\ Offset(k) + PayloadLength(m, k) <= m.length
        /\ k + 1 = FragmentCount(m) => Offset(k) + PayloadLength(m, k) = m.length
        /\ k + 1 < FragmentCount(m) => Offset(k + 1) = Offset(k) + PayloadLength(m, k)
    BY <2>2, FragmentShape
  <2>6. WellFormed(f) <=> f \in {Fragment(f.of, j) : j \in 0..progress[f.of]-1}
    <3>1. CASE WellFormed(f)
      BY <2>2, <2>3, <3>1
    <3>2. CASE ~WellFormed(f)
      <4>1. \A j : Fragment(m, j).index = j
        BY DEF Fragment
      <4> QED
        BY <2>2, <2>3, <3>2, <4>1
    <3> QED
      BY <3>1, <3>2
  <2>7. Fits(f)
    BY <2>2, <2>4, <2>5 DEF Fits
  <2> QED
    BY <2>2, <2>4, <2>5, <2>6, <2>7, CountBounds, ChunkType
<1> QED
  BY <1>1, Invariance, PTL

\* What is marked as received is in place, whatever else arrives.
THEOREM ReceivedInPlaceHolds == Spec => []ReceivedInPlace
BY Invariance, PTL DEF IInv

\* A call that returned has all fragments of one message that was sent whole.
ReturnedIsWhole ==
    call.state = "returned" =>
        \E m \in Messages :
            /\ sending[m] = "sent"
            /\ Header(m) = lock
            /\ \A i \in 0..m.length-1 : output[i] = Byte(m, i)

LEMMA ReturnedWhole ==
    ASSUME IInv, DistinctHeaders
    PROVE  ReturnedIsWhole
<1> SUFFICES ASSUME call.state = "returned"
             PROVE  \E m \in Messages :
                       /\ sending[m] = "sent"
                       /\ Header(m) = lock
                       /\ \A i \in 0..m.length-1 : output[i] = Byte(m, i)
  BY DEF ReturnedIsWhole
<1>1. PICK n \in Messages : Header(n) = lock /\ Sendable(n)
  BY DEF IInv, LockInv
<1>2. lock.count = FragmentCount(n) /\ FragmentCount(n) \in Nat /\ FragmentCount(n) > 0
  BY <1>1, HeaderFields, CountBounds, TransportAssumption DEF Sendable
<1>3. seen = 0..FragmentCount(n)-1
  <2>1. seen \subseteq 0..FragmentCount(n)-1 /\ Cardinality(seen) = FragmentCount(n)
    BY <1>1, <1>2 DEF IInv, LockInv
  <2>2. 0 \in Int /\ FragmentCount(n)-1 \in Int
    BY <1>2
  <2>3. IsFiniteSet(0..FragmentCount(n)-1) /\ Cardinality(0..FragmentCount(n)-1) = FragmentCount(n)
    BY <1>2, <2>2, FS_Interval
  <2> QED
    BY <2>1, <2>3, FS_Subset
<1>4. 0 \in seen
  BY <1>2, <1>3
<1>5. PICK m \in Messages :
          /\ Header(m) = lock
          /\ FragmentCount(n)-1 < progress[m]
          /\ \A k \in seen : \A i \in Offset(k)..Offset(k) + PayloadLength(m, k) - 1 :
                output[i] = Byte(m, i)
  <2>1. CASE FragmentCount(n) = 1
    <3>1. seen = {0}
      BY <1>3, <2>1
    <3> QED
      BY <1>4, <2>1, <3>1 DEF IInv, ReceivedInPlace
  <2>2. CASE FragmentCount(n) > 1
    <3>1. \A p \in Messages : Header(p) = lock => p = n
      BY <1>1, <2>2 DEF DistinctHeaders
    <3>2. FragmentCount(n)-1 \in seen
      BY <1>2, <1>3
    <3> QED
      BY <1>1, <3>1, <3>2 DEF IInv, ReceivedInPlace
  <2> QED
    BY <1>2, <2>1, <2>2
<1>6. FragmentCount(m) = FragmentCount(n) /\ progress[m] \in Nat
  BY <1>1, <1>5, HeaderFields, TransportAssumption DEF IInv, TypeOK
<1>7. sending[m] = "sent"
  BY <1>2, <1>5, <1>6 DEF IInv, TypeOK, SendInv
<1>8. ASSUME NEW i \in 0..m.length-1 PROVE output[i] = Byte(m, i)
  <2>1. PICK k \in 0..FragmentCount(m)-1 : i \in Offset(k)..Offset(k) + PayloadLength(m, k) - 1
    BY EveryByteCovered
  <2> QED
    BY <1>3, <1>5, <1>6, <2>1
<1> QED
  BY <1>5, <1>7, <1>8

\* The transport implements the message channel: if no two messages of more than
\* one fragment share a header, a receive call returns whole messages that were
\* sent whole, whatever is lost, repeated, reordered or left in the buffer.
THEOREM TransportImplementsChannel ==
    ASSUME DistinctHeaders
    PROVE  Spec => ImplementsMessageChannel
<1> DEFINE Says == [m \in Messages |-> [i \in 0..m.length-1 |-> Byte(m, i)]]
           Offered == {m \in Messages : sending[m] = "sent"}
           Result == IF call.state = "returned" THEN [i \in 0..lock.length-1 |-> output[i]]
                     ELSE NoMessage
<1>1. Init => Channel!Init
  BY DEF Init, Channel!Init
<1>2. IInv /\ ReturnedIsWhole' /\ [Next]_vars => [Channel!Next]_Channel!channelVars
  <2>1. SUFFICES ASSUME IInv, ReturnedIsWhole', [Next]_vars
                 PROVE  [Channel!Next]_Channel!channelVars
    OBVIOUS
  <2>2. ASSUME NEW m \in Messages, StartSend(m) \/ SendFragment(m) \/ SendFails(m)
        PROVE  [Channel!Next]_Channel!channelVars
    <3>1. Result' = Result
      BY <2>2 DEF StartSend, SendFragment, SendFails, recvVars
    <3>2. Offered' = Offered \/ Offered' = Offered \cup {m}
      BY <2>1, <2>2 DEF IInv, TypeOK, StartSend, SendFragment, SendFails
    <3> QED
      BY <3>1, <3>2 DEF Channel!Next, Channel!Offer, Channel!channelVars
  <2>3. ASSUME NEW f \in Network, Skip(f)
        PROVE  [Channel!Next]_Channel!channelVars
    <3>1. Result' = Result /\ Offered' = Offered
      BY <2>3 DEF Skip, sendVars
    <3> QED
      BY <3>1 DEF Channel!channelVars
  <2>4. ASSUME NEW f \in Network, Place(f)
        PROVE  [Channel!Next]_Channel!channelVars
    <3>1. Offered' = Offered /\ Result = NoMessage
      BY <2>4 DEF Place, sendVars
    <3>2. CASE call'.state = "returned"
      <4>2. PICK m \in Messages :
                /\ sending'[m] = "sent"
                /\ Header(m) = lock'
                /\ \A i \in 0..m.length-1 : output'[i] = Byte(m, i)
        BY <2>1, <3>2 DEF ReturnedIsWhole
      <4>3. Result' = Says[m]
        BY <3>2, <4>2, HeaderFields
      <4>4. m \in Offered
        BY <3>1, <4>2
      <4> QED
        BY <3>1, <4>3, <4>4 DEF Channel!Next, Channel!Return
    <3>3. CASE call'.state # "returned"
      BY <3>1, <3>3 DEF Channel!channelVars
    <3> QED
      BY <3>2, <3>3
  <2>5. ASSUME NEW args \in Calls, StartReceive(args)
        PROVE  [Channel!Next]_Channel!channelVars
    <3>1. Result' = NoMessage /\ Offered' = Offered
      BY <2>5 DEF StartReceive, sendVars
    <3> QED
      BY <3>1 DEF Channel!Next, Channel!Call
  <2>6. CASE Deadline
    <3>1. Result' = NoMessage /\ Result = NoMessage /\ Offered' = Offered
      BY <2>1, <2>6 DEF IInv, TypeOK, Deadline, sendVars
    <3> QED
      BY <3>1 DEF Channel!channelVars
  <2>7. CASE UNCHANGED vars
    BY <2>7 DEF vars, Channel!channelVars
  <2> QED
    BY <2>1, <2>2, <2>3, <2>4, <2>5, <2>6, <2>7 DEF Next
<1>3. IInv => ReturnedIsWhole
  BY ReturnedWhole
<1> QED
  BY <1>1, <1>2, <1>3, Invariance, PTL DEF Spec, ImplementsMessageChannel, Channel!Spec
=============================================================================
