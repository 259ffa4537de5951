------------------------ MODULE ApqeHandshake_proofs ------------------------
(***************************************************************************)
(* Proofs for ApqeHandshake, for any number of sessions, boots and runs.   *)
(* The invariant says where each message's hash comes from: an M2's from   *)
(* an M1 of its session, an M3's from a key the initiator computed, a      *)
(* RESULT's from a key the responder accepted.                             *)
(***************************************************************************)
EXTENDS ApqeHandshake, TLAPS

-----------------------------------------------------------------------------
(* Strings and hashes *)

\* The same mask twice is none.
LEMMA XorTwice == ASSUME NEW x, NEW y PROVE Xor(Xor(x, y), y) = x
<1>1. \A e : e \in Xor(Xor(x, y), y) <=> e \in x
  BY DEF Xor
<1> QED
  BY <1>1, Zenon

\* Equal hashes are hashes of equal inputs.
LEMMA HashInjective == ASSUME NEW x, NEW y, Hash(x) = Hash(y) PROVE x = y
<1>1. <<"hash", x>> \in {<<"hash", y>>}
  BY DEF Hash
<1>2. <<"hash", x>> = <<"hash", y>>
  BY <1>1
<1> QED
  BY <1>2

\* Nonces of the same UAV are told apart by their number.
LEMMA NonceInjective == ASSUME NEW d, NEW i, NEW j, Nonce(d, i) = Nonce(d, j) PROVE i = j
<1>1. <<"nonce", d, i>> \in {<<"nonce", d, j>>}
  BY DEF Nonce
<1>2. <<"nonce", d, i>> = <<"nonce", d, j>>
  BY <1>1
<1> QED
  BY <1>2

\* reversibleInverse undoes reversibleMap.
LEMMA ReversibleInverse == ASSUME NEW d, NEW c PROVE ReversibleMap(d, ReversibleMap(d, c)) = c
BY XorTwice DEF ReversibleMap

\* The response of a credential, stripped of the hash of its challenge.
LEMMA CredentialResponse ==
    ASSUME NEW d, NEW s
    PROVE  /\ Xor(Credential(d, s).w, Hash(<<Challenge(d, s)>>)) = CommutativeMap(d, Challenge(d, s))
           /\ Credential(d, s).tid = ReversibleMap(d, Challenge(d, s))
BY XorTwice DEF Credential

-----------------------------------------------------------------------------
(* The invariant *)

OfM1(m) ==
    \E i \in 0..nonces[A]-1 :
        m.ei = <<ReversibleMap(A, Challenge(A, m.session - 1)), Challenge(A, m.session - 1),
                 Nonce(A, i), ReversibleMap(B, Challenge(B, m.session - 1))>>

OfM2(m) ==
    \E i \in 0..nonces[A]-1, j \in 0..nonces[B]-1 : \E k :
        m = M2(m.session, k, CommutativeMap(B, Challenge(A, m.session - 1)), Nonce(A, i),
               Challenge(B, m.session - 1), Nonce(B, j))

OfM3(m) ==
    \E x, y, key : m.h3 = Hash(<<x, y, key>>) /\ Agreed(m.session, key) \in computed

OfResult(m) ==
    \E a \in accepted : a.session = m.session /\ m.hash = Hash(<<a.key>>)

Sound(m) ==
    /\ m.type = "M1" => OfM1(m)
    /\ m.type = "M2" => OfM2(m)
    /\ m.type = "M3" => OfM3(m)
    /\ m.type = "RESULT" => OfResult(m)

MessagesInv == \A m \in network : Sound(m)

InitiatorInv ==
    stage[A] = "waitM2" =>
        /\ \E i \in 0..nonces[A]-1 : run[A].ni = Nonce(A, i)
        /\ run[A].peer = Credential(B, slot[A])

ResponderInv ==
    stage[B] = "waitM3" =>
        /\ nonces[B] > 0
        /\ run[B].nj = Nonce(B, nonces[B] - 1)
        /\ run[B].session \in 1..Sessions
        /\ \A a \in accepted : a.nth < nonces[B]

\* Run nth of the responder drew nonce nth - 1 and accepted at most once.
AcceptedInv ==
    /\ \A a \in accepted :
          /\ a.nth \in 1..nonces[B]
          /\ \E x, y, z : a.key = Hash(<<x, y, z, Nonce(B, a.nth - 1)>>)
    /\ \A a, b \in accepted : a.nth = b.nth => a = b

AInv == /\ TypeOK /\ MessagesInv /\ InitiatorInv /\ ResponderInv /\ AcceptedInv
        /\ InitiatorAgreement /\ ResponderAgreement /\ KeyOfCredentials

-----------------------------------------------------------------------------
(* Steps *)

\* What was said of messages stays true while the histories grow.
LEMMA SoundStays ==
    ASSUME TypeOK, NEW m, Sound(m),
           nonces' \in [Devices -> Nat], nonces'[A] >= nonces[A], nonces'[B] >= nonces[B],
           computed \subseteq computed', accepted \subseteq accepted'
    PROVE  Sound(m)'
<1>1. nonces[A] \in Nat /\ nonces[B] \in Nat /\ nonces'[A] \in Nat /\ nonces'[B] \in Nat
  BY DEF TypeOK, Devices
<1>2. 0..nonces[A]-1 \subseteq 0..nonces'[A]-1 /\ 0..nonces[B]-1 \subseteq 0..nonces'[B]-1
  BY <1>1
<1>3. OfM1(m) => OfM1(m)'
  BY <1>2 DEF OfM1
<1>4. OfM2(m) => OfM2(m)'
  BY <1>2, Zenon DEF OfM2
<1>5. OfM3(m) => OfM3(m)'
  BY DEF OfM3
<1>6. OfResult(m) => OfResult(m)'
  BY DEF OfResult
<1> QED
  BY <1>3, <1>4, <1>5, <1>6 DEF Sound

\* A step that sends nothing and draws no nonce disturbs only the locals.
LEMMA QuietStep ==
    ASSUME AInv, UNCHANGED <<network, nonces, history>>, TypeOK', InitiatorInv', ResponderInv'
    PROVE  AInv'
<1>1. MessagesInv'
  BY DEF AInv, MessagesInv, Sound, OfM1, OfM2, OfM3, OfResult, history
<1>2. AcceptedInv' /\ InitiatorAgreement' /\ ResponderAgreement' /\ KeyOfCredentials'
  BY DEF AInv, AcceptedInv, InitiatorAgreement, ResponderAgreement, KeyOfCredentials, history
<1> QED
  BY <1>1, <1>2 DEF AInv

LEMMA AInvInit == Init => AInv
<1>1. SUFFICES ASSUME Init PROVE AInv
  OBVIOUS
<1>2. TypeOK
  BY <1>1, ApqeAssumption DEF Init, TypeOK, Devices, Slots
<1> QED
  BY <1>1, <1>2, ApqeAssumption
  DEF Init, AInv, MessagesInv, InitiatorInv, ResponderInv, AcceptedInv, InitiatorAgreement,
      ResponderAgreement, KeyOfCredentials, Devices

LEMMA AInvDevice ==
    ASSUME AInv, NEW d \in Devices, Enroll(d) \/ BeginFails(d) \/ Crash(d)
    PROVE  AInv'
<1>1. A # B /\ A \in Devices /\ B \in Devices /\ Sessions \in Nat \ {0} /\ MaxBoots \in Nat \ {0}
  BY ApqeAssumption DEF Devices
<1>2. TypeOK
  BY DEF AInv
<1>3. CASE Enroll(d)
  <2>1. TypeOK'
    BY <1>1, <1>2, <1>3 DEF Enroll, MoreSlots, TypeOK, Devices, Slots, history
  <2>2. InitiatorInv' /\ ResponderInv'
    BY <1>1, <1>2, <1>3
    DEF Enroll, AInv, InitiatorInv, ResponderInv, TypeOK, Devices, history
  <2> QED
    BY <1>3, <2>1, <2>2, QuietStep DEF Enroll
<1>4. CASE BeginFails(d)
  <2>1. TypeOK'
    BY <1>1, <1>2, <1>4 DEF BeginFails, TypeOK, Devices, Slots, history
  <2>2. InitiatorInv' /\ ResponderInv'
    BY <1>1, <1>2, <1>4
    DEF BeginFails, AInv, InitiatorInv, ResponderInv, TypeOK, Devices, history
  <2> QED
    BY <1>4, <2>1, <2>2, QuietStep DEF BeginFails
<1>5. CASE Crash(d)
  <2>1. TypeOK'
    BY <1>1, <1>2, <1>5 DEF Crash, TypeOK, Devices, Slots, history
  <2>2. InitiatorInv' /\ ResponderInv'
    BY <1>1, <1>2, <1>5 DEF Crash, AInv, InitiatorInv, ResponderInv, TypeOK, Devices, history
  <2> QED
    BY <1>5, <2>1, <2>2, QuietStep DEF Crash
<1> QED
  BY <1>3, <1>4, <1>5

LEMMA AInvWait ==
    ASSUME AInv, SessionFails \/ GiveUp \/ \E m \in network, s \in Slots : QueryFails(m, Credential(A, s))
    PROVE  AInv'
<1>1. A # B /\ A \in Devices /\ B \in Devices
  BY ApqeAssumption DEF Devices
<1>2. TypeOK
  BY DEF AInv
<1>3. CASE SessionFails
  <2>1. TypeOK' /\ InitiatorInv' /\ ResponderInv'
    BY <1>1, <1>2, <1>3
    DEF SessionFails, StopAnywhere, Stop, AInv, TypeOK, InitiatorInv, ResponderInv, history
  <2> QED
    BY <1>3, <2>1, QuietStep DEF SessionFails
<1>4. CASE GiveUp
  <2>1. TypeOK' /\ InitiatorInv' /\ ResponderInv'
    BY <1>1, <1>2, <1>4 DEF GiveUp, AInv, TypeOK, InitiatorInv, ResponderInv, history
  <2> QED
    BY <1>4, <2>1, QuietStep DEF GiveUp
<1>5. CASE \E m \in network, s \in Slots : QueryFails(m, Credential(A, s))
  <2>1. TypeOK' /\ InitiatorInv' /\ ResponderInv'
    BY <1>1, <1>2, <1>5 DEF QueryFails, AInv, TypeOK, InitiatorInv, ResponderInv, history
  <2> QED
    BY <1>5, <2>1, QuietStep DEF QueryFails
<1> QED
  BY <1>3, <1>4, <1>5

\* A step that sends one message: the message is sound, the histories grow.
LEMMA SendingStep ==
    ASSUME AInv, NEW new, network' \in {network, network \cup {new}}, Sound(new)',
           nonces' \in [Devices -> Nat], nonces'[A] >= nonces[A], nonces'[B] >= nonces[B],
           computed \subseteq computed', accepted \subseteq accepted'
    PROVE  MessagesInv'
BY SoundStays DEF AInv, MessagesInv

LEMMA AInvSendM1 ==
    ASSUME AInv, SendM1
    PROVE  AInv'
<1> DEFINE own == Credential(A, slot[A])
           peer == Credential(B, slot[A])
           ni == Nonce(A, nonces[A])
           ei == <<own.tid, ReversibleMap(A, own.tid), ni, peer.tid>>
<1>1. /\ A # B /\ A \in Devices /\ B \in Devices /\ Sessions \in Nat \ {0}
      /\ TypeOK /\ slot[A] \in Slots /\ nonces \in [Devices -> Nat] /\ nonces[A] \in Nat
  BY ApqeAssumption DEF AInv, TypeOK, Devices
<1>2. /\ network' = network \cup {M1(Session, ei)}
      /\ run' = [run EXCEPT ![A] = [session |-> Session, ni |-> ni, peer |-> peer]]
      /\ stage[A] = "next" /\ stage' = [stage EXCEPT ![A] = "waitM2"]
      /\ nonces' = [nonces EXCEPT ![A] = @ + 1]
      /\ UNCHANGED <<slot, stored, asked, answers, boots, computed, accepted, succeeded>>
  BY DEF SendM1, history
<1>3. /\ nonces' \in [Devices -> Nat] /\ nonces'[A] = nonces[A] + 1 /\ nonces'[B] = nonces[B]
      /\ nonces[A] \in 0..nonces'[A]-1 /\ nonces'[A] >= nonces[A] /\ nonces'[B] >= nonces[B]
      /\ 0..nonces[A]-1 \subseteq 0..nonces'[A]-1
  BY <1>1, <1>2
<1>4. Session \in 1..Sessions /\ Session - 1 = slot[A]
  BY <1>1 DEF Session, Slots
<1>5. ei = <<ReversibleMap(A, Challenge(A, slot[A])), Challenge(A, slot[A]), ni,
             ReversibleMap(B, Challenge(B, slot[A]))>>
  <2>1. own.tid = ReversibleMap(A, Challenge(A, slot[A])) /\ peer.tid = ReversibleMap(B, Challenge(B, slot[A]))
    BY CredentialResponse
  <2>2. ReversibleMap(A, own.tid) = Challenge(A, slot[A])
    BY <2>1, ReversibleInverse
  <2> HIDE DEF own, peer, ni
  <2> QED
    BY <2>1, <2>2
<1> HIDE DEF ei
<1>6. PICK new : new = M1(Session, ei)
  OBVIOUS
<1>7. OfM1(new)' /\ new.type = "M1" /\ new.session = Session
  <2>1. new.type = "M1" /\ new.session = Session /\ new.ei = ei
    BY <1>6 DEF M1
  <2> QED
    BY <1>3, <1>4, <1>5, <2>1 DEF OfM1
<1>8. MessagesInv'
  <2>1. Sound(new)'
    BY <1>7 DEF Sound
  <2> QED
    BY <1>2, <1>3, <1>6, <2>1, SendingStep
<1>9. TypeOK'
  BY <1>1, <1>2, <1>3, <1>4, <1>6, <1>7 DEF TypeOK
<1>10. InitiatorInv' /\ ResponderInv'
  BY <1>1, <1>2, <1>3 DEF AInv, TypeOK, InitiatorInv, ResponderInv
<1>11. KeyOfCredentials'
  BY <1>2, <1>3 DEF AInv, KeyOfCredentials
<1>12. AcceptedInv' /\ InitiatorAgreement' /\ ResponderAgreement'
  BY <1>2, <1>3 DEF AInv, AcceptedInv, InitiatorAgreement, ResponderAgreement
<1> QED
  BY <1>8, <1>9, <1>10, <1>11, <1>12 DEF AInv

\* H2 right, an M2 in hand is the answer to the initiator's own M1, and the key it
\* leads to is made of the credentials of the slot.
LEMMA KeyAfterM2 ==
    ASSUME AInv, stage[A] = "waitM2", NEW m \in network, m.type = "M2", m.session = Session,
           NEW tkJ, tkJ = Xor(m.tn, run[A].ni),
           NEW tkJi, tkJi = CommutativeMap(A, tkJ),
           NEW cj, NEW nj, H2Valid(m, tkJi, tkJ, cj, nj),
           NEW tkIj, tkIj = CommutativeMap(A, Xor(run[A].peer.w, Hash(<<cj>>)))
    PROVE  /\ tkJi = TransportKey(A, Session - 1)
           /\ tkIj = TransportKey(B, Session - 1)
           /\ \E j \in 0..nonces[B]-1 : nj = Nonce(B, j)
<1>1. Session - 1 = slot[A] /\ run[A].peer = Credential(B, slot[A])
  BY ApqeAssumption DEF AInv, TypeOK, InitiatorInv, Session, Slots, Devices
<1>2. PICK i \in 0..nonces[A]-1, j \in 0..nonces[B]-1 : \E z : m =
             M2(m.session, z, CommutativeMap(B, Challenge(A, m.session - 1)), Nonce(A, i),
                Challenge(B, m.session - 1), Nonce(B, j))
  BY DEF AInv, MessagesInv, Sound, OfM2
<1>3. PICK k :
        m = M2(m.session, k, CommutativeMap(B, Challenge(A, m.session - 1)), Nonce(A, i),
               Challenge(B, m.session - 1), Nonce(B, j))
  BY <1>2
<1>4. PICK x, c : x = CommutativeMap(B, Challenge(A, slot[A])) /\ c = Challenge(B, slot[A])
  OBVIOUS
<1>5. /\ m.h2 = Hash(<<k, x, c, Nonce(B, j)>>)
      /\ m.tn = Xor(x, Nonce(A, i))
  BY <1>1, <1>3, <1>4 DEF M2
<1>6. <<k, x, c, Nonce(B, j)>> = <<tkJi, tkJ, cj, nj>>
  BY <1>5, HashInjective DEF H2Valid
<1>7. k = tkJi /\ x = tkJ /\ c = cj /\ nj = Nonce(B, j)
  BY <1>6
<1>8. tkJi = TransportKey(A, Session - 1)
  BY <1>1, <1>4, <1>7 DEF TransportKey
<1>9. Xor(run[A].peer.w, Hash(<<cj>>)) = CommutativeMap(B, Challenge(B, slot[A]))
  BY <1>1, <1>4, <1>7, CredentialResponse
<1> QED
  BY <1>1, <1>7, <1>8, <1>9 DEF TransportKey

LEMMA AInvReceiveM2 ==
    ASSUME AInv, NEW m \in network, ReceiveM2(m)
    PROVE  AInv'
<1>1. /\ A # B /\ A \in Devices /\ B \in Devices /\ Sessions \in Nat \ {0}
      /\ TypeOK /\ slot[A] \in Slots /\ nonces \in [Devices -> Nat]
      /\ nonces[A] \in Nat /\ nonces[B] \in Nat
  BY ApqeAssumption DEF AInv, TypeOK, Devices
<1>2. /\ stage[A] = "waitM2" /\ m.type = "M2" /\ m.session = Session
      /\ UNCHANGED <<slot, stored, asked, answers, nonces, boots, accepted, succeeded>>
  BY DEF ReceiveM2
<1>3. PICK i \in 0..nonces[A]-1 : run[A].ni = Nonce(A, i)
  BY <1>2 DEF AInv, InitiatorInv
<1>4. Session \in 1..Sessions
  BY <1>1 DEF Session, Slots
<1>5. PICK tkJ : tkJ = Xor(m.tn, run[A].ni)
  OBVIOUS
<1>6. PICK tkJi : tkJi = CommutativeMap(A, tkJ)
  OBVIOUS
<1>7. PICK cj, nj : cj = Xor(m.p[1], tkJi) /\ nj = Xor(m.p[2], tkJi)
  OBVIOUS
<1>8. PICK tkI, tkIj : /\ tkI = CommutativeMap(A, cj)
                       /\ tkIj = CommutativeMap(A, Xor(run[A].peer.w, Hash(<<cj>>)))
  OBVIOUS
<1>9. PICK key : key = Hash(<<tkJi, tkIj, run[A].ni, nj>>)
  OBVIOUS
<1>10. PICK s : s = Session
  OBVIOUS
<1>11. IF H2Valid(m, tkJi, tkJ, cj, nj)
       THEN /\ network' = network \cup {M3(s, tkIj, tkI, nj, key)}
            /\ computed' = computed \cup {Agreed(s, key)}
            /\ stage' = [stage EXCEPT ![A] = "waitResult"]
            /\ run' = [run EXCEPT ![A] = [session |-> s, key |-> key]]
       ELSE Stop /\ UNCHANGED <<network, computed>>
  BY <1>5, <1>6, <1>7, <1>8, <1>9, <1>10 DEF ReceiveM2
<1>12. CASE ~H2Valid(m, tkJi, tkJ, cj, nj)
  <2>1. TypeOK' /\ InitiatorInv' /\ ResponderInv'
    BY <1>1, <1>2, <1>11, <1>12 DEF Stop, AInv, TypeOK, InitiatorInv, ResponderInv
  <2> QED
    BY <1>2, <1>11, <1>12, <2>1, QuietStep DEF history
<1>13. CASE H2Valid(m, tkJi, tkJ, cj, nj)
  <2>1. PICK new : new = M3(s, tkIj, tkI, nj, key)
    OBVIOUS
  <2>2. new.type = "M3" /\ new.session = s /\ new.h3 = Hash(<<tkIj, tkI, key>>)
    BY <2>1 DEF M3
  <2>3. Sound(new)'
    BY <1>11, <1>13, <2>2 DEF Sound, OfM3
  <2>4. MessagesInv'
    BY <1>1, <1>2, <1>11, <1>13, <2>1, <2>3, SendingStep
  <2>5. TypeOK'
    BY <1>1, <1>2, <1>4, <1>10, <1>11, <1>13, <2>1, <2>2 DEF TypeOK
  <2>6. InitiatorInv' /\ ResponderInv'
    BY <1>1, <1>2, <1>11, <1>13 DEF AInv, TypeOK, InitiatorInv, ResponderInv
  <2>7. KeyOfCredentials'
    <3>1. /\ tkJi = TransportKey(A, s - 1) /\ tkIj = TransportKey(B, s - 1)
          /\ \E j \in 0..nonces[B]-1 : nj = Nonce(B, j)
      BY <1>2, <1>5, <1>6, <1>8, <1>10, <1>13, KeyAfterM2
    <3>2. PICK j \in 0..nonces[B]-1 : nj = Nonce(B, j)
      BY <3>1
    <3>3. key = Hash(<<TransportKey(A, s - 1), TransportKey(B, s - 1), Nonce(A, i), Nonce(B, j)>>)
      BY <1>3, <1>9, <3>1, <3>2
    <3>4. Agreed(s, key).session = s /\ Agreed(s, key).key = key
      BY DEF Agreed
    <3> QED
      BY <1>2, <1>11, <1>13, <3>3, <3>4 DEF AInv, KeyOfCredentials
  <2>8. AcceptedInv' /\ InitiatorAgreement' /\ ResponderAgreement'
    BY <1>2, <1>11, <1>13 DEF AInv, AcceptedInv, InitiatorAgreement, ResponderAgreement
  <2> QED
    BY <2>4, <2>5, <2>6, <2>7, <2>8 DEF AInv
<1> QED
  BY <1>12, <1>13

LEMMA AInvReceiveResult ==
    ASSUME AInv, NEW m \in network, ReceiveResult(m)
    PROVE  AInv'
<1>1. /\ A # B /\ A \in Devices /\ B \in Devices /\ Sessions \in Nat \ {0}
      /\ TypeOK /\ slot \in [Devices -> Slots]
  BY ApqeAssumption DEF AInv, TypeOK, Devices
<1>2. /\ stage[A] = "waitResult" /\ m.type = "RESULT" /\ m.session = Session
      /\ UNCHANGED <<stored, network, asked, answers, nonces, boots, computed, accepted>>
  BY DEF ReceiveResult
<1>3. /\ slot' \in [Devices -> Slots] /\ DOMAIN stage' = Devices /\ DOMAIN run' = Devices
      /\ stage'[A] \in {"next", "done"} /\ stage'[B] = stage[B] /\ run'[B] = run[B]
  BY <1>1, <1>2 DEF ReceiveResult, MoreSlots, Stop, TypeOK, Slots
<1>4. TypeOK'
  BY <1>1, <1>2, <1>3 DEF TypeOK
<1>5. InitiatorInv' /\ ResponderInv'
  BY <1>2, <1>3 DEF AInv, InitiatorInv, ResponderInv
<1>6. InitiatorAgreement'
  <2>1. CASE SameKey(m, run[A].key)
    <3>1. PICK a \in accepted : a.session = m.session /\ m.hash = Hash(<<a.key>>)
      BY <1>2 DEF AInv, MessagesInv, Sound, OfResult
    <3>2. <<a.key>> = <<run[A].key>>
      BY <2>1, <3>1, HashInjective DEF SameKey
    <3>3. a.key = run[A].key
      BY <3>2
    <3>4. succeeded' = succeeded \cup {Agreed(Session, run[A].key)}
      BY <2>1 DEF ReceiveResult
    <3> QED
      BY <1>2, <3>1, <3>3, <3>4 DEF AInv, InitiatorAgreement, Agreed
  <2>2. CASE ~SameKey(m, run[A].key)
    BY <1>2, <2>2 DEF AInv, InitiatorAgreement, ReceiveResult
  <2> QED
    BY <2>1, <2>2
<1>7. MessagesInv'
  BY <1>2 DEF AInv, MessagesInv, Sound, OfM1, OfM2, OfM3, OfResult
<1>8. AcceptedInv' /\ ResponderAgreement' /\ KeyOfCredentials'
  BY <1>2 DEF AInv, AcceptedInv, ResponderAgreement, KeyOfCredentials
<1> QED
  BY <1>4, <1>5, <1>6, <1>7, <1>8 DEF AInv

LEMMA AInvReceiveM1 ==
    ASSUME AInv, NEW m0 \in network, NEW other \in network, NEW s \in Slots,
           m0.type = "M1", m0.session = other.session,
           ReceiveM1(Reassembled(m0, other), Credential(A, s))
    PROVE  AInv'
<1>1. /\ A # B /\ A \in Devices /\ B \in Devices /\ Sessions \in Nat \ {0}
      /\ TypeOK /\ nonces \in [Devices -> Nat] /\ nonces[A] \in Nat /\ nonces[B] \in Nat
  BY ApqeAssumption DEF AInv, TypeOK, Devices
<1>2. PICK i \in 0..nonces[A]-1 :
        m0.ei = <<ReversibleMap(A, Challenge(A, m0.session - 1)), Challenge(A, m0.session - 1),
                  Nonce(A, i), ReversibleMap(B, Challenge(B, m0.session - 1))>>
  BY DEF AInv, MessagesInv, Sound, OfM1
<1>3. PICK c, n, x : /\ c = m0.session /\ n = Nonce(A, i)
                     /\ x = CommutativeMap(B, Challenge(A, m0.session - 1))
  OBVIOUS
<1>4. PICK nj, k : /\ nj = Nonce(B, nonces[B])
                   /\ k = CommutativeMap(B, Xor(Credential(A, s).w, Hash(<<Challenge(A, c - 1)>>)))
  OBVIOUS
<1>5. PICK m : m = Reassembled(m0, other)
  OBVIOUS
<1>6. m.session = c /\ m.ei = m0.ei
  BY <1>3, <1>5 DEF Reassembled
<1>7. /\ m.ei[2] = Challenge(A, c - 1) /\ m.ei[3] = n
      /\ ReversibleMap(B, m.ei[4]) = Challenge(B, c - 1)
  BY <1>2, <1>3, <1>6, ReversibleInverse
<1>8. PICK new : new = M2(c, k, x, n, Challenge(B, c - 1), nj)
  OBVIOUS
<1>9. /\ stage[B] = "listen" /\ stage' = [stage EXCEPT ![B] = "waitM3"]
      /\ network' = network \cup {new}
      /\ run' = [run EXCEPT ![B] = [session |-> c, tkJi |-> k, ni |-> n, nj |-> nj]]
      /\ asked' = asked + 1
      /\ nonces' = [nonces EXCEPT ![B] = @ + 1]
      /\ UNCHANGED <<slot, stored, boots, computed, accepted, succeeded>>
  <2>1. ReceiveM1(m, Credential(A, s))
    BY <1>5
  <2> QED
    BY <1>3, <1>4, <1>6, <1>7, <1>8, <2>1 DEF ReceiveM1, FreshNonce, history
<1>10. /\ nonces' \in [Devices -> Nat] /\ nonces'[A] = nonces[A] /\ nonces'[B] = nonces[B] + 1
       /\ nonces[B] \in 0..nonces'[B]-1 /\ 0..nonces[B]-1 \subseteq 0..nonces'[B]-1
       /\ nonces'[A] >= nonces[A] /\ nonces'[B] >= nonces[B]
  BY <1>1, <1>9
<1>11. new.type = "M2" /\ new.session = c /\ c \in 1..Sessions
  BY <1>1, <1>3, <1>8 DEF M2, TypeOK
<1>12. MessagesInv'
  <2>1. OfM2(new)'
    BY <1>3, <1>4, <1>8, <1>10, <1>11, Zenon DEF OfM2
  <2>2. Sound(new)'
    BY <1>11, <2>1 DEF Sound
  <2> QED
    BY <1>9, <1>10, <2>2, SendingStep
<1>13. TypeOK'
  BY <1>1, <1>9, <1>10, <1>11 DEF TypeOK
<1>14. AcceptedInv' /\ ResponderInv'
  <2>1. \A a \in accepted : a.nth \in 1..nonces[B]
    BY DEF AInv, AcceptedInv
  <2>2. \A a \in accepted : a.nth \in 1..nonces'[B] /\ a.nth < nonces'[B]
    BY <1>1, <1>10, <2>1
  <2>3. AcceptedInv'
    BY <1>9, <2>2 DEF AInv, AcceptedInv
  <2>4. nonces'[B] > 0 /\ nonces'[B] - 1 = nonces[B]
    BY <1>1, <1>10
  <2>5. run'[B].nj = nj /\ run'[B].session = c
    BY <1>1, <1>9 DEF TypeOK
  <2> QED
    BY <1>4, <1>9, <1>11, <2>2, <2>3, <2>4, <2>5 DEF ResponderInv
<1>15. InitiatorInv' /\ KeyOfCredentials'
  BY <1>1, <1>9, <1>10 DEF AInv, TypeOK, InitiatorInv, KeyOfCredentials
<1>16. InitiatorAgreement' /\ ResponderAgreement'
  BY <1>9 DEF AInv, InitiatorAgreement, ResponderAgreement
<1> QED
  BY <1>12, <1>13, <1>14, <1>15, <1>16 DEF AInv

LEMMA AInvReceiveM3 ==
    ASSUME AInv, NEW m \in network, ReceiveM3(m)
    PROVE  AInv'
<1>1. /\ A # B /\ A \in Devices /\ B \in Devices
      /\ TypeOK /\ nonces \in [Devices -> Nat] /\ nonces[A] \in Nat /\ nonces[B] \in Nat
  BY ApqeAssumption DEF AInv, TypeOK, Devices
<1>2. /\ stage[B] = "waitM3" /\ m.type = "M3" /\ m.session = run[B].session
      /\ stage' = [stage EXCEPT ![B] = "listen"]
      /\ run' = [run EXCEPT ![B] = NoRun]
      /\ UNCHANGED <<slot, stored, asked, answers, nonces, boots, computed, succeeded>>
  BY DEF ReceiveM3
<1>3. /\ nonces[B] > 0 /\ run[B].nj = Nonce(B, nonces[B] - 1) /\ m.session \in 1..Sessions
      /\ \A a \in accepted : a.nth < nonces[B]
  BY <1>2 DEF AInv, ResponderInv
<1>4. PICK tkI : tkI = Xor(m.tn, run[B].nj)
  OBVIOUS
<1>5. PICK tkIj : tkIj = CommutativeMap(B, tkI)
  OBVIOUS
<1>6. PICK key : key = Hash(<<run[B].tkJi, tkIj, run[B].ni, run[B].nj>>)
  OBVIOUS
<1>7. PICK a : a = [session |-> m.session, key |-> key, nth |-> nonces[B]]
  OBVIOUS
<1>8. IF H3Valid(m, tkIj, tkI, key)
      THEN /\ accepted' = accepted \cup {a}
           /\ network' \in {network, network \cup {Result(m.session, key)}}
      ELSE UNCHANGED <<accepted, network>>
  BY <1>4, <1>5, <1>6, <1>7 DEF ReceiveM3
<1>9. CASE ~H3Valid(m, tkIj, tkI, key)
  <2>1. TypeOK' /\ InitiatorInv' /\ ResponderInv'
    BY <1>1, <1>2, <1>8, <1>9 DEF AInv, TypeOK, InitiatorInv, ResponderInv
  <2> QED
    BY <1>2, <1>8, <1>9, <2>1, QuietStep DEF history
<1>10. CASE H3Valid(m, tkIj, tkI, key)
  <2>1. PICK new : new = Result(m.session, key)
    OBVIOUS
  <2>2. new.type = "RESULT" /\ new.session = m.session /\ new.hash = Hash(<<key>>)
    BY <2>1 DEF Result
  <2>3. a.session = m.session /\ a.key = key /\ a.nth = nonces[B]
    BY <1>7
  <2>4. MessagesInv'
    <3>1. Sound(new)'
      BY <1>8, <1>10, <2>2, <2>3 DEF Sound, OfResult
    <3> QED
      BY <1>1, <1>2, <1>8, <1>10, <2>1, <3>1, SendingStep
  <2>5. TypeOK'
    BY <1>1, <1>2, <1>3, <1>8, <1>10, <2>1, <2>2 DEF TypeOK
  <2>6. InitiatorInv' /\ ResponderInv' /\ KeyOfCredentials' /\ InitiatorAgreement'
    BY <1>1, <1>2, <1>8, <1>10
    DEF AInv, TypeOK, InitiatorInv, ResponderInv, KeyOfCredentials, InitiatorAgreement
  <2>7. ResponderAgreement'
    <3>1. PICK x, y, other : /\ m.h3 = Hash(<<x, y, other>>)
                             /\ Agreed(m.session, other) \in computed
      BY <1>2 DEF AInv, MessagesInv, Sound, OfM3
    <3>2. <<x, y, other>> = <<tkIj, tkI, key>>
      BY <1>10, <3>1, HashInjective DEF H3Valid
    <3>3. other = key
      BY <3>2
    <3> QED
      BY <1>2, <1>8, <1>10, <2>3, <3>1, <3>3 DEF AInv, ResponderAgreement
  <2>8. AcceptedInv'
    <3>1. a.nth \in 1..nonces[B] /\ \A b \in accepted : b.nth # a.nth
      <4>1. \A b \in accepted : b.nth \in 1..nonces[B] /\ b.nth < nonces[B]
        BY <1>3 DEF AInv, AcceptedInv
      <4> QED
        BY <1>1, <1>3, <2>3, <4>1
    <3>2. \E x, y, z : a.key = Hash(<<x, y, z, Nonce(B, a.nth - 1)>>)
      BY <1>3, <1>6, <2>3
    <3> QED
      BY <1>2, <1>8, <1>10, <3>1, <3>2 DEF AInv, AcceptedInv
  <2> QED
    BY <2>4, <2>5, <2>6, <2>7, <2>8 DEF AInv
<1> QED
  BY <1>9, <1>10

LEMMA AInvStep == AInv /\ [Next]_apqeVars => AInv'
<1>1. SUFFICES ASSUME AInv, [Next]_apqeVars PROVE AInv'
  OBVIOUS
<1>2. CASE \E d \in Devices : Enroll(d) \/ BeginFails(d) \/ Crash(d)
  BY <1>1, <1>2, AInvDevice
<1>3. CASE AStep
  BY <1>1, <1>3, AInvSendM1, AInvWait, AInvReceiveM2, AInvReceiveResult DEF AStep
<1>4. CASE BStep
  BY <1>1, <1>4, AInvReceiveM1, AInvReceiveM3, AInvWait DEF BStep
<1>5. CASE UNCHANGED apqeVars
  <2>1. UNCHANGED <<network, nonces, history>>
    BY <1>5 DEF apqeVars, history
  <2>2. TypeOK' /\ InitiatorInv' /\ ResponderInv'
    BY <1>1, <1>5 DEF apqeVars, AInv, TypeOK, InitiatorInv, ResponderInv
  <2> QED
    BY <1>1, <2>1, <2>2, QuietStep
<1> QED
  BY <1>1, <1>2, <1>3, <1>4, <1>5 DEF Next

LEMMA ApqeInvariance == Spec => []AInv
BY AInvInit, AInvStep, PTL DEF Spec

-----------------------------------------------------------------------------
(* Theorems *)

\* Type correctness of ApqeProtocol's state.
THEOREM ApqeTypeCorrect == Spec => []TypeOK
BY ApqeInvariance, PTL DEF AInv

\* The initiator's SUCCESS means that the responder accepted that key in that session.
THEOREM InitiatorAgreementHolds == Spec => []InitiatorAgreement
BY ApqeInvariance, PTL DEF AInv

\* The responder accepts only what the initiator computed in a session of that number.
THEOREM ResponderAgreementHolds == Spec => []ResponderAgreement
BY ApqeInvariance, PTL DEF AInv

\* Each run of the responder has a key of its own.
THEOREM AcceptedOnceHolds == Spec => []AcceptedOnce
<1>1. AInv => AcceptedOnce
  <2>1. SUFFICES ASSUME AInv, NEW a \in accepted, NEW b \in accepted, a.key = b.key PROVE a = b
    BY DEF AcceptedOnce
  <2>2. PICK x, y, z : a.key = Hash(<<x, y, z, Nonce(B, a.nth - 1)>>)
    BY <2>1 DEF AInv, AcceptedInv
  <2>3. PICK u, v, w : b.key = Hash(<<u, v, w, Nonce(B, b.nth - 1)>>)
    BY <2>1 DEF AInv, AcceptedInv
  <2>4. <<x, y, z, Nonce(B, a.nth - 1)>> = <<u, v, w, Nonce(B, b.nth - 1)>>
    BY <2>1, <2>2, <2>3, HashInjective
  <2>5. Nonce(B, a.nth - 1) = Nonce(B, b.nth - 1)
    BY <2>4
  <2>6. a.nth - 1 = b.nth - 1
    BY <2>5, NonceInjective
  <2>7. nonces[B] \in Nat /\ a.nth \in 1..nonces[B] /\ b.nth \in 1..nonces[B]
    BY <2>1 DEF AInv, AcceptedInv, TypeOK, Devices
  <2>8. a.nth = b.nth
    BY <2>6, <2>7
  <2> QED
    BY <2>1, <2>8 DEF AInv, AcceptedInv
<1> QED
  BY <1>1, ApqeInvariance, PTL

\* Every key comes from the two credentials of its session's slot and from both nonces.
THEOREM KeyOfCredentialsHolds == Spec => []KeyOfCredentials
BY ApqeInvariance, PTL DEF AInv
=============================================================================
