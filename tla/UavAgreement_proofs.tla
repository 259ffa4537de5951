------------------------ MODULE UavAgreement_proofs ------------------------
(***************************************************************************)
(* Agreement of the two sides of the handshake, proved for every           *)
(* configuration, any number of sessions, crashes and answers, and a       *)
(* network that loses, repeats and reorders.                               *)
(***************************************************************************)
EXTENDS UavHandshake_proofs, FiniteSetTheorems

\* The states of A in which it has not confirmed the session under way.
Open == {"waitM1", "prepare", "reserved", "waitM3"}

\* A's nonce is the number of its session.
NonceIsSession == pc[A] \in InSession => sid[A].na = starts

\* Handshakes are confirmed in sessions already started, and the session
\* under way is not confirmed before M3 has been checked.
ConfirmedEarlier ==
    \A c \in confirmed : /\ c.sid.na <= starts
                         /\ pc[A] \in Open => c.sid.na # starts

\* A confirms one handshake per session.
OnePerSession == \A c, d \in confirmed : c.sid.na = d.sid.na => c = d

\* The indices that A records are those of the messages in its transcript.
IndicesBound ==
    \A c \in confirmed : c.qA = c.key.m2.q /\ c.qB = c.key.inner.q

\* While A waits for M3 it holds the M2 that it built and signed.
HoldsOwnM2 ==
    pc[A] = "waitM3" => /\ m2[A].q = ownq[A]
                        /\ m2[A].kem = sid[A].na
                        /\ Signature(A, ownq[A], m2[A]) \in signed

\* While B waits for M4 it holds the inner M3 that it built.
HoldsOwnM3 == pc[B] = "waitM4" => inner[B].q = ownq[B]

\* A's tag on the network belongs to a handshake that A has confirmed.
TagsConfirmed ==
    \A m \in network : m.type = "M4" =>
      \E c \in confirmed : m.sid = c.sid /\ m.tau = Tag(A, c.key)

AcceptedConfirmed == accepted \subseteq confirmed

AgreeInv == /\ TypeInv
            /\ NonceIsSession
            /\ ConfirmedEarlier
            /\ OnePerSession
            /\ IndicesBound
            /\ HoldsOwnM2
            /\ HoldsOwnM3
            /\ TagsConfirmed
            /\ AcceptedConfirmed
            /\ InitiatorAgreement

LEMMA AgreeInit == Init => AgreeInv
<1>1. SUFFICES ASSUME Init PROVE AgreeInv
  OBVIOUS
<1>2. pc[A] = "off" /\ pc[B] = "off"
  BY <1>1, TwoDevices DEF Init
<1>3. NonceIsSession /\ HoldsOwnM2 /\ HoldsOwnM3
  BY <1>2 DEF NonceIsSession, HoldsOwnM2, HoldsOwnM3, InSession, Waiting, Working
<1>4. /\ ConfirmedEarlier /\ OnePerSession /\ IndicesBound
      /\ TagsConfirmed /\ AcceptedConfirmed /\ InitiatorAgreement
  BY <1>1 DEF Init, ConfirmedEarlier, OnePerSession, IndicesBound,
              TagsConfirmed, AcceptedConfirmed, InitiatorAgreement
<1> QED
  BY <1>1, <1>3, <1>4, TypeInit DEF AgreeInv

\* A step in which nobody confirms or accepts, no tag of A is sent, A starts
\* no session and sends no M2, and B sends no M3.
LEMMA AgreeQuiet ==
    ASSUME AgreeInv, TypeInv',
           UNCHANGED <<confirmed, accepted, starts>>,
           signed \subseteq signed',
           \A m \in network' : m.type = "M4" => m \in network,
           pc'[A] \in InSession =>
             /\ pc[A] \in InSession
             /\ sid'[A].na = sid[A].na
             /\ pc'[A] \in Open => pc[A] \in Open,
           pc'[A] = "waitM3" =>
             /\ pc[A] = "waitM3"
             /\ ownq'[A] = ownq[A] /\ m2'[A] = m2[A],
           pc'[B] = "waitM4" =>
             pc[B] = "waitM4" /\ ownq'[B] = ownq[B] /\ inner'[B] = inner[B]
    PROVE  AgreeInv'
<1>1. Open \subseteq InSession /\ "waitM3" \in InSession
  BY DEF Open, InSession, Waiting, Working
<1>2. NonceIsSession'
  BY DEF AgreeInv, NonceIsSession
<1>3. ConfirmedEarlier'
  BY <1>1 DEF AgreeInv, ConfirmedEarlier
<1>4. OnePerSession' /\ IndicesBound' /\ AcceptedConfirmed'
  BY DEF AgreeInv, OnePerSession, IndicesBound, AcceptedConfirmed
<1>5. HoldsOwnM2' /\ HoldsOwnM3'
  BY <1>1 DEF AgreeInv, HoldsOwnM2, HoldsOwnM3
<1>6. TagsConfirmed'
  BY DEF AgreeInv, TagsConfirmed
<1>7. InitiatorAgreement'
  BY DEF AgreeInv, InitiatorAgreement
<1> QED
  BY <1>2, <1>3, <1>4, <1>5, <1>6, <1>7 DEF AgreeInv

\* The end of a session, by whichever exit, and a crash.
LEMMA AgreeLeave ==
    ASSUME AgreeInv, TypeInv', NEW d \in Devices, NEW place,
           place \notin InSession,
           pc' = [pc EXCEPT ![d] = place], ClearSession(d),
           UNCHANGED <<confirmed, accepted, starts, signed, network>>
    PROVE  AgreeInv'
<1>1. /\ pc \in [Devices -> ProgramStates]
      /\ sid \in [Devices -> Sid] /\ ownq \in [Devices -> Nat]
      /\ m2 \in [Devices -> Body] /\ inner \in [Devices -> Body]
  BY DEF AgreeInv, TypeInv, TypeOK
<1>2. pc'[d] = place /\ {"waitM3", "waitM4"} \subseteq InSession
  BY <1>1 DEF InSession, Waiting
<1>3. \A e \in Devices : e # d =>
        /\ pc'[e] = pc[e] /\ sid'[e] = sid[e] /\ ownq'[e] = ownq[e]
        /\ m2'[e] = m2[e] /\ inner'[e] = inner[e]
  BY <1>1 DEF ClearSession
<1> QED
  BY <1>2, <1>3, TwoDevices, AgreeQuiet

LEMMA AgreeStartSession ==
    ASSUME AgreeInv, TypeInv', StartSession
    PROVE  AgreeInv'
<1>1. /\ pc \in [Devices -> ProgramStates] /\ sid \in [Devices -> Sid]
      /\ starts \in Nat /\ confirmed \subseteq Handshakes
      /\ A \in Devices /\ B \in Devices /\ A # B
  BY TwoDevices DEF AgreeInv, TypeInv, TypeOK
<1>2. \A c \in confirmed : c.sid.na \in Nat
  BY <1>1 DEF Handshakes, Sid
<1>3. pc'[A] = "waitM1" /\ pc'[B] = pc[B] /\ starts' = starts + 1
      /\ sid'[A].na = starts + 1
  BY <1>1 DEF StartSession, Sid
<1>4. UNCHANGED <<confirmed, accepted, signed, ownq, m2, inner>>
  BY DEF StartSession, history
<1>5. NonceIsSession' /\ HoldsOwnM2'
  BY <1>3 DEF NonceIsSession, HoldsOwnM2
<1>6. ConfirmedEarlier'
  BY <1>1, <1>2, <1>3, <1>4 DEF AgreeInv, ConfirmedEarlier
<1>7. OnePerSession' /\ IndicesBound' /\ AcceptedConfirmed' /\ HoldsOwnM3'
  BY <1>3, <1>4 DEF AgreeInv, OnePerSession, IndicesBound, AcceptedConfirmed,
                    HoldsOwnM3
<1>8. TagsConfirmed'
  BY <1>4 DEF StartSession, Send, M0, AgreeInv, TagsConfirmed
<1>9. InitiatorAgreement'
  BY <1>4 DEF AgreeInv, InitiatorAgreement
<1> QED
  BY <1>5, <1>6, <1>7, <1>8, <1>9 DEF AgreeInv

LEMMA AgreeSendM2 ==
    ASSUME AgreeInv, TypeInv', SendM2
    PROVE  AgreeInv'
<1>1. /\ pc \in [Devices -> ProgramStates] /\ m2 \in [Devices -> Body]
      /\ A \in Devices /\ B \in Devices /\ A # B
  BY TwoDevices DEF AgreeInv, TypeInv, TypeOK
<1>2. /\ pc[A] = "reserved" /\ pc'[A] = "waitM3" /\ pc'[B] = pc[B]
      /\ m2'[A] = BuiltM2
      /\ UNCHANGED <<confirmed, accepted, starts, sid, ownq, inner>>
  BY <1>1 DEF SendM2, history
<1>3. signed' = signed \cup {Signature(A, ownq[A], BuiltM2)}
  BY DEF SendM2, SignWith
<1>4. BuiltM2.q = ownq[A] /\ BuiltM2.kem = sid[A].na
  BY DEF BuiltM2
<1>5. HoldsOwnM2' /\ HoldsOwnM3'
  BY <1>2, <1>3, <1>4 DEF HoldsOwnM2, HoldsOwnM3, AgreeInv
<1>6. NonceIsSession' /\ ConfirmedEarlier'
  BY <1>2 DEF AgreeInv, NonceIsSession, ConfirmedEarlier, Open, InSession,
              Waiting, Working
<1>7. OnePerSession' /\ IndicesBound' /\ AcceptedConfirmed'
  BY <1>2 DEF AgreeInv, OnePerSession, IndicesBound, AcceptedConfirmed
<1>8. TagsConfirmed'
  BY <1>2 DEF SendM2, Send, M2Msg, AgreeInv, TagsConfirmed
<1>9. InitiatorAgreement'
  BY <1>2, <1>3 DEF AgreeInv, InitiatorAgreement
<1> QED
  BY <1>5, <1>6, <1>7, <1>8, <1>9 DEF AgreeInv

\* A checks M3, records the handshake and sends its tag.
LEMMA AgreeRecvM3 ==
    ASSUME AgreeInv, TypeInv', RecvM3
    PROVE  AgreeInv'
<1>1. /\ pc \in [Devices -> ProgramStates] /\ sid \in [Devices -> Sid]
      /\ inner \in [Devices -> Body]
      /\ starts \in Nat /\ confirmed \subseteq Handshakes
      /\ A \in Devices /\ B \in Devices /\ A # B
  BY TwoDevices DEF AgreeInv, TypeInv, TypeOK
<1>2. PICK m \in Arrived(A) :
        /\ M3Valid(m)
        /\ inner' = [inner EXCEPT ![A] = m.body]
        /\ confirmed' = confirmed \cup
              {[sid |-> sid[A], key |-> InitiatorKey(m.body),
                qA |-> ownq[A], qB |-> m.body.q]}
        /\ Send(M4Msg(session[A], sid[A], Tag(A, InitiatorKey(m.body))))
  BY DEF RecvM3
<1> DEFINE c == [sid |-> sid[A], key |-> InitiatorKey(m.body),
                 qA |-> ownq[A], qB |-> m.body.q]
<1>3. /\ pc[A] = "waitM3" /\ pc'[A] = "waitResult" /\ pc'[B] = pc[B]
      /\ inner'[B] = inner[B]
      /\ UNCHANGED <<accepted, starts, sid, ownq, m2, signed>>
  BY <1>1, <1>2 DEF RecvM3
<1>4. /\ c.sid = sid[A] /\ c.qA = ownq[A] /\ c.qB = m.body.q
      /\ c.key.ek = sid[A].na /\ c.key.m2 = m2[A] /\ c.key.inner = m.body
  BY DEF InitiatorKey, Key
<1>5. sid[A].na = starts
  BY <1>3 DEF AgreeInv, NonceIsSession, InSession, Waiting
<1>6. \A d \in confirmed : d.sid.na # c.sid.na
  BY <1>3, <1>4, <1>5 DEF AgreeInv, ConfirmedEarlier, Open
<1>7. confirmed' = confirmed \cup {c}
  BY <1>2
<1> HIDE DEF c
<1>8. NonceIsSession'
  BY <1>3, <1>5 DEF NonceIsSession
<1>9. ConfirmedEarlier'
  BY <1>1, <1>3, <1>4, <1>5, <1>7 DEF AgreeInv, ConfirmedEarlier, Open
<1>10. OnePerSession'
  BY <1>6, <1>7 DEF AgreeInv, OnePerSession
<1>11. IndicesBound'
  BY <1>3, <1>4, <1>7 DEF AgreeInv, IndicesBound, HoldsOwnM2
<1>12. HoldsOwnM2' /\ HoldsOwnM3'
  BY <1>3 DEF AgreeInv, HoldsOwnM2, HoldsOwnM3
<1>13. TagsConfirmed'
  <2>1. M4Msg(session[A], sid[A], Tag(A, InitiatorKey(m.body))).sid = c.sid
        /\ M4Msg(session[A], sid[A], Tag(A, InitiatorKey(m.body))).tau
             = Tag(A, c.key)
    BY DEF M4Msg, c
  <2> QED
    BY <1>2, <1>7, <2>1 DEF Send, AgreeInv, TagsConfirmed
<1>14. AcceptedConfirmed'
  BY <1>3, <1>7 DEF AgreeInv, AcceptedConfirmed
<1>15. InitiatorAgreement'
  <2>1. Signature(B, c.qB, M3Object(c.key.m2, c.key.inner)) \in signed
        /\ c.key.inner.sid = c.sid
    BY <1>2, <1>4 DEF M3Valid
  <2>2. Signature(A, c.qA, c.key.m2) \in signed /\ c.key.ek = c.key.m2.kem
    BY <1>3, <1>4 DEF AgreeInv, HoldsOwnM2
  <2> QED
    BY <1>3, <1>7, <2>1, <2>2 DEF AgreeInv, InitiatorAgreement
<1> QED
  BY <1>8, <1>9, <1>10, <1>11, <1>12, <1>13, <1>14, <1>15 DEF AgreeInv

LEMMA AgreeSendM3 ==
    ASSUME AgreeInv, TypeInv', SendM3
    PROVE  AgreeInv'
<1>1. /\ pc \in [Devices -> ProgramStates] /\ inner \in [Devices -> Body]
      /\ A \in Devices /\ B \in Devices /\ A # B
  BY TwoDevices DEF AgreeInv, TypeInv, TypeOK
<1>2. /\ pc'[B] = "waitM4" /\ pc'[A] = pc[A]
      /\ inner'[B] = BuiltM3
      /\ UNCHANGED <<confirmed, accepted, starts, sid, ownq, m2>>
  BY <1>1 DEF SendM3, history
<1>3. signed \subseteq signed'
  BY DEF SendM3, SignWith
<1>4. HoldsOwnM3'
  BY <1>2 DEF HoldsOwnM3, BuiltM3
<1>5. NonceIsSession' /\ ConfirmedEarlier' /\ HoldsOwnM2'
  BY <1>2, <1>3 DEF AgreeInv, NonceIsSession, ConfirmedEarlier, HoldsOwnM2
<1>6. OnePerSession' /\ IndicesBound' /\ AcceptedConfirmed'
  BY <1>2 DEF AgreeInv, OnePerSession, IndicesBound, AcceptedConfirmed
<1>7. TagsConfirmed'
  BY <1>2 DEF SendM3, Send, M3Msg, AgreeInv, TagsConfirmed
<1>8. InitiatorAgreement'
  BY <1>2, <1>3 DEF AgreeInv, InitiatorAgreement
<1> QED
  BY <1>4, <1>5, <1>6, <1>7, <1>8 DEF AgreeInv

\* B checks M4: the tag shows that A confirmed exactly B's view.
LEMMA AgreeRecvM4 ==
    ASSUME AgreeInv, TypeInv', RecvM4
    PROVE  AgreeInv'
<1>1. /\ pc \in [Devices -> ProgramStates]
      /\ sid \in [Devices -> Sid] /\ ownq \in [Devices -> Nat]
      /\ m2 \in [Devices -> Body] /\ inner \in [Devices -> Body]
      /\ confirmed \subseteq Handshakes
      /\ A \in Devices /\ B \in Devices /\ A # B
  BY TwoDevices DEF AgreeInv, TypeInv, TypeOK
<1>2. PICK m \in Arrived(B) : M4Valid(m)
  BY DEF RecvM4
<1>3. pc[B] = "waitM4" /\ m \in network /\ m.type = "M4"
  BY <1>2 DEF RecvM4, Arrived, Awaited
<1>4. PICK c \in confirmed : m.sid = c.sid /\ m.tau = Tag(A, c.key)
  BY <1>3 DEF AgreeInv, TagsConfirmed
<1>5. c.sid = sid[B] /\ c.key = ResponderKey(inner[B])
  BY <1>2, <1>4 DEF M4Valid, Tag
<1>6. c.qA = m2[B].q /\ c.qB = ownq[B]
  <2>1. c.key.m2 = m2[B] /\ c.key.inner = inner[B]
    BY <1>5 DEF ResponderKey, Key
  <2> QED
    BY <1>3, <2>1 DEF AgreeInv, IndicesBound, HoldsOwnM3
<1>7. c = [sid |-> sid[B], key |-> ResponderKey(inner[B]),
           qA |-> m2[B].q, qB |-> ownq[B]]
  BY <1>1, <1>5, <1>6 DEF Handshakes
<1>8. accepted' = accepted \cup {c}
  BY <1>7 DEF RecvM4
<1>9. AcceptedConfirmed'
  BY <1>8 DEF RecvM4, AgreeInv, AcceptedConfirmed
<1>10. /\ pc'[A] = pc[A] /\ sid'[A] = sid[A] /\ ownq'[A] = ownq[A]
       /\ m2'[A] = m2[A] /\ pc'[B] = "listen"
       /\ UNCHANGED <<confirmed, starts, signed>>
  BY <1>1 DEF RecvM4, EndSession, ClearSession, AfterSession
<1>11. NonceIsSession' /\ ConfirmedEarlier' /\ HoldsOwnM2' /\ HoldsOwnM3'
  BY <1>10 DEF AgreeInv, NonceIsSession, ConfirmedEarlier, HoldsOwnM2,
               HoldsOwnM3
<1>12. OnePerSession' /\ IndicesBound'
  BY <1>10 DEF AgreeInv, OnePerSession, IndicesBound
<1>13. TagsConfirmed'
  BY <1>10 DEF RecvM4, Send, ResultMsg, AgreeInv, TagsConfirmed
<1>14. InitiatorAgreement'
  BY <1>10 DEF AgreeInv, InitiatorAgreement
<1> QED
  BY <1>9, <1>11, <1>12, <1>13, <1>14 DEF AgreeInv

LEMMA AgreeNext == AgreeInv /\ [Next]_vars => AgreeInv'
<1>1. SUFFICES ASSUME AgreeInv, [Next]_vars PROVE AgreeInv'
  OBVIOUS
<1>2. /\ TypeInv'
      /\ pc \in [Devices -> ProgramStates] /\ sid \in [Devices -> Sid]
      /\ A \in Devices /\ B \in Devices /\ A # B
  BY <1>1, TypeNext, TwoDevices DEF AgreeInv, TypeInv, TypeOK
<1>3. {"waitM1", "waitM3", "waitM4", "prepare", "reserved"} \subseteq InSession
      /\ Open = {"waitM1", "prepare", "reserved", "waitM3"}
  BY DEF InSession, Waiting, Working, Open
<1>4. ASSUME NEW d \in Devices, EndSession(d),
             UNCHANGED <<confirmed, accepted, starts, signed, network>>
      PROVE  AgreeInv'
  <2>1. AfterSession(d) \notin InSession
    BY DEF AfterSession, InSession, Waiting, Working
  <2> QED
    BY <1>1, <1>2, <1>4, <2>1, AgreeLeave DEF EndSession
<1>5. CASE InitiatorStep
  <2>1. CASE StartSession
    BY <1>1, <1>2, <2>1, AgreeStartSession
  <2>2. CASE RecvM1
    <3>1. PICK m \in Arrived(A) : M1Valid(m) /\ sid' = [sid EXCEPT ![A] = m.sid]
      BY <2>2 DEF RecvM1
    <3>2. sid'[A].na = sid[A].na
      BY <1>2, <3>1 DEF M1Valid
    <3>3. pc[A] = "waitM1" /\ pc'[A] = "prepare" /\ pc'[B] = pc[B]
      BY <1>2, <2>2 DEF RecvM1
    <3> QED
      BY <1>1, <1>2, <1>3, <2>2, <3>2, <3>3, AgreeQuiet DEF RecvM1, history
  <2>3. CASE SendM2
    BY <1>1, <1>2, <2>3, AgreeSendM2
  <2>4. CASE RecvM3
    BY <1>1, <1>2, <2>4, AgreeRecvM3
  <2>5. CASE RecvResult
    BY <1>2, <1>4, <2>5 DEF RecvResult
  <2> QED
    BY <1>5, <2>1, <2>2, <2>3, <2>4, <2>5 DEF InitiatorStep
<1>6. CASE ResponderStep
  <2>1. CASE RecvM0
    <3>1. /\ pc'[B] = "waitM2" /\ pc'[A] = pc[A] /\ sid'[A] = sid[A]
          /\ \A m \in network' : m.type = "M4" => m \in network
      BY <1>2, <2>1 DEF RecvM0, Send, M1
    <3> QED
      BY <1>1, <1>2, <2>1, <3>1, AgreeQuiet DEF RecvM0, history
  <2>2. CASE RecvM2
    <3>1. pc'[B] = "prepare" /\ pc'[A] = pc[A] /\ m2'[A] = m2[A]
      BY <1>1, <1>2, <2>2 DEF RecvM2, AgreeInv, TypeInv, TypeOK
    <3> QED
      BY <1>1, <1>2, <2>2, <3>1, AgreeQuiet DEF RecvM2, history
  <2>3. CASE SendM3
    BY <1>1, <1>2, <2>3, AgreeSendM3
  <2>4. CASE RecvM4
    BY <1>1, <1>2, <2>4, AgreeRecvM4
  <2> QED
    BY <1>6, <2>1, <2>2, <2>3, <2>4 DEF ResponderStep
<1>7. ASSUME NEW d \in Devices, CommonStep(d) PROVE AgreeInv'
  <2>1. CASE Reserve(d)
    <3>1. /\ pc[d] = "prepare" /\ pc'[d] = "reserved"
          /\ \A e \in Devices : e # d => pc'[e] = pc[e] /\ ownq'[e] = ownq[e]
      BY <1>1, <1>2, <2>1 DEF Reserve, AgreeInv, TypeInv, TypeOK
    <3> QED
      BY <1>1, <1>2, <1>3, <2>1, <3>1, AgreeQuiet DEF Reserve, history
  <2>2. CASE Timeout(d) \/ LocalFailure(d) \/ Reject(d)
    BY <1>4, <2>2 DEF Timeout, LocalFailure, Reject, history
  <2> QED
    BY <1>7, <2>1, <2>2 DEF CommonStep
<1>8. ASSUME NEW d \in Devices, PowerStep(d) PROVE AgreeInv'
  <2>1. PICK place \in {"idle", "listen", "halted"} : pc' = [pc EXCEPT ![d] = place]
    BY <1>8 DEF PowerStep, Boot, BootFails, ReadyState
  <2>2. place \notin InSession
    BY DEF InSession, Waiting, Working
  <2>3. UNCHANGED <<confirmed, accepted, starts, signed, network, sid, ownq,
                    m2, inner>>
    BY <1>8 DEF PowerStep, Boot, BootFails, local, history
  <2>4. pc'[d] = place /\ \A e \in Devices : e # d => pc'[e] = pc[e]
    BY <1>2, <2>1
  <2> QED
    BY <1>1, <1>2, <1>3, <2>2, <2>3, <2>4, AgreeQuiet
<1>9. ASSUME NEW d \in Devices, Crash(d) PROVE AgreeInv'
  <2>1. "off" \notin InSession
    BY DEF InSession, Waiting, Working
  <2> QED
    BY <1>1, <1>2, <1>9, <2>1, AgreeLeave DEF Crash, history
<1>10. CASE UNCHANGED vars
  BY <1>1, <1>2, <1>10, AgreeQuiet DEF vars, local, history
<1> QED
  BY <1>1, <1>5, <1>6, <1>7, <1>8, <1>9, <1>10 DEF Next

THEOREM AgreementInvariant == Spec => []AgreeInv
BY AgreeInit, AgreeNext, PTL DEF Spec

\* Whatever A confirms, B signed that ciphertext for the M2 that A signed and
\* sent in the same session, and both hold the same key (M3's checks).
THEOREM InitiatorAgreementHolds == Spec => []InitiatorAgreement
<1>1. AgreeInv => InitiatorAgreement
  BY DEF AgreeInv
<1> QED
  BY <1>1, AgreementInvariant, PTL

\* Whatever B accepts, A confirmed with the same nonces, key and indices, and
\* B accepts a session of A once, however often it answered its M0 (M4's
\* checks).
THEOREM ResponderAgreementHolds == Spec => []ResponderAgreement
<1>1. AgreeInv => ResponderAgreement
  BY DEF AgreeInv, AcceptedConfirmed, OnePerSession, ResponderAgreement
<1> QED
  BY <1>1, AgreementInvariant, PTL

-----------------------------------------------------------------------------
(* B's indices are earned *)

\* A's signatures on handshakes of the first n runs of B, or before run n.
EarnedUpTo(n) == {s \in signed : s.dev = A /\ s.obj.sid.nb <= n}
EarnedBefore(n) == {s \in signed : s.dev = A /\ s.obj.sid.nb < n}

\* B's nonce is the number of its run.
NonceIsRun == pc[B] \in InSession => sid[B].nb = answers

\* B gets to reserveQ on a signature of A over the nonce of this run.
PreparedOnSignature ==
    pc[B] = "prepare" => \E s \in signed : s.dev = A /\ s.obj.sid.nb = answers

\* B's indices are no more than A's signatures on runs of B that have passed
\* reserveQ.
Charged ==
    Cardinality(spent[B]) <=
      Cardinality(IF pc[B] \in {"waitM2", "prepare"} THEN EarnedBefore(answers)
                                                     ELSE EarnedUpTo(answers))

EarnedInv == /\ TypeInv
             /\ IsFiniteSet(signed) /\ IsFiniteSet(spent[B])
             /\ NonceIsRun
             /\ PreparedOnSignature
             /\ Charged

LEMMA EarnedInit == Init => EarnedInv
<1>1. SUFFICES ASSUME Init PROVE EarnedInv
  OBVIOUS
<1>2. pc[B] = "off" /\ spent[B] = {} /\ signed = {} /\ answers = 0
  BY <1>1, TwoDevices DEF Init
<1>3. EarnedUpTo(answers) = {}
  BY <1>2 DEF EarnedUpTo
<1>4. Charged
  <2>1. Charged <=> Cardinality({}) <= Cardinality({})
    BY <1>2, <1>3 DEF Charged
  <2> QED
    BY <2>1, FS_EmptySet
<1>5. NonceIsRun /\ PreparedOnSignature
  BY <1>2 DEF NonceIsRun, PreparedOnSignature, InSession, Waiting, Working
<1> QED
  BY <1>1, <1>2, <1>4, <1>5, FS_EmptySet, TypeInit DEF EarnedInv

\* The signatures of A name a run by a number.
LEMMA RunsNumbered ==
    ASSUME TypeInv, NEW s \in signed, s.dev = A
    PROVE  s.obj.sid.nb \in Nat
BY TwoDevices DEF TypeInv, TypeOK, Signatures, Body, Sid

\* More signatures earn no less.
LEMMA EarnedGrows ==
    ASSUME TypeInv, TypeInv', IsFiniteSet(signed'), signed \subseteq signed',
           answers' = answers
    PROVE  /\ IsFiniteSet(EarnedUpTo(answers)')
           /\ IsFiniteSet(EarnedBefore(answers)')
           /\ Cardinality(EarnedUpTo(answers)) <= Cardinality(EarnedUpTo(answers)')
           /\ Cardinality(EarnedBefore(answers)) <= Cardinality(EarnedBefore(answers)')
           /\ Cardinality(EarnedBefore(answers)') <= Cardinality(EarnedUpTo(answers)')
           /\ Cardinality(EarnedUpTo(answers)) \in Nat
           /\ Cardinality(EarnedBefore(answers)) \in Nat
           /\ Cardinality(EarnedUpTo(answers)') \in Nat
           /\ Cardinality(EarnedBefore(answers)') \in Nat
<1>1. /\ EarnedUpTo(answers) \subseteq EarnedUpTo(answers)'
      /\ EarnedBefore(answers) \subseteq EarnedBefore(answers)'
      /\ EarnedUpTo(answers)' \subseteq signed'
  BY DEF EarnedUpTo, EarnedBefore
<1>2. EarnedBefore(answers)' \subseteq EarnedUpTo(answers)'
  <2>1. ASSUME NEW s \in signed', s.dev = A PROVE s.obj.sid.nb \in Nat
    BY <2>1, TwoDevices DEF TypeInv, TypeOK, Signatures, Body, Sid
  <2>2. answers' \in Nat
    BY DEF TypeInv, TypeOK
  <2> QED
    BY <2>1, <2>2 DEF EarnedUpTo, EarnedBefore
<1>3. IsFiniteSet(EarnedUpTo(answers)')
  BY <1>1, FS_Subset
<1>4. /\ IsFiniteSet(EarnedBefore(answers)')
      /\ Cardinality(EarnedBefore(answers)') <= Cardinality(EarnedUpTo(answers)')
  BY <1>2, <1>3, FS_Subset
<1>5. /\ IsFiniteSet(EarnedUpTo(answers))
      /\ Cardinality(EarnedUpTo(answers)) <= Cardinality(EarnedUpTo(answers)')
  BY <1>1, <1>3, FS_Subset
<1>6. /\ IsFiniteSet(EarnedBefore(answers))
      /\ Cardinality(EarnedBefore(answers)) <= Cardinality(EarnedBefore(answers)')
  BY <1>1, <1>4, FS_Subset
<1> QED
  BY <1>3, <1>4, <1>5, <1>6, FS_CardinalityType

\* A step in which B starts no run and uses no index.
LEMMA EarnedQuiet ==
    ASSUME EarnedInv, TypeInv', IsFiniteSet(signed'), signed \subseteq signed',
           UNCHANGED answers, spent'[B] = spent[B],
           pc'[B] \in InSession => pc[B] \in InSession /\ sid'[B] = sid[B],
           pc'[B] \in {"waitM2", "prepare"} => pc[B] \in {"waitM2", "prepare"},
           pc'[B] = "prepare" => PreparedOnSignature'
    PROVE  EarnedInv'
<1>1. NonceIsRun'
  BY DEF EarnedInv, NonceIsRun
<1>2. PreparedOnSignature'
  BY DEF PreparedOnSignature
<1>3. Cardinality(spent[B]) \in Nat
  BY FS_CardinalityType DEF EarnedInv
<1>4. Cardinality(EarnedBefore(answers)) <= Cardinality(EarnedUpTo(answers)')
  BY EarnedGrows DEF EarnedInv
<1>5. Charged'
  BY <1>3, <1>4, EarnedGrows DEF EarnedInv, Charged
<1> QED
  BY <1>1, <1>2, <1>5 DEF EarnedInv

LEMMA EarnedReserve ==
    ASSUME EarnedInv, TypeInv', Reserve(B)
    PROVE  EarnedInv'
<1>1. /\ pc \in [Devices -> ProgramStates] /\ spent \in [Devices -> SUBSET Nat]
      /\ B \in Devices /\ answers \in Nat
  BY TwoDevices DEF EarnedInv, TypeInv, TypeOK
<1>2. /\ pc[B] = "prepare" /\ pc'[B] = "reserved"
      /\ spent'[B] = spent[B] \cup {nextq[B]}
      /\ UNCHANGED <<answers, signed, sid>>
  BY <1>1 DEF Reserve
<1>3. IsFiniteSet(spent'[B])
      /\ Cardinality(spent'[B]) <= Cardinality(spent[B]) + 1
  <2>1. IsFiniteSet(spent[B]) /\ Cardinality(spent[B]) \in Nat
    BY FS_CardinalityType DEF EarnedInv
  <2>2. /\ IsFiniteSet(spent[B] \cup {nextq[B]})
        /\ Cardinality(spent[B] \cup {nextq[B]}) =
             IF nextq[B] \in spent[B] THEN Cardinality(spent[B])
                                     ELSE Cardinality(spent[B]) + 1
    BY <2>1, FS_AddElement
  <2>3. Cardinality(spent[B] \cup {nextq[B]}) <= Cardinality(spent[B]) + 1
    BY <2>1, <2>2
  <2> QED
    BY <1>2, <2>2, <2>3
<1>4. PICK s \in signed : s.dev = A /\ s.obj.sid.nb = answers
  BY <1>2 DEF EarnedInv, PreparedOnSignature
<1>5. /\ IsFiniteSet(EarnedBefore(answers))
      /\ IsFiniteSet(EarnedUpTo(answers))
      /\ Cardinality(EarnedBefore(answers)) \in Nat
      /\ Cardinality(EarnedUpTo(answers)) \in Nat
  <2>1. EarnedBefore(answers) \subseteq signed /\ EarnedUpTo(answers) \subseteq signed
    BY DEF EarnedBefore, EarnedUpTo
  <2> QED
    BY <2>1, FS_Subset, FS_CardinalityType DEF EarnedInv
<1>6. Cardinality(EarnedBefore(answers)) + 1 <= Cardinality(EarnedUpTo(answers))
  <2>1. s \notin EarnedBefore(answers)
    BY <1>1, <1>4 DEF EarnedBefore
  <2>2. EarnedBefore(answers) \cup {s} \subseteq EarnedUpTo(answers)
    BY <1>1, <1>4, RunsNumbered DEF EarnedBefore, EarnedUpTo, EarnedInv
  <2>3. Cardinality(EarnedBefore(answers) \cup {s})
          = Cardinality(EarnedBefore(answers)) + 1
    BY <1>5, <2>1, FS_AddElement
  <2>4. Cardinality(EarnedBefore(answers) \cup {s})
          <= Cardinality(EarnedUpTo(answers))
    BY <1>5, <2>2, FS_Subset
  <2> QED
    BY <2>3, <2>4
<1>7. Cardinality(spent[B]) <= Cardinality(EarnedBefore(answers))
  BY <1>2 DEF EarnedInv, Charged
<1>8. EarnedUpTo(answers)' = EarnedUpTo(answers)
  BY <1>2 DEF EarnedUpTo
<1>9. Charged'
  <2>1. Cardinality(spent[B]) \in Nat /\ Cardinality(spent'[B]) \in Nat
    BY <1>3, FS_CardinalityType DEF EarnedInv
  <2>2. Cardinality(spent'[B]) <= Cardinality(EarnedUpTo(answers))
    BY <1>3, <1>5, <1>6, <1>7, <2>1
  <2> QED
    BY <1>2, <1>8, <2>2 DEF Charged
<1>10. NonceIsRun' /\ PreparedOnSignature'
  BY <1>2 DEF EarnedInv, NonceIsRun, PreparedOnSignature, InSession, Working
<1> QED
  BY <1>2, <1>3, <1>9, <1>10 DEF EarnedInv

\* B begins a run: what its earlier runs earned is what it has before this one.
LEMMA EarnedRecvM0 ==
    ASSUME EarnedInv, TypeInv', RecvM0
    PROVE  EarnedInv'
<1>1. /\ pc \in [Devices -> ProgramStates] /\ sid \in [Devices -> Sid]
      /\ B \in Devices /\ answers \in Nat
  BY TwoDevices DEF EarnedInv, TypeInv, TypeOK
<1>2. /\ pc[B] = "listen" /\ pc'[B] = "waitM2" /\ answers' = answers + 1
      /\ UNCHANGED <<spent, signed>>
  BY <1>1 DEF RecvM0
<1>3. sid'[B].nb = answers'
  BY <1>1, <1>2 DEF RecvM0
<1>4. EarnedBefore(answers)' = EarnedUpTo(answers)
  <2>1. ASSUME NEW s \in signed, s.dev = A
        PROVE  s.obj.sid.nb < answers + 1 <=> s.obj.sid.nb <= answers
    BY <1>1, <2>1, RunsNumbered DEF EarnedInv
  <2> QED
    BY <1>2, <2>1 DEF EarnedBefore, EarnedUpTo
<1>5. Charged'
  BY <1>2, <1>4 DEF EarnedInv, Charged
<1> QED
  BY <1>2, <1>3, <1>5 DEF EarnedInv, NonceIsRun, PreparedOnSignature

\* B takes an M2 that A signed over the nonce of this run.
LEMMA EarnedRecvM2 ==
    ASSUME EarnedInv, TypeInv', RecvM2
    PROVE  EarnedInv'
<1>1. /\ pc \in [Devices -> ProgramStates] /\ B \in Devices
      /\ network \subseteq Messages
  BY TwoDevices DEF EarnedInv, TypeInv, TypeOK
<1>2. PICK m \in Arrived(B) : M2Valid(m)
  BY DEF RecvM2
<1>3. /\ pc[B] = "waitM2" /\ pc'[B] = "prepare"
      /\ UNCHANGED <<answers, signed, spent, sid>>
  BY <1>1 DEF RecvM2
<1>4. m \in Messages /\ m.type = "M2"
  BY <1>1, <1>3 DEF Arrived, Awaited
<1>5. m.body \in Body
  BY <1>4 DEF Messages
<1>6. [m.body EXCEPT !.sid = sid[B]].sid = sid[B]
  BY <1>5 DEF Body
<1>7. sid[B].nb = answers
  BY <1>3 DEF EarnedInv, NonceIsRun, InSession, Waiting
<1>8. PreparedOnSignature'
  BY <1>2, <1>3, <1>6, <1>7 DEF PreparedOnSignature, M2Valid, Signature
<1> QED
  BY <1>3, <1>8, EarnedQuiet DEF EarnedInv, InSession, Waiting

\* A signature leaves the signatures finitely many.
LEMMA SignaturesStayFinite ==
    ASSUME IsFiniteSet(signed), NEW s, signed' = signed \cup {s}
    PROVE  IsFiniteSet(signed') /\ signed \subseteq signed'
BY FS_AddElement

LEMMA EarnedNext == EarnedInv /\ [Next]_vars => EarnedInv'
<1>1. SUFFICES ASSUME EarnedInv, [Next]_vars PROVE EarnedInv'
  OBVIOUS
<1>2. /\ TypeInv' /\ IsFiniteSet(signed)
      /\ pc \in [Devices -> ProgramStates] /\ sid \in [Devices -> Sid]
      /\ spent \in [Devices -> SUBSET Nat]
      /\ A \in Devices /\ B \in Devices /\ A # B
  BY <1>1, TypeNext, TwoDevices DEF EarnedInv, TypeInv, TypeOK
<1>3. PreparedOnSignature
  BY <1>1 DEF EarnedInv
<1>4. ASSUME UNCHANGED <<answers, signed, spent>>,
             (pc'[B] = pc[B] /\ sid'[B] = sid[B]) \/ pc'[B] \notin InSession
      PROVE  EarnedInv'
  <2>1. {"waitM2", "prepare"} \subseteq InSession
    BY DEF InSession, Waiting, Working
  <2> QED
    BY <1>1, <1>2, <1>3, <1>4, <2>1, EarnedQuiet DEF PreparedOnSignature
<1>5. ASSUME NEW d \in Devices, EndSession(d), UNCHANGED <<answers, signed, spent>>
      PROVE  EarnedInv'
  <2>1. AfterSession(d) \notin InSession
    BY DEF AfterSession, InSession, Waiting, Working
  <2> QED
    BY <1>2, <1>4, <1>5, <2>1 DEF EndSession, ClearSession
<1>6. CASE InitiatorStep
  <2>1. CASE StartSession \/ RecvM1 \/ RecvM3
    BY <1>2, <1>4, <2>1 DEF StartSession, RecvM1, RecvM3
  <2>2. CASE SendM2
    <3>1. IsFiniteSet(signed') /\ signed \subseteq signed'
      BY <1>2, <2>2, SignaturesStayFinite DEF SendM2, SignWith
    <3>2. pc'[B] = pc[B] /\ UNCHANGED <<answers, spent, sid>>
      BY <1>2, <2>2 DEF SendM2
    <3> QED
      BY <1>1, <1>2, <1>3, <3>1, <3>2, EarnedQuiet DEF PreparedOnSignature
  <2>3. CASE RecvResult
    BY <1>2, <1>5, <2>3 DEF RecvResult
  <2> QED
    BY <1>6, <2>1, <2>2, <2>3 DEF InitiatorStep
<1>7. CASE ResponderStep
  <2>1. CASE RecvM0
    BY <1>1, <1>2, <2>1, EarnedRecvM0
  <2>2. CASE RecvM2
    BY <1>1, <1>2, <2>2, EarnedRecvM2
  <2>3. CASE SendM3
    <3>1. IsFiniteSet(signed') /\ signed \subseteq signed'
      BY <1>2, <2>3, SignaturesStayFinite DEF SendM3, SignWith
    <3>2. pc[B] = "reserved" /\ pc'[B] = "waitM4" /\ UNCHANGED <<answers, spent, sid>>
      BY <1>2, <2>3 DEF SendM3
    <3> QED
      BY <1>1, <1>2, <3>1, <3>2, EarnedQuiet DEF InSession, Working
  <2>4. CASE RecvM4
    BY <1>2, <1>5, <2>4 DEF RecvM4
  <2> QED
    BY <1>7, <2>1, <2>2, <2>3, <2>4 DEF ResponderStep
<1>8. ASSUME NEW d \in Devices, CommonStep(d) PROVE EarnedInv'
  <2>1. CASE Reserve(d)
    <3>1. CASE d = B
      BY <1>1, <1>2, <2>1, <3>1, EarnedReserve
    <3>2. CASE d # B
      <4>1. /\ pc'[B] = pc[B] /\ spent'[B] = spent[B]
            /\ UNCHANGED <<answers, signed, sid>>
        BY <1>2, <2>1, <3>2 DEF Reserve
      <4> QED
        BY <1>1, <1>2, <1>3, <4>1, EarnedQuiet DEF PreparedOnSignature
    <3> QED
      BY <3>1, <3>2
  <2>2. CASE Timeout(d) \/ LocalFailure(d) \/ Reject(d)
    BY <1>5, <2>2 DEF Timeout, LocalFailure, Reject
  <2> QED
    BY <1>8, <2>1, <2>2 DEF CommonStep
<1>9. ASSUME NEW d \in Devices, PowerStep(d) PROVE EarnedInv'
  <2>1. PICK place \in {"idle", "listen", "halted"} : pc' = [pc EXCEPT ![d] = place]
    BY <1>9 DEF PowerStep, Boot, BootFails, ReadyState
  <2>2. place \notin InSession
    BY DEF InSession, Waiting, Working
  <2>3. UNCHANGED <<answers, signed, spent, sid>>
    BY <1>9 DEF PowerStep, Boot, BootFails, local
  <2> QED
    BY <1>2, <1>4, <2>1, <2>2, <2>3
<1>10. ASSUME NEW d \in Devices, Crash(d) PROVE EarnedInv'
  <2>1. "off" \notin InSession
    BY DEF InSession, Waiting, Working
  <2>2. /\ pc' = [pc EXCEPT ![d] = "off"] /\ sid' = [sid EXCEPT ![d] = ZeroSid]
        /\ UNCHANGED <<answers, signed, spent>>
    BY <1>10 DEF Crash, ClearSession
  <2> QED
    BY <1>2, <1>4, <2>1, <2>2
<1>11. CASE UNCHANGED vars
  BY <1>4, <1>11 DEF vars, local
<1> QED
  BY <1>1, <1>6, <1>7, <1>8, <1>9, <1>10, <1>11 DEF Next

\* B never spends more indices than A has signed with: a replayed or repeated
\* request alone costs B nothing (M2 is verified before reserveQ).
THEOREM ResponderKeysEarnedHolds == Spec => []ResponderKeysEarned
<1>1. EarnedInv => ResponderKeysEarned
  <2>1. SUFFICES ASSUME EarnedInv PROVE ResponderKeysEarned
    OBVIOUS
  <2> DEFINE ofA == {s \in signed : s.dev = A}
  <2>2. IsFiniteSet(ofA)
    BY <2>1, FS_Subset DEF EarnedInv
  <2>3. EarnedBefore(answers) \subseteq ofA /\ EarnedUpTo(answers) \subseteq ofA
    BY DEF EarnedBefore, EarnedUpTo
  <2>4. /\ Cardinality(EarnedBefore(answers)) <= Cardinality(ofA)
        /\ Cardinality(EarnedUpTo(answers)) <= Cardinality(ofA)
        /\ IsFiniteSet(EarnedBefore(answers))
        /\ IsFiniteSet(EarnedUpTo(answers))
    BY <2>2, <2>3, FS_Subset
  <2>5. /\ Cardinality(EarnedBefore(answers)) \in Nat
        /\ Cardinality(EarnedUpTo(answers)) \in Nat
        /\ Cardinality(ofA) \in Nat /\ Cardinality(spent[B]) \in Nat
    BY <2>1, <2>2, <2>4, FS_CardinalityType DEF EarnedInv
  <2>6. CASE pc[B] \in {"waitM2", "prepare"}
    <3>1. Cardinality(spent[B]) <= Cardinality(EarnedBefore(answers))
      BY <2>1, <2>6 DEF EarnedInv, Charged
    <3>2. Cardinality(spent[B]) <= Cardinality(ofA)
      BY <2>4, <2>5, <3>1
    <3> QED
      BY <3>2 DEF ResponderKeysEarned
  <2>7. CASE pc[B] \notin {"waitM2", "prepare"}
    <3>1. Cardinality(spent[B]) <= Cardinality(EarnedUpTo(answers))
      BY <2>1, <2>7 DEF EarnedInv, Charged
    <3>2. Cardinality(spent[B]) <= Cardinality(ofA)
      BY <2>4, <2>5, <3>1
    <3> QED
      BY <3>2 DEF ResponderKeysEarned
  <2> QED
    BY <2>6, <2>7
<1> QED
  BY <1>1, EarnedInit, EarnedNext, PTL DEF Spec

-----------------------------------------------------------------------------
(* A counts what B accepted *)

\* A device in a session has taken its number and A's nonce from one M0.
SessionRequested ==
    \A d \in Devices : pc[d] \in InSession => M0(session[d], sid[d].na) \in network

\* A RESULT tells of an accepted handshake that some M0 of its number began.
ResultsAccepted ==
    \A m \in network : m.type = "RESULT" =>
      \E x \in accepted : M0(m.session, x.sid.na) \in network

\* A waits for RESULT in a handshake that it has confirmed.
WaitConfirmed == pc[A] = "waitResult" => \E x \in confirmed : x.sid = sid[A]

\* What A has counted it had begun and confirmed, and a RESULT of that number came.
CountedAnswered ==
    \A c \in counted :
      /\ M0(c.session, c.sid.na) \in network
      /\ \E x \in confirmed : x.sid = c.sid
      /\ \E m \in network : m.type = "RESULT" /\ m.session = c.session

CountInv == /\ AgreeInv
            /\ SessionRequested
            /\ ResultsAccepted
            /\ WaitConfirmed
            /\ CountedAnswered

LEMMA CountInit == Init => CountInv
<1>1. SUFFICES ASSUME Init PROVE CountInv
  OBVIOUS
<1>2. SessionRequested /\ WaitConfirmed
  BY <1>1, TwoDevices DEF Init, SessionRequested, WaitConfirmed, InSession,
                          Waiting, Working
<1>3. ResultsAccepted /\ CountedAnswered
  BY <1>1 DEF Init, ResultsAccepted, CountedAnswered
<1> QED
  BY <1>1, <1>2, <1>3, AgreeInit DEF CountInv

\* A step in which A counts nothing and no RESULT is sent: the network, what was
\* confirmed and what was accepted only grow.
LEMMA CountQuiet ==
    ASSUME CountInv, AgreeInv', counted' = counted,
           network \subseteq network', confirmed \subseteq confirmed',
           accepted \subseteq accepted',
           \A m \in network' : m.type = "RESULT" => m \in network,
           \A d \in Devices : pc'[d] \in InSession =>
             M0(session'[d], sid'[d].na) \in network',
           pc'[A] = "waitResult" => \E x \in confirmed' : x.sid = sid'[A]
    PROVE  CountInv'
<1>1. SessionRequested' /\ WaitConfirmed'
  BY DEF SessionRequested, WaitConfirmed
<1>2. ResultsAccepted'
  BY DEF CountInv, ResultsAccepted
<1>3. CountedAnswered'
  BY DEF CountInv, CountedAnswered
<1> QED
  BY <1>1, <1>2, <1>3 DEF CountInv

\* A step within a session, or out of one: no device takes another session number or
\* another nonce of A.
LEMMA CountWithin ==
    ASSUME CountInv, AgreeInv', counted' = counted,
           network \subseteq network', confirmed \subseteq confirmed',
           accepted \subseteq accepted',
           \A m \in network' : m.type = "RESULT" => m \in network,
           \A d \in Devices : pc'[d] \in InSession =>
             /\ pc[d] \in InSession
             /\ session'[d] = session[d] /\ sid'[d].na = sid[d].na,
           pc'[A] = "waitResult" => pc[A] = "waitResult" /\ sid'[A] = sid[A]
    PROVE  CountInv'
<1>1. \A d \in Devices : pc'[d] \in InSession => M0(session'[d], sid'[d].na) \in network'
  BY DEF CountInv, SessionRequested, M0
<1>2. pc'[A] = "waitResult" => \E x \in confirmed' : x.sid = sid'[A]
  BY DEF CountInv, WaitConfirmed
<1> QED
  BY <1>1, <1>2, CountQuiet

\* The end of a session without a RESULT, and a crash.
LEMMA CountLeave ==
    ASSUME CountInv, AgreeInv', NEW d \in Devices, NEW place,
           place \notin InSession,
           pc' = [pc EXCEPT ![d] = place], ClearSession(d),
           UNCHANGED <<network, history>>
    PROVE  CountInv'
<1>1. /\ pc \in [Devices -> ProgramStates] /\ sid \in [Devices -> Sid]
      /\ session \in [Devices -> Sessions \cup {0}]
      /\ A \in Devices /\ "waitResult" \in InSession
  BY TwoDevices DEF CountInv, AgreeInv, TypeInv, TypeOK, InSession, Waiting
<1>2. pc'[d] = place /\ \A e \in Devices : e # d =>
        pc'[e] = pc[e] /\ sid'[e] = sid[e] /\ session'[e] = session[e]
  BY <1>1 DEF ClearSession
<1>3. UNCHANGED <<network, confirmed, accepted, counted>>
  BY DEF history
<1> QED
  BY <1>1, <1>2, <1>3, CountWithin

LEMMA CountInitiator ==
    ASSUME CountInv, AgreeInv', InitiatorStep
    PROVE  CountInv'
<1>1. /\ pc \in [Devices -> ProgramStates] /\ sid \in [Devices -> Sid]
      /\ session \in [Devices -> Sessions \cup {0}]
      /\ A \in Devices /\ B \in Devices /\ A # B /\ Devices = {A, B}
  BY TwoDevices DEF CountInv, AgreeInv, TypeInv, TypeOK, Devices
<1>2. {"waitM1", "waitM3", "prepare", "reserved", "waitResult"} \subseteq InSession
  BY DEF InSession, Waiting, Working
<1>3. CASE StartSession
  <2>1. PICK s \in Sessions : /\ session' = [session EXCEPT ![A] = s]
                              /\ Send(M0(s, starts + 1))
    BY <1>3 DEF StartSession
  <2>2. /\ pc'[A] = "waitM1" /\ pc'[B] = pc[B]
        /\ session'[A] = s /\ session'[B] = session[B]
        /\ sid'[A].na = starts + 1 /\ sid'[B] = sid[B]
        /\ network' = network \cup {M0(s, starts + 1)}
        /\ UNCHANGED <<confirmed, accepted, counted>>
    BY <1>1, <1>3, <2>1 DEF StartSession, Sid, Send, history
  <2>3. M0(s, starts + 1).type = "M0"
    BY DEF M0
  <2>4. \A d \in Devices : pc'[d] \in InSession => M0(session'[d], sid'[d].na) \in network'
    BY <1>1, <2>2 DEF CountInv, SessionRequested
  <2> QED
    BY <2>2, <2>3, <2>4, CountQuiet
<1>4. CASE RecvM1
  <2>1. PICK m \in Arrived(A) : M1Valid(m) /\ sid' = [sid EXCEPT ![A] = m.sid]
    BY <1>4 DEF RecvM1
  <2>2. sid'[A].na = sid[A].na /\ sid'[B] = sid[B]
    BY <1>1, <2>1 DEF M1Valid
  <2>3. pc[A] = "waitM1" /\ pc'[A] = "prepare" /\ pc'[B] = pc[B]
    BY <1>1, <1>4 DEF RecvM1
  <2> QED
    BY <1>1, <1>2, <1>4, <2>2, <2>3, CountWithin DEF RecvM1, history
<1>5. CASE SendM2
  <2>1. /\ pc[A] = "reserved" /\ pc'[A] = "waitM3" /\ pc'[B] = pc[B]
        /\ network \subseteq network'
        /\ \A m \in network' : m.type = "RESULT" => m \in network
        /\ UNCHANGED <<sid, session, confirmed, accepted, counted>>
    BY <1>1, <1>5 DEF SendM2, Send, M2Msg, history
  <2> QED
    BY <1>1, <1>2, <2>1, CountWithin
<1>6. CASE RecvM3
  <2>1. PICK m \in Arrived(A) :
          /\ confirmed' = confirmed \cup
                {[sid |-> sid[A], key |-> InitiatorKey(m.body),
                  qA |-> ownq[A], qB |-> m.body.q]}
          /\ Send(M4Msg(session[A], sid[A], Tag(A, InitiatorKey(m.body))))
    BY <1>6 DEF RecvM3
  <2> DEFINE c == [sid |-> sid[A], key |-> InitiatorKey(m.body),
                   qA |-> ownq[A], qB |-> m.body.q]
             t == M4Msg(session[A], sid[A], Tag(A, InitiatorKey(m.body)))
  <2>2. /\ confirmed' = confirmed \cup {c} /\ network' = network \cup {t}
        /\ c.sid = sid[A] /\ t.type = "M4"
    BY <2>1 DEF Send, M4Msg
  <2> HIDE DEF c, t
  <2>3. /\ network \subseteq network' /\ confirmed \subseteq confirmed'
        /\ \A n \in network' : n.type = "RESULT" => n \in network
        /\ \E x \in confirmed' : x.sid = sid[A]
    BY <2>2
  <2>4. /\ pc[A] = "waitM3" /\ pc'[A] = "waitResult" /\ pc'[B] = pc[B]
        /\ UNCHANGED <<sid, session, accepted, counted>>
    BY <1>1, <1>6 DEF RecvM3
  <2>5. \A d \in Devices : pc'[d] \in InSession => M0(session'[d], sid'[d].na) \in network'
    BY <1>1, <1>2, <2>3, <2>4 DEF CountInv, SessionRequested
  <2> QED
    BY <2>3, <2>4, <2>5, CountQuiet
<1>7. CASE RecvResult
  <2>1. PICK m \in network : m.type = "RESULT" /\ m.session = session[A]
    BY <1>7 DEF RecvResult, Arrived, Awaited
  <2>2. /\ M0(session[A], sid[A].na) \in network
        /\ \E x \in confirmed : x.sid = sid[A]
    BY <1>1, <1>2, <1>7 DEF RecvResult, CountInv, SessionRequested, WaitConfirmed
  <2>3. AfterSession(A) \notin InSession
    BY DEF AfterSession, InSession, Waiting, Working
  <2>4. /\ pc'[A] \notin InSession /\ pc'[B] = pc[B]
        /\ session'[B] = session[B] /\ sid'[B] = sid[B]
        /\ UNCHANGED <<network, confirmed, accepted>>
        /\ counted' = counted \cup {[session |-> session[A], sid |-> sid[A]]}
    BY <1>1, <1>7, <2>3 DEF RecvResult, EndSession, ClearSession
  <2>5. SessionRequested' /\ WaitConfirmed' /\ ResultsAccepted'
    BY <1>1, <1>2, <2>4 DEF CountInv, SessionRequested, WaitConfirmed, ResultsAccepted
  <2>6. CountedAnswered'
    BY <2>1, <2>2, <2>4 DEF CountInv, CountedAnswered
  <2> QED
    BY <2>5, <2>6 DEF CountInv
<1> QED
  BY <1>3, <1>4, <1>5, <1>6, <1>7 DEF InitiatorStep

LEMMA CountResponder ==
    ASSUME CountInv, AgreeInv', ResponderStep
    PROVE  CountInv'
<1>1. /\ pc \in [Devices -> ProgramStates] /\ sid \in [Devices -> Sid]
      /\ session \in [Devices -> Sessions \cup {0}] /\ network \subseteq Messages
      /\ A \in Devices /\ B \in Devices /\ A # B /\ Devices = {A, B}
  BY TwoDevices DEF CountInv, AgreeInv, TypeInv, TypeOK, Devices
<1>2. {"waitM2", "waitM4", "prepare", "reserved", "waitResult"} \subseteq InSession
  BY DEF InSession, Waiting, Working
<1>3. CASE RecvM0
  <2> DEFINE id(m) == [na |-> m.na, nb |-> answers + 1]
  <2>1. PICK m \in Arrived(B) : /\ session' = [session EXCEPT ![B] = m.session]
                                /\ sid' = [sid EXCEPT ![B] = id(m)]
                                /\ Send(M1(m.session, id(m)))
    BY <1>3 DEF RecvM0
  <2>2. m \in network /\ m.type = "M0"
    BY <1>3 DEF RecvM0, Arrived, Awaited
  <2>3. M0(m.session, m.na) = m
    BY <1>1, <2>2 DEF Messages, M0
  <2>4. /\ pc'[B] = "waitM2" /\ pc'[A] = pc[A]
        /\ session'[B] = m.session /\ session'[A] = session[A]
        /\ sid'[B].na = m.na /\ sid'[A] = sid[A]
        /\ network \subseteq network'
        /\ \A n \in network' : n.type = "RESULT" => n \in network
        /\ UNCHANGED <<confirmed, accepted, counted>>
    BY <1>1, <1>3, <2>1 DEF RecvM0, Send, M1, history
  <2>5. \A d \in Devices : pc'[d] \in InSession => M0(session'[d], sid'[d].na) \in network'
    BY <1>1, <2>2, <2>3, <2>4 DEF CountInv, SessionRequested
  <2> QED
    BY <2>4, <2>5, CountQuiet DEF CountInv, WaitConfirmed
<1>4. CASE RecvM2
  <2>1. /\ pc[B] = "waitM2" /\ pc'[B] = "prepare" /\ pc'[A] = pc[A]
        /\ UNCHANGED <<sid, session, network, confirmed, accepted, counted>>
    BY <1>1, <1>4 DEF RecvM2, history
  <2> QED
    BY <1>1, <1>2, <2>1, CountWithin
<1>5. CASE SendM3
  <2>1. /\ pc[B] = "reserved" /\ pc'[B] = "waitM4" /\ pc'[A] = pc[A]
        /\ network \subseteq network'
        /\ \A m \in network' : m.type = "RESULT" => m \in network
        /\ UNCHANGED <<sid, session, confirmed, accepted, counted>>
    BY <1>1, <1>5 DEF SendM3, Send, M3Msg, history
  <2> QED
    BY <1>1, <1>2, <2>1, CountWithin
<1>6. CASE RecvM4
  <2> DEFINE x == [sid |-> sid[B], key |-> ResponderKey(inner[B]),
                   qA |-> m2[B].q, qB |-> ownq[B]]
             r == ResultMsg(session[B], m2[B].q, ownq[B])
  <2>1. M0(session[B], sid[B].na) \in network
    BY <1>1, <1>2, <1>6 DEF RecvM4, CountInv, SessionRequested
  <2>2. AfterSession(B) \notin InSession
    BY DEF AfterSession, InSession, Waiting, Working
  <2>3. /\ pc'[B] \notin InSession /\ pc'[A] = pc[A]
        /\ session'[A] = session[A] /\ sid'[A] = sid[A]
        /\ network' = network \cup {r} /\ accepted' = accepted \cup {x}
        /\ UNCHANGED <<confirmed, counted>>
    BY <1>1, <1>6, <2>2 DEF RecvM4, EndSession, ClearSession, Send
  <2>4. r.session = session[B] /\ x.sid = sid[B]
    BY DEF ResultMsg
  <2> HIDE DEF r, x
  <2>5. SessionRequested' /\ WaitConfirmed'
    BY <1>1, <1>2, <2>3 DEF CountInv, SessionRequested, WaitConfirmed
  <2>6. ResultsAccepted'
    BY <2>1, <2>3, <2>4 DEF CountInv, ResultsAccepted
  <2>7. CountedAnswered'
    BY <2>3 DEF CountInv, CountedAnswered
  <2> QED
    BY <2>5, <2>6, <2>7 DEF CountInv
<1> QED
  BY <1>3, <1>4, <1>5, <1>6 DEF ResponderStep

LEMMA CountNext == CountInv /\ [Next]_vars => CountInv'
<1>1. SUFFICES ASSUME CountInv, [Next]_vars PROVE CountInv'
  OBVIOUS
<1>2. /\ AgreeInv'
      /\ pc \in [Devices -> ProgramStates] /\ A \in Devices
      /\ {"waitResult", "prepare"} \subseteq InSession
  BY <1>1, AgreeNext, TwoDevices DEF CountInv, AgreeInv, TypeInv, TypeOK, InSession,
                                     Waiting, Working
<1>3. ASSUME NEW d \in Devices, CommonStep(d) PROVE CountInv'
  <2>1. CASE Reserve(d)
    <3>1. /\ pc[d] = "prepare" /\ pc'[d] = "reserved"
          /\ \A e \in Devices : e # d => pc'[e] = pc[e]
          /\ UNCHANGED <<session, sid, network, confirmed, accepted, counted>>
      BY <1>2, <2>1 DEF Reserve, history
    <3> QED
      BY <1>1, <1>2, <3>1, CountWithin
  <2>2. CASE Timeout(d) \/ LocalFailure(d) \/ Reject(d)
    <3>1. AfterSession(d) \notin InSession
      BY DEF AfterSession, InSession, Waiting, Working
    <3> QED
      BY <1>1, <1>2, <2>2, <3>1, CountLeave
         DEF Timeout, LocalFailure, Reject, EndSession
  <2> QED
    BY <1>3, <2>1, <2>2 DEF CommonStep
<1>4. ASSUME NEW d \in Devices, PowerStep(d) PROVE CountInv'
  <2>1. PICK place \in {"idle", "listen", "halted"} : pc' = [pc EXCEPT ![d] = place]
    BY <1>4 DEF PowerStep, Boot, BootFails, ReadyState
  <2>2. place \notin InSession
    BY DEF InSession, Waiting, Working
  <2>3. UNCHANGED <<session, sid, network, confirmed, accepted, counted>>
    BY <1>4 DEF PowerStep, Boot, BootFails, local, history
  <2>4. pc'[d] = place /\ \A e \in Devices : e # d => pc'[e] = pc[e]
    BY <1>2, <2>1
  <2> QED
    BY <1>1, <1>2, <2>2, <2>3, <2>4, CountWithin
<1>5. ASSUME NEW d \in Devices, Crash(d) PROVE CountInv'
  <2>1. "off" \notin InSession
    BY DEF InSession, Waiting, Working
  <2> QED
    BY <1>1, <1>2, <1>5, <2>1, CountLeave DEF Crash
<1>6. CASE UNCHANGED vars
  BY <1>1, <1>2, <1>6, CountWithin DEF vars, local, history
<1> QED
  BY <1>1, <1>2, <1>3, <1>4, <1>5, <1>6, CountInitiator, CountResponder DEF Next

\* What A counts as a success, B has accepted in the same handshake, unless two of
\* A's sessions drew the same 32-bit number (RESULT carries nothing else).
THEOREM CountedIsAcceptedHolds == Spec => []CountedIsAccepted
<1>1. CountInv => CountedIsAccepted
  <2>1. SUFFICES ASSUME CountInv, NEW c \in counted,
                        \A m, n \in network : /\ m.type = "M0" /\ m.session = c.session
                                              /\ n.type = "M0" /\ n.session = c.session
                                              => m = n
                 PROVE  \E x \in accepted : x.sid = c.sid
    BY DEF CountedIsAccepted
  <2>2. PICK m \in network : m.type = "RESULT" /\ m.session = c.session
    BY <2>1 DEF CountInv, CountedAnswered
  <2>3. PICK x \in accepted : M0(c.session, x.sid.na) \in network
    BY <2>1, <2>2 DEF CountInv, ResultsAccepted
  <2>4. M0(c.session, c.sid.na) \in network /\ \E y \in confirmed : y.sid = c.sid
    BY <2>1 DEF CountInv, CountedAnswered
  <2>5. x.sid.na = c.sid.na
    BY <2>1, <2>3, <2>4 DEF M0
  <2>6. x \in confirmed
    BY <2>1, <2>3 DEF CountInv, AgreeInv, AcceptedConfirmed
  <2> QED
    BY <2>1, <2>3, <2>4, <2>5, <2>6 DEF CountInv, AgreeInv, OnePerSession
<1> QED
  BY <1>1, CountInit, CountNext, PTL DEF Spec
=============================================================================
