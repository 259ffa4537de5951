------------------------ MODULE UavHandshake_proofs ------------------------
(***************************************************************************)
(* Proofs about UavHandshake, for any configuration that begin() accepts,  *)
(* any number of sessions, crashes and answers, and any session numbers.   *)
(***************************************************************************)
EXTENDS UavHandshake, TLAPS

-----------------------------------------------------------------------------
(* Type correctness *)

\* A device that is in a session has its session number.
SessionUnderWay == \A d \in Devices : pc[d] \in InSession => session[d] \in Sessions

TypeInv == TypeOK /\ SessionUnderWay

\* The two devices are distinct names in Devices.
LEMMA TwoDevices == A \in Devices /\ B \in Devices /\ A # B
BY ConfigAssumption DEF Devices

\* What arrives has the fields of its type.
LEMMA MessagesRead ==
    ASSUME NEW m \in Messages
    PROVE  /\ m.session \in Sessions
           /\ m.type = "M0" => m.na \in Nat
           /\ m.type = "M1" => m.sid \in Sid
           /\ m.type \in {"M2", "M3"} => m.body \in Body
BY DEF Messages

LEMMA ZeroTypes == ZeroSid \in Sid /\ ZeroBody \in Body
BY DEF ZeroSid, ZeroBody, Sid, Body

LEMMA TypeInit == Init => TypeInv
<1>1. SUFFICES ASSUME Init PROVE TypeInv
  OBVIOUS
<1>2. nextq \in [Devices -> Nat]
  BY <1>1, ConfigAssumption DEF Init
<1>3. pc = [d \in Devices |-> "off"] /\ "off" \in ProgramStates
  BY <1>1 DEF Init, ProgramStates
<1>4. SessionUnderWay
  BY <1>3 DEF SessionUnderWay, InSession, Waiting, Working
<1>5. TypeOK
  BY <1>1, <1>2, <1>3, ZeroTypes DEF Init, TypeOK
<1> QED
  BY <1>4, <1>5 DEF TypeInv

\* Leaving a session keeps the types, from whichever exit.
LEMMA TypeEndSession ==
    ASSUME TypeInv, NEW d \in Devices, EndSession(d),
           UNCHANGED <<nextq, booted, starts, answers, crashes, spent, signed>>,
           network' \subseteq Messages,
           confirmed' \subseteq Handshakes,
           accepted' \subseteq Handshakes,
           counted' \subseteq [session : Sessions, sid : Sid]
    PROVE  TypeInv'
<1>1. AfterSession(d) \in ProgramStates \ InSession
  BY DEF AfterSession, ProgramStates, InSession, Waiting, Working
<1>2. /\ pc' \in [Devices -> ProgramStates]
      /\ \A e \in Devices : pc'[e] \in InSession => e # d /\ pc[e] \in InSession
  BY <1>1 DEF TypeInv, TypeOK, EndSession
<1>3. session' \in [Devices -> Sessions \cup {0}]
      /\ \A e \in Devices : e # d => session'[e] = session[e]
  BY DEF TypeInv, TypeOK, EndSession, ClearSession
<1>4. SessionUnderWay'
  BY <1>2, <1>3 DEF TypeInv, SessionUnderWay
<1>5. finished' \in Nat
  BY DEF TypeInv, TypeOK, EndSession
<1>6. sid' \in [Devices -> Sid] /\ ownq' \in [Devices -> Nat]
      /\ m2' \in [Devices -> Body] /\ inner' \in [Devices -> Body]
  BY ZeroTypes DEF TypeInv, TypeOK, EndSession, ClearSession
<1> QED
  BY <1>2, <1>3, <1>4, <1>5, <1>6 DEF TypeInv, TypeOK

\* A step that leaves the sessions, the messages and the history alone.
LEMMA TypeQuiet ==
    ASSUME TypeInv, pc' \in [Devices -> ProgramStates],
           \A d \in Devices : pc'[d] \in InSession => pc[d] \in InSession,
           nextq' \in [Devices -> Nat], booted' \in [Devices -> BOOLEAN],
           UNCHANGED <<finished, session, sid, ownq, m2, inner, network, starts,
                       answers, crashes, spent, signed, confirmed, accepted,
                       counted>>
    PROVE  TypeInv'
BY DEF TypeInv, TypeOK, SessionUnderWay

LEMMA TypePower ==
    ASSUME TypeInv, NEW d \in Devices, PowerStep(d)
    PROVE  TypeInv'
<1>1. CASE Boot(d)
  <2>1. PICK q \in BootCounter(d) :
          /\ nextq' = [nextq EXCEPT ![d] = q]
          /\ pc' = [pc EXCEPT ![d] = IF InRange(q) THEN ReadyState(d)
                                                   ELSE "halted"]
    BY <1>1 DEF Boot
  <2>2. q \in Nat
    BY ConfigAssumption DEF BootCounter, TypeInv, TypeOK
  <2>3. ReadyState(d) \in ProgramStates \ InSession
    BY DEF ReadyState, ProgramStates, InSession, Waiting, Working
  <2>4. "halted" \in ProgramStates \ InSession
    BY DEF ProgramStates, InSession, Waiting, Working
  <2>5. /\ pc' \in [Devices -> ProgramStates]
        /\ \A e \in Devices : pc'[e] \in InSession => pc[e] \in InSession
    BY <2>1, <2>3, <2>4 DEF TypeInv, TypeOK
  <2>6. nextq' \in [Devices -> Nat] /\ booted' \in [Devices -> BOOLEAN]
    BY <1>1, <2>1, <2>2 DEF Boot, TypeInv, TypeOK
  <2> QED
    BY <1>1, <2>5, <2>6, TypeQuiet DEF Boot, local, history
<1>2. CASE BootFails(d)
  <2>1. "halted" \in ProgramStates \ InSession
    BY DEF ProgramStates, InSession, Waiting, Working
  <2>2. /\ pc' \in [Devices -> ProgramStates]
        /\ \A e \in Devices : pc'[e] \in InSession => pc[e] \in InSession
    BY <1>2, <2>1 DEF BootFails, TypeInv, TypeOK
  <2> QED
    BY <1>2, <2>2, TypeQuiet DEF BootFails, local, history, TypeInv, TypeOK
<1> QED
  BY <1>1, <1>2 DEF PowerStep

LEMMA TypeCrash ==
    ASSUME TypeInv, NEW d \in Devices, Crash(d)
    PROVE  TypeInv'
<1>1. "off" \in ProgramStates \ InSession
  BY DEF ProgramStates, InSession, Waiting, Working
<1>2. /\ pc' \in [Devices -> ProgramStates]
      /\ \A e \in Devices : pc'[e] \in InSession => e # d /\ pc[e] \in InSession
  BY <1>1 DEF Crash, TypeInv, TypeOK
<1>3. /\ session' \in [Devices -> Sessions \cup {0}]
      /\ \A e \in Devices : e # d => session'[e] = session[e]
  BY DEF TypeInv, TypeOK, Crash, ClearSession
<1>4. SessionUnderWay'
  BY <1>2, <1>3 DEF TypeInv, SessionUnderWay
<1>5. sid' \in [Devices -> Sid] /\ ownq' \in [Devices -> Nat]
      /\ m2' \in [Devices -> Body] /\ inner' \in [Devices -> Body]
  BY ZeroTypes DEF TypeInv, TypeOK, Crash, ClearSession
<1>6. finished' \in Nat /\ crashes' \in Nat
  BY DEF TypeInv, TypeOK, Crash
<1> QED
  BY <1>2, <1>3, <1>4, <1>5, <1>6 DEF TypeInv, TypeOK, Crash, history

LEMMA TypeCommon ==
    ASSUME TypeInv, NEW d \in Devices, CommonStep(d)
    PROVE  TypeInv'
<1>1. CASE Reserve(d)
  <2>1. /\ "reserved" \in ProgramStates
        /\ pc[d] \in InSession
    BY <1>1 DEF Reserve, ProgramStates, InSession, Working
  <2>2. SessionUnderWay' /\ pc' \in [Devices -> ProgramStates]
    BY <1>1, <2>1 DEF Reserve, TypeInv, TypeOK, SessionUnderWay
  <2>3. /\ nextq' \in [Devices -> Nat] /\ ownq' \in [Devices -> Nat]
        /\ spent' \in [Devices -> SUBSET Nat]
    BY <1>1 DEF Reserve, TypeInv, TypeOK
  <2> QED
    BY <1>1, <2>2, <2>3 DEF Reserve, TypeInv, TypeOK, history
<1>2. CASE Timeout(d)
  BY <1>2, TypeEndSession DEF Timeout, TypeInv, TypeOK, history
<1>3. CASE LocalFailure(d)
  BY <1>3, TypeEndSession DEF LocalFailure, TypeInv, TypeOK, history
<1>4. CASE Reject(d)
  BY <1>4, TypeEndSession DEF Reject, TypeInv, TypeOK, history
<1> QED
  BY <1>1, <1>2, <1>3, <1>4 DEF CommonStep

\* What both ends sign, derive and record.
LEMMA PartsBuilt ==
    ASSUME TypeInv, NEW b \in Body
    PROVE  /\ BuiltM2 \in Body
           /\ BuiltM3 \in Body
           /\ InitiatorKey(b) \in Keys
           /\ ResponderKey(b) \in Keys
           /\ Signature(A, ownq[A], b) \in Signatures
           /\ Signature(B, ownq[B], M3Object(m2[B], b)) \in Signatures
BY TwoDevices DEF TypeInv, TypeOK, BuiltM2, BuiltM3, InitiatorKey, ResponderKey,
      Key, Keys, Signature, Signatures, M3Object, Sid, Body

\* A step of d that goes on with its session and may send.
LEMMA TypeProgress ==
    ASSUME TypeInv, NEW d \in Devices, NEW next \in InSession,
           pc' = [pc EXCEPT ![d] = next],
           session' \in [Devices -> Sessions \cup {0}], session'[d] \in Sessions,
           \A e \in Devices : e # d => session'[e] = session[e],
           sid' \in [Devices -> Sid], m2' \in [Devices -> Body],
           inner' \in [Devices -> Body],
           network' \subseteq Messages, signed' \subseteq Signatures,
           confirmed' \subseteq Handshakes, starts' \in Nat, answers' \in Nat,
           UNCHANGED <<nextq, booted, finished, ownq, crashes, spent, accepted,
                       counted>>
    PROVE  TypeInv'
<1>1. next \in ProgramStates
  BY DEF ProgramStates
<1>2. pc' \in [Devices -> ProgramStates]
  BY <1>1 DEF TypeInv, TypeOK
<1>3. SessionUnderWay'
  BY DEF TypeInv, TypeOK, SessionUnderWay
<1> QED
  BY <1>2, <1>3 DEF TypeInv, TypeOK

LEMMA TypeInitiator ==
    ASSUME TypeInv, InitiatorStep
    PROVE  TypeInv'
<1> USE TwoDevices
<1>0. /\ {"prepare", "waitM1", "waitM3", "waitResult", "reserved"}
           \subseteq InSession
      /\ network \subseteq Messages
  BY DEF InSession, Waiting, Working, TypeInv, TypeOK
<1>1. CASE StartSession
  <2>1. PICK s \in Sessions : /\ session' = [session EXCEPT ![A] = s]
                              /\ Send(M0(s, starts + 1))
    BY <1>1 DEF StartSession
  <2>2. starts + 1 \in Nat
    BY DEF TypeInv, TypeOK
  <2>3. sid' \in [Devices -> Sid]
    BY <1>1, <2>2 DEF StartSession, TypeInv, TypeOK, Sid
  <2>4. network' \subseteq Messages
    BY <1>0, <2>1, <2>2 DEF Send, M0, Messages
  <2>5. session' \in [Devices -> Sessions \cup {0}] /\ session'[A] \in Sessions
        /\ \A e \in Devices : e # A => session'[e] = session[e]
    BY <2>1 DEF TypeInv, TypeOK
  <2> QED
    BY <1>0, <1>1, <2>2, <2>3, <2>4, <2>5, TypeProgress
       DEF StartSession, history, TypeInv, TypeOK
<1>2. CASE RecvM1
  <2>1. PICK m \in Arrived(A) : sid' = [sid EXCEPT ![A] = m.sid]
    BY <1>2 DEF RecvM1
  <2>2. m \in Messages /\ m.type = "M1"
    BY <1>0, <1>2 DEF RecvM1, Arrived, Awaited
  <2>3. sid' \in [Devices -> Sid]
    BY <2>1, <2>2, MessagesRead DEF TypeInv, TypeOK
  <2>4. session[A] \in Sessions
    BY <1>2, <1>0 DEF RecvM1, TypeInv, SessionUnderWay
  <2> QED
    BY <1>0, <1>2, <2>3, <2>4, TypeProgress DEF RecvM1, history, TypeInv, TypeOK
<1>3. CASE SendM2
  <2>1. session[A] \in Sessions
    BY <1>3, <1>0 DEF SendM2, TypeInv, SessionUnderWay, InSession, Working
  <2>2. BuiltM2 \in Body /\ Signature(A, ownq[A], BuiltM2) \in Signatures
    BY PartsBuilt, ZeroTypes
  <2>3. network' \subseteq Messages /\ signed' \subseteq Signatures
    <3>1. M2Msg(session[A], BuiltM2) \in Messages
      BY <2>1, <2>2 DEF M2Msg, Messages
    <3> QED
      BY <1>3, <3>1, <2>2 DEF SendM2, Send, SignWith, TypeInv, TypeOK
  <2>4. m2' \in [Devices -> Body]
    BY <1>3, <2>2 DEF SendM2, TypeInv, TypeOK
  <2> QED
    BY <1>0, <1>3, <2>1, <2>3, <2>4, TypeProgress
       DEF SendM2, history, TypeInv, TypeOK
<1>4. CASE RecvM3
  <2>1. PICK m \in Arrived(A) :
          /\ inner' = [inner EXCEPT ![A] = m.body]
          /\ confirmed' = confirmed \cup
                {[sid |-> sid[A], key |-> InitiatorKey(m.body),
                  qA |-> ownq[A], qB |-> m.body.q]}
          /\ Send(M4Msg(session[A], sid[A], Tag(A, InitiatorKey(m.body))))
    BY <1>4 DEF RecvM3
  <2>2. m \in Messages /\ m.type = "M3"
    BY <1>0, <1>4 DEF RecvM3, Arrived, Awaited
  <2>3. m.body \in Body /\ InitiatorKey(m.body) \in Keys
    BY <2>2, MessagesRead, PartsBuilt
  <2>4. session[A] \in Sessions
    BY <1>4, <1>0 DEF RecvM3, TypeInv, SessionUnderWay
  <2>5. inner' \in [Devices -> Body]
    BY <2>1, <2>3 DEF TypeInv, TypeOK
  <2>6. confirmed' \subseteq Handshakes
    BY <2>1, <2>3 DEF TypeInv, TypeOK, Handshakes, Body
  <2>7. network' \subseteq Messages
    <3>1. sid[A] \in Sid
      BY DEF TypeInv, TypeOK
    <3>2. M4Msg(session[A], sid[A], Tag(A, InitiatorKey(m.body))) \in Messages
      BY <2>3, <2>4, <3>1 DEF M4Msg, Tag, Messages
    <3> QED
      BY <1>0, <2>1, <3>2 DEF Send
  <2> QED
    BY <1>0, <1>4, <2>4, <2>5, <2>6, <2>7, TypeProgress
       DEF RecvM3, TypeInv, TypeOK
<1>5. CASE RecvResult
  <2>1. session[A] \in Sessions
    BY <1>5, <1>0 DEF RecvResult, TypeInv, SessionUnderWay
  <2>2. counted' \subseteq [session : Sessions, sid : Sid]
    BY <1>5, <2>1 DEF RecvResult, TypeInv, TypeOK
  <2> QED
    BY <1>5, <2>2, TypeEndSession DEF RecvResult, TypeInv, TypeOK
<1> QED
  BY <1>1, <1>2, <1>3, <1>4, <1>5 DEF InitiatorStep

LEMMA TypeResponder ==
    ASSUME TypeInv, ResponderStep
    PROVE  TypeInv'
<1> USE TwoDevices
<1>0. /\ {"prepare", "waitM2", "waitM4", "reserved"} \subseteq InSession
      /\ network \subseteq Messages
  BY DEF InSession, Waiting, Working, TypeInv, TypeOK
<1>1. CASE RecvM0
  <2>1. PICK m \in Arrived(B) :
          LET id == [na |-> m.na, nb |-> answers + 1]
          IN  /\ session' = [session EXCEPT ![B] = m.session]
              /\ sid' = [sid EXCEPT ![B] = id]
              /\ Send(M1(m.session, id))
    BY <1>1 DEF RecvM0
  <2>2. m \in Messages /\ m.type = "M0"
    BY <1>0, <1>1 DEF RecvM0, Arrived, Awaited
  <2>3. m.session \in Sessions /\ m.na \in Nat
    BY <2>2, MessagesRead
  <2>4. [na |-> m.na, nb |-> answers + 1] \in Sid
    BY <2>3 DEF Sid, TypeInv, TypeOK
  <2>5. sid' \in [Devices -> Sid] /\ answers' \in Nat
    BY <1>1, <2>1, <2>4 DEF RecvM0, TypeInv, TypeOK
  <2>6. network' \subseteq Messages
    BY <1>0, <2>1, <2>3, <2>4 DEF Send, M1, Messages
  <2>7. session' \in [Devices -> Sessions \cup {0}] /\ session'[B] \in Sessions
        /\ \A e \in Devices : e # B => session'[e] = session[e]
    BY <2>1, <2>3 DEF TypeInv, TypeOK
  <2> QED
    BY <1>0, <1>1, <2>5, <2>6, <2>7, TypeProgress
       DEF RecvM0, history, TypeInv, TypeOK
<1>2. CASE RecvM2
  <2>1. PICK m \in Arrived(B) : m2' = [m2 EXCEPT ![B] = m.body]
    BY <1>2 DEF RecvM2
  <2>2. m \in Messages /\ m.type = "M2"
    BY <1>0, <1>2 DEF RecvM2, Arrived, Awaited
  <2>3. m2' \in [Devices -> Body]
    BY <2>1, <2>2, MessagesRead DEF TypeInv, TypeOK
  <2>4. session[B] \in Sessions
    BY <1>2, <1>0 DEF RecvM2, TypeInv, SessionUnderWay
  <2> QED
    BY <1>0, <1>2, <2>3, <2>4, TypeProgress DEF RecvM2, history, TypeInv, TypeOK
<1>3. CASE SendM3
  <2>1. session[B] \in Sessions
    BY <1>3, <1>0 DEF SendM3, TypeInv, SessionUnderWay
  <2>2. /\ BuiltM3 \in Body
        /\ ResponderKey(BuiltM3) \in Keys
        /\ Signature(B, ownq[B], M3Object(m2[B], BuiltM3)) \in Signatures
    BY PartsBuilt, ZeroTypes
  <2>3. network' \subseteq Messages /\ signed' \subseteq Signatures
    <3>1. M3Msg(session[B], BuiltM3, Tag(B, ResponderKey(BuiltM3))) \in Messages
      BY <2>1, <2>2 DEF M3Msg, Tag, Messages
    <3> QED
      BY <1>3, <3>1, <2>2 DEF SendM3, Send, SignWith, TypeInv, TypeOK
  <2>4. inner' \in [Devices -> Body]
    BY <1>3, <2>2 DEF SendM3, TypeInv, TypeOK
  <2> QED
    BY <1>0, <1>3, <2>1, <2>3, <2>4, TypeProgress
       DEF SendM3, history, TypeInv, TypeOK
<1>4. CASE RecvM4
  <2>1. session[B] \in Sessions
    BY <1>4, <1>0 DEF RecvM4, TypeInv, SessionUnderWay, InSession, Waiting
  <2>2. inner[B] \in Body /\ m2[B] \in Body /\ ownq[B] \in Nat /\ sid[B] \in Sid
    BY DEF TypeInv, TypeOK
  <2>3. accepted' \subseteq Handshakes
    <3>1. ResponderKey(inner[B]) \in Keys
      BY <2>2, PartsBuilt
    <3> QED
      BY <1>4, <2>2, <3>1 DEF RecvM4, TypeInv, TypeOK, Handshakes, Body
  <2>4. network' \subseteq Messages
    BY <1>0, <1>4, <2>1, <2>2 DEF RecvM4, Send, ResultMsg, Messages, Body
  <2> QED
    BY <1>4, <2>3, <2>4, TypeEndSession DEF RecvM4, TypeInv, TypeOK
<1> QED
  BY <1>1, <1>2, <1>3, <1>4 DEF ResponderStep

LEMMA TypeNext == TypeInv /\ [Next]_vars => TypeInv'
<1>1. SUFFICES ASSUME TypeInv, [Next]_vars PROVE TypeInv'
  OBVIOUS
<1>2. CASE InitiatorStep
  BY <1>1, <1>2, TypeInitiator
<1>3. CASE ResponderStep
  BY <1>1, <1>3, TypeResponder
<1>4. CASE \E d \in Devices : CommonStep(d) \/ PowerStep(d) \/ Crash(d)
  BY <1>1, <1>4, TypeCommon, TypePower, TypeCrash
<1>5. CASE UNCHANGED vars
  BY <1>1, <1>5 DEF vars, local, history, TypeInv, TypeOK, SessionUnderWay
<1> QED
  BY <1>1, <1>2, <1>3, <1>4, <1>5 DEF Next

\* TypeOK holds of every reachable state: no handler of either role takes a
\* frame, an index or a session number of the wrong kind, and a device in a
\* session has a session number (runInitiatorSession, runResponderOnce).
THEOREM TypeCorrect == Spec => []TypeOK
<1>1. TypeInv => TypeOK
  BY DEF TypeInv
<1> QED
  BY <1>1, TypeInit, TypeNext, PTL DEF Spec

-----------------------------------------------------------------------------
(* One-time signing *)

\* Before its first successful boot a device has used no index, so the reset
\* that the flag asks for cannot take one back.
UnusedUntilBooted ==
    \A d \in Devices : ~booted[d] => spent[d] = {} /\ pc[d] \in {"off", "halted"}

\* The inductive invariant behind OneTimeSigning and PersistedBeforeUse.
OneTimeInv == /\ TypeInv
              /\ PersistedBeforeUse
              /\ OneTimeSigning
              /\ UnusedUntilBooted

\* The sketch that resets the counter is replaced before the second boot, or
\* was never used.
NoStaleReset == PromptReflash \/ ResetDevices = {}

\* The counter that a boot finds is the one in flash, or the device is new.
LEMMA BootCounterKept ==
    ASSUME NoStaleReset, NEW d \in Devices, booted[d], NEW q \in BootCounter(d)
    PROVE  q = nextq[d]
BY DEF BootCounter, ResetFlag, NoStaleReset

LEMMA OneTimeInit == Init => OneTimeInv
<1>1. SUFFICES ASSUME Init PROVE OneTimeInv
  OBVIOUS
<1>2. PersistedBeforeUse /\ OneTimeSigning /\ UnusedUntilBooted
  BY <1>1 DEF Init, PersistedBeforeUse, OneTimeSigning, UnusedUntilBooted
<1> QED
  BY <1>1, <1>2, TypeInit DEF OneTimeInv

\* A step that neither uses an index nor comes to hold one.
LEMMA OneTimeQuiet ==
    ASSUME OneTimeInv, TypeInv',
           UNCHANGED <<booted, spent, signed, nextq>>,
           \A d \in Devices : pc'[d] = "reserved" =>
              pc[d] = "reserved" /\ ownq'[d] = ownq[d],
           \A d \in Devices : pc'[d] \in {"off", "halted"} \/ pc'[d] = pc[d]
                                \/ pc[d] \notin {"off", "halted"}
    PROVE  OneTimeInv'
<1>1. PersistedBeforeUse'
  BY DEF OneTimeInv, PersistedBeforeUse
<1>2. OneTimeSigning'
  BY DEF OneTimeInv, OneTimeSigning
<1>3. UnusedUntilBooted'
  BY DEF OneTimeInv, UnusedUntilBooted
<1> QED
  BY <1>1, <1>2, <1>3 DEF OneTimeInv

\* A boot reads a counter that is above every index used.
LEMMA OneTimeBoot ==
    ASSUME NoStaleReset, OneTimeInv, TypeInv', NEW d \in Devices, Boot(d)
    PROVE  OneTimeInv'
<1>1. PICK q \in BootCounter(d) :
        /\ nextq' = [nextq EXCEPT ![d] = q]
        /\ pc' = [pc EXCEPT ![d] = IF InRange(q) THEN ReadyState(d)
                                                 ELSE "halted"]
  BY DEF Boot
<1>2. pc \in [Devices -> ProgramStates] /\ nextq \in [Devices -> Nat]
      /\ booted \in [Devices -> BOOLEAN]
  BY DEF OneTimeInv, TypeInv, TypeOK
<1>3. \A e \in Devices : pc'[e] = "reserved" => pc[e] = "reserved"
  BY <1>1, <1>2 DEF ReadyState
<1>4. \A e \in Devices : \A p \in spent[e] : p < nextq'[e]
  <2>1. CASE booted[d]
    BY <2>1, <1>1, <1>2, BootCounterKept DEF OneTimeInv, PersistedBeforeUse
  <2>2. CASE ~booted[d]
    BY <2>2, <1>1, <1>2 DEF OneTimeInv, PersistedBeforeUse, UnusedUntilBooted
  <2> QED
    BY <2>1, <2>2
<1>5. UNCHANGED <<spent, signed, ownq>>
  BY DEF Boot, local
<1>6. PersistedBeforeUse'
  BY <1>3, <1>4, <1>5 DEF OneTimeInv, PersistedBeforeUse
<1>7. UnusedUntilBooted'
  BY <1>1, <1>2, <1>5 DEF Boot, OneTimeInv, UnusedUntilBooted
<1>8. OneTimeSigning'
  BY <1>5 DEF OneTimeInv, OneTimeSigning
<1> QED
  BY <1>6, <1>7, <1>8 DEF OneTimeInv

\* The index that reserveQ hands out is new, and the counter moves past it.
LEMMA OneTimeReserve ==
    ASSUME OneTimeInv, TypeInv', NEW d \in Devices, Reserve(d)
    PROVE  OneTimeInv'
<1>1. /\ pc \in [Devices -> ProgramStates] /\ nextq \in [Devices -> Nat]
      /\ ownq \in [Devices -> Nat] /\ spent \in [Devices -> SUBSET Nat]
      /\ signed \subseteq Signatures
  BY DEF OneTimeInv, TypeInv, TypeOK
<1>2. \A e \in Devices : \A p \in spent'[e] : p < nextq'[e]
  BY <1>1 DEF Reserve, OneTimeInv, PersistedBeforeUse
<1>3. \A s \in signed : s.dev \in Devices /\ s.q \in spent[s.dev]
  BY <1>1, TwoDevices DEF OneTimeInv, PersistedBeforeUse, Signatures
<1>4. \A s \in signed' : s.q \in spent'[s.dev]
  BY <1>1, <1>3 DEF Reserve
<1>5. \A e \in Devices : pc'[e] = "reserved" =>
         /\ ownq'[e] \in spent'[e]
         /\ \A s \in signed' : s.dev = e => s.q # ownq'[e]
  <2>1. \A s \in signed : s.dev = d => s.q # nextq[d]
    BY <1>1, <1>3 DEF OneTimeInv, PersistedBeforeUse
  <2> QED
    BY <1>1, <2>1 DEF Reserve, OneTimeInv, PersistedBeforeUse
<1>6. UnusedUntilBooted'
  BY <1>1 DEF Reserve, OneTimeInv, UnusedUntilBooted
<1>7. OneTimeSigning'
  BY DEF Reserve, OneTimeInv, OneTimeSigning
<1> QED
  BY <1>2, <1>4, <1>5, <1>6, <1>7 DEF OneTimeInv, PersistedBeforeUse

\* Signing uses the index in hand, which has signed nothing, and lets go of it.
LEMMA OneTimeSign ==
    ASSUME OneTimeInv, TypeInv', NEW d \in Devices, NEW obj, NEW next,
           pc[d] = "reserved", next \notin {"reserved", "off", "halted"},
           pc' = [pc EXCEPT ![d] = next],
           SignWith(d, obj),
           UNCHANGED <<nextq, booted, spent, ownq>>
    PROVE  OneTimeInv'
<1>1. pc \in [Devices -> ProgramStates]
  BY DEF OneTimeInv, TypeInv, TypeOK
<1>2. /\ Signature(d, ownq[d], obj).dev = d
      /\ Signature(d, ownq[d], obj).q = ownq[d]
      /\ signed' = signed \cup {Signature(d, ownq[d], obj)}
  BY DEF Signature, SignWith
<1>3. /\ ownq[d] \in spent[d]
      /\ \A s \in signed : s.dev = d => s.q # ownq[d]
  BY DEF OneTimeInv, PersistedBeforeUse
<1>4. OneTimeSigning'
  BY <1>2, <1>3 DEF OneTimeInv, OneTimeSigning
<1>5. \A s \in signed' : s.q \in spent[s.dev]
  BY <1>2, <1>3 DEF OneTimeInv, PersistedBeforeUse
<1>6. \A e \in Devices : pc'[e] = "reserved" =>
         /\ ownq[e] \in spent[e]
         /\ \A s \in signed' : s.dev = e => s.q # ownq[e]
  BY <1>1, <1>2 DEF OneTimeInv, PersistedBeforeUse
<1>7. PersistedBeforeUse'
  BY <1>5, <1>6 DEF OneTimeInv, PersistedBeforeUse
<1>8. UnusedUntilBooted'
  BY <1>1 DEF OneTimeInv, UnusedUntilBooted
<1> QED
  BY <1>4, <1>7, <1>8 DEF OneTimeInv

LEMMA OneTimeNext ==
    ASSUME NoStaleReset, OneTimeInv, [Next]_vars
    PROVE  OneTimeInv'
<1>1. TypeInv'
  BY TypeNext DEF OneTimeInv
<1>2. /\ pc \in [Devices -> ProgramStates]
      /\ A \in Devices /\ B \in Devices
  BY TwoDevices DEF OneTimeInv, TypeInv, TypeOK
<1>3. ASSUME NEW d \in Devices, EndSession(d),
             pc[d] \notin {"off", "halted"},
             UNCHANGED <<nextq, booted, spent, signed>>
      PROVE  OneTimeInv'
  <2>1. AfterSession(d) \notin {"reserved", "off", "halted"}
    BY DEF AfterSession
  <2>2. \A e \in Devices : e # d => pc'[e] = pc[e] /\ ownq'[e] = ownq[e]
    BY <1>2, <1>3 DEF EndSession, ClearSession, OneTimeInv, TypeInv, TypeOK
  <2>3. pc'[d] = AfterSession(d)
    BY <1>2, <1>3 DEF EndSession
  <2> QED
    BY <1>1, <1>3, <2>1, <2>2, <2>3, OneTimeQuiet
<1>4. CASE InitiatorStep
  <2>1. CASE SendM2
    BY <1>1, <1>2, <2>1, OneTimeSign DEF SendM2
  <2>2. CASE RecvResult
    BY <1>2, <2>2, <1>3 DEF RecvResult
  <2>3. CASE StartSession \/ RecvM1 \/ RecvM3
    BY <1>1, <1>2, <2>3, OneTimeQuiet DEF StartSession, RecvM1, RecvM3, history
  <2> QED
    BY <1>4, <2>1, <2>2, <2>3 DEF InitiatorStep
<1>5. CASE ResponderStep
  <2>1. CASE SendM3
    BY <1>1, <1>2, <2>1, OneTimeSign DEF SendM3
  <2>2. CASE RecvM4
    BY <1>2, <2>2, <1>3 DEF RecvM4
  <2>3. CASE RecvM0 \/ RecvM2
    BY <1>1, <1>2, <2>3, OneTimeQuiet DEF RecvM0, RecvM2, history
  <2> QED
    BY <1>5, <2>1, <2>2, <2>3 DEF ResponderStep
<1>6. ASSUME NEW d \in Devices, CommonStep(d) PROVE OneTimeInv'
  <2>1. CASE Reserve(d)
    BY <1>1, <2>1, OneTimeReserve
  <2>2. CASE Timeout(d) \/ LocalFailure(d) \/ Reject(d)
    <3>1. pc[d] \notin {"off", "halted"}
      BY <2>2 DEF Timeout, LocalFailure, Reject, Waiting, Working
    <3> QED
      BY <1>3, <2>2, <3>1 DEF Timeout, LocalFailure, Reject
  <2> QED
    BY <1>6, <2>1, <2>2 DEF CommonStep
<1>7. ASSUME NEW d \in Devices, PowerStep(d) PROVE OneTimeInv'
  <2>1. CASE Boot(d)
    BY <1>1, <2>1, OneTimeBoot
  <2>2. CASE BootFails(d)
    BY <1>1, <1>2, <2>2, OneTimeQuiet DEF BootFails, local
  <2> QED
    BY <1>7, <2>1, <2>2 DEF PowerStep
<1>8. ASSUME NEW d \in Devices, Crash(d) PROVE OneTimeInv'
  <2>1. \A e \in Devices : e # d => pc'[e] = pc[e] /\ ownq'[e] = ownq[e]
    BY <1>2, <1>8 DEF Crash, ClearSession, OneTimeInv, TypeInv, TypeOK
  <2>2. pc'[d] = "off"
    BY <1>2, <1>8 DEF Crash
  <2> QED
    BY <1>1, <1>8, <2>1, <2>2, OneTimeQuiet DEF Crash
<1>9. CASE UNCHANGED vars
  BY <1>1, <1>9, OneTimeQuiet DEF vars, local
<1> QED
  BY <1>4, <1>5, <1>6, <1>7, <1>8, <1>9 DEF Next

\* The invariant, and with it the two properties of the counter: no LM-OTS
\* index signs two objects, and an index in use is behind the counter in
\* flash, whatever crashes, replays and lost messages come between reserveQ
\* and sign.
THEOREM OneTimeInvariant ==
    ASSUME NoStaleReset
    PROVE  Spec => []OneTimeInv
BY OneTimeInit, OneTimeNext, PTL DEF Spec

\* "A crash may skip q, but does not reuse q" (reserveQ).
THEOREM OneTimeSigningHolds ==
    ASSUME NoStaleReset
    PROVE  Spec => []OneTimeSigning
<1>1. OneTimeInv => OneTimeSigning
  BY DEF OneTimeInv
<1> QED
  BY <1>1, OneTimeInvariant, PTL

\* The index is in flash as used before a signature with it exists.
THEOREM PersistedBeforeUseHolds ==
    ASSUME NoStaleReset
    PROVE  Spec => []PersistedBeforeUse
<1>1. OneTimeInv => PersistedBeforeUse
  BY DEF OneTimeInv
<1> QED
  BY <1>1, OneTimeInvariant, PTL

-----------------------------------------------------------------------------
(* The counter in flash *)

\* Of all steps only a boot and reserveQ write the counter.
LEMMA CounterWriters ==
    ASSUME [Next]_vars
    PROVE  \/ UNCHANGED nextq
           \/ \E d \in Devices : Boot(d) \/ Reserve(d)
<1>1. CASE InitiatorStep \/ ResponderStep
  BY <1>1 DEF InitiatorStep, StartSession, RecvM1, SendM2, RecvM3, RecvResult,
              ResponderStep, RecvM0, RecvM2, SendM3, RecvM4
<1>2. CASE \E d \in Devices : CommonStep(d) \/ PowerStep(d) \/ Crash(d)
  BY <1>2 DEF CommonStep, Timeout, LocalFailure, Reject, PowerStep, BootFails,
              Crash
<1>3. CASE UNCHANGED vars
  BY <1>3 DEF vars
<1> QED
  BY <1>1, <1>2, <1>3 DEF Next

\* Once a device has booted its counter moves forward, one index at a time,
\* and never back: a later boot reads it and reserveQ adds one to it
\* (initializePersistentCounter, reserveQ).
THEOREM CounterAdvances ==
    ASSUME NoStaleReset
    PROVE  Spec => CounterOnlyAdvances
<1>1. ASSUME TypeInv, [Next]_vars
      PROVE  \A d \in Devices : booted[d] => nextq'[d] \in {nextq[d], nextq[d] + 1}
  <2>1. nextq \in [Devices -> Nat]
    BY <1>1 DEF TypeInv, TypeOK
  <2>2. CASE UNCHANGED nextq
    BY <2>2
  <2>3. ASSUME NEW d \in Devices, Boot(d), NEW e \in Devices, booted[e]
        PROVE  nextq'[e] = nextq[e]
    BY <2>1, <2>3, BootCounterKept DEF Boot
  <2>4. ASSUME NEW d \in Devices, Reserve(d), NEW e \in Devices
        PROVE  nextq'[e] \in {nextq[e], nextq[e] + 1}
    BY <2>1, <2>4 DEF Reserve
  <2> QED
    BY <1>1, <2>2, <2>3, <2>4, CounterWriters
<1> QED
  BY <1>1, TypeInit, TypeNext, PTL DEF Spec, CounterOnlyAdvances

\* The indices used are the abstract service's (reserveQ checks the range in the step
\* that counts them).
WithinEnrolledRange ==
    \A d \in Devices :
      spent[d] \subseteq FirstQ .. FirstQ + NumberOfSessions - 1

\* No index is used outside the range that the experiment enrolled paths for
\* (initializePersistentCounter, reserveQ), reset flag or not.
LEMMA WithinEnrolledRangeInvariant == Spec => []WithinEnrolledRange
<1>1. Init => WithinEnrolledRange
  BY DEF Init, WithinEnrolledRange
<1>2. ASSUME TypeInv, WithinEnrolledRange, [Next]_vars
      PROVE  WithinEnrolledRange'
  <2>1. CASE UNCHANGED spent
    BY <1>2, <2>1 DEF WithinEnrolledRange
  <2>2. ASSUME NEW d \in Devices, Reserve(d) PROVE WithinEnrolledRange'
    <3>1. nextq[d] \in FirstQ .. FirstQ + NumberOfSessions - 1
      BY <1>2, <2>2, ConfigAssumption DEF Reserve, InRange, TypeInv, TypeOK
    <3> QED
      BY <1>2, <2>2, <3>1 DEF Reserve, WithinEnrolledRange, TypeInv, TypeOK
  <2>3. UNCHANGED spent \/ \E d \in Devices : Reserve(d)
    <3>1. CASE InitiatorStep \/ ResponderStep
      BY <3>1 DEF InitiatorStep, StartSession, RecvM1, SendM2, RecvM3,
                  RecvResult, ResponderStep, RecvM0, RecvM2, SendM3, RecvM4
    <3>2. CASE \E d \in Devices : CommonStep(d) \/ PowerStep(d) \/ Crash(d)
      BY <3>2 DEF CommonStep, Timeout, LocalFailure, Reject, PowerStep, Boot,
                  BootFails, Crash
    <3>3. CASE UNCHANGED vars
      BY <3>3 DEF vars
    <3> QED
      BY <1>2, <3>1, <3>2, <3>3 DEF Next
  <2> QED
    BY <2>1, <2>2, <2>3
<1> QED
  BY <1>1, <1>2, TypeInit, TypeNext, PTL DEF Spec

-----------------------------------------------------------------------------
(* The handshake implements the one-time key service *)

\* Every step hands out an index, signs with one, or is none of the service's
\* business.
LEMMA StepImplements ==
    ASSUME OneTimeInv, WithinEnrolledRange, [Next]_vars
    PROVE  [OTK!Next]_(OTK!vars)
<1>1. /\ A \in Devices /\ B \in Devices
      /\ nextq \in [Devices -> Nat] /\ ownq \in [Devices -> Nat]
      /\ spent \in [Devices -> SUBSET Nat]
  BY TwoDevices DEF OneTimeInv, TypeInv, TypeOK
<1>2. ASSUME NEW d \in Devices, Reserve(d) PROVE OTK!Next
  <2>1. nextq[d] \in 0 .. LmsLeaves - 1
    BY <1>1, <1>2, ConfigAssumption DEF Reserve, InRange
  <2>2. OTK!Spend(d, nextq[d])
    BY <1>1, <1>2 DEF Reserve, OTK!Spend, OneTimeInv, PersistedBeforeUse
  <2> QED
    BY <2>1, <2>2 DEF OTK!Next
<1>3. ASSUME NEW d \in Devices, NEW obj, pc[d] = "reserved", SignWith(d, obj),
             UNCHANGED spent
      PROVE  OTK!Next
  <2>1. /\ ownq[d] \in spent[d]
        /\ \A s \in signed : s.dev = d => s.q # ownq[d]
    BY <1>3 DEF OneTimeInv, PersistedBeforeUse
  <2>4. ownq[d] \in 0 .. LmsLeaves - 1
    BY <1>1, <2>1, ConfigAssumption DEF WithinEnrolledRange
  <2>2. /\ Signature(d, ownq[d], obj).dev = d
        /\ Signature(d, ownq[d], obj).q = ownq[d]
        /\ signed' = signed \cup {Signature(d, ownq[d], obj)}
    BY <1>3 DEF Signature, SignWith
  <2>3. OTK!Sign(d, ownq[d])
    BY <1>3, <2>1, <2>2 DEF OTK!Sign
  <2> QED
    BY <1>3, <2>3, <2>4 DEF OTK!Next
<1>4. CASE InitiatorStep
  <2>1. CASE SendM2
    BY <1>1, <1>3, <2>1 DEF SendM2
  <2>2. CASE StartSession \/ RecvM1 \/ RecvM3 \/ RecvResult
    BY <2>2 DEF StartSession, RecvM1, RecvM3, RecvResult, OTK!vars
  <2> QED
    BY <1>4, <2>1, <2>2 DEF InitiatorStep
<1>5. CASE ResponderStep
  <2>1. CASE SendM3
    BY <1>1, <1>3, <2>1 DEF SendM3
  <2>2. CASE RecvM0 \/ RecvM2 \/ RecvM4
    BY <2>2 DEF RecvM0, RecvM2, RecvM4, OTK!vars
  <2> QED
    BY <1>5, <2>1, <2>2 DEF ResponderStep
<1>6. CASE \E d \in Devices : CommonStep(d) \/ PowerStep(d) \/ Crash(d)
  BY <1>2, <1>6 DEF CommonStep, Timeout, LocalFailure, Reject, PowerStep, Boot,
                    BootFails, Crash, OTK!vars
<1>7. CASE UNCHANGED vars
  BY <1>7 DEF vars, OTK!vars
<1> QED
  BY <1>4, <1>5, <1>6, <1>7 DEF Next

\* The two counters in flash, with the crashes, the boots and the whole
\* handshake around them, implement the one-time key service of OneTimeKeys
\* (reserveQ, initializePersistentCounter and the two signing steps).
THEOREM HandshakeImplementsOneTimeKeys ==
    ASSUME NoStaleReset
    PROVE  Spec => ImplementsOneTimeKeys
<1>1. Init => OTK!Init
  BY DEF Init, OTK!Init
<1> QED
  BY <1>1, OneTimeInvariant, WithinEnrolledRangeInvariant, StepImplements, PTL
     DEF Spec, OTK!Spec, ImplementsOneTimeKeys
=============================================================================
