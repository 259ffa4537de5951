---------------------------- MODULE UavHandshake ----------------------------
(***************************************************************************)
(* The handshake M0..M4 between the initiator A and the responder B        *)
(* (ProposedUavProtocol.cpp), with the one-time signature counter that     *)
(* each device keeps in flash, crashes and reboots, and a datagram network *)
(* that loses, duplicates, delays and reorders.                            *)
(*                                                                         *)
(* The network is the set of all messages ever sent: a message that is     *)
(* never received was lost, one that is received again was duplicated.     *)
(* The radio is not assumed to invent messages.                            *)
(*                                                                         *)
(* Random values that the code takes from a 128-bit or larger source are   *)
(* fresh: nonceA and A's ML-KEM key pair are both the number of A's        *)
(* session (one of each per session), nonceB and B's encapsulation are     *)
(* both the number of B's session.  The 32-bit session number of the frame *)
(* header is drawn from Sessions and may repeat.  Hashes, signatures, key  *)
(* derivation and tags are the tuples of what they cover.                  *)
(***************************************************************************)
EXTENDS Naturals, FiniteSets

CONSTANTS
    A, B,              \* the initiator and the responder
    Sessions,          \* the session numbers esp_random() | 1 can return
    FirstQ,            \* config.firstQ
    NumberOfSessions,  \* config.numberOfSessions
    LmsLeaves,         \* LMS_LEAVES, the leaves of a key tree
    StoredQ,           \* what "nextq" may hold when a device first boots
    ResetDevices,      \* devices first booted with resetQCounter = true
    PromptReflash,     \* the flag is back to false before the second boot
    MaxCrashes,        \* bound: crashes of both devices together
    MaxResponderRuns   \* bound: M0s that B answers

Devices == {A, B}

(***************************************************************************)
(* begin() refuses a configuration whose indices do not fit the tree       *)
(* (lines 333-337), so the experiment never runs with one.                 *)
(***************************************************************************)
ASSUME ConfigAssumption ==
    /\ A # B
    /\ Sessions # {} /\ Sessions \subseteq Nat \ {0}
    /\ FirstQ \in Nat
    /\ NumberOfSessions \in Nat \ {0}
    /\ LmsLeaves \in Nat
    /\ FirstQ + NumberOfSessions <= LmsLeaves
    /\ StoredQ \subseteq Nat
    /\ ResetDevices \subseteq Devices
    /\ PromptReflash \in BOOLEAN
    /\ MaxCrashes \in Nat
    /\ MaxResponderRuns \in Nat

VARIABLES
    nextq,      \* NVS: the counter "nextq" of each device
    booted,     \* the device has completed a boot
    pc,         \* where the device is in its program
    finished,   \* sessions that A's experiment loop has been through
    session,    \* frame session number of the session under way, or 0
    sid,        \* the nonces behind SID0: na known from M0, nb from M1
    ownq,       \* the index reserved for the signature under way
    m2,         \* M2 as A built it or B received it, zero before
    inner,      \* the inner M3, zero before
    network,    \* every message sent so far
    starts,     \* history: sessions that A has started
    answers,    \* history: M0s that B has answered
    crashes,    \* history: crashes so far
    spent,      \* history: the indices each device has reserved
    signed,     \* history: the LM-OTS signatures made
    confirmed,  \* history: handshakes in which A verified B's signature and tag
    accepted,   \* history: handshakes in which B verified A's tag
    counted     \* history: sessions that A printed as successful

local   == <<session, sid, ownq, m2, inner>>
history == <<confirmed, accepted, counted>>
vars == <<nextq, booted, pc, finished, network, starts, answers, crashes, spent,
          signed, local, history>>

-----------------------------------------------------------------------------
(* Data *)

Sid == [na : Nat, nb : Nat]
ZeroSid == [na |-> 0, nb |-> 0]

\* What M2 and the inner M3 carry: the session identifier, the signer's index
\* and the ML-KEM public key (M2) or ciphertext (M3).
Body == [sid : Sid, q : Nat, kem : Nat]
ZeroBody == [sid |-> ZeroSid, q |-> 0, kem |-> 0]

\* The secret that A's decapsulation and B's encapsulation agree on, and the
\* transcript.  M0 and M1 are in it through sid.
Key(ek, M2, Inner) == [ek |-> ek, m2 |-> M2, inner |-> Inner]
Keys == [ek : Nat, m2 : Body, inner : Body]

Tag(label, key) == [by |-> label, key |-> key]

\* The objects that are signed; M3's covers the hash of M2.
M3Object(M2, Inner) == [m2 |-> M2, inner |-> Inner]

Signature(d, q, obj) == [dev |-> d, q |-> q, obj |-> obj]

M0(s, na)          == [type |-> "M0", session |-> s, na |-> na]
M1(s, id)          == [type |-> "M1", session |-> s, sid |-> id]
M2Msg(s, body)     == [type |-> "M2", session |-> s, body |-> body]
M3Msg(s, body, t)  == [type |-> "M3", session |-> s, body |-> body, tau |-> t]
M4Msg(s, id, t)    == [type |-> "M4", session |-> s, sid |-> id, tau |-> t]
ResultMsg(s, a, b) == [type |-> "RESULT", session |-> s, qA |-> a, qB |-> b]

Messages ==
         [type : {"M0"}, session : Sessions, na : Nat]
    \cup [type : {"M1"}, session : Sessions, sid : Sid]
    \cup [type : {"M2"}, session : Sessions, body : Body]
    \cup [type : {"M3"}, session : Sessions, body : Body,
          tau : [by : Devices, key : Keys]]
    \cup [type : {"M4"}, session : Sessions, sid : Sid,
          tau : [by : Devices, key : Keys]]
    \cup [type : {"RESULT"}, session : Sessions, qA : Nat, qB : Nat]

Signatures ==
         [dev : {A}, q : Nat, obj : Body]
    \cup [dev : {B}, q : Nat, obj : [m2 : Body, inner : Body]]

Handshakes == [sid : Sid, key : Keys, qA : Nat, qB : Nat]

\* The message a device waits for in each receiving state.
Awaited == [listen |-> "M0", waitM1 |-> "M1", waitM2 |-> "M2",
            waitM3 |-> "M3", waitM4 |-> "M4", waitResult |-> "RESULT"]

Waiting == {"waitM1", "waitM2", "waitM3", "waitM4", "waitResult"}
Working == {"prepare", "reserved"}
InSession == Waiting \cup Working
ProgramStates == InSession \cup {"off", "halted", "idle", "listen", "completed"}

\* Slip: the frame's session number is not compared.
ArrivedAnySession(d) == {m \in network : m.type = Awaited[pc[d]]}

\* receiveProtocolMessage: only a frame of the awaited type is taken, and
\* after M0 only one of the session under way.
Arrived(d) ==
    {m \in network : /\ m.type = Awaited[pc[d]]
                     /\ pc[d] # "listen" => m.session = session[d]}

-----------------------------------------------------------------------------
(* Initial state: both devices are powered off *)

Init ==
    /\ nextq \in [Devices -> StoredQ]
    /\ booted = [d \in Devices |-> FALSE]
    /\ pc = [d \in Devices |-> "off"]
    /\ finished = 0
    /\ session = [d \in Devices |-> 0]
    /\ sid = [d \in Devices |-> ZeroSid]
    /\ ownq = [d \in Devices |-> 0]
    /\ m2 = [d \in Devices |-> ZeroBody]
    /\ inner = [d \in Devices |-> ZeroBody]
    /\ network = {}
    /\ starts = 0
    /\ answers = 0
    /\ crashes = 0
    /\ spent = [d \in Devices |-> {}]
    /\ signed = {}
    /\ confirmed = {}
    /\ accepted = {}
    /\ counted = {}

-----------------------------------------------------------------------------
(* Power, boot and the counter in flash *)

\* The range check of initializePersistentCounter and reserveQ.
InRange(q) == /\ FirstQ <= q
              /\ q < FirstQ + NumberOfSessions
              /\ q < LmsLeaves

ResetFlag(d) == d \in ResetDevices /\ (~booted[d] \/ ~PromptReflash)

\* Slip: the reset is done whatever the flag says.
BootCounterReset(d) == {FirstQ, nextq[d]}

\* The counter that begin() reads: a write that fails is not noticed.
BootCounter(d) == IF ResetFlag(d) THEN {FirstQ, nextq[d]} ELSE {nextq[d]}

ReadyState(d) == IF d = A THEN "idle" ELSE "listen"

\* begin() returned true, or refused the stored counter; loop() then idles.
Boot(d) ==
    /\ pc[d] = "off"
    /\ \E q \in BootCounter(d) :
         /\ nextq' = [nextq EXCEPT ![d] = q]
         /\ pc' = [pc EXCEPT ![d] = IF InRange(q) THEN ReadyState(d) ELSE "halted"]
    /\ booted' = [booted EXCEPT ![d] = TRUE]
    /\ UNCHANGED <<finished, network, starts, answers, crashes, spent, signed,
                   local, history>>

\* begin() failed before it came to the counter: key tree, WiFi, ground
\* station, peer record, random generator.
BootFails(d) ==
    /\ pc[d] = "off"
    /\ pc' = [pc EXCEPT ![d] = "halted"]
    /\ UNCHANGED <<nextq, booted, finished, network, starts, answers, crashes,
                   spent, signed, local, history>>

\* RAM is lost, flash is not.
ClearSession(d) ==
    /\ session' = [session EXCEPT ![d] = 0]
    /\ sid' = [sid EXCEPT ![d] = ZeroSid]
    /\ ownq' = [ownq EXCEPT ![d] = 0]
    /\ m2' = [m2 EXCEPT ![d] = ZeroBody]
    /\ inner' = [inner EXCEPT ![d] = ZeroBody]

Crash(d) ==
    /\ pc[d] # "off"
    /\ crashes < MaxCrashes
    /\ crashes' = crashes + 1
    /\ pc' = [pc EXCEPT ![d] = "off"]
    /\ finished' = IF d = A THEN 0 ELSE finished
    /\ ClearSession(d)
    /\ UNCHANGED <<nextq, booted, network, starts, answers, spent, signed,
                   history>>

-----------------------------------------------------------------------------
(* The end of a session, from every exit of the two session functions *)

AfterSession(d) ==
    IF d = B THEN "listen"
    ELSE IF finished + 1 < NumberOfSessions THEN "idle" ELSE "completed"

\* cleanup: free the KEM key, wipe the secrets; A's loop goes to the next run.
EndSession(d) ==
    /\ pc' = [pc EXCEPT ![d] = AfterSession(d)]
    /\ finished' = IF d = A THEN finished + 1 ELSE finished
    /\ ClearSession(d)

\* Slip: the last wait of either side has no deadline.
TimeoutBeforeLastWait(d) ==
    /\ pc[d] \in Waiting \ {"waitM4", "waitResult"}
    /\ EndSession(d)
    /\ UNCHANGED <<nextq, booted, network, starts, answers, crashes, spent,
                   signed, history>>

\* receiveMessage gave up after RECEIVE_TIMEOUT_MS.
Timeout(d) ==
    /\ pc[d] \in Waiting
    /\ EndSession(d)
    /\ UNCHANGED <<nextq, booted, network, starts, answers, crashes, spent,
                   signed, history>>

\* A local step failed: no index left, KEM, hash, path download, NVS write.
LocalFailure(d) ==
    /\ pc[d] \in Working
    /\ EndSession(d)
    /\ UNCHANGED <<nextq, booted, network, starts, answers, crashes, spent,
                   signed, history>>

-----------------------------------------------------------------------------
(* The one-time index *)

\* Slip: the next index is not written to flash.
ReserveUnsaved(d) ==
    /\ pc[d] = "prepare"
    /\ InRange(nextq[d])
    /\ ownq' = [ownq EXCEPT ![d] = nextq[d]]
    /\ spent' = [spent EXCEPT ![d] = @ \cup {nextq[d]}]
    /\ pc' = [pc EXCEPT ![d] = "reserved"]
    /\ UNCHANGED <<nextq, booted, finished, session, sid, m2, inner, network,
                   starts, answers, crashes, signed, history>>

\* reserveQ: the next index is in flash before this one is used.
Reserve(d) ==
    /\ pc[d] = "prepare"
    /\ InRange(nextq[d])
    /\ ownq' = [ownq EXCEPT ![d] = nextq[d]]
    /\ nextq' = [nextq EXCEPT ![d] = @ + 1]
    /\ spent' = [spent EXCEPT ![d] = @ \cup {nextq[d]}]
    /\ pc' = [pc EXCEPT ![d] = "reserved"]
    /\ UNCHANGED <<booted, finished, session, sid, m2, inner, network, starts,
                   answers, crashes, signed, history>>

Send(m) == network' = network \cup {m}

SignWith(d, obj) == signed' = signed \cup {Signature(d, ownq[d], obj)}

-----------------------------------------------------------------------------
(* The initiator, runInitiatorSession *)

\* Slip: esp_random() without | 1u may return 0, the responder's wildcard.
StartSessionFromZero ==
    /\ pc[A] = "idle"
    /\ starts' = starts + 1
    /\ sid' = [sid EXCEPT ![A].na = starts + 1]
    /\ \E s \in Sessions \cup {0} :
         /\ session' = [session EXCEPT ![A] = s]
         /\ Send(M0(s, starts + 1))
    /\ pc' = [pc EXCEPT ![A] = "waitM1"]
    /\ UNCHANGED <<nextq, booted, finished, ownq, m2, inner, answers, crashes,
                   spent, signed, history>>

StartSession ==
    /\ pc[A] = "idle"
    /\ starts' = starts + 1
    /\ sid' = [sid EXCEPT ![A].na = starts + 1]
    /\ \E s \in Sessions :
         /\ session' = [session EXCEPT ![A] = s]
         /\ Send(M0(s, starts + 1))
    /\ pc' = [pc EXCEPT ![A] = "waitM1"]
    /\ UNCHANGED <<nextq, booted, finished, ownq, m2, inner, answers, crashes,
                   spent, signed, history>>

\* validateM1: the challenge repeats A's nonce.
M1Valid(m) == m.sid.na = sid[A].na

RecvM1 ==
    /\ pc[A] = "waitM1"
    /\ \E m \in Arrived(A) : /\ M1Valid(m)
                             /\ sid' = [sid EXCEPT ![A] = m.sid]
    /\ pc' = [pc EXCEPT ![A] = "prepare"]
    /\ UNCHANGED <<nextq, booted, finished, session, ownq, m2, inner, network,
                   starts, answers, crashes, spent, signed, history>>

\* M2 as A builds it: A's key pair is the one of this session.
BuiltM2 == [sid |-> sid[A], q |-> ownq[A], kem |-> sid[A].na]

SendM2 ==
    /\ pc[A] = "reserved"
    /\ m2' = [m2 EXCEPT ![A] = BuiltM2]
    /\ SignWith(A, BuiltM2)
    /\ Send(M2Msg(session[A], BuiltM2))
    /\ pc' = [pc EXCEPT ![A] = "waitM3"]
    /\ UNCHANGED <<nextq, booted, finished, session, sid, ownq, inner, starts,
                   answers, crashes, spent, history>>

\* A's key: it decapsulates with the secret key of this session.
InitiatorKey(M3) == Key(sid[A].na, m2[A], M3)

\* Slip: M3 is taken for its session number alone, as RESULT is.
M3AnyOfSession(m) == TRUE

\* Outer and inner SID0, index, LM-OTS/LMS signature over hash(M2), and B's tag.
M3Valid(m) ==
    /\ m.body.sid = sid[A]
    /\ m.body.q < LmsLeaves
    /\ Signature(B, m.body.q, M3Object(m2[A], m.body)) \in signed
    /\ m.tau = Tag(B, InitiatorKey(m.body))

RecvM3 ==
    /\ pc[A] = "waitM3"
    /\ \E m \in Arrived(A) :
         /\ M3Valid(m)
         /\ inner' = [inner EXCEPT ![A] = m.body]
         /\ confirmed' = confirmed \cup
               {[sid |-> sid[A], key |-> InitiatorKey(m.body),
                 qA |-> ownq[A], qB |-> m.body.q]}
         /\ Send(M4Msg(session[A], sid[A], Tag(A, InitiatorKey(m.body))))
    /\ pc' = [pc EXCEPT ![A] = "waitResult"]
    /\ UNCHANGED <<nextq, booted, finished, session, sid, ownq, m2, starts,
                   answers, crashes, spent, signed, accepted, counted>>

\* RESULT is matched by the session number of its frame alone.
RecvResult ==
    /\ pc[A] = "waitResult"
    /\ Arrived(A) # {}
    /\ counted' = counted \cup {[session |-> session[A], sid |-> sid[A]]}
    /\ EndSession(A)
    /\ UNCHANGED <<nextq, booted, network, starts, answers, crashes, spent,
                   signed, confirmed, accepted>>

-----------------------------------------------------------------------------
(* The responder, runResponderOnce *)

RecvM0 ==
    /\ pc[B] = "listen"
    /\ answers < MaxResponderRuns
    /\ answers' = answers + 1
    /\ \E m \in Arrived(B) :
         LET id == [na |-> m.na, nb |-> answers + 1]
         IN  /\ session' = [session EXCEPT ![B] = m.session]
             /\ sid' = [sid EXCEPT ![B] = id]
             /\ Send(M1(m.session, id))
    /\ pc' = [pc EXCEPT ![B] = "waitM2"]
    /\ UNCHANGED <<nextq, booted, finished, ownq, m2, inner, starts, crashes,
                   spent, signed, history>>

\* Slip: M2 is taken for its session number alone.
M2AnyOfSession(m) == TRUE

\* SID0, index, and A's LM-OTS/LMS signature over the object that B rebuilds.
M2Valid(m) ==
    /\ m.body.sid = sid[B]
    /\ m.body.q < LmsLeaves
    /\ Signature(A, m.body.q, [m.body EXCEPT !.sid = sid[B]]) \in signed

RecvM2 ==
    /\ pc[B] = "waitM2"
    /\ \E m \in Arrived(B) : /\ M2Valid(m)
                             /\ m2' = [m2 EXCEPT ![B] = m.body]
    /\ pc' = [pc EXCEPT ![B] = "prepare"]
    /\ UNCHANGED <<nextq, booted, finished, session, sid, ownq, inner, network,
                   starts, answers, crashes, spent, signed, history>>

\* The inner M3 as B builds it: the encapsulation is the one of this session.
BuiltM3 == [sid |-> sid[B], q |-> ownq[B], kem |-> sid[B].nb]

\* B's key: it encapsulated to the public key that M2 carried.
ResponderKey(M3) == Key(m2[B].kem, m2[B], M3)

SendM3 ==
    /\ pc[B] = "reserved"
    /\ inner' = [inner EXCEPT ![B] = BuiltM3]
    /\ SignWith(B, M3Object(m2[B], BuiltM3))
    /\ Send(M3Msg(session[B], BuiltM3, Tag(B, ResponderKey(BuiltM3))))
    /\ pc' = [pc EXCEPT ![B] = "waitM4"]
    /\ UNCHANGED <<nextq, booted, finished, session, sid, ownq, m2, starts,
                   answers, crashes, spent, history>>

\* Slip: M4 is taken for its session number alone.
M4AnyOfSession(m) == TRUE

\* SID0 and A's tag.
M4Valid(m) ==
    /\ m.sid = sid[B]
    /\ m.tau = Tag(A, ResponderKey(inner[B]))

RecvM4 ==
    /\ pc[B] = "waitM4"
    /\ \E m \in Arrived(B) : M4Valid(m)
    /\ accepted' = accepted \cup
          {[sid |-> sid[B], key |-> ResponderKey(inner[B]),
            qA |-> m2[B].q, qB |-> ownq[B]]}
    /\ Send(ResultMsg(session[B], m2[B].q, ownq[B]))
    /\ EndSession(B)
    /\ UNCHANGED <<nextq, booted, starts, answers, crashes, spent, signed,
                   confirmed, counted>>

-----------------------------------------------------------------------------
(* A frame of the awaited type and session that fails its checks ends the  *)
(* session: the code does not go back to waiting.                          *)

Unacceptable(d, m) ==
    \/ pc[d] = "waitM1" /\ ~M1Valid(m)
    \/ pc[d] = "waitM2" /\ ~M2Valid(m)
    \/ pc[d] = "waitM3" /\ ~M3Valid(m)
    \/ pc[d] = "waitM4" /\ ~M4Valid(m)

Reject(d) ==
    /\ pc[d] \in Waiting
    /\ \E m \in Arrived(d) : Unacceptable(d, m)
    /\ EndSession(d)
    /\ UNCHANGED <<nextq, booted, network, starts, answers, crashes, spent,
                   signed, history>>

-----------------------------------------------------------------------------
(* Specification *)

InitiatorStep == StartSession \/ RecvM1 \/ SendM2 \/ RecvM3 \/ RecvResult

ResponderStep == RecvM0 \/ RecvM2 \/ SendM3 \/ RecvM4

CommonStep(d) == Reserve(d) \/ Timeout(d) \/ LocalFailure(d) \/ Reject(d)

PowerStep(d) == Boot(d) \/ BootFails(d)

Next == \/ InitiatorStep
        \/ ResponderStep
        \/ \E d \in Devices : CommonStep(d) \/ PowerStep(d) \/ Crash(d)

Spec == Init /\ [][Next]_vars

(***************************************************************************)
(* loop() runs for ever and every wait has a deadline, so each device that *)
(* can take a step of its program eventually takes one, and a device that  *)
(* was reset comes up again.  Nothing makes a crash happen, nor a message  *)
(* arrive.                                                                 *)
(***************************************************************************)
Fairness == /\ WF_vars(InitiatorStep \/ CommonStep(A))
            /\ WF_vars(ResponderStep \/ CommonStep(B))
            /\ \A d \in Devices : WF_vars(PowerStep(d))

FairSpec == Spec /\ Fairness

-----------------------------------------------------------------------------
(* Safety *)

\* Every variable keeps to its type.
TypeOK ==
    /\ nextq \in [Devices -> Nat]
    /\ booted \in [Devices -> BOOLEAN]
    /\ pc \in [Devices -> ProgramStates]
    /\ finished \in Nat
    /\ session \in [Devices -> Sessions \cup {0}]
    /\ sid \in [Devices -> Sid]
    /\ ownq \in [Devices -> Nat]
    /\ m2 \in [Devices -> Body]
    /\ inner \in [Devices -> Body]
    /\ network \subseteq Messages
    /\ starts \in Nat /\ answers \in Nat /\ crashes \in Nat
    /\ spent \in [Devices -> SUBSET Nat]
    /\ signed \subseteq Signatures
    /\ confirmed \subseteq Handshakes
    /\ accepted \subseteq Handshakes
    /\ counted \subseteq [session : Sessions, sid : Sid]

\* An LM-OTS index signs one object at most, whatever crashes, reboots,
\* replayed messages and abandoned sessions come between reserveQ and sign
\* ("a crash may skip q, but does not reuse q", reserveQ).
OneTimeSigning ==
    \A s, t \in signed : s.dev = t.dev /\ s.q = t.q => s.obj = t.obj

\* An index that left reserveQ is already behind the counter in flash, so
\* what the next boot reads cannot hand it out again; an index in hand has
\* signed nothing (reserveQ before sign, runInitiatorSession 919-935).
PersistedBeforeUse ==
    /\ \A d \in Devices : \A q \in spent[d] : q < nextq[d]
    /\ \A s \in signed : s.q \in spent[s.dev]
    /\ \A d \in Devices : pc[d] = "reserved" =>
         /\ ownq[d] \in spent[d]
         /\ \A s \in signed : s.dev = d => s.q # ownq[d]

\* B spends an index only on a handshake in which A spent one: replayed or
\* duplicated requests cannot drain B's one-time keys (M2 is verified before
\* reserveQ, runResponderOnce 1383-1460).
ResponderKeysEarned ==
    Cardinality(spent[B]) <= Cardinality({s \in signed : s.dev = A})

\* When B accepts, A has verified B in the same handshake: same nonces, same
\* key, same indices; and B accepts a session of A at most once, although it
\* may answer the same M0 several times (checks of M4, 1554-1566).
ResponderAgreement ==
    /\ accepted \subseteq confirmed
    /\ \A x, y \in accepted : x.sid.na = y.sid.na => x = y

\* When A confirms, B derived the same key from the M2 that A sent and
\* signed exactly the ciphertext that A decapsulated (checks of M3, 984-1080).
InitiatorAgreement ==
    \A c \in confirmed :
      /\ Signature(B, c.qB, M3Object(c.key.m2, c.key.inner)) \in signed
      /\ Signature(A, c.qA, c.key.m2) \in signed
      /\ c.key.ek = c.key.m2.kem /\ c.key.inner.sid = c.sid

\* A session that A prints as successful was accepted by B, provided its
\* 32-bit session number was not drawn twice: RESULT carries nothing else
\* that ties it to the handshake (1112-1144).
CountedIsAccepted ==
    \A c \in counted :
      (\A m, n \in network : /\ m.type = "M0" /\ m.session = c.session
                             /\ n.type = "M0" /\ n.session = c.session
                             => m = n)
      => \E x \in accepted : x.sid = c.sid

-----------------------------------------------------------------------------
(* Action property and refinement *)

\* The counter in flash never goes back once the device has booted, and moves
\* by one index at a time (reserveQ, initializePersistentCounter).
CounterOnlyAdvances ==
    [][\A d \in Devices : booted[d] =>
         nextq'[d] \in {nextq[d], nextq[d] + 1}]_vars

OTK == INSTANCE OneTimeKeys WITH Leaves <- 0 .. LmsLeaves - 1

\* Both counters together implement the one-time key service.
ImplementsOneTimeKeys == OTK!Spec

-----------------------------------------------------------------------------
(* Liveness *)

\* The experiment loop of A goes through all its sessions, whatever is lost
\* (every wait of runInitiatorSession has a deadline): A ends completed, or
\* halted because begin() refused to start.
ExperimentEnds == <>[](pc[A] \in {"completed", "halted"})

\* B gives up a session that stalls and listens for the next M0
\* (runResponderOnce returns, loop calls it again).
ResponderReturns == pc[B] \in InSession ~> pc[B] \in {"listen", "halted"}
=============================================================================
