--------------------------- MODULE ApqeHandshake ---------------------------
(***************************************************************************)
(* The APQE-CDA handshake of ApqeProtocol.cpp: both UAVs enrol one          *)
(* credential per slot with Fabric; the initiator then runs its sessions    *)
(* M1, M2, M3, RESULT, one slot each, and stops at the first that fails;    *)
(* the responder answers any M1, one session at a time, for ever.           *)
(*                                                                         *)
(* A 32-byte string is the set of the independent values XORed into it, so  *)
(* that Xor is exact: masks cancel where the code's do and nowhere else.  A *)
(* hash, a mask, a challenge or a nonce is an independent value.            *)
(*                                                                         *)
(* Messages are a set of everything sent: lost, duplicated, late and        *)
(* reordered.  Session numbers restart at 1 with the initiator's boot, so   *)
(* fragments of two M1 of the same number may be reassembled into one.      *)
(* Fabric is the set of stored slots here (ApqeLedger has its inside).      *)
(***************************************************************************)
EXTENDS Naturals

CONSTANTS A, B,         \* initiator and responder
          Sessions,     \* config.numberOfSessions
          MaxBoots,     \* bound: boots of each UAV
          MaxRuns       \* bound: M1 the responder takes up

ASSUME ApqeAssumption ==
    /\ A # B
    /\ Sessions \in Nat \ {0}
    /\ MaxBoots \in Nat \ {0} /\ MaxRuns \in Nat

Devices == {A, B}
Slots == 0..Sessions-1

-----------------------------------------------------------------------------
(* Strings, the software PUF and credentials *)

Xor(x, y) == (x \ y) \cup (y \ x)

Hash(parts) == {<<"hash", parts>>}

Nonce(d, k) == {<<"nonce", d, k>>}

\* deriveChallenge: the same at every boot
Challenge(d, slot) == {<<"challenge", d, slot>>}

\* commutativeMap and reversibleMap, which is its own inverse
CommutativeMap(d, x) == Xor(x, {<<"commutative", d>>})
ReversibleMap(d, x) == Xor(x, {<<"reversible", d>>})

\* buildCredential
Credential(d, slot) ==
    LET c == Challenge(d, slot)
        w == Xor(CommutativeMap(d, c), Hash(<<c>>))
    IN  [identity |-> d, tid |-> ReversibleMap(d, c), w |-> w, key |-> d,
         verify |-> Hash(<<d, w, d>>)]

\* verifyCredential, and the identity expected
Trusted(cred, d) ==
    /\ cred.identity = d
    /\ cred.verify = Hash(<<cred.identity, cred.w, cred.key>>)

\* maskPair and unmaskPair
Mask(key, pair) == <<Xor(pair[1], key), Xor(pair[2], key)>>

M1(s, ei) == [type |-> "M1", session |-> s, ei |-> ei, h1 |-> Hash(ei)]

M2(s, tkJi, tkJ, ni, cj, nj) ==
    [type |-> "M2", session |-> s, tn |-> Xor(tkJ, ni), p |-> Mask(tkJi, <<cj, nj>>),
     h2 |-> Hash(<<tkJi, tkJ, cj, nj>>)]

M3(s, tkIj, tkI, nj, key) ==
    [type |-> "M3", session |-> s, tn |-> Xor(tkI, nj), h3 |-> Hash(<<tkIj, tkI, key>>)]

Result(s, key) == [type |-> "RESULT", session |-> s, hash |-> Hash(<<key>>)]

-----------------------------------------------------------------------------
VARIABLES
    stage,      \* enroll, failed; A: next, waitM2, waitResult, done; B: listen, waitM3
    slot,       \* the slot being enrolled; then, at A, the session less one
    stored,     \* <<device, slot>> that Fabric holds
    network,    \* every message sent
    run,        \* A's or B's locals in the session it is in
    asked,      \* B: TID queries of this boot, hence the next request id
    answers,    \* <<request id, credential>> ever sent to B by its gateway
    nonces,     \* nonces each has drawn
    boots,      \* history: boots of each
    computed,   \* history: [session, key] at the initiator when it sent M3
    accepted,   \* history: [session, key, nth] the responder accepted, in which run
    succeeded   \* history: [session, key] the initiator reported as SUCCESS

apqeVars == <<stage, slot, stored, network, run, asked, answers, nonces, boots,
              computed, accepted, succeeded>>

history == <<computed, accepted, succeeded>>

NoRun == [session |-> 0]

Agreed(s, key) == [session |-> s, key |-> key]

Init ==
    /\ stage = [d \in Devices |-> "enroll"]
    /\ slot = [d \in Devices |-> 0]
    /\ stored = {}
    /\ network = {}
    /\ run = [d \in Devices |-> NoRun]
    /\ asked = 0
    /\ answers = {}
    /\ nonces = [d \in Devices |-> 0]
    /\ boots = [d \in Devices |-> 1]
    /\ computed = {} /\ accepted = {} /\ succeeded = {}

-----------------------------------------------------------------------------
(* begin: enrollCredentials *)

\* Slip: one slot too many.
MoreSlotsLate(s) == s < Sessions

MoreSlots(s) == s + 1 < Sessions

\* One putCredential is confirmed.
Enroll(d) ==
    /\ stage[d] = "enroll"
    /\ stored' = stored \cup {<<d, slot[d]>>}
    /\ IF MoreSlots(slot[d])
       THEN slot' = [slot EXCEPT ![d] = @ + 1] /\ UNCHANGED stage
       ELSE /\ slot' = [slot EXCEPT ![d] = 0]
            /\ stage' = [stage EXCEPT ![d] = IF d = A THEN "next" ELSE "listen"]
    /\ UNCHANGED <<network, run, asked, answers, nonces, boots, history>>

\* begin returns false: Wi-Fi, the ping or a put failed, which may still be stored.
BeginFails(d) ==
    /\ stage[d] = "enroll"
    /\ stage' = [stage EXCEPT ![d] = "failed"]
    /\ stored' \in {stored, stored \cup {<<d, slot[d]>>}}
    /\ UNCHANGED <<slot, network, run, asked, answers, nonces, boots, history>>

Crash(d) ==
    /\ boots[d] < MaxBoots
    /\ boots' = [boots EXCEPT ![d] = @ + 1]
    /\ stage' = [stage EXCEPT ![d] = "enroll"]
    /\ slot' = [slot EXCEPT ![d] = 0]
    /\ run' = [run EXCEPT ![d] = NoRun]
    /\ asked' = IF d = B THEN 0 ELSE asked
    /\ UNCHANGED <<stored, network, answers, nonces, history>>

-----------------------------------------------------------------------------
(* runInitiatorSession *)

Session == slot[A] + 1

\* A session failed, and with it the experiment: m_completed.
Stop ==
    /\ stage' = [stage EXCEPT ![A] = "done"]
    /\ run' = [run EXCEPT ![A] = NoRun]

\* queryByIdentitySlot for both credentials, then M1.
SendM1 ==
    /\ stage[A] = "next"
    /\ <<A, slot[A]>> \in stored /\ <<B, slot[A]>> \in stored
    /\ LET own == Credential(A, slot[A])
           peer == Credential(B, slot[A])
           ni == Nonce(A, nonces[A])
       IN  /\ Trusted(own, A) /\ Trusted(peer, B) /\ own.key = A
           /\ network' = network \cup
                {M1(Session, <<own.tid, ReversibleMap(A, own.tid), ni, peer.tid>>)}
           /\ run' = [run EXCEPT ![A] = [session |-> Session, ni |-> ni, peer |-> peer]]
    /\ stage' = [stage EXCEPT ![A] = "waitM2"]
    /\ nonces' = [nonces EXCEPT ![A] = @ + 1]
    /\ UNCHANGED <<slot, stored, asked, answers, boots, history>>

\* Slip: H2 is not compared.
H2Unchecked(m, tkJi, tkJ, cj, nj) == TRUE

H2Valid(m, tkJi, tkJ, cj, nj) == m.h2 = Hash(<<tkJi, tkJ, cj, nj>>)

\* M2 arrives; M3 goes out if H2 is right.
ReceiveM2(m) ==
    /\ stage[A] = "waitM2"
    /\ m.type = "M2" /\ m.session = Session
    /\ LET ni == run[A].ni
           tkJ == Xor(m.tn, ni)
           tkJi == CommutativeMap(A, tkJ)
           cj == Xor(m.p[1], tkJi)
           nj == Xor(m.p[2], tkJi)
           tkI == CommutativeMap(A, cj)
           tkIj == CommutativeMap(A, Xor(run[A].peer.w, Hash(<<cj>>)))
           key == Hash(<<tkJi, tkIj, ni, nj>>)
       IN  IF H2Valid(m, tkJi, tkJ, cj, nj)
           THEN /\ network' = network \cup {M3(Session, tkIj, tkI, nj, key)}
                /\ computed' = computed \cup {Agreed(Session, key)}
                /\ stage' = [stage EXCEPT ![A] = "waitResult"]
                /\ run' = [run EXCEPT ![A] = [session |-> Session, key |-> key]]
           ELSE Stop /\ UNCHANGED <<network, computed>>
    /\ UNCHANGED <<slot, stored, asked, answers, nonces, boots, accepted, succeeded>>

\* Slip: a RESULT of the session is enough.
SameKeyUnchecked(m, key) == TRUE

SameKey(m, key) == m.hash = Hash(<<key>>)

\* decodeResult and the key comparison; on to the next slot.
ReceiveResult(m) ==
    /\ stage[A] = "waitResult"
    /\ m.type = "RESULT" /\ m.session = Session
    /\ IF SameKey(m, run[A].key)
       THEN /\ succeeded' = succeeded \cup {Agreed(Session, run[A].key)}
            /\ run' = [run EXCEPT ![A] = NoRun]
            /\ IF MoreSlots(slot[A])
               THEN /\ slot' = [slot EXCEPT ![A] = @ + 1]
                    /\ stage' = [stage EXCEPT ![A] = "next"]
               ELSE stage' = [stage EXCEPT ![A] = "done"] /\ UNCHANGED slot
       ELSE Stop /\ UNCHANGED <<slot, succeeded>>
    /\ UNCHANGED <<stored, network, asked, answers, nonces, boots, computed, accepted>>

\* Slip: RESULT is waited for without a deadline.
StopExceptResult ==
    /\ stage[A] \in {"next", "waitM2"}
    /\ Stop

StopAnywhere ==
    /\ stage[A] \in {"next", "waitM2", "waitResult"}
    /\ Stop

\* A query or a send fails, a credential is missing, or DIRECT_RECEIVE_TIMEOUT_MS passes.
SessionFails ==
    /\ StopAnywhere
    /\ UNCHANGED <<slot, stored, network, asked, answers, nonces, boots, history>>

-----------------------------------------------------------------------------
(* responderLoop and runResponderSession *)

\* m_m1: the fragments of one M1, or of two with the same session, whose ciphertext
\* of ni and H1 then come from either.
Reassembled(m, other) == [m EXCEPT !.h1 = other.h1]

H1Valid(m) == m.h1 = Hash(m.ei)

\* Slip: the responder uses one nonce for a session number.
NonceOfSession(k, s) == Nonce(B, s)

FreshNonce(k, s) == Nonce(B, k)

\* queryByTid under request id `asked`: the credential of the TID, or what a request
\* of an earlier boot with the same id was answered.
Answer(tid, cred) ==
    \/ \E s \in Slots : <<A, s>> \in stored /\ cred = Credential(A, s) /\ cred.tid = tid
    \/ <<asked, cred>> \in answers

\* M1 arrives and is answered with M2.
ReceiveM1(m, cred) ==
    /\ stage[B] = "listen" /\ nonces[B] < MaxRuns
    /\ H1Valid(m)
    /\ Answer(m.ei[1], cred) /\ Trusted(cred, A)
    /\ LET ci == m.ei[2]
           ni == m.ei[3]
           cj == ReversibleMap(B, m.ei[4])
           ri == Xor(cred.w, Hash(<<ci>>))
           tkJi == CommutativeMap(B, ri)
           tkJ == CommutativeMap(B, ci)
           nj == FreshNonce(nonces[B], m.session)
       IN  /\ network' = network \cup {M2(m.session, tkJi, tkJ, ni, cj, nj)}
           /\ run' = [run EXCEPT ![B] =
                        [session |-> m.session, tkJi |-> tkJi, ni |-> ni, nj |-> nj]]
    /\ answers' = answers \cup {<<asked, cred>>}
    /\ asked' = asked + 1
    /\ nonces' = [nonces EXCEPT ![B] = @ + 1]
    /\ stage' = [stage EXCEPT ![B] = "waitM3"]
    /\ UNCHANGED <<slot, stored, boots, history>>

\* Slip: M3 is taken for its session number.
H3Unchecked(m, tkIj, tkI, key) == TRUE

H3Valid(m, tkIj, tkI, key) == m.h3 = Hash(<<tkIj, tkI, key>>)

\* M3 arrives; if H3 is right the session is accepted and RESULT is sent, or not.
ReceiveM3(m) ==
    /\ stage[B] = "waitM3"
    /\ m.type = "M3" /\ m.session = run[B].session
    /\ LET tkI == Xor(m.tn, run[B].nj)
           tkIj == CommutativeMap(B, tkI)
           key == Hash(<<run[B].tkJi, tkIj, run[B].ni, run[B].nj>>)
       IN  IF H3Valid(m, tkIj, tkI, key)
           THEN /\ accepted' = accepted \cup
                     {[session |-> m.session, key |-> key, nth |-> nonces[B]]}
                /\ network' \in {network, network \cup {Result(m.session, key)}}
           ELSE UNCHANGED <<accepted, network>>
    /\ stage' = [stage EXCEPT ![B] = "listen"]
    /\ run' = [run EXCEPT ![B] = NoRun]
    /\ UNCHANGED <<slot, stored, asked, answers, nonces, boots, computed, succeeded>>

\* No M3 in DIRECT_RECEIVE_TIMEOUT_MS, or M2 was not sent.
GiveUp ==
    /\ stage[B] = "waitM3"
    /\ stage' = [stage EXCEPT ![B] = "listen"]
    /\ run' = [run EXCEPT ![B] = NoRun]
    /\ UNCHANGED <<slot, stored, network, asked, answers, nonces, boots, history>>

\* An M1 is taken up in vain: queryByTid used a request id, and its answer was
\* negative or late.
QueryFails(m, cred) ==
    /\ stage[B] = "listen" /\ asked < MaxRuns
    /\ m.type = "M1" /\ cred.tid = m.ei[1]
    /\ asked' = asked + 1
    /\ answers' \in {answers, answers \cup {<<asked, cred>>}}
    /\ UNCHANGED <<stage, slot, stored, network, run, nonces, boots, history>>

-----------------------------------------------------------------------------
AStep == \/ SendM1 \/ SessionFails
         \/ \E m \in network : ReceiveM2(m) \/ ReceiveResult(m)

BStep == \/ \E m, other \in {n \in network : n.type = "M1"}, s \in Slots :
               /\ m.session = other.session
               /\ ReceiveM1(Reassembled(m, other), Credential(A, s))
         \/ \E m \in network : \/ ReceiveM3(m)
                              \/ \E s \in Slots : QueryFails(m, Credential(A, s))
         \/ GiveUp

Next == \/ \E d \in Devices : Enroll(d) \/ BeginFails(d) \/ Crash(d)
        \/ AStep \/ BStep

Spec == Init /\ [][Next]_apqeVars

\* Every wait has a deadline, and begin returns.
Fairness ==
    /\ \A d \in Devices : WF_apqeVars(Enroll(d) \/ BeginFails(d))
    /\ WF_apqeVars(AStep)
    /\ WF_apqeVars(GiveUp)

FairSpec == Spec /\ Fairness
-----------------------------------------------------------------------------
(* Properties *)

Ended == stage[A] \in {"done", "failed"}

TypeOK ==
    /\ DOMAIN stage = Devices
    /\ stage[A] \in {"enroll", "failed", "next", "waitM2", "waitResult", "done"}
    /\ stage[B] \in {"enroll", "failed", "listen", "waitM3"}
    /\ slot \in [Devices -> Slots]
    /\ stored \subseteq Devices \X Slots
    /\ \A m \in network : m.session \in 1..Sessions
    /\ DOMAIN run = Devices
    /\ asked \in Nat
    /\ nonces \in [Devices -> Nat]
    /\ boots \in [Devices -> 1..MaxBoots]

\* The initiator reports SUCCESS only for a session the responder accepted with the
\* same key, though RESULTs of earlier boots carry the same session number.
InitiatorAgreement ==
    \A s \in succeeded : \E a \in accepted : a.session = s.session /\ a.key = s.key

\* The responder accepts only a key the initiator computed in a session of that number,
\* though M3s of earlier boots carry the same number and its credential may be stale.
ResponderAgreement ==
    \A a \in accepted : Agreed(a.session, a.key) \in computed

\* No two runs of the responder accept the same key, though M1 and M3 may be duplicated.
AcceptedOnce ==
    \A a, b \in accepted : a.key = b.key => a = b

\* The transport key for the challenge of d in a slot: both UAVs' commutative maps of it.
TransportKey(d, s) == CommutativeMap(A, CommutativeMap(B, Challenge(d, s)))

\* A key in use is made of the two credentials of the session's own slot and of nonces
\* of the two UAVs: the masks the two sides strip by different routes are the same.
KeyOfCredentials ==
    \A c \in computed : \E i \in 0..nonces[A]-1, j \in 0..nonces[B]-1 :
        c.key = Hash(<<TransportKey(A, c.session - 1), TransportKey(B, c.session - 1),
                       Nonce(A, i), Nonce(B, j)>>)

\* The experiment ends, and the responder is always back listening or has failed to begin.
ExperimentEnds ==
    <>[]Ended /\ []<>(stage[B] \in {"listen", "failed"})
=============================================================================
