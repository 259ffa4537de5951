------------------------ MODULE GcsEnrollment_proofs ------------------------
(***************************************************************************)
(* What enrolment and the path download achieve, proved for any range of   *)
(* indices, number of attempts and rounds, restarts of the boards and      *)
(* failures of the server, and replies lost, repeated or late.             *)
(***************************************************************************)
EXTENDS GcsEnrollment, GcsLedger_proofs

-----------------------------------------------------------------------------
(* Devices and records *)

LEMMA DeviceFacts ==
    /\ A \in Devices /\ B \in Devices
    /\ \A d \in Devices : Peer(d) \in Devices /\ Peer(Peer(d)) = d
BY EnrollmentAssumption DEF Devices, Peer

LEMMA RangeFacts ==
    /\ FirstQ \in EnrolledRange /\ LastQ \in Nat /\ FirstQ <= LastQ
    /\ \A q \in EnrolledRange : q \in Nat /\ FirstQ <= q /\ q <= LastQ
    /\ \A q \in EnrolledRange : q < LastQ => q + 1 \in EnrolledRange
BY EnrollmentAssumption DEF EnrolledRange, LastQ

LEMMA PathFields ==
    ASSUME NEW d, NEW q
    PROVE  /\ Root(d).dev = d /\ Root(d).kind = "root" /\ Root(d).q = 0
           /\ Path(d, q).dev = d /\ Path(d, q).kind = "path" /\ Path(d, q).q = q
BY DEF Root, Path

\* A record is the root or a path of a device.
LEMMA RecordFacts ==
    /\ \A d \in Devices : Root(d) \in Records
    /\ \A d \in Devices, q \in EnrolledRange : Path(d, q) \in Records
    /\ \A r \in Records : /\ r.dev \in Devices /\ r.q \in {0} \cup EnrolledRange
                          /\ \/ r.kind = "root" /\ r = Root(r.dev) /\ r.q = 0
                             \/ /\ r.kind = "path" /\ r = Path(r.dev, r.q)
                                /\ r.q \in EnrolledRange
<1>1. Records = {Root(d) : d \in Devices}
                  \cup {Path(d, q) : d \in Devices, q \in EnrolledRange}
  BY EnrollmentAssumption
<1>2. \A r \in Records : \/ \E d \in Devices : r = Root(d)
                         \/ \E d \in Devices, q \in EnrolledRange : r = Path(d, q)
  BY <1>1
<1> QED
  BY <1>1, <1>2, PathFields

-----------------------------------------------------------------------------
(* The ledger within the system *)

\* A step of the system is a step of the ledger or leaves the ledger alone.
LEMMA LedgerSide ==
    ASSUME requests \subseteq [op : {"ENROLL", "GET"}, from : Devices, rec : Records],
           [Next]_vars
    PROVE  [LedgerNext]_ledgerVars
<1>1. CASE UNCHANGED vars
  BY <1>1 DEF vars
<1>2. ASSUME NEW d \in Devices, ClientStep(d) \/ StartFetch(d) \/ Reboot(d)
      PROVE  UNCHANGED ledgerVars
  BY <1>2 DEF ClientStep, Transmit, GiveUp, ReceiveNotFound, Receive, StartFetch, Reboot
<1>3. ASSUME NEW req \in requests, ServeUnchanged(req) \/ ServeNew(req) \/ ServeGet(req)
      PROVE  [LedgerNext]_ledgerVars
  <2>1. req.rec \in Records
    OBVIOUS
  <2> QED
    BY <1>3, <2>1 DEF ServeUnchanged, UnchangedRecord, ServeNew, ServeGet, LedgerNext
<1>4. CASE FinishNew
  BY <1>4 DEF FinishNew, LedgerNext
<1>5. CASE ServerFails
  BY <1>5 DEF ServerFails, LedgerNext
<1> QED
  BY <1>1, <1>2, <1>3, <1>4, <1>5 DEF Next, ServerStep

\* The ledger never gives a record up.
LEMMA StoredStays ==
    ASSUME [LedgerNext]_ledgerVars
    PROVE  db \subseteq db'
BY DEF LedgerNext, Commit, LogCommitted, Kill, PowerLoss, ledgerVars

-----------------------------------------------------------------------------
(* Types *)

\* A board that is polling, or has yet to, has rounds left.
RoundsLeft == \A d \in Devices : stage[d] \in Enrolling => round[d] < Rounds

TypeInv == TypeOK /\ RoundsLeft

Stages == Calling \cup {"ready", "failed"}

LEMMA StageNames ==
    /\ {"enrollRoot", "enrollPath", "fetchRoot", "fetchPath", "ready", "failed"} = Stages
    /\ Enrolling = {"enrollRoot", "enrollPath", "fetchRoot"}
    /\ Calling = {"enrollRoot", "enrollPath", "fetchRoot", "fetchPath"}
BY DEF Stages, Calling, Enrolling

LEMMA EnrollTypeInit == Init => TypeInv /\ LedgerInv
<1>1. SUFFICES ASSUME Init PROVE TypeInv /\ LedgerInv
  OBVIOUS
<1>2. LedgerInv
  BY <1>1, LedgerInvInit DEF Init
<1>3. LedgerTypeOK
  BY <1>2 DEF LedgerInv
<1>4. 0 \in 0 .. Retries /\ 0 \in 0 .. Rounds /\ 0 < Rounds
  BY EnrollmentAssumption
<1>5. TypeOK
  BY <1>1, <1>3, <1>4, RangeFacts, StageNames DEF Init, TypeOK, Stages
<1>6. RoundsLeft
  BY <1>1, <1>4 DEF Init, RoundsLeft
<1> QED
  BY <1>2, <1>5, <1>6 DEF TypeInv

\* A board that goes to another call keeps the types.
LEMMA TypeGoto ==
    ASSUME TypeInv, LedgerTypeOK', NEW d \in Devices, NEW s \in Stages, NEW q \in EnrolledRange,
           Goto(d, s, q), UNCHANGED <<requests, replies>>,
           NEW n \in 0 .. Rounds, round' = [round EXCEPT ![d] = n],
           s \in Enrolling => n < Rounds,
           fetched' \subseteq Devices \X EnrolledRange, reboots' \in Nat
    PROVE  TypeInv'
<1>1. /\ stage \in [Devices -> Stages] /\ index \in [Devices -> EnrolledRange]
      /\ attempt \in [Devices -> 0 .. Retries] /\ round \in [Devices -> 0 .. Rounds]
      /\ requests \subseteq [op : {"ENROLL", "GET"}, from : Devices, rec : Records]
      /\ replies \subseteq
           [op : {"ACK", "ROOT_RECORD", "PATH_RECORD", "NOT_FOUND"},
            to : Devices, q : {0} \cup EnrolledRange]
      /\ everReady \subseteq Devices
  BY DEF TypeInv, TypeOK, Stages
<1>2. 0 \in 0 .. Retries
  BY EnrollmentAssumption
<1>3. /\ stage' \in [Devices -> Stages] /\ index' \in [Devices -> EnrolledRange]
      /\ attempt' \in [Devices -> 0 .. Retries] /\ everReady' \subseteq Devices
  BY <1>1, <1>2 DEF Goto
<1>4. round' \in [Devices -> 0 .. Rounds]
  BY <1>1
<1>5. TypeOK'
  BY <1>1, <1>3, <1>4 DEF TypeOK, Stages
<1>6. /\ stage'[d] = s /\ round'[d] = n
      /\ \A e \in Devices : e # d => stage'[e] = stage[e] /\ round'[e] = round[e]
  BY <1>1 DEF Goto
<1>7. RoundsLeft'
  BY <1>6 DEF TypeInv, RoundsLeft
<1> QED
  BY <1>5, <1>7 DEF TypeInv

\* Where a failed call leads.
LEMMA FailMoves ==
    ASSUME TypeInv, NEW d \in Devices, stage[d] \in Calling, Fail(d)
    PROVE  \E s \in {"failed", "fetchRoot", "ready"}, n \in 0 .. Rounds :
             /\ Goto(d, s, index[d])
             /\ round' = [round EXCEPT ![d] = n]
             /\ s = "fetchRoot" => stage[d] = "fetchRoot" /\ n < Rounds
             /\ s = "ready" => stage[d] = "fetchPath"
<1>1. /\ round \in [Devices -> 0 .. Rounds] /\ round[d] \in 0 .. Rounds /\ Rounds \in Nat
      /\ round = [round EXCEPT ![d] = round[d]]
  BY EnrollmentAssumption DEF TypeInv, TypeOK
<1>2. CASE stage[d] = "fetchRoot" /\ round' = [round EXCEPT ![d] = @ + 1]
           /\ Goto(d, IF round[d] + 1 < Rounds THEN "fetchRoot" ELSE "failed", index[d])
  <2>1. round[d] < Rounds
    BY <1>2 DEF TypeInv, RoundsLeft, Enrolling
  <2>2. round[d] + 1 \in 0 .. Rounds
    BY <1>1, <2>1
  <2>3. CASE round[d] + 1 < Rounds
    BY <1>2, <2>2, <2>3
  <2>4. CASE ~(round[d] + 1 < Rounds)
    BY <1>2, <2>2, <2>4
  <2> QED
    BY <2>3, <2>4
<1>3. CASE stage[d] \in {"enrollRoot", "enrollPath"} /\ Goto(d, "failed", index[d])
           /\ UNCHANGED round
  BY <1>1, <1>3
<1>4. CASE stage[d] = "fetchPath" /\ Goto(d, "ready", index[d]) /\ UNCHANGED round
  BY <1>1, <1>4
<1> QED
  BY <1>2, <1>3, <1>4 DEF Fail

\* Where a call that succeeded leads.
LEMMA SuccessMoves ==
    ASSUME TypeInv, NEW d \in Devices, Succeed(d)
    PROVE  \E s \in {"enrollPath", "fetchRoot", "ready"}, q \in EnrolledRange :
             /\ Goto(d, s, q)
             /\ s = "enrollPath" =>
                  \/ stage[d] = "enrollRoot" /\ q = FirstQ
                  \/ stage[d] = "enrollPath" /\ q = index[d] + 1
             /\ s = "fetchRoot" => stage[d] = "enrollPath" /\ index[d] = LastQ
             /\ s = "ready" => stage[d] \in {"fetchRoot", "fetchPath"}
<1>1. index[d] \in EnrolledRange
  BY DEF TypeInv, TypeOK
<1> QED
  BY <1>1, RangeFacts DEF Succeed

LEMMA TypeClient ==
    ASSUME TypeInv, LedgerTypeOK', NEW d \in Devices,
           ClientStep(d) \/ StartFetch(d) \/ Reboot(d)
    PROVE  TypeInv'
<1>1. /\ stage \in [Devices -> Stages] /\ index \in [Devices -> EnrolledRange]
      /\ index[d] \in EnrolledRange /\ round[d] \in 0 .. Rounds
      /\ round = [round EXCEPT ![d] = round[d]]
      /\ fetched \subseteq Devices \X EnrolledRange /\ reboots \in Nat
  BY DEF TypeInv, TypeOK, Stages
<1>2. CASE Transmit(d)
  <2>1. Current(d) \in [op : {"ENROLL", "GET"}, from : Devices, rec : Records]
    BY <1>1, <1>2, DeviceFacts, RecordFacts, StageNames DEF Transmit, Current, Request
  <2>2. attempt' \in [Devices -> 0 .. Retries]
    BY <1>2, EnrollmentAssumption DEF TypeInv, TypeOK, Transmit
  <2>3. TypeOK'
    BY <1>2, <2>1, <2>2 DEF TypeInv, TypeOK, Transmit
  <2> QED
    BY <1>2, <2>3 DEF TypeInv, RoundsLeft, Transmit
<1>3. CASE GiveUp(d) \/ ReceiveNotFound(d)
  <2>1. /\ stage[d] \in Calling /\ Fail(d)
        /\ UNCHANGED <<fetched, reboots, requests, replies>>
    BY <1>3 DEF GiveUp, ReceiveNotFound
  <2>2. PICK s \in {"failed", "fetchRoot", "ready"}, n \in 0 .. Rounds :
          /\ Goto(d, s, index[d])
          /\ round' = [round EXCEPT ![d] = n]
          /\ s = "fetchRoot" => n < Rounds
    BY <2>1, FailMoves
  <2>3. s \in Stages /\ (s \in Enrolling => n < Rounds)
    BY <2>2, StageNames
  <2> QED
    BY <1>1, <2>1, <2>2, <2>3, TypeGoto
<1>4. CASE Receive(d)
  <2>1. PICK m \in Answers(d) :
          /\ Expected(d, m)
          /\ fetched' = IF stage[d] = "fetchPath"
                        THEN fetched \cup {<<d, index[d]>>} ELSE fetched
    BY <1>4 DEF Receive
  <2>2. fetched' \subseteq Devices \X EnrolledRange
    BY <1>1, <2>1 DEF Expected
  <2>3. Succeed(d) /\ UNCHANGED <<round, reboots, requests, replies>>
    BY <1>4 DEF Receive
  <2>4. PICK s \in {"enrollPath", "fetchRoot", "ready"}, q \in EnrolledRange :
          /\ Goto(d, s, q)
          /\ s \in {"enrollPath", "fetchRoot"} => stage[d] \in {"enrollRoot", "enrollPath"}
    BY <2>3, SuccessMoves
  <2>5. s \in Stages /\ (s \in Enrolling => round[d] < Rounds)
    BY <2>4, StageNames DEF TypeInv, RoundsLeft
  <2> QED
    BY <1>1, <2>2, <2>3, <2>4, <2>5, TypeGoto
<1>5. CASE StartFetch(d)
  <2>1. PICK q \in EnrolledRange : Goto(d, "fetchPath", q)
    BY <1>5 DEF StartFetch
  <2>2. UNCHANGED <<round, fetched, reboots, requests, replies>>
    BY <1>5 DEF StartFetch
  <2>3. "fetchPath" \in Stages /\ "fetchPath" \notin Enrolling
    BY StageNames
  <2> QED
    BY <1>1, <2>1, <2>2, <2>3, TypeGoto
<1>6. CASE Reboot(d)
  <2>1. /\ Goto(d, "enrollRoot", FirstQ) /\ round' = [round EXCEPT ![d] = 0]
        /\ reboots' \in Nat /\ UNCHANGED <<fetched, requests, replies>>
    BY <1>1, <1>6 DEF Reboot
  <2>2. "enrollRoot" \in Stages /\ 0 \in 0 .. Rounds /\ 0 < Rounds
    BY StageNames, EnrollmentAssumption
  <2> QED
    BY <1>1, <2>1, <2>2, RangeFacts, TypeGoto
<1> QED
  BY <1>2, <1>3, <1>4, <1>5, <1>6 DEF ClientStep

\* A step of the server keeps the types if its replies have theirs.
LEMMA TypeServer ==
    ASSUME TypeInv, LedgerTypeOK', UNCHANGED <<clientVars, requests>>,
           replies' \subseteq
             [op : {"ACK", "ROOT_RECORD", "PATH_RECORD", "NOT_FOUND"},
              to : Devices, q : {0} \cup EnrolledRange]
    PROVE  TypeInv'
BY DEF TypeInv, TypeOK, RoundsLeft, clientVars

LEMMA TypeStep ==
    ASSUME TypeInv, LedgerTypeOK', [Next]_vars
    PROVE  TypeInv'
<1> DEFINE R == [op : {"ACK", "ROOT_RECORD", "PATH_RECORD", "NOT_FOUND"},
                 to : Devices, q : {0} \cup EnrolledRange]
<1>1. /\ requests \subseteq [op : {"ENROLL", "GET"}, from : Devices, rec : Records]
      /\ replies \subseteq R /\ committed \in Records \cup {NoRecord}
  BY DEF TypeInv, TypeOK, LedgerTypeOK
<1>2. \A r \in Records : Ack(r) \in R
  BY RecordFacts DEF Ack, Reply
<1>3. ASSUME NEW req \in requests, ServeUnchanged(req) \/ ServeNew(req) \/ ServeGet(req)
      PROVE  TypeInv'
  <2>1. req.rec \in Records /\ req.from \in Devices
    BY <1>1
  <2>2. Lookup(req) \in R
    BY <2>1, RecordFacts DEF Lookup, Reply
  <2>3. replies' \subseteq R
    BY <1>1, <1>2, <1>3, <2>1, <2>2 DEF ServeUnchanged, ServeNew, ServeGet, Send
  <2> QED
    BY <1>3, <2>3, TypeServer DEF ServeUnchanged, ServeNew, ServeGet
<1>4. CASE FinishNew
  <2>1. committed \in Records /\ Send(Ack(committed)) /\ UNCHANGED <<clientVars, requests>>
    BY <1>1, <1>4 DEF FinishNew, LogCommitted
  <2>2. replies' \subseteq R
    BY <1>1, <1>2, <2>1 DEF Send
  <2> QED
    BY <2>1, <2>2, TypeServer
<1>5. CASE ServerFails
  BY <1>1, <1>5, TypeServer DEF ServerFails
<1>6. CASE UNCHANGED vars
  BY <1>1, <1>6, TypeServer DEF vars
<1> QED
  BY <1>3, <1>4, <1>5, <1>6, TypeClient DEF Next, ServerStep

LEMMA TypeAndLedgerStep ==
    TypeInv /\ LedgerInv /\ [Next]_vars => TypeInv' /\ LedgerInv'
<1>1. SUFFICES ASSUME TypeInv, LedgerInv, [Next]_vars PROVE TypeInv' /\ LedgerInv'
  OBVIOUS
<1>2. [LedgerNext]_ledgerVars
  BY <1>1, LedgerSide DEF TypeInv, TypeOK
<1>3. LedgerInv'
  BY <1>1, <1>2, LedgerInvStep
<1>4. LedgerTypeOK'
  BY <1>3 DEF LedgerInv
<1> QED
  BY <1>1, <1>3, <1>4, TypeStep

LEMMA TypeAndLedger == Spec => [](TypeInv /\ LedgerInv)
BY EnrollTypeInit, TypeAndLedgerStep, PTL DEF Spec

\* Every variable keeps to its type, however many indices, attempts, rounds, restarts
\* and server failures (begin, sendAndReceive, main).
THEOREM EnrollmentTypeCorrect == Spec => []TypeOK
<1>1. TypeInv => TypeOK
  BY DEF TypeInv
<1> QED
  BY <1>1, TypeAndLedger, PTL

\* With boards enrolling, polling, restarting and downloading around it, the server
\* still runs the ledger of GcsLedger: whatever that ledger promises holds here.
THEOREM EnrollmentImplementsLedger == Spec => LedgerSpec
<1>1. Init => LedgerInit
  BY DEF Init
<1>2. TypeInv /\ [Next]_vars => [LedgerNext]_ledgerVars
  BY LedgerSide DEF TypeInv, TypeOK
<1> QED
  BY <1>1, <1>2, TypeAndLedger, PTL DEF Spec, LedgerSpec

\* In the whole system too, the log tells of nothing that is not stored, its readable
\* neighbours are linked, and with the power on each kill hides one change at most.
THEOREM SystemKeepsLog ==
    Spec => [](LoggedIsStored /\ ReadableLinesLinked /\ OmissionsBounded)
BY EnrollmentImplementsLedger, LoggedIsStoredHolds, ReadableLinesLinkedHolds,
   OmissionsBoundedHolds, PTL

-----------------------------------------------------------------------------
(* What the ledger holds *)

\* The paths of d at the indices of Q, but for index 0: an ACK with q = 0 is the root's
\* or path 0's, and the client cannot tell them apart.
UploadedBut0(d, Q) == \A q \in Q \ {0} : Path(d, q) \in db

\* The root of d, and every path of it whose ACK is its own.
Enrolled(d) == Root(d) \in db /\ UploadedBut0(d, EnrolledRange)

\* A board enrols its own records, paths after its root, and asks for its peer's.
RequestsMeant ==
    \A r \in requests :
      /\ r.op = "ENROLL" => /\ r.rec.dev = r.from
                            /\ r.rec.kind = "path" => Root(r.from) \in db
      /\ r.op = "GET" => r.rec.dev = Peer(r.from)

\* No path is stored before its root.
PathsAfterRoot == \A d \in Devices, q \in EnrolledRange : Path(d, q) \in db => Root(d) \in db

\* Every reply, however old, tells of what is stored.
RepliesTrue ==
    \A m \in replies :
      /\ m.op = "ACK" => Root(m.to) \in db /\ (m.q # 0 => Path(m.to, m.q) \in db)
      /\ m.op = "ROOT_RECORD" => Root(Peer(m.to)) \in db
      /\ m.op = "PATH_RECORD" => Path(Peer(m.to), m.q) \in db

\* What d has behind it in its present life, at stage s and index q.
Behind(d, s, q) ==
    /\ s \notin {"enrollRoot", "failed"} => Root(d) \in db
    /\ s = "enrollPath" => UploadedBut0(d, FirstQ .. q - 1)
    /\ s \in {"fetchRoot", "ready", "fetchPath"} => UploadedBut0(d, EnrolledRange)
    /\ s \in {"ready", "fetchPath"} => Root(Peer(d)) \in db
    /\ s = "fetchPath" => Enrolled(Peer(d))

Progress == \A d \in Devices : Behind(d, stage[d], index[d])

\* Boards that came up once are enrolled, and so is their peer's root.
ReadyEnrolled == \A d \in everReady : Enrolled(d) /\ Root(Peer(d)) \in db

StoreInv == /\ TypeInv
            /\ CommittedStored
            /\ RequestsMeant
            /\ PathsAfterRoot
            /\ RepliesTrue
            /\ Progress
            /\ ReadyEnrolled

LEMMA StoreInit == Init => StoreInv
<1>1. SUFFICES ASSUME Init PROVE StoreInv
  OBVIOUS
<1>2. TypeInv
  BY <1>1, EnrollTypeInit
<1>3. CommittedStored /\ RequestsMeant /\ PathsAfterRoot /\ RepliesTrue /\ ReadyEnrolled
  BY <1>1 DEF Init, LedgerInit, CommittedStored, RequestsMeant, PathsAfterRoot, RepliesTrue,
              ReadyEnrolled
<1>4. Progress
  BY <1>1 DEF Init, Progress, Behind
<1> QED
  BY <1>2, <1>3, <1>4 DEF StoreInv

\* What a board has behind it stays there.
LEMMA BehindStays ==
    ASSUME db \subseteq db', NEW d, NEW s, NEW q, Behind(d, s, q)
    PROVE  Behind(d, s, q)'
BY DEF Behind, Enrolled, UploadedBut0

LEMMA EnrolledStays ==
    ASSUME db \subseteq db', NEW d, Enrolled(d)
    PROVE  Enrolled(d)'
BY DEF Enrolled, UploadedBut0

\* A board goes to another call that it has prepared.
LEMMA StoreGoto ==
    ASSUME StoreInv, TypeInv', NEW d \in Devices, NEW s \in Stages, NEW q \in EnrolledRange,
           Goto(d, s, q), UNCHANGED <<requests, replies, ledgerVars>>,
           Behind(d, s, q)
    PROVE  StoreInv'
<1>1. /\ stage \in [Devices -> Stages] /\ index \in [Devices -> EnrolledRange]
      /\ UNCHANGED <<db, committed>>
  BY DEF StoreInv, TypeInv, TypeOK, Stages, ledgerVars
<1>2. CommittedStored' /\ RequestsMeant' /\ PathsAfterRoot' /\ RepliesTrue'
  BY <1>1 DEF StoreInv, CommittedStored, RequestsMeant, PathsAfterRoot, RepliesTrue
<1>3. /\ stage'[d] = s /\ index'[d] = q
      /\ \A e \in Devices : e # d => stage'[e] = stage[e] /\ index'[e] = index[e]
  BY <1>1 DEF Goto
<1>4. \A e \in Devices : Behind(e, stage'[e], index'[e])
  BY <1>3 DEF StoreInv, Progress
<1>5. Progress'
  BY <1>1, <1>4 DEF Progress, Behind, Enrolled, UploadedBut0
<1>6. \A e \in everReady' : Enrolled(e) /\ Root(Peer(e)) \in db
  BY DEF Goto, StoreInv, ReadyEnrolled, Behind, Enrolled
<1>7. ReadyEnrolled'
  BY <1>1, <1>6 DEF ReadyEnrolled, Enrolled, UploadedBut0
<1> QED
  BY <1>2, <1>5, <1>7 DEF StoreInv

\* A call that succeeded leaves the board with what its next call needs: the reply that
\* was taken tells that the record of this call is stored.
LEMMA StoreReceive ==
    ASSUME StoreInv, TypeInv', NEW d \in Devices, Receive(d)
    PROVE  StoreInv'
<1>1. /\ UNCHANGED <<requests, replies, ledgerVars>> /\ Succeed(d)
      /\ index[d] \in EnrolledRange
  BY DEF Receive, StoreInv, TypeInv, TypeOK
<1>2. PICK m \in replies : m.to = d /\ Expected(d, m)
  BY DEF Receive, Answers
<1>3. /\ m.op = ExpectedOp[stage[d]]
      /\ stage[d] \in {"enrollPath", "fetchPath"} => m.q = index[d]
  BY <1>2 DEF Expected
<1>4. /\ stage[d] \in {"enrollRoot", "enrollPath"} => m.op = "ACK"
      /\ stage[d] = "fetchRoot" => m.op = "ROOT_RECORD"
  BY <1>3 DEF ExpectedOp
<1>5. /\ stage[d] \in {"enrollRoot", "enrollPath"} => Root(d) \in db
      /\ stage[d] = "enrollPath" /\ index[d] # 0 => Path(d, index[d]) \in db
      /\ stage[d] = "fetchRoot" => Root(Peer(d)) \in db
  BY <1>2, <1>3, <1>4 DEF StoreInv, RepliesTrue
<1>6. Behind(d, stage[d], index[d])
  BY DEF StoreInv, Progress
<1>7. PICK s \in {"enrollPath", "fetchRoot", "ready"}, q \in EnrolledRange :
        /\ Goto(d, s, q)
        /\ s = "enrollPath" =>
             \/ stage[d] = "enrollRoot" /\ q = FirstQ
             \/ stage[d] = "enrollPath" /\ q = index[d] + 1
        /\ s = "fetchRoot" => stage[d] = "enrollPath" /\ index[d] = LastQ
        /\ s = "ready" => stage[d] \in {"fetchRoot", "fetchPath"}
  BY <1>1, SuccessMoves DEF StoreInv
<1>8. ASSUME stage[d] = "enrollPath"
      PROVE  UploadedBut0(d, FirstQ .. index[d])
  <2>1. \A p \in FirstQ .. index[d] : p \in FirstQ .. index[d] - 1 \/ p = index[d]
    BY <1>1, RangeFacts
  <2> QED
    BY <1>5, <1>6, <1>8, <2>1 DEF Behind, UploadedBut0
<1>9. Behind(d, s, q)
  <2>1. CASE s = "enrollPath" /\ stage[d] = "enrollRoot"
    <3>1. FirstQ .. q - 1 = {}
      BY <1>7, <2>1, RangeFacts
    <3> QED
      BY <1>5, <2>1, <3>1 DEF Behind, UploadedBut0
  <2>2. CASE s = "enrollPath" /\ stage[d] = "enrollPath"
    <3>1. q - 1 = index[d]
      BY <1>1, <1>7, <2>2, RangeFacts
    <3> QED
      BY <1>5, <1>8, <2>2, <3>1 DEF Behind
  <2>3. CASE s = "fetchRoot"
    <3>1. FirstQ .. index[d] = EnrolledRange
      BY <1>7, <2>3 DEF EnrolledRange, LastQ
    <3> QED
      BY <1>5, <1>7, <1>8, <2>3, <3>1 DEF Behind
  <2>4. CASE s = "ready"
    BY <1>5, <1>6, <1>7, <2>4 DEF Behind
  <2> QED
    BY <1>7, <2>1, <2>2, <2>3, <2>4
<1> QED
  BY <1>1, <1>7, <1>9, StageNames, StoreGoto

LEMMA StoreClient ==
    ASSUME StoreInv, TypeInv', NEW d \in Devices,
           ClientStep(d) \/ StartFetch(d) \/ Reboot(d)
    PROVE  StoreInv'
<1>1. /\ index[d] \in EnrolledRange /\ Behind(d, stage[d], index[d])
      /\ stage[d] \in Stages
  BY DEF StoreInv, TypeInv, TypeOK, Progress, Stages
<1>2. CASE Transmit(d)
  <2>1. /\ requests' = requests \cup {Current(d)} /\ stage[d] \in Calling
        /\ UNCHANGED <<stage, index, everReady, replies, db, committed>>
    BY <1>2 DEF Transmit, ledgerVars
  <2> DEFINE c == Current(d)
  <2>2. /\ c.op = "ENROLL" => /\ c.rec.dev = c.from
                              /\ c.rec.kind = "path" => Root(c.from) \in db
        /\ c.op = "GET" => c.rec.dev = Peer(c.from)
    <3>1. CASE stage[d] = "enrollRoot"
      BY <3>1, PathFields DEF Current, Request
    <3>2. CASE stage[d] = "enrollPath"
      BY <1>1, <3>2, PathFields DEF Current, Request, Behind
    <3>3. CASE stage[d] = "fetchRoot"
      BY <3>3, PathFields DEF Current, Request
    <3>4. CASE stage[d] = "fetchPath"
      BY <3>4, PathFields DEF Current, Request
    <3> QED
      BY <2>1, <3>1, <3>2, <3>3, <3>4, StageNames
  <2> HIDE DEF c
  <2>3. requests' = requests \cup {c}
    BY <2>1 DEF c
  <2>4. RequestsMeant'
    BY <2>1, <2>2, <2>3 DEF StoreInv, RequestsMeant
  <2>5. CommittedStored' /\ PathsAfterRoot' /\ RepliesTrue'
    BY <2>1 DEF StoreInv, CommittedStored, PathsAfterRoot, RepliesTrue
  <2>6. Progress' /\ ReadyEnrolled'
    BY <2>1 DEF StoreInv, Progress, ReadyEnrolled, Behind, Enrolled, UploadedBut0
  <2> QED
    BY <2>4, <2>5, <2>6 DEF StoreInv
<1>3. CASE GiveUp(d) \/ ReceiveNotFound(d)
  <2>1. stage[d] \in Calling /\ Fail(d) /\ UNCHANGED <<requests, replies, ledgerVars>>
    BY <1>3 DEF GiveUp, ReceiveNotFound
  <2>2. PICK s \in {"failed", "fetchRoot", "ready"} :
          /\ Goto(d, s, index[d])
          /\ s = "fetchRoot" => stage[d] = "fetchRoot"
          /\ s = "ready" => stage[d] = "fetchPath"
    BY <2>1, FailMoves DEF StoreInv
  <2>3. Behind(d, s, index[d])
    BY <1>1, <2>2 DEF Behind
  <2> QED
    BY <1>1, <2>1, <2>2, <2>3, StageNames, StoreGoto
<1>4. CASE Receive(d)
  BY <1>4, StoreReceive
<1>5. CASE StartFetch(d)
  <2>1. PICK q \in EnrolledRange : Goto(d, "fetchPath", q)
    BY <1>5 DEF StartFetch
  <2>2. /\ stage[d] = "ready" /\ Peer(d) \in everReady
        /\ UNCHANGED <<requests, replies, ledgerVars>>
    BY <1>5 DEF StartFetch
  <2>3. Enrolled(Peer(d))
    BY <2>2 DEF StoreInv, ReadyEnrolled
  <2>4. Behind(d, "fetchPath", q)
    BY <1>1, <2>2, <2>3 DEF Behind
  <2> QED
    BY <2>1, <2>2, <2>4, StageNames, StoreGoto
<1>6. CASE Reboot(d)
  <2>1. Goto(d, "enrollRoot", FirstQ) /\ UNCHANGED <<requests, replies, ledgerVars>>
    BY <1>6 DEF Reboot
  <2>2. Behind(d, "enrollRoot", FirstQ)
    BY DEF Behind
  <2> QED
    BY <2>1, <2>2, StageNames, RangeFacts, StoreGoto
<1> QED
  BY <1>2, <1>3, <1>4, <1>5, <1>6 DEF ClientStep

\* A reply that tells of what is stored.
ReplyTrue(m) ==
    /\ m.op = "ACK" => Root(m.to) \in db /\ (m.q # 0 => Path(m.to, m.q) \in db)
    /\ m.op = "ROOT_RECORD" => Root(Peer(m.to)) \in db
    /\ m.op = "PATH_RECORD" => Path(Peer(m.to), m.q) \in db

\* The server replies truly or not at all, and gives no record up.
LEMMA StoreServer ==
    ASSUME StoreInv, TypeInv', db \subseteq db', UNCHANGED <<clientVars, requests>>,
           CommittedStored', PathsAfterRoot',
           \A m \in replies' : m \in replies \/ ReplyTrue(m)
    PROVE  StoreInv'
<1>1. UNCHANGED <<stage, index, everReady>>
  BY DEF clientVars
<1>2. RequestsMeant'
  BY DEF StoreInv, RequestsMeant
<1>3. RepliesTrue'
  BY DEF StoreInv, RepliesTrue, ReplyTrue
<1>4. ASSUME NEW d \in Devices PROVE Behind(d, stage[d], index[d])'
  BY <1>1 DEF StoreInv, Progress, Behind, Enrolled, UploadedBut0
<1>5. Progress'
  BY <1>4 DEF Progress
<1>6. ReadyEnrolled'
  BY <1>1 DEF StoreInv, ReadyEnrolled, Enrolled, UploadedBut0
<1> QED
  BY <1>2, <1>3, <1>5, <1>6 DEF StoreInv

\* The ACK of a stored record is true.
LEMMA AckTrue ==
    ASSUME StoreInv, NEW r \in Records, r \in db
    PROVE  ReplyTrue(Ack(r))
<1>1. Ack(r).op = "ACK" /\ Ack(r).to = r.dev /\ Ack(r).q = r.q
  BY DEF Ack, Reply
<1>2. CASE r = Root(r.dev) /\ r.q = 0
  BY <1>1, <1>2 DEF ReplyTrue
<1>3. CASE r = Path(r.dev, r.q) /\ r.q \in EnrolledRange
  BY <1>1, <1>3, RecordFacts DEF ReplyTrue, StoreInv, PathsAfterRoot
<1> QED
  BY <1>2, <1>3, RecordFacts

\* What is looked up for a request is true.
LEMMA LookupTrue ==
    ASSUME StoreInv, NEW req \in requests, req.op = "GET"
    PROVE  ReplyTrue(Lookup(req))
<1>1. /\ req.rec \in Records /\ req.from \in Devices /\ req.rec.dev = Peer(req.from)
  BY DEF StoreInv, TypeInv, TypeOK, RequestsMeant
<1>2. CASE req.rec \notin db
  BY <1>2 DEF Lookup, Reply, ReplyTrue
<1>3. CASE req.rec \in db /\ req.rec.kind = "root"
  BY <1>1, <1>3, RecordFacts DEF Lookup, Reply, ReplyTrue
<1>4. CASE req.rec \in db /\ req.rec.kind # "root"
  BY <1>1, <1>4, RecordFacts DEF Lookup, Reply, ReplyTrue
<1> QED
  BY <1>2, <1>3, <1>4

LEMMA StoreStep == StoreInv /\ LedgerInv' /\ TypeInv' /\ [Next]_vars => StoreInv'
<1>1. SUFFICES ASSUME StoreInv, LedgerInv', TypeInv', [Next]_vars PROVE StoreInv'
  OBVIOUS
<1>2. /\ requests \subseteq [op : {"ENROLL", "GET"}, from : Devices, rec : Records]
      /\ db \subseteq Records /\ committed \in Records \cup {NoRecord}
      /\ CommittedStored'
  BY <1>1 DEF StoreInv, TypeInv, TypeOK, LedgerTypeOK, LedgerInv
<1>3. db \subseteq db'
  BY <1>1, <1>2, LedgerSide, StoredStays
<1>4. db' = db => PathsAfterRoot'
  BY <1>1 DEF StoreInv, PathsAfterRoot
<1>5. ASSUME NEW req \in requests, ServeUnchanged(req)
      PROVE  StoreInv'
  <2>1. /\ req.rec \in db /\ replies' = replies \cup {Ack(req.rec)} /\ db' = db
        /\ UNCHANGED <<clientVars, requests>>
    BY <1>5 DEF ServeUnchanged, UnchangedRecord, ledgerVars, Send
  <2>2. ReplyTrue(Ack(req.rec))
    BY <1>1, <1>2, <2>1, AckTrue
  <2> QED
    BY <1>1, <1>2, <1>3, <1>4, <2>1, <2>2, StoreServer
<1>6. ASSUME NEW req \in requests, ServeNew(req)
      PROVE  StoreInv'
  <2>1. /\ req.op = "ENROLL" /\ req.rec \in Records /\ db' = db \cup {req.rec}
        /\ UNCHANGED <<clientVars, requests, replies>>
    BY <1>2, <1>6 DEF ServeNew, Commit
  <2>2. req.rec.dev = req.from /\ (req.rec.kind = "path" => Root(req.from) \in db)
    BY <1>1, <2>1 DEF StoreInv, RequestsMeant
  <2>3. ASSUME NEW d \in Devices, NEW q \in EnrolledRange, Path(d, q) \in db'
        PROVE  Root(d) \in db'
    <3>1. CASE Path(d, q) \in db
      BY <1>1, <2>1, <3>1 DEF StoreInv, PathsAfterRoot
    <3>2. CASE Path(d, q) = req.rec
      BY <2>1, <2>2, <3>2, PathFields
    <3> QED
      BY <2>1, <2>3, <3>1, <3>2
  <2>4. PathsAfterRoot'
    BY <2>3 DEF PathsAfterRoot
  <2> QED
    BY <1>1, <1>2, <1>3, <2>1, <2>4, StoreServer
<1>7. ASSUME NEW req \in requests, ServeGet(req)
      PROVE  StoreInv'
  <2>1. /\ req.op = "GET" /\ replies' = replies \cup {Lookup(req)} /\ db' = db
        /\ UNCHANGED <<clientVars, requests>>
    BY <1>7 DEF ServeGet, ledgerVars, Send
  <2> QED
    BY <1>1, <1>2, <1>3, <1>4, <2>1, LookupTrue, StoreServer
<1>8. CASE FinishNew
  <2>1. /\ committed \in db /\ replies' = replies \cup {Ack(committed)} /\ db' = db
        /\ UNCHANGED <<clientVars, requests>>
    BY <1>1, <1>8 DEF FinishNew, LogCommitted, Send, StoreInv, CommittedStored
  <2>2. ReplyTrue(Ack(committed))
    BY <1>1, <1>2, <2>1, AckTrue
  <2> QED
    BY <1>1, <1>2, <1>3, <1>4, <2>1, <2>2, StoreServer
<1>9. CASE ServerFails
  <2>1. db' = db /\ UNCHANGED <<clientVars, requests, replies>>
    BY <1>9 DEF ServerFails, Kill, PowerLoss
  <2> QED
    BY <1>1, <1>2, <1>3, <1>4, <2>1, StoreServer
<1>10. CASE UNCHANGED vars
  <2>1. db' = db /\ UNCHANGED <<clientVars, requests, replies>>
    BY <1>10 DEF vars, ledgerVars
  <2> QED
    BY <1>1, <1>2, <1>3, <1>4, <2>1, StoreServer
<1> QED
  BY <1>1, <1>5, <1>6, <1>7, <1>8, <1>9, <1>10, StoreClient DEF Next, ServerStep

LEMMA StoreInvariance == Spec => []StoreInv
BY StoreInit, StoreStep, TypeAndLedger, PTL DEF Spec

-----------------------------------------------------------------------------
(* Theorems *)

\* begin() succeeds only when both roots are in the ledger, whichever index range is
\* configured and whatever is lost, repeated, late or restarted.
THEOREM ReadyMeansBothRootsHolds == Spec => []ReadyMeansBothRoots
<1>1. StoreInv => ReadyMeansBothRoots
  BY DEF StoreInv, ReadyEnrolled, Enrolled, ReadyMeansBothRoots
<1> QED
  BY <1>1, StoreInvariance, PTL

\* For every configuration, also from index 0 on, an upload of a path other than that of
\* index 0 is never taken for done by the ACK of something else (sendAndReceive).
THEOREM EnrolledBut0IsStoredHolds == Spec => []EnrolledBut0IsStored
<1>1. StoreInv => EnrolledBut0IsStored
  BY DEF StoreInv, Progress, Behind, UploadedBut0, EnrolledBut0IsStored
<1> QED
  BY <1>1, StoreInvariance, PTL

\* With indices from 1 on every path is stored once enrollOwnPaths has returned true; the
\* run enrollment_q0 shows that the hypothesis is needed.
THEOREM EnrolledIsStoredHolds ==
    ASSUME FirstQ # 0
    PROVE  Spec => []EnrolledIsStored
<1>1. 0 \notin EnrolledRange
  BY RangeFacts, EnrollmentAssumption
<1>2. StoreInv => EnrolledIsStored
  BY <1>1 DEF StoreInv, Progress, Behind, UploadedBut0, EnrolledIsStored, PathsStored
<1> QED
  BY <1>2, StoreInvariance, PTL

\* With indices from 1 on a handshake asks only for paths that the ledger holds.
THEOREM FetchedPathExistsHolds ==
    ASSUME FirstQ # 0
    PROVE  Spec => []FetchedPathExists
<1>1. 0 \notin EnrolledRange
  BY RangeFacts, EnrollmentAssumption
<1>2. StoreInv => FetchedPathExists
  BY <1>1 DEF StoreInv, TypeInv, TypeOK, Progress, Behind, Enrolled, UploadedBut0,
              FetchedPathExists
<1> QED
  BY <1>2, StoreInvariance, PTL

\* For every configuration a handshake that has got a path has one that the ledger
\* holds for the index it asked for, although ACKs, roots and other paths still arrive
\* from earlier calls and its own may never have been stored (sendAndReceive).
THEOREM FetchedIsStoredHolds == Spec => []FetchedIsStored
<1>1. Init => FetchedIsStored
  BY DEF Init, FetchedIsStored
<1>2. StoreInv /\ FetchedIsStored /\ [Next]_vars => FetchedIsStored'
  <2>1. SUFFICES ASSUME StoreInv, FetchedIsStored, [Next]_vars PROVE FetchedIsStored'
    OBVIOUS
  <2>2. db \subseteq db'
    BY <2>1, LedgerSide, StoredStays DEF StoreInv, TypeInv, TypeOK
  <2>3. ASSUME NEW d \in Devices, Receive(d) PROVE FetchedIsStored'
    <3>1. PICK m \in Answers(d) :
            /\ Expected(d, m)
            /\ fetched' = IF stage[d] = "fetchPath"
                          THEN fetched \cup {<<d, index[d]>>} ELSE fetched
      BY <2>3 DEF Receive
    <3>2. ASSUME stage[d] = "fetchPath" PROVE Path(Peer(d), index[d]) \in db
      <4>1. m \in replies /\ m.to = d /\ m.op = "PATH_RECORD" /\ m.q = index[d]
        BY <3>1, <3>2 DEF Answers, Expected, ExpectedOp
      <4> QED
        BY <2>1, <4>1 DEF StoreInv, RepliesTrue
    <3> QED
      BY <2>1, <2>2, <3>1, <3>2 DEF FetchedIsStored
  <2>4. ASSUME fetched' = fetched PROVE FetchedIsStored'
    BY <2>1, <2>2, <2>4 DEF FetchedIsStored
  <2>5. ASSUME NEW d \in Devices,
               Transmit(d) \/ GiveUp(d) \/ ReceiveNotFound(d) \/ StartFetch(d) \/ Reboot(d)
        PROVE  fetched' = fetched
    BY <2>5 DEF Transmit, GiveUp, ReceiveNotFound, StartFetch, Reboot
  <2>6. ASSUME ServerStep \/ ServerFails \/ UNCHANGED vars PROVE fetched' = fetched
    BY <2>6 DEF ServerStep, ServeUnchanged, ServeNew, ServeGet, FinishNew, ServerFails,
                vars, clientVars
  <2> QED
    BY <2>1, <2>3, <2>4, <2>5, <2>6 DEF Next, ClientStep
<1> QED
  BY <1>1, <1>2, StoreInvariance, PTL DEF Spec
=============================================================================
